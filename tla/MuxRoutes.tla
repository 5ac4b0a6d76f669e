------------------------------ MODULE MuxRoutes ------------------------------
(***************************************************************************)
(* The multiplexer's request table: internal/mux/mux.go.  The desktop      *)
(* sends requests down one connection; each is forwarded to the child      *)
(* process of one account and its route is kept until an answer, a         *)
(* timeout or the shutdown consumes it.  A turn whose account reports a    *)
(* usage limit is moved, with its conversation, to another account.        *)
(*                                                                         *)
(*   idle -> [choose | lock -> check | relock] -> [pick -> move -> own]    *)
(*        -> forward -> found -> sending -> sent -> done                   *)
(*                                                                         *)
(* The client never reuses the ID of a pending request, so a request       *)
(* stands for its ID.  Which account a choice prefers is left open, and a  *)
(* timeout may fire at any moment after its route was registered.          *)
(*                                                                         *)
(* A thread/list (thread_list.go) asks every account and writes the owners *)
(* it concludes from the answers, holding no thread.                       *)
(***************************************************************************)
EXTENDS Naturals, Sequences, FiniteSets, SequencesExt

CONSTANTS
  Account,
  Controller,  \* the primary account, which answers what has no owner
  Request,
  Start,       \* thread/start requests; each creates the thread it names
  Turn,        \* turn/start requests; the others are thread/resume
  Thread,
  ThreadOf,    \* the thread of each request
  Owners,      \* the accounts that may own the threads there are already
  Copies,      \* the accounts that may hold a copy of them
  List,        \* thread/list requests
  Partial,     \* whether an account's listing may be missing or out of date
  Spending,    \* the values of requestSpending explored
  Stops,       \* bound: whether the router is shut down in this model
  Flaky,       \* bound: the accounts whose child may crash or hang
  MaxCrashes,  \* bound on the children that crash or hang
  None

ASSUME RoutesAssumption ==
  /\ Controller \in Account
  /\ Start \subseteq Request /\ Turn \subseteq Request \ Start
  /\ ThreadOf \in [Request -> Thread]
  /\ Owners \subseteq Account /\ Copies \subseteq Account
  /\ Partial \in BOOLEAN
  /\ Spending \subseteq BOOLEAN /\ Stops \in BOOLEAN
  /\ Flaky \subseteq Account /\ MaxCrashes \in Nat
  /\ None \notin Account \cup Request

VARIABLES
  spending,  \* requestSpending: inference is billed apart from history
  shutdown,  \* how far the shutdown has come
  loops,     \* the loops of the running context still turning
  listed,    \* accounts with an entry in children
  up,        \* accounts whose child process runs
  hung,      \* accounts whose child may read its pipe no more
  crashes,   \* crashes and hangs so far, bounded by MaxCrashes
  owner,     \* Store.threadOwners
  lock,      \* threadLocks: who holds the lock of a thread
  pc,        \* where the goroutine of each request is
  target,    \* the account it forwards to
  source,    \* the account a moved thread is read from
  excluded,  \* accounts this request must not be sent to again
  stale,     \* requests holding a child that has exited since
  route,     \* externalRoutes
  work,      \* requests a child has read and not answered
  inbound,   \* messages the children have written
  answers,   \* history: what the client was answered, in order
  lpc,       \* where each thread/list is
  chosen,    \* the owners each thread/list has concluded
  tried,     \* history: the accounts each request was sent to
  history    \* history: accounts that started or resumed each thread

runVars    == <<spending, shutdown, loops>>
childVars  == <<listed, up, hung, crashes>>
threadVars == <<owner, lock, history>>
handlerVars == <<pc, target, source, excluded, stale>>
tableVars  == <<route, work, inbound, answers, tried>>
listVars   == <<lpc, chosen>>
vars == <<runVars, listVars, childVars, threadVars, handlerVars, tableVars>>

Stages == {"running", "signalled", "eof", "closing", "expired", "closed"}

Places == {"idle", "choose", "lock", "check", "relock", "pick", "move", "own",
           "forward", "found", "sending", "sent", "done"}

Answers == {"response", "expired", "failed", "depleted"}

Messages == [req : Request, account : Account, kind : {"ok", "limit", "started"}]

NewThreads == {ThreadOf[r] : r \in Start}

TypeOK ==
  /\ spending \in Spending
  /\ shutdown \in Stages /\ loops \subseteq {"inbound", "expiry"}
  /\ listed \subseteq Account /\ up \subseteq Account /\ hung \subseteq Account
  /\ crashes \in 0..MaxCrashes
  /\ owner \in [Thread -> Account \cup {None}]
  /\ lock \in [Thread -> Request \cup {None}]
  /\ history \in [Thread -> SUBSET Account]
  /\ pc \in [Request -> Places]
  /\ target \in [Request -> Account \cup {None}]
  /\ source \in [Request -> Account \cup {None}]
  /\ excluded \in [Request -> SUBSET Account]
  /\ stale \subseteq Request
  /\ route \in [Request -> Account \cup {None}]
  /\ work \subseteq Request \X Account
  /\ inbound \subseteq Messages
  /\ answers \in [Request -> BoundedSeq(Answers, 2)]
  /\ tried \in [Request -> Seq(Account)]
  /\ lpc \in [List -> {"idle", "merged", "done"}]
  /\ chosen \in [List -> [Thread -> Account \cup {None}]]

\* The threads of Start requests do not exist yet; any other thread has an
\* owner, which has its history; other accounts may have a copy of it.
Init ==
  /\ spending \in Spending
  /\ shutdown = "running" /\ loops = {"inbound", "expiry"}
  /\ listed = Account /\ up = Account /\ hung = {} /\ crashes = 0
  /\ owner \in [Thread -> Owners \cup {None}]
  /\ \A t \in Thread : owner[t] = None <=> t \in NewThreads
  /\ history \in [Thread -> SUBSET Account]
  /\ \A t \in Thread :
       /\ {owner[t]} \ {None} \subseteq history[t]
       /\ history[t] \subseteq {owner[t]} \cup Copies
       /\ t \in NewThreads => history[t] = {}
  /\ lock = [t \in Thread |-> None]
  /\ pc = [r \in Request |-> "idle"]
  /\ target = [r \in Request |-> None]
  /\ source = [r \in Request |-> None]
  /\ excluded = [r \in Request |-> {}]
  /\ stale = {}
  /\ route = [r \in Request |-> None]
  /\ work = {} /\ inbound = {}
  /\ answers = [r \in Request |-> <<>>]
  /\ tried = [r \in Request |-> <<>>]
  /\ lpc = [l \in List |-> "idle"]
  /\ chosen = [l \in List |-> [t \in Thread |-> None]]

-----------------------------------------------------------------------------
(* A request on its way to a child                                         *)

Goto(r, from, to) ==
  /\ pc[r] = from
  /\ pc' = [pc EXCEPT ![r] = to]

Answer(r, what) == answers' = [answers EXCEPT ![r] = Append(@, what)]

Unlock(r) == lock' = [t \in Thread |-> IF lock[t] = r THEN None ELSE lock[t]]

\* Fault: a goroutine that gives up keeps the thread locked.
GiveUpHolding(r, from, what) ==
  /\ Goto(r, from, "done")
  /\ Answer(r, what)
  /\ UNCHANGED <<runVars, listVars, childVars, threadVars, target, source,
                 excluded, stale, work, inbound, tried>>

\* The goroutine writes a failure and returns, releasing its thread.
GiveUp(r, from, what) ==
  /\ Goto(r, from, "done")
  /\ Answer(r, what)
  /\ Unlock(r)
  /\ UNCHANGED <<runVars, listVars, childVars, owner, history, target, source,
                 excluded, stale, work, inbound, tried>>

OwnerOrController(t) == IF owner[t] = None THEN Controller ELSE owner[t]

\* HandleClient.  A request that is neither a thread/start nor a turn is
\* forwarded by the reader itself, which takes nothing else meanwhile.
ReaderIsFree ==
  \A r \in Request \ (Start \cup Turn) : pc[r] \notin {"forward", "found", "sending"}

\* A turn names a thread the client was told of by a response, a notification
\* or a list, all of which record the owner first.
Receive(r) ==
  /\ shutdown \in {"running", "signalled"}
  /\ ReaderIsFree
  /\ r \in Turn => owner[ThreadOf[r]] # None
  /\ Goto(r, "idle", CASE r \in Start -> "choose"
                       [] r \in Turn /\ ~spending -> "lock"
                       [] OTHER -> "forward")
  /\ target' = [target EXCEPT ![r] =
                  IF r \in Start THEN None ELSE OwnerOrController(ThreadOf[r])]
  /\ UNCHANGED <<runVars, listVars, childVars, threadVars, source, excluded,
                 stale, tableVars>>

\* Fault: the accounts already tried are offered again.
EligibleAgain(r) == listed \cap up

\* Accounts chooseAccountExcluding may return: connected and not excluded.
Eligible(r) == (listed \cap up) \ excluded[r]

\* routeNewThreadExcluding picks the account of a new thread.
Choose(r) ==
  /\ Goto(r, "choose", "forward")
  /\ \E a \in IF spending THEN {Controller} ELSE Eligible(r) :
       target' = [target EXCEPT ![r] = a]
  /\ UNCHANGED <<runVars, listVars, childVars, threadVars, source, excluded,
                 stale, tableVars>>

\* No eligible account has capacity.
ChooseNone(r) == ~spending /\ GiveUp(r, "choose", "depleted") /\ UNCHANGED route

\* routeTurnStart holds the thread and reads its owner again.
TakeThread(r) ==
  /\ lock[ThreadOf[r]] = None
  /\ Goto(r, "lock", "check")
  /\ lock' = [lock EXCEPT ![ThreadOf[r]] = r]
  /\ target' = [target EXCEPT ![r] =
                  IF owner[ThreadOf[r]] = None THEN @ ELSE owner[ThreadOf[r]]]
  /\ UNCHANGED <<runVars, listVars, childVars, owner, history, source,
                 excluded, stale, tableVars>>

\* The owner has capacity, or could not be asked.
KeepOwner(r) ==
  /\ Goto(r, "check", "forward")
  /\ UNCHANGED <<runVars, listVars, childVars, threadVars, target, source,
                 excluded, stale, tableVars>>

\* Fault: the turn leaves and its thread stays.
LeaveOwnerAlone(r) ==
  /\ Goto(r, "check", "forward")
  /\ \E a \in Eligible(r) : target' = [target EXCEPT ![r] = a]
  /\ UNCHANGED <<runVars, listVars, childVars, threadVars, source, excluded,
                 stale, tableVars>>

\* The owner is depleted: the thread must move.
LeaveOwner(r) ==
  /\ Goto(r, "check", "pick")
  /\ source' = [source EXCEPT ![r] = target[r]]
  /\ excluded' = [excluded EXCEPT ![r] = {target[r]}]
  /\ UNCHANGED <<runVars, listVars, childVars, threadVars, target, stale,
                 tableVars>>

\* Fault: the retry does not hold the thread.
RetakeThreadUnlocked(r) ==
  /\ Goto(r, "relock", "pick")
  /\ UNCHANGED <<runVars, listVars, childVars, threadVars, target, source,
                 excluded, stale, tableVars>>

\* retryTurnAfterUsageLimit holds the thread; it does not read the owner.
RetakeThread(r) ==
  /\ lock[ThreadOf[r]] = None
  /\ Goto(r, "relock", "pick")
  /\ lock' = [lock EXCEPT ![ThreadOf[r]] = r]
  /\ UNCHANGED <<runVars, listVars, childVars, owner, history, target, source,
                 excluded, stale, tableVars>>

\* failoverTurn chooses the fallback account.
PickFallback(r) ==
  /\ Goto(r, "pick", "move")
  /\ \E a \in Eligible(r) : target' = [target EXCEPT ![r] = a]
  /\ UNCHANGED <<runVars, listVars, childVars, threadVars, source, excluded,
                 stale, tableVars>>

NoFallback(r) == GiveUp(r, "pick", "depleted") /\ UNCHANGED route

\* Fault: the answer of the target to thread/resume is not looked at.
ResumeUnchecked(r) ==
  /\ Goto(r, "move", "own")
  /\ UNCHANGED <<runVars, listVars, childVars, threadVars, target, source,
                 excluded, stale, tableVars>>

\* resumeThreadOnAccount: read on the source, resumed on the target.
Resume(r) ==
  /\ Goto(r, "move", "own")
  /\ {source[r], target[r]} \subseteq listed \cap up
  /\ history' = [history EXCEPT ![ThreadOf[r]] = @ \cup {target[r]}]
  /\ UNCHANGED <<runVars, listVars, childVars, owner, lock, target, source,
                 excluded, stale, tableVars>>

ResumeFails(r) == GiveUp(r, "move", "failed") /\ UNCHANGED route

\* The store commits the new owner, or fails to.
Own(r) ==
  /\ Goto(r, "own", "forward")
  /\ owner' = [owner EXCEPT ![ThreadOf[r]] = target[r]]
  /\ UNCHANGED <<runVars, listVars, childVars, lock, history, target, source,
                 excluded, stale, tableVars>>

OwnFails(r) == GiveUp(r, "own", "failed") /\ UNCHANGED route

ShuttingDown == shutdown \in {"closing", "expired", "closed"}

\* forwardRoute looks at closing and takes the child of the account.
FindChild(r) ==
  /\ Goto(r, "forward", "found")
  /\ ~ShuttingDown
  /\ target[r] \in listed
  /\ stale' = IF target[r] \in up THEN stale \ {r} ELSE stale \cup {r}
  /\ UNCHANGED <<runVars, listVars, childVars, threadVars, target, source,
                 excluded, tableVars>>

\* It registers the route; the message is still to be written.
Register(r) ==
  /\ Goto(r, "found", "sending")
  /\ route' = [route EXCEPT ![r] = target[r]]
  /\ UNCHANGED <<runVars, listVars, childVars, threadVars, target, source,
                 excluded, stale, work, inbound, answers, tried>>

CannotForward(r) ==
  /\ ShuttingDown \/ target[r] \notin listed
  /\ GiveUp(r, "forward", "failed")
  /\ UNCHANGED route

\* Send returns, even if its route expired meanwhile; the goroutine is done
\* with the request.
Send(r) ==
  /\ r \notin stale
  /\ Goto(r, "sending", IF route[r] = None THEN "done" ELSE "sent")
  /\ work' = work \cup {<<r, target[r]>>}
  /\ tried' = [tried EXCEPT ![r] = Append(@, target[r])]
  /\ Unlock(r)
  /\ UNCHANGED <<runVars, listVars, childVars, owner, history, target, source,
                 excluded, stale, route, inbound, answers>>

\* Fault: the route of a message that was not sent stays in the table.
SendFailsKeepingRoute(r) ==
  r \in stale /\ GiveUp(r, "sending", "failed") /\ UNCHANGED route

\* Send fails: the route is dropped and the caller answers.
SendFails(r) ==
  /\ r \in stale
  /\ GiveUp(r, "sending", "failed")
  /\ route' = [route EXCEPT ![r] = None]

-----------------------------------------------------------------------------
(* Answers                                                                 *)

\* The child of a answers r; a new thread is also announced.
ChildAnswers(r, a) ==
  /\ <<r, a>> \in work /\ a \in up
  /\ work' = work \ {<<r, a>>}
  /\ \/ /\ inbound' = inbound \cup {[req |-> r, account |-> a, kind |-> "ok"]}
                              \cup {[req |-> q, account |-> a, kind |-> "started"] :
                                     q \in {r} \cap Start}
        /\ history' = IF r \in Turn THEN history
                      ELSE [history EXCEPT ![ThreadOf[r]] = @ \cup {a}]
     \/ /\ inbound' = inbound \cup {[req |-> r, account |-> a, kind |-> "limit"]}
        /\ UNCHANGED history
  /\ UNCHANGED <<runVars, listVars, childVars, owner, lock, handlerVars, route,
                 answers, tried>>

\* Fault: a limit moves the request to another account in spending mode too.
RetriesAlways(m) == m.kind = "limit" /\ m.req \in Start \cup Turn

Retries(m) == ~spending /\ m.kind = "limit" /\ m.req \in Start \cup Turn

\* The retry goroutine takes over, with the exhausted account excluded.
Retry(r, a) ==
  /\ pc' = [pc EXCEPT ![r] = IF r \in Start THEN "choose" ELSE "relock"]
  /\ source' = [source EXCEPT ![r] = a]
  /\ excluded' = [excluded EXCEPT ![r] = @ \cup {a}]
  /\ UNCHANGED <<owner, answers>>

\* The response is written to the client, its thread's owner learned.
Deliver(r, a, kind) ==
  /\ pc' = [pc EXCEPT ![r] = "done"]
  /\ Answer(r, "response")
  /\ owner' = IF r \notin Turn /\ kind = "ok"
              THEN [owner EXCEPT ![ThreadOf[r]] = a] ELSE owner
  /\ UNCHANGED <<source, excluded>>

Awaited(m) == m.kind # "started" /\ route[m.req] = m.account

\* handleInbound for a response: it consumes its route, or is dropped.
HandleResponse(m) ==
  /\ "inbound" \in loops /\ m \in inbound /\ m.kind # "started"
  /\ inbound' = inbound \ {m}
  /\ IF Awaited(m)
     THEN /\ route' = [route EXCEPT ![m.req] = None]
          /\ IF Retries(m) THEN Retry(m.req, m.account)
                           ELSE Deliver(m.req, m.account, m.kind)
     ELSE UNCHANGED <<route, pc, source, excluded, owner, answers>>
  /\ UNCHANGED <<runVars, listVars, childVars, lock, history, target, stale,
                 work, tried>>

\* handleInbound for thread/started: whoever announces a thread owns it.
HandleStarted(m) ==
  /\ "inbound" \in loops /\ m \in inbound /\ m.kind = "started"
  /\ inbound' = inbound \ {m}
  /\ owner' = [owner EXCEPT ![ThreadOf[m.req]] = m.account]
  /\ UNCHANGED <<runVars, listVars, childVars, lock, history, handlerVars,
                 route, work, answers, tried>>

\* Fault: an expired route is answered and left in the table.
ExpireKeepingRoute(r) ==
  /\ "expiry" \in loops /\ route[r] # None
  /\ Answer(r, "expired")
  /\ pc' = [pc EXCEPT ![r] = IF @ = "sent" THEN "done" ELSE @]
  /\ UNCHANGED <<runVars, listVars, childVars, threadVars, target, source,
                 excluded, stale, route, work, inbound, tried>>

\* expireRoutes: the request timed out, whether or not Send has returned.
Expire(r) ==
  /\ "expiry" \in loops /\ route[r] # None
  /\ route' = [route EXCEPT ![r] = None]
  /\ Answer(r, "expired")
  /\ pc' = [pc EXCEPT ![r] = IF @ = "sent" THEN "done" ELSE @]
  /\ UNCHANGED <<runVars, listVars, childVars, threadVars, target, source,
                 excluded, stale, work, inbound, tried>>

-----------------------------------------------------------------------------
(* thread/list                                                             *)

\* What a merge of the listings may take for the owner of t: the recorded one
\* if its account lists t, else any account that does.
MergedOwner(t) ==
  IF ~Partial /\ owner[t] \in history[t] THEN {owner[t]} ELSE history[t] \cup {None}

\* mergeThreadsDeterministically, once the accounts have answered.
MergeList(l) ==
  /\ lpc[l] = "idle"
  /\ lpc' = [lpc EXCEPT ![l] = "merged"]
  /\ \E found \in [Thread -> Account \cup {None}] :
       /\ \A t \in Thread : found[t] \in MergedOwner(t)
       /\ chosen' = [chosen EXCEPT ![l] = found]
  /\ UNCHANGED <<runVars, childVars, threadVars, handlerVars, tableVars>>

\* SetThreadOwners commits the owners of the threads that were listed, or
\* fails to.  The threads are not locked.
OwnListed(l) ==
  /\ lpc[l] = "merged"
  /\ lpc' = [lpc EXCEPT ![l] = "done"]
  /\ chosen' = [chosen EXCEPT ![l] = [t \in Thread |-> None]]
  /\ \/ owner' = [t \in Thread |-> IF chosen[l][t] = None THEN owner[t]
                                   ELSE chosen[l][t]]
     \/ owner' = owner
  /\ UNCHANGED <<runVars, childVars, lock, history, handlerVars, tableVars>>

-----------------------------------------------------------------------------
(* Children and shutdown                                                   *)

Lose(as) ==
  /\ work' = {w \in work : w[2] \notin as}
  /\ stale' = stale \cup {r \in Request : pc[r] \in {"found", "sending"} /\ target[r] \in as}

\* A child exits; what it had not answered is lost.
Crash(a) ==
  /\ a \in Flaky \cap up /\ crashes < MaxCrashes
  /\ crashes' = crashes + 1
  /\ up' = up \ {a} /\ hung' = hung \ {a}
  /\ Lose({a})
  /\ UNCHANGED <<runVars, listVars, listed, threadVars, pc, target, source,
                 excluded, route, inbound, answers, tried>>

\* A child reads no more: what is written to it waits once its pipe is full.
Hang(a) ==
  /\ a \in (Flaky \cap up) \ hung /\ crashes < MaxCrashes
  /\ crashes' = crashes + 1
  /\ hung' = hung \cup {a}
  /\ UNCHANGED <<runVars, listVars, listed, up, threadVars, handlerVars,
                 tableVars>>

Recover(a) ==
  /\ a \in hung
  /\ hung' = hung \ {a}
  /\ UNCHANGED <<runVars, listVars, listed, up, crashes, threadVars,
                 handlerVars, tableVars>>

\* monitorChild removes the exited child ...
Unlist(a) ==
  /\ a \in listed \ up
  /\ listed' = listed \ {a}
  /\ UNCHANGED <<runVars, listVars, up, hung, crashes, threadVars, handlerVars,
                 tableVars>>

\* ... and starts another.
Restart(a) ==
  /\ a \notin listed \cup up /\ shutdown = "running"
  /\ listed' = listed \cup {a} /\ up' = up \cup {a}
  /\ UNCHANGED <<runVars, listVars, hung, crashes, threadVars, handlerVars,
                 tableVars>>

\* A signal cancels the running context; the client is still read.
Signal ==
  /\ Stops /\ shutdown = "running"
  /\ shutdown' = "signalled"
  /\ UNCHANGED <<listVars, spending, loops, childVars, threadVars, handlerVars,
                 tableVars>>

\* The client closes its end: main cancels the context and leaves its loop.
EndOfInput ==
  /\ Stops /\ shutdown \in {"running", "signalled"} /\ ReaderIsFree
  /\ shutdown' = "eof"
  /\ UNCHANGED <<listVars, spending, loops, childVars, threadVars, handlerVars,
                 tableVars>>

LoopEnds(l) ==
  /\ shutdown # "running" /\ l \in loops
  /\ loops' = loops \ {l}
  /\ UNCHANGED <<listVars, spending, shutdown, childVars, threadVars,
                 handlerVars, tableVars>>

\* Close, first half: no request is forwarded from here on.
BeginClose ==
  /\ shutdown = "eof"
  /\ shutdown' = "closing"
  /\ UNCHANGED <<listVars, spending, loops, childVars, threadVars, handlerVars,
                 tableVars>>

\* Fault: the table is emptied and nobody is told.
ExpireAllSilently ==
  /\ shutdown = "closing"
  /\ shutdown' = "expired"
  /\ route' = [r \in Request |-> None]
  /\ UNCHANGED <<listVars, spending, loops, childVars, threadVars, handlerVars,
                 work, inbound, answers, tried>>

\* expireAllRoutes answers every pending request.
ExpireAll ==
  /\ shutdown = "closing"
  /\ shutdown' = "expired"
  /\ answers' = [r \in Request |-> IF route[r] = None THEN answers[r]
                                   ELSE Append(answers[r], "expired")]
  /\ pc' = [r \in Request |-> IF route[r] # None /\ pc[r] = "sent"
                              THEN "done" ELSE pc[r]]
  /\ route' = [r \in Request |-> None]
  /\ UNCHANGED <<listVars, spending, loops, childVars, threadVars, target,
                 source, excluded, stale, work, inbound, tried>>

\* Close, last part: the children are forgotten and closed.
CloseChildren ==
  /\ shutdown = "expired"
  /\ shutdown' = "closed"
  /\ listed' = {} /\ up' = {} /\ hung' = {}
  /\ Lose(Account)
  /\ UNCHANGED <<listVars, spending, loops, crashes, threadVars, pc, target,
                 source, excluded, route, inbound, answers, tried>>

\* One step of the goroutine that handles r, once it was received.
Goroutine(r) ==
  \/ Choose(r) \/ ChooseNone(r) \/ TakeThread(r) \/ KeepOwner(r)
  \/ LeaveOwner(r) \/ RetakeThread(r) \/ PickFallback(r) \/ NoFallback(r)
  \/ Resume(r) \/ ResumeFails(r) \/ Own(r) \/ OwnFails(r)
  \/ FindChild(r) \/ CannotForward(r) \/ Register(r) \/ Send(r) \/ SendFails(r)

Router(r) == Receive(r) \/ Goroutine(r) \/ Expire(r)

Inbound == \E m \in inbound : HandleResponse(m) \/ HandleStarted(m)

Child(a) ==
  \/ Crash(a) \/ Hang(a) \/ Recover(a) \/ Unlist(a) \/ Restart(a)
  \/ \E r \in Request : ChildAnswers(r, a)

Lists == \E l \in List : MergeList(l) \/ OwnListed(l)

Shutdown ==
  \/ Signal \/ EndOfInput \/ BeginClose \/ ExpireAll \/ CloseChildren
  \/ \E l \in loops : LoopEnds(l)

Next ==
  \/ \E r \in Request : Router(r)
  \/ Inbound
  \/ Lists
  \/ \E a \in Account : Child(a)
  \/ Shutdown

Spec == Init /\ [][Next]_vars

\* The children the next step of r writes to, or has asked for capacity.
Awaits(r) ==
  CASE pc[r] = "choose" -> IF spending THEN {} ELSE listed
    [] pc[r] = "pick" -> listed
    [] pc[r] \in {"check", "sending"} -> {target[r]}
    [] pc[r] = "move" -> {source[r], target[r]}
    [] OTHER -> {}

\* Goroutines run.  Choices and resumes are bounded by the request timeout but
\* for the writes to a child, which nothing bounds while it hangs; a hung
\* child need not recover.  The expiry loop ticks.
Fairness ==
  \A r \in Request :
    /\ WF_vars(Awaits(r) \cap hung = {} /\ Goroutine(r))
    /\ WF_vars(Expire(r))

FairSpec == Spec /\ Fairness

-----------------------------------------------------------------------------
(* Properties                                                              *)

\* A request is answered at most once, except that a Send which fails after
\* the route expired answers again (mux.go:475-480 against 1251-1266).
AnsweredOnce ==
  \A r \in Request :
    Len(answers[r]) <= 1 \/ answers[r] = <<"expired", "failed">>

\* WIN-RTE-007: the exclusions carried along the retries never offer a
\* request to the same account twice (mux.go:740-769).
EachAccountTriedOnce ==
  \A r \in Request : IsInjective(tried[r])

\* What a child is still working on for an unanswered client is awaited from
\* that child: no response a client waits for is dropped (mux.go:631-638).
PendingWorkIsAwaited ==
  \A w \in work : answers[w[1]] = <<>> => route[w[1]] = w[2]

\* A client that was told its request failed is not charged for it later: no
\* retry takes an answered request to another account.  A Send overtaken by
\* its timeout still goes out (mux.go:460-482, 631-646, 1255-1262).
AnsweredIsLeftAlone ==
  \A r \in Request : answers[r] # <<>> => pc[r] \in {"sending", "done"}

\* WIN-RTE-005: a thread's owner is an account that has its history; a failed
\* resume leaves the old one recorded (mux.go:537-544).
OwnerHasHistory ==
  \A t \in Thread : owner[t] # None => owner[t] \in history[t]

\* A turn is only ever sent to an account that has the thread's history
\* (mux.go:503-520, 537-548).
TurnsFollowHistory ==
  \A r \in Turn : Range(tried[r]) \subseteq history[ThreadOf[r]]

\* WIN-RTE-005: turns of one thread that fail over at once do not leave it
\* with an owner other than the account the last of them is sent to, as long
\* as turns are all the thread has seen: the answer to a thread/resume may
\* name the old owner again (mux.go:804), and so may a list that was merged
\* before the move (thread_list.go:87-92).
MovedTurnGoesToOwner ==
  \A r \in Turn :
    /\ pc[r] = "forward" /\ source[r] # None
    /\ \A q \in Request \ Turn : ThreadOf[q] = ThreadOf[r] => pc[q] = "idle"
    /\ \A l \in List : lpc[l] = "idle"
    => owner[ThreadOf[r]] = target[r]

\* HIS-002: with spending apart from history no conversation is taken to
\* another account, whatever the lists make of its owner (mux.go:377-388,
\* 501-506, 639; thread_list.go:113-161).
HistoryStaysPut ==
  [][spending =>
       \A t \in Thread : history[t] # {} => history'[t] = history[t]]_vars

\* While the router runs and no child hangs for good, every request it takes
\* is answered, whatever else the children do (mux.go:1231-1266).
RequestsAreAnswered ==
  <>[](hung = {}) =>
    \A r \in Request :
      pc[r] # "idle" ~> answers[r] # <<>> \/ shutdown # "running"

\* mux_integration_test.go:757-759: turns that fail over concurrently resume
\* the history on the fallback account once; a turn does not resume it where
\* its thread already lives.
HistoryResumedOnce ==
  \A r \in Turn : pc[r] = "move" => target[r] # owner[ThreadOf[r]]

=============================================================================
