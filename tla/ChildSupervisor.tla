--------------------------- MODULE ChildSupervisor ---------------------------
(***************************************************************************)
(* The child processes: who starts, watches, restarts and stops the one    *)
(* app-server each account owns (internal/mux/mux.go, accounts.go,         *)
(* internal/backend/child.go), and how a child joins a conversation the    *)
(* client has already opened with initialize and initialized.              *)
(*                                                                         *)
(* Tasks are goroutines: an Operator is a call of the control API, and     *)
(* each process has a monitor, which also carries its chain of restarts.   *)
(*                                                                         *)
(*   operator: idle -> wait -> [enter -> launch -> read -> handshake]      *)
(*                  -> [stop] -> [demote] -> idle                          *)
(*   monitor:  none -> watch -> record -> delay -> wait -> enter -> ...    *)
(*                  -> end                                                 *)
(*                                                                         *)
(* Accounts touch each other's state only through the client and Close.    *)
(***************************************************************************)
EXTENDS Naturals, FiniteSets

CONSTANTS
  Account,
  Secondary,     \* accounts other than the controller
  Proc,          \* processes alive or attended to at once; reused when done with
  Operator,
  FailureLimit,  \* restartFailureLimit
  ClientSpeaks,  \* whether the client opens its handshake in this instance
  MaxOps,        \* bound on the control calls explored
  None

ASSUME SupervisorAssumption ==
  /\ Secondary \subseteq Account
  /\ Proc \cap Operator = {} /\ None \notin Account \cup Proc \cup Operator
  /\ FailureLimit \in Nat \ {0} /\ MaxOps \in Nat
  /\ ClientSpeaks \in BOOLEAN

Task == Proc \cup Operator

VARIABLES
  stored,    \* Store.accounts
  children,  \* Multiplexer.children
  proc,      \* the state of each process
  inits,     \* initialize requests each process was sent (2 is many)
  notes,     \* initialized notifications each process was sent (2 is many)
  lock,      \* childOperationLock: who holds it
  pc,        \* where each task is
  on,        \* the account each task works for
  doing,     \* what each task was called for
  prev,      \* what a failed enable puts back
  making,    \* the process a task is starting or stopping
  knows,     \* how far the client's handshake was when a start looked
  failures,  \* accountRuntime.failures
  circuit,   \* accountRuntime.circuitUntil is in the future
  client,    \* where the client's handshake is
  asking,    \* children whose initialize answer the client handshake awaits
  closing,   \* how far Close is
  entries,   \* the children Close found
  ops        \* control calls so far, bounded by MaxOps

procVars    == <<children, proc, inits, notes>>
taskVars    == <<pc, on, doing, prev, making, knows>>
runtimeVars == <<failures, circuit>>
clientVars  == <<client, asking>>
closeVars   == <<closing, entries>>
vars == <<stored, procVars, lock, taskVars, runtimeVars, clientVars, closeVars, ops>>

Handshakes == {"new", "asked", "initialized"}

Steps == {"new", "listing", "awaiting", "greeted", "noting", "done"}

Stores == {"unused", "enabled", "disabled", "gone"}

Places == {"none", "watch", "record", "delay", "end", "idle", "wait", "enter",
           "launch", "read", "handshake", "stop", "demote"}

Calls == {"restart", "add", "enable", "login", "disable", "delete", "restore"}

\* The state is well formed, and an account's operation lock is held by the
\* task that is starting or stopping its child, and by no other.
TypeOK ==
  /\ stored \in [Account -> Stores]
  /\ children \in [Account -> Proc \cup {None}]
  /\ proc \in [Proc -> {"running", "closing", "exited"}]
  /\ inits \in [Proc -> 0..2] /\ notes \in [Proc -> 0..2]
  /\ lock \in [Account -> Task \cup {None}]
  /\ pc \in [Task -> Places]
  /\ on \in [Task -> Account \cup {None}]
  /\ doing \in [Task -> Calls]
  /\ prev \in [Task -> Stores]
  /\ making \in [Task -> Proc \cup {None}]
  /\ knows \in [Task -> Handshakes]
  /\ failures \in [Account -> 0..FailureLimit]
  /\ circuit \in [Account -> BOOLEAN]
  /\ client \in Steps /\ asking \subseteq Proc
  /\ closing \in {"open", "begun", "closed"} /\ entries \subseteq Proc
  /\ ops \in 0..MaxOps
  /\ \A t \in Task, a \in Account :
       lock[a] = t <=> /\ on[t] = a
                       /\ pc[t] \in {"enter", "launch", "read", "handshake", "stop"}

\* The children on the list.
Listed == {children[a] : a \in Account} \ {None}

\* Start has run: each account that is enabled got a child, watched, or its
\* child could not be started.
Init ==
  /\ stored \in [Account -> {"unused", "enabled", "disabled"}]
  /\ \A a \in Account \ Secondary : stored[a] = "enabled"
  /\ children \in [Account -> Proc \cup {None}]
  /\ \A a, b \in Account : /\ children[a] # None => stored[a] = "enabled"
                           /\ children[a] = children[b] => a = b \/ children[a] = None
  /\ proc = [p \in Proc |-> IF p \in Listed THEN "running" ELSE "exited"]
  /\ pc = [t \in Task |-> IF t \in Operator THEN "idle"
                          ELSE IF t \in Listed THEN "watch" ELSE "none"]
  /\ on = [t \in Task |-> IF t \in Listed THEN CHOOSE a \in Account : children[a] = t
                          ELSE None]
  /\ inits = [p \in Proc |-> 0] /\ notes = [p \in Proc |-> 0]
  /\ lock = [a \in Account |-> None]
  /\ doing = [t \in Task |-> "restart"]
  /\ prev = [t \in Task |-> "unused"]
  /\ making = [t \in Task |-> None]
  /\ knows = [t \in Task |-> "new"]
  /\ failures = [a \in Account |-> 0] /\ circuit = [a \in Account |-> FALSE]
  /\ client = "new" /\ asking = {}
  /\ closing = "open" /\ entries = {}
  /\ ops = 0

-----------------------------------------------------------------------------
(* Starting a child: startChildLocked                                      *)

Goto(t, from, to) ==
  /\ pc[t] = from
  /\ pc' = [pc EXCEPT ![t] = to]

\* The call that wanted the child returns; the operation lock is released.
\* A restart is over, and its monitor with it.
Finished(t) == IF doing[t] = "restart" THEN "end" ELSE "idle"

Release(t) == lock' = [a \in Account |-> IF lock[a] = t THEN None ELSE lock[a]]

\* Fault: a restart that fails is not scheduled again.
FailedOnce(t, from) ==
  /\ Goto(t, from, CASE doing[t] = "restart" -> "end"
                     [] doing[t] = "add" -> "demote"
                     [] OTHER -> "idle")
  /\ Release(t)
  /\ stored' = IF doing[t] = "enable" THEN [stored EXCEPT ![on[t]] = prev[t]]
               ELSE stored

\* Fault: a start that fails keeps the operation lock.
FailedHolding(t, from) ==
  /\ Goto(t, from, CASE doing[t] = "restart" -> "record"
                     [] doing[t] = "add" -> "demote"
                     [] OTHER -> "idle")
  /\ UNCHANGED lock
  /\ stored' = IF doing[t] = "enable" THEN [stored EXCEPT ![on[t]] = prev[t]]
               ELSE stored

\* A start failed: a restart is recorded and tried again, an enable is
\* undone, an account just added is disabled.
Failed(t, from) ==
  /\ Goto(t, from, CASE doing[t] = "restart" -> "record"
                     [] doing[t] = "add" -> "demote"
                     [] OTHER -> "idle")
  /\ Release(t)
  /\ stored' = IF doing[t] = "enable" THEN [stored EXCEPT ![on[t]] = prev[t]]
               ELSE stored

Running(a) == children[a] # None /\ proc[children[a]] = "running"

\* The account has a live child already.
EnterFinds(t) ==
  /\ Goto(t, "enter", Finished(t))
  /\ closing = "open" /\ Running(on[t])
  /\ Release(t)
  /\ UNCHANGED <<stored, procVars, on, doing, prev, making, knows, runtimeVars,
                 clientVars, closeVars, ops>>

\* The router is closing, or the circuit is open; a dead child is dropped.
EnterRefused(t) ==
  /\ Failed(t, "enter")
  /\ closing # "open" \/ (circuit[on[t]] /\ ~Running(on[t]))
  /\ children' = IF closing = "open" THEN [children EXCEPT ![on[t]] = None]
                 ELSE children
  /\ UNCHANGED <<proc, inits, notes, on, doing, prev, making, knows,
                 runtimeVars, clientVars, closeVars, ops>>

EnterLaunches(t) ==
  /\ Goto(t, "enter", "launch")
  /\ closing = "open" /\ ~Running(on[t]) /\ ~circuit[on[t]]
  /\ children' = [children EXCEPT ![on[t]] = None]
  /\ UNCHANGED <<stored, proc, inits, notes, lock, on, doing, prev, making,
                 knows, runtimeVars, clientVars, closeVars, ops>>

\* No process, list or task refers to p any more: its name stands for the
\* next process.
Free(p) ==
  /\ proc[p] = "exited" /\ pc[p] \in {"none", "end"}
  /\ p \notin asking \cup entries
  /\ \A a \in Account : children[a] # p
  /\ \A t \in Task : making[t] # p

\* backend.Start succeeds and the child is listed.
Launch(t) ==
  /\ pc[t] = "launch"
  /\ \E p \in Proc :
       /\ Free(p)
       /\ pc' = [pc EXCEPT ![t] = "read", ![p] = "none"]
       /\ proc' = [proc EXCEPT ![p] = "running"]
       /\ inits' = [inits EXCEPT ![p] = 0]
       /\ notes' = [notes EXCEPT ![p] = 0]
       /\ children' = [children EXCEPT ![on[t]] = p]
       /\ making' = [making EXCEPT ![t] = p]
       /\ on' = [on EXCEPT ![p] = on[t]]
  /\ UNCHANGED <<stored, lock, doing, prev, knows, runtimeVars, clientVars,
                 closeVars, ops>>

LaunchFails(t) ==
  /\ Failed(t, "launch")
  /\ UNCHANGED <<procVars, on, doing, prev, making, knows, runtimeVars,
                 clientVars, closeVars, ops>>

\* Fault: the parameters are kept only once the children have answered.
HandshakeSeenLate ==
  IF client \in {"noting", "done"} THEN "initialized" ELSE "new"

\* initializeParams and initialized, as a start reads them.
HandshakeSeen ==
  IF client = "new" THEN "new"
  ELSE IF client \in {"noting", "done"} THEN "initialized" ELSE "asked"

\* One more, counted up to 2.
OneMore(count, ps) ==
  [p \in Proc |-> IF p \in ps /\ count[p] < 2 THEN count[p] + 1 ELSE count[p]]

\* What the client said so far is read, and repeated to the child.
ReadHandshake(t) ==
  /\ Goto(t, "read", "handshake")
  /\ knows' = [knows EXCEPT ![t] = HandshakeSeen]
  /\ inits' = IF HandshakeSeen = "new" THEN inits ELSE OneMore(inits, {making[t]})
  /\ UNCHANGED <<stored, children, proc, notes, lock, on, doing, prev, making,
                 runtimeVars, clientVars, closeVars, ops>>

\* The child answered (or there was nothing to ask): it is ready, watched by
\* a monitor of its own.
HandshakeEnds(t) ==
  LET p == making[t] IN
  /\ pc[t] = "handshake"
  /\ pc' = [pc EXCEPT ![t] = Finished(t), ![p] = "watch"]
  /\ knows[t] # "new" => proc[p] # "exited"
  /\ notes' = IF knows[t] = "initialized" THEN OneMore(notes, {p}) ELSE notes
  /\ making' = [making EXCEPT ![t] = None]
  /\ knows' = [knows EXCEPT ![t] = "new"]
  /\ Release(t)
  /\ UNCHANGED <<stored, children, proc, inits, on, doing, prev, runtimeVars,
                 clientVars, closeVars, ops>>

\* removeChildIfCurrent.
Unlisted(p) == [a \in Account |-> IF children[a] = p THEN None ELSE children[a]]

\* Child.Close: the process is asked to end, and will.
Ending(ps) == [p \in Proc |-> IF p \in ps /\ proc[p] = "running" THEN "closing"
                              ELSE proc[p]]

\* Fault: a child that failed its handshake stays listed, unwatched.
HandshakeFailsListed(t) ==
  /\ Failed(t, "handshake")
  /\ knows[t] # "new"
  /\ proc' = Ending({making[t]})
  /\ making' = [making EXCEPT ![t] = None]
  /\ knows' = [knows EXCEPT ![t] = "new"]
  /\ UNCHANGED <<children, inits, notes, on, doing, prev, runtimeVars,
                 clientVars, closeVars, ops>>

\* The child exited, refused initialize or took too long.
HandshakeFails(t) ==
  /\ Failed(t, "handshake")
  /\ knows[t] # "new"
  /\ children' = Unlisted(making[t])
  /\ proc' = Ending({making[t]})
  /\ making' = [making EXCEPT ![t] = None]
  /\ knows' = [knows EXCEPT ![t] = "new"]
  /\ UNCHANGED <<inits, notes, on, doing, prev, runtimeVars, clientVars,
                 closeVars, ops>>

-----------------------------------------------------------------------------
(* Monitors and restarts                                                   *)

\* A process ends, by itself or because it was asked to.
Exit(p) ==
  /\ proc[p] \in {"running", "closing"}
  /\ proc' = [proc EXCEPT ![p] = "exited"]
  /\ UNCHANGED <<stored, children, inits, notes, lock, taskVars, runtimeVars,
                 clientVars, closeVars, ops>>

\* monitorChild wakes: a child someone else removed is not its business, nor
\* one whose account is no longer enabled.
Notice(p) ==
  /\ proc[p] = "exited"
  /\ Goto(p, "watch", IF /\ children[on[p]] = p
                         /\ closing = "open"
                         /\ stored[on[p]] = "enabled"
                      THEN "record" ELSE "end")
  /\ children' = Unlisted(p)
  /\ UNCHANGED <<stored, proc, inits, notes, lock, on, doing, prev, making,
                 knows, runtimeVars, clientVars, closeVars, ops>>

\* recordChildFailure; at the limit the circuit opens.  Once the router is
\* closing nothing comes of it.
Record(p) ==
  /\ Goto(p, "record", IF closing = "open" THEN "delay" ELSE "end")
  /\ LET n == IF failures[on[p]] < FailureLimit THEN failures[on[p]] + 1
              ELSE FailureLimit
     IN  IF closing # "open" THEN UNCHANGED runtimeVars
         ELSE /\ failures' = [failures EXCEPT ![on[p]] = n]
              /\ circuit' = [circuit EXCEPT ![on[p]] = @ \/ n = FailureLimit]
  /\ UNCHANGED <<stored, procVars, lock, on, doing, prev, making, knows,
                 clientVars, closeVars, ops>>

\* The timer fires.  The account is read, the circuit closed for a probe;
\* the operation lock is yet to be taken.
DelayEnds(p) ==
  /\ Goto(p, "delay", IF closing = "open" /\ stored[on[p]] = "enabled"
                      THEN "wait" ELSE "end")
  /\ circuit' = IF closing = "open" /\ stored[on[p]] = "enabled"
                THEN [circuit EXCEPT ![on[p]] = FALSE] ELSE circuit
  /\ UNCHANGED <<stored, procVars, lock, on, doing, prev, making, knows,
                 failures, clientVars, closeVars, ops>>

\* The open interval passes.
CircuitLapses(a) ==
  /\ circuit[a]
  /\ circuit' = [circuit EXCEPT ![a] = FALSE]
  /\ UNCHANGED <<stored, procVars, lock, taskVars, failures, clientVars,
                 closeVars, ops>>

\* markRuntimeHealthy: a child of the account answered, now or a while ago.
Healthy(a) ==
  /\ \E p \in Proc : on[p] = a
  /\ <<failures[a], circuit[a]>> # <<0, FALSE>>
  /\ failures' = [failures EXCEPT ![a] = 0]
  /\ circuit' = [circuit EXCEPT ![a] = FALSE]
  /\ UNCHANGED <<stored, procVars, lock, taskVars, clientVars, closeVars, ops>>

-----------------------------------------------------------------------------
(* The control API                                                         *)

\* setRuntime: a call that changes the account forgets its failures.
Reset(a) ==
  /\ failures' = [failures EXCEPT ![a] = 0]
  /\ circuit' = [circuit EXCEPT ![a] = FALSE]

Known(a) == stored[a] \in {"enabled", "disabled"}

\* A call arrives.  AddAccount stores its account before it waits.
Begin(o, a, call) ==
  /\ Goto(o, "idle", "wait")
  /\ ops < MaxOps /\ ops' = ops + 1
  /\ call \in Calls \ {"restart", "restore"}
  /\ IF call = "add"
     THEN /\ stored[a] = "unused"
          /\ stored' = [stored EXCEPT ![a] = "enabled"]
          /\ Reset(a)
     ELSE /\ stored[a] # "unused"
          /\ UNCHANGED <<stored, runtimeVars>>
  /\ on' = [on EXCEPT ![o] = a]
  /\ doing' = [doing EXCEPT ![o] = call]
  /\ UNCHANGED <<procVars, lock, prev, making, knows, clientVars, closeVars>>

\* Fault: the operation lock is not waited for.
TakeLockAtOnce(t, calls, to) ==
  /\ Goto(t, "wait", to)
  /\ doing[t] \in calls
  /\ lock' = [lock EXCEPT ![on[t]] = t]

\* childOperationLock is taken on the way to `to`, for a call in `calls`.
TakeLock(t, calls, to) ==
  /\ Goto(t, "wait", to)
  /\ doing[t] \in calls
  /\ lock[on[t]] = None
  /\ lock' = [lock EXCEPT ![on[t]] = t]

\* startChild, with the account its caller read earlier.
AcquireStart(t) ==
  /\ TakeLock(t, {"restart", "add"}, "enter")
  /\ UNCHANGED <<stored, procVars, on, doing, prev, making, knows, runtimeVars,
                 clientVars, closeVars, ops>>

\* UpdateAccount(enabled).
AcquireEnable(o) ==
  /\ TakeLock(o, {"enable"}, "enter")
  /\ Known(on[o])
  /\ prev' = [prev EXCEPT ![o] = stored[on[o]]]
  /\ stored' = [stored EXCEPT ![on[o]] = "enabled"]
  /\ Reset(on[o])
  /\ UNCHANGED <<procVars, on, doing, making, knows, clientVars, closeVars, ops>>

\* UpdateAccount(disabled) and DeleteAccount: the child is taken off the list
\* and asked to end, under the lock.
AcquireStop(o) ==
  LET a == on[o] IN
  /\ TakeLock(o, {"disable", "delete"}, "stop")
  /\ Known(a) /\ a \in Secondary
  /\ prev' = [prev EXCEPT ![o] = stored[a]]
  /\ stored' = IF doing[o] = "disable" THEN [stored EXCEPT ![a] = "disabled"] ELSE stored
  /\ making' = [making EXCEPT ![o] = children[a]]
  /\ children' = [children EXCEPT ![a] = None]
  /\ proc' = Ending({children[a]})
  /\ Reset(a)
  /\ UNCHANGED <<inits, notes, on, doing, knows, clientVars, closeVars, ops>>

\* StartLogin starts the child of an enabled account that has none.
AcquireLogin(o) ==
  /\ TakeLock(o, {"login"}, "enter")
  /\ stored[on[o]] = "enabled" /\ children[on[o]] = None
  /\ UNCHANGED <<stored, procVars, on, doing, prev, making, knows, runtimeVars,
                 clientVars, closeVars, ops>>

\* Nothing to do, or nothing that may be done.
AcquireIdle(o) ==
  LET a == on[o] IN
  /\ Goto(o, "wait", "idle")
  /\ lock[a] = None
  /\ CASE doing[o] = "enable" -> ~Known(a)
       [] doing[o] = "login" -> stored[a] # "enabled" \/ children[a] # None
       [] doing[o] \in {"disable", "delete"} -> ~Known(a) \/ a \notin Secondary
       [] OTHER -> FALSE
  /\ UNCHANGED <<stored, procVars, lock, on, doing, prev, making, knows,
                 runtimeVars, clientVars, closeVars, ops>>

\* The child has ended (or there was none); DeleteAccount removes the account.
Stopped(o) ==
  /\ Goto(o, "stop", "idle")
  /\ making[o] # None => proc[making[o]] = "exited"
  /\ making' = [making EXCEPT ![o] = None]
  /\ stored' = IF doing[o] = "delete" THEN [stored EXCEPT ![on[o]] = "gone"] ELSE stored
  /\ Release(o)
  /\ UNCHANGED <<procVars, on, doing, prev, knows, runtimeVars, clientVars,
                 closeVars, ops>>

\* RemoveAccount fails; an enabled account gets a child again.
RemoveFails(o) ==
  /\ pc[o] = "stop" /\ doing[o] = "delete"
  /\ making[o] # None => proc[making[o]] = "exited"
  /\ making' = [making EXCEPT ![o] = None]
  /\ IF prev[o] = "enabled"
     THEN /\ Goto(o, "stop", "enter")
          /\ doing' = [doing EXCEPT ![o] = "restore"]
          /\ UNCHANGED lock
     ELSE /\ Goto(o, "stop", "idle")
          /\ UNCHANGED doing
          /\ Release(o)
  /\ UNCHANGED <<stored, procVars, on, prev, knows, runtimeVars, clientVars,
                 closeVars, ops>>

\* Child.Close reports an error: it could not end the process in time.
StopFails(o) ==
  /\ Goto(o, "stop", "idle")
  /\ making[o] # None
  /\ making' = [making EXCEPT ![o] = None]
  /\ stored' = IF doing[o] = "delete" /\ prev[o] = "enabled"
               THEN [stored EXCEPT ![on[o]] = "disabled"] ELSE stored
  /\ Release(o)
  /\ UNCHANGED <<procVars, on, doing, prev, knows, runtimeVars, clientVars,
                 closeVars, ops>>

\* AddAccount disables the account it could not start, without the lock.
Demote(o) ==
  /\ Goto(o, "demote", "idle")
  /\ stored' = IF Known(on[o]) THEN [stored EXCEPT ![on[o]] = "disabled"] ELSE stored
  /\ UNCHANGED <<procVars, lock, on, doing, prev, making, knows, runtimeVars,
                 clientVars, closeVars, ops>>

-----------------------------------------------------------------------------
(* The client's handshake                                                  *)

Client(from, to) == client = from /\ client' = to

\* initialize arrives; its parameters are kept for children yet to come.
ClientInitialize ==
  /\ ClientSpeaks /\ closing = "open"
  /\ Client("new", "listing")
  /\ UNCHANGED <<stored, procVars, lock, taskVars, runtimeVars, asking,
                 closeVars, ops>>

\* The children there are now are asked.
ClientAsks ==
  /\ Client("listing", "awaiting")
  /\ asking' = Listed
  /\ inits' = OneMore(inits, {p \in Listed : proc[p] = "running"})
  /\ UNCHANGED <<stored, children, proc, notes, lock, taskVars, runtimeVars,
                 closeVars, ops>>

Answers(p) == client \in {"awaiting", "greeted"} /\ p \in asking

ClientInitOk(p) ==
  /\ Answers(p) /\ proc[p] # "exited"
  /\ client' = "greeted" /\ asking' = asking \ {p}
  /\ UNCHANGED <<stored, procVars, lock, taskVars, runtimeVars, closeVars, ops>>

\* A child that exited, refused or took too long is closed, if it still
\* serves its account; nobody restarts it.
ClientInitFails(p) ==
  /\ Answers(p)
  /\ asking' = asking \ {p}
  /\ children' = Unlisted(p)
  /\ proc' = IF p \in Listed THEN Ending({p}) ELSE proc
  /\ UNCHANGED <<stored, inits, notes, lock, taskVars, runtimeVars, client,
                 closeVars, ops>>

\* The client has its answer and says initialized.
ClientInitialized ==
  /\ Client("greeted", "noting") /\ asking = {} /\ closing = "open"
  /\ UNCHANGED <<stored, procVars, lock, taskVars, runtimeVars, asking,
                 closeVars, ops>>

ClientNotes ==
  /\ Client("noting", "done")
  /\ notes' = OneMore(notes, {p \in Listed : proc[p] = "running"})
  /\ UNCHANGED <<stored, children, proc, inits, lock, taskVars, runtimeVars,
                 asking, closeVars, ops>>

-----------------------------------------------------------------------------
(* Close                                                                   *)

CloseBegin ==
  /\ closing = "open" /\ closing' = "begun"
  /\ entries' = Listed
  /\ UNCHANGED <<stored, procVars, lock, taskVars, runtimeVars, clientVars, ops>>

\* The list is replaced and the children found are closed; a child listed in
\* between is left to the end of the router's own process.
CloseEnd ==
  /\ closing = "begun" /\ closing' = "closed"
  /\ children' = [a \in Account |-> None]
  /\ proc' = Ending(entries)
  /\ entries' = {}
  /\ UNCHANGED <<stored, inits, notes, lock, taskVars, runtimeVars, clientVars, ops>>

-----------------------------------------------------------------------------

Start(t) ==
  \/ EnterFinds(t) \/ EnterRefused(t) \/ EnterLaunches(t)
  \/ Launch(t) \/ LaunchFails(t)
  \/ ReadHandshake(t) \/ HandshakeEnds(t) \/ HandshakeFails(t)

Monitor(p) == Notice(p) \/ Record(p) \/ DelayEnds(p)

Operate(o) ==
  \/ AcquireEnable(o) \/ AcquireStop(o) \/ AcquireLogin(o) \/ AcquireIdle(o)
  \/ Stopped(o) \/ RemoveFails(o) \/ StopFails(o) \/ Demote(o)

Next ==
  \/ \E t \in Task : AcquireStart(t) \/ Start(t)
  \/ \E p \in Proc : Monitor(p) \/ Exit(p) \/ ClientInitOk(p) \/ ClientInitFails(p)
  \/ \E o \in Operator :
       Operate(o) \/ \E a \in Account, call \in Calls : Begin(o, a, call)
  \/ \E a \in Account : CircuitLapses(a) \/ Healthy(a)
  \/ ClientInitialize \/ ClientAsks \/ ClientInitialized \/ ClientNotes
  \/ CloseBegin \/ CloseEnd

Spec == Init /\ [][Next]_vars

\* Goroutines run, timers fire, a Go mutex goes to each waiter in turn, and a
\* process asked to end is terminated.  That a start succeeds is not assumed.
FairSpec ==
  /\ Spec
  /\ \A t \in Task : WF_vars(Start(t)) /\ SF_vars(AcquireStart(t))
  /\ \A p \in Proc : WF_vars(Monitor(p)) /\ WF_vars(proc[p] = "closing" /\ Exit(p))
  /\ \A o \in Operator : WF_vars(Operate(o))

-----------------------------------------------------------------------------
(* Properties                                                              *)

\* However starts, restarts, enables and logins interleave, one account never
\* has two processes serving at once (the operation lock and the second look
\* at the list in startChildLocked).
AtMostOneServing ==
  \A p, q \in Proc :
    proc[p] = "running" /\ proc[q] = "running" /\ on[p] = on[q] => p = q

\* A child on the list is watched by a monitor, or is being started by
\* whoever holds its account's operation lock: no exit goes unnoticed.
ListedIsWatched ==
  \A a \in Account : children[a] # None =>
    \/ pc[children[a]] = "watch"
    \/ /\ lock[a] # None /\ making[lock[a]] = children[a]
       /\ pc[lock[a]] \in {"read", "handshake"}

\* Once the client has finished its handshake, every child in service got both
\* messages, whether it was there when the client spoke or came later, however
\* its start fell between the two (WIN-RPC-003).
ServingIsInitialized ==
  client = "done" => \A a \in Account :
    Running(a) /\ pc[children[a]] = "watch" =>
      inits[children[a]] > 0 /\ notes[children[a]] > 0

\* A chain of restarts ends only when its account has a child again or was
\* given one, with a monitor of its own, or is no longer enabled, or when the
\* router closes.
SupervisionPersists ==
  [][\A p \in Proc :
       /\ pc[p] \notin {"none", "watch", "end"}
       /\ pc'[p] = "end"
       => \/ children'[on[p]] # None
          \/ making[p] # None /\ pc'[making[p]] = "watch"
          \/ stored[on[p]] # "enabled"
          \/ closing # "open"]_vars

\* A restart that is scheduled gets its turn at the account, or ends: no failed
\* start, disable or removal keeps it out for ever.
RestartIsAttempted ==
  \A p \in Proc : pc[p] = "delay" ~> pc[p] \in {"enter", "end"}

\* An account that is disabled or removed has no process serving it once the
\* call that did so is over (docs/E2E-REPORT-WINDOWS.md).
NoHiddenChild ==
  \A a \in Account : stored[a] \in {"disabled", "gone"} /\ lock[a] = None =>
    \A p \in Proc : on[p] = a => proc[p] # "running"
=============================================================================
