---------------------------- MODULE SpendGateway -----------------------------
(***************************************************************************)
(* The inference boundary: internal/spend/gateway.go and voice.go with the *)
(* callbacks internal/mux/spending.go gives them.  Each HTTP request is a  *)
(* handler goroutine; between its steps run the other handlers, changes of *)
(* the routing mode, changes of accounts, and time.                        *)
(*                                                                         *)
(*   arrived -> [refreshing] -> reserve -> credentials -> dispatch         *)
(*           -> waiting -> streaming -> observe -> release -> done         *)
(*                                                                         *)
(* A voice call defers its record before it defers its release, and so is  *)
(* released before it is observed.                                         *)
(*                                                                         *)
(* The policy the handlers share is SpendPolicy's state, changed only by   *)
(* its actions.  A child may hang: it stops reading with its pipe full,    *)
(* and a call on it does not return, for the write is under no deadline    *)
(* (internal/backend/child.go:121-138).  A candidate whose account did not answer the capacity     *)
(* read is listed as not connected; the code's recheck leaves it out,      *)
(* which Reserve cannot tell apart.                                        *)
(***************************************************************************)
EXTENDS SpendPolicy

CONSTANTS
  Controller,  \* the primary account, which cannot be disabled or deleted
  Voice,       \* the requests that set up a voice call; the others ask a response
  Flaky,       \* the accounts whose children may hang
  CacheTTL,    \* how long spendCandidates reuses a snapshot
  MaxChanges,  \* bound on the changes of mode, accounts and children explored
  MaxRecords,  \* length of the list of recent decisions (100 in the code)
  Nobody,      \* no holder of spendCacheMu
  NoSnapshot   \* spendCache before the first refresh, or a handler without one

ASSUME VoiceAssumption == Voice \subseteq Request
ASSUME FlakyAssumption == Flaky \subseteq Account
ASSUME CacheAssumption ==
  CacheTTL \in Nat /\ MaxChanges \in Nat /\ MaxRecords \in Nat \ {0}
ASSUME NobodyAssumption == /\ Nobody \notin [by : Request, mode : Mode]
                           /\ Nobody \notin Mode
                           /\ NoSnapshot \notin CandidateLists

VARIABLES
  storeMode,  \* Store.routingMode
  mutating,   \* spendingMutationMu is held by a SetRoutingMode
  account,    \* Store.accounts: enabled, disabled or absent
  changes,    \* such changes so far
  hung,       \* the accounts whose child takes no more input
  cacheMu,    \* holder of spendCacheMu and the mode it refreshes for
  cache,      \* spendCache with its mode and its age
  pc,         \* where each handler is
  list,       \* the snapshot a handler works from
  retried,    \* the handler is in its one metadata retry
  outcome,    \* Record.Outcome
  sent,       \* history: the request went upstream
  records,    \* spendRecords, newest last
  pledge,     \* history: the mode in force since the request arrived, if one was
  backed      \* history: the payer has been enabled since the decision

policyVars == vars
adminVars  == <<storeMode, mutating, account, changes, hung>>
cacheVars  == <<cacheMu, cache>>
gvars == <<vars, adminVars, cacheVars, pc, list, retried, outcome, sent,
           records, pledge, backed>>

\* "ended" stands for every outcome of reading an accepted body: completed,
\* upstream-failed, client-disconnected, stream-interrupted,
\* invalid-compaction-response, voice-call-created, invalid-voice-response.
Outcomes == {"none", "not-sent", "delivery-unknown", "upstream-rejected", "ended"}

Places == {"idle", "arrived", "refreshing", "reserve", "credentials",
  "dispatch", "waiting", "streaming", "observe", "release", "done"}

GTypeOK ==
  /\ TypeOK
  /\ storeMode \in Mode /\ mutating \in BOOLEAN
  /\ account \in [Account -> {"enabled", "disabled", "absent"}]
  /\ changes \in 0..MaxChanges
  /\ hung \subseteq Account
  /\ cacheMu \in [by : Request, mode : Mode] \cup {Nobody}
  /\ cache = NoSnapshot \/ /\ cache.mode \in Mode
                           /\ cache.list \in CandidateLists
                           /\ cache.age \in 0..CacheTTL
  /\ pc \in [Request -> Places]
  /\ list \in [Request -> CandidateLists \cup {NoSnapshot}]
  /\ retried \in [Request -> BOOLEAN]
  /\ outcome \in [Request -> Outcomes]
  /\ sent \in [Request -> BOOLEAN]
  /\ records \in Seq(Request) /\ Len(records) <= MaxRecords
  /\ pledge \in [Request -> Mode \cup {Nobody}]
  /\ backed \in [Request -> BOOLEAN]

GInit ==
  /\ Init
  /\ storeMode = mode /\ mutating = FALSE
  /\ account = [a \in Account |-> "enabled"] /\ changes = 0 /\ hung = {}
  /\ cacheMu = Nobody /\ cache = NoSnapshot
  /\ pc = [r \in Request |-> "idle"]
  /\ list = [r \in Request |-> NoSnapshot]
  /\ retried = [r \in Request |-> FALSE]
  /\ outcome = [r \in Request |-> "none"]
  /\ sent = [r \in Request |-> FALSE]
  /\ records = <<>>
  /\ pledge = [r \in Request |-> Nobody]
  /\ backed = [r \in Request |-> FALSE]

-----------------------------------------------------------------------------
(* Administration                                                          *)

\* Requests whose decision is still to come lose the mode they arrived under.
Undecided(r) == pc[r] \in {"arrived", "refreshing", "reserve"}

Payer(r) == ticket[r].account

\* SetRoutingMode, first half: the store commits the mode.
SelectMode(m) ==
  /\ ~mutating
  /\ m # storeMode /\ revision < MaxRevision
  /\ changes < MaxChanges
  /\ changes' = changes + 1
  /\ m \in Account => account[m] = "enabled"
  /\ storeMode' = m
  /\ mutating' = TRUE
  /\ pledge' = [r \in Request |-> IF Undecided(r) THEN Nobody ELSE pledge[r]]
  /\ UNCHANGED <<policyVars, account, hung, cacheVars, pc, list, retried,
                 outcome, sent, records, backed>>

\* SetRoutingMode, second half: updateSpendMode, then the mutex is released.
ApplyMode ==
  /\ mutating
  /\ Set(storeMode)
  /\ mutating' = FALSE
  /\ UNCHANGED <<storeMode, account, changes, hung, cacheVars, pc, list, retried,
                 outcome, sent, records, pledge, backed>>

\* UpdateAccount and DeleteAccount: both refuse the account the mode selects,
\* and the controller.  A child of an account no longer enabled is closed.
ChangeAccount(a, status) ==
  /\ ~mutating
  /\ a # Controller
  /\ account[a] # "absent" /\ account[a] # status
  /\ status # "enabled" => storeMode # a
  /\ changes < MaxChanges
  /\ changes' = changes + 1
  /\ account' = [account EXCEPT ![a] = status]
  /\ hung' = hung \ {a}
  /\ backed' = [r \in Request |->
       backed[r] \/ (Holding(r) /\ Payer(r) = a /\ status = "enabled" /\ ~sent[r])]
  /\ UNCHANGED <<policyVars, storeMode, mutating, cacheVars, pc, list, retried,
                 outcome, sent, records, pledge>>

\* A child stops reading and its pipe is full.
Hang(a) ==
  /\ a \in Flaky \ hung
  /\ account[a] = "enabled"
  /\ changes < MaxChanges
  /\ changes' = changes + 1
  /\ hung' = hung \cup {a}
  /\ UNCHANGED <<policyVars, storeMode, mutating, account, cacheVars,
                 pc, list, retried, outcome, sent, records, pledge, backed>>

\* It reads again, or exits: either ends the writes that wait for it.
Recover(a) ==
  /\ a \in hung
  /\ hung' = hung \ {a}
  /\ UNCHANGED <<policyVars, storeMode, mutating, account, changes, cacheVars,
                 pc, list, retried, outcome, sent, records, pledge, backed>>

OneTickOlder(cs) == [i \in DOMAIN cs |-> [cs[i] EXCEPT !.age = @ + 1]]

Older(s) == IF s # NoSnapshot /\ OneTickOlder(s) \in CandidateLists
            THEN OneTickOlder(s) ELSE s

\* Time passes: every snapshot, cached or held, grows older.
Tick ==
  /\ cache' = IF cache = NoSnapshot THEN cache
              ELSE [cache EXCEPT !.list = Older(@),
                                 !.age = IF @ < CacheTTL THEN @ + 1 ELSE @]
  /\ list' = [r \in Request |-> Older(list[r])]
  /\ UNCHANGED <<policyVars, adminVars, cacheMu, pc, retried, outcome, sent,
                 records, pledge, backed>>

-----------------------------------------------------------------------------
(* The handler                                                             *)

Goto(r, from, to) ==
  /\ pc[r] = from
  /\ pc' = [pc EXCEPT ![r] = to]

\* The deferred calls run last to first: ServeHTTP releases what it reserved
\* after its Observe, createVoiceCall before it.
FirstDeferred(r) == IF r \in Voice THEN "release" ELSE "observe"

\* The handler returns with the outcome reached here.
Finish(r, from, o) ==
  /\ Goto(r, from, FirstDeferred(r))
  /\ outcome' = [outcome EXCEPT ![r] = o]

Arrive(r) ==
  /\ Goto(r, "idle", "arrived")
  /\ pledge' = [pledge EXCEPT ![r] = IF mutating THEN Nobody ELSE storeMode]
  /\ UNCHANGED <<policyVars, adminVars, cacheVars, list, retried, outcome, sent,
                 records, backed>>

\* Fault: the cached snapshot is reused whatever mode it was taken for.
UsableForAnyMode(c, m) == c # NoSnapshot /\ c.age < CacheTTL

CacheUsable(c, m) == c # NoSnapshot /\ c.mode = m /\ c.age < CacheTTL

UseCache(r) ==
  /\ cacheMu = Nobody
  /\ CacheUsable(cache, storeMode)
  /\ Goto(r, "arrived", "reserve")
  /\ list' = [list EXCEPT ![r] = cache.list]
  /\ retried' = [retried EXCEPT ![r] = FALSE]
  /\ UNCHANGED <<policyVars, adminVars, cacheVars, outcome, sent, records,
                 pledge, backed>>

\* A snapshot of the accounts the mode asks about, as they are now; a child
\* that does not answer, or knows no quota, is not connected.
Observes(s) ==
  LET asked == {a \in Account : account[a] # "absent" /\ Allowed(storeMode, a)}
  IN  /\ {c.id : c \in Range(s)} = asked
      /\ Distinct(s)
      /\ \A c \in Range(s) :
           /\ c.age = 0
           /\ c.enabled = (account[c.id] = "enabled")
           /\ c.connected => c.enabled

\* The lock is taken and the accounts are asked.
BeginRefresh(r) ==
  /\ cacheMu = Nobody
  /\ ~CacheUsable(cache, storeMode)
  /\ Goto(r, "arrived", "refreshing")
  /\ cacheMu' = [by |-> r, mode |-> storeMode]
  /\ \E s \in CandidateLists :
       /\ Observes(s)
       /\ list' = [list EXCEPT ![r] = s]
  /\ UNCHANGED <<policyVars, adminVars, cache, retried, outcome, sent, records,
                 pledge, backed>>

Refreshing(r) == cacheMu # Nobody /\ cacheMu.by = r

\* A snapshot is several calls on each child that is up, and waits for all.
Stuck(r) ==
  /\ pc[r] = "refreshing"
  /\ \E c \in Range(list[r]) : c.enabled /\ c.id \in hung

\* Every account answered, or the fresh answers are enough.
EndRefresh(r) ==
  /\ Refreshing(r) /\ ~Stuck(r)
  /\ Goto(r, "refreshing", "reserve")
  /\ cache' = [mode |-> cacheMu.mode, list |-> list[r], age |-> 0]
  /\ cacheMu' = Nobody
  /\ retried' = [retried EXCEPT ![r] = FALSE]
  /\ UNCHANGED <<policyVars, adminVars, list, outcome, sent, records,
                 pledge, backed>>


\* The read timed out with nothing fresh.  Nothing has been sent, so the
\* handler asks once more and then gives up.
RefreshTimesOut(r) ==
  /\ Refreshing(r) /\ ~Stuck(r)
  /\ cacheMu' = Nobody
  /\ list' = [list EXCEPT ![r] = NoSnapshot]
  /\ retried' = [retried EXCEPT ![r] = ~@]
  /\ IF retried[r]
     THEN Finish(r, "refreshing", "not-sent")
     ELSE /\ Goto(r, "refreshing", "arrived")
          /\ UNCHANGED outcome
  /\ UNCHANGED <<policyVars, adminVars, cache, sent, records, pledge, backed>>

\* The client leaves while the handler waits for the lock or the accounts.
Abandon(r) ==
  /\ \/ Finish(r, "arrived", "not-sent") /\ UNCHANGED cacheMu
     \/ Finish(r, "refreshing", "not-sent") /\ ~Stuck(r) /\ cacheMu' = Nobody
  /\ retried' = [retried EXCEPT ![r] = FALSE]
  /\ list' = [list EXCEPT ![r] = NoSnapshot]
  /\ UNCHANGED <<policyVars, adminVars, cache, sent, records, pledge,
                 backed>>

TakeDecision(r) ==
  /\ Goto(r, "reserve", "credentials")
  /\ Reserve(r, list[r])
  /\ list' = [list EXCEPT ![r] = NoSnapshot]
  /\ outcome' = [outcome EXCEPT ![r] = "not-sent"]
  /\ backed' = [backed EXCEPT ![r] = (account[ticket'[r].account] = "enabled")]
  /\ UNCHANGED <<adminVars, cacheVars, retried, sent, records, pledge>>

\* Reserve returns an error: 409, and only a voice call is recorded.
Refuse(r) ==
  /\ pc[r] = "reserve"
  /\ Refused(list[r], mode)
  /\ IF r \in Voice THEN Finish(r, "reserve", "not-sent")
     ELSE Goto(r, "reserve", "done") /\ UNCHANGED outcome
  /\ list' = [list EXCEPT ![r] = NoSnapshot]
  /\ UNCHANGED <<policyVars, adminVars, cacheVars, retried, sent, records,
                 pledge, backed>>

\* Fault: credentials are read for whatever account the snapshot named.
ReadCredentialsUnchecked(r) ==
  /\ Goto(r, "credentials", "dispatch")
  /\ Payer(r) \notin hung
  /\ UNCHANGED <<policyVars, adminVars, cacheVars, list, retried, outcome, sent,
                 records, pledge, backed>>

\* spendCredentials: the account must still be enabled.  What its child
\* answers is left open: if it refuses, NoCredentials is the next step.
ReadCredentials(r) ==
  /\ Goto(r, "credentials", "dispatch")
  /\ Payer(r) \notin hung
  /\ account[Payer(r)] = "enabled"
  /\ UNCHANGED <<policyVars, adminVars, cacheVars, list, retried, outcome, sent,
                 records, pledge, backed>>

\* The account is gone, its refresh is refused, its auth file unreadable, or
\* the client has left.
NoCredentials(r) ==
  /\ Finish(r, "credentials", outcome[r])
  /\ Payer(r) \notin hung
  /\ UNCHANGED <<policyVars, adminVars, cacheVars, list, retried, sent, records,
                 pledge, backed>>

\* RoundTrip begins: the chosen subscription may now be charged.
Dispatch(r) ==
  /\ Goto(r, "dispatch", "waiting")
  /\ sent' = [sent EXCEPT ![r] = TRUE]
  /\ UNCHANGED <<policyVars, adminVars, cacheVars, list, retried, outcome,
                 records, pledge, backed>>

\* Fault: a transport error keeps the outcome the record started with.
TransportFailsQuietly(r) ==
  /\ Finish(r, "waiting", outcome[r])
  /\ UNCHANGED <<policyVars, adminVars, cacheVars, list, retried, sent, records,
                 pledge, backed>>

\* RoundTrip fails: upstream may or may not have seen it, so no retry.
TransportFails(r) ==
  /\ Finish(r, "waiting", "delivery-unknown")
  /\ UNCHANGED <<policyVars, adminVars, cacheVars, list, retried, sent, records,
                 pledge, backed>>

\* Fault: a rejected request returns before its Observe is deferred.
RejectedUnrecorded(r) ==
  /\ Goto(r, "waiting", "release")
  /\ outcome' = [outcome EXCEPT ![r] = "upstream-rejected"]
  /\ UNCHANGED <<policyVars, adminVars, cacheVars, list, retried, sent, records,
                 pledge, backed>>

Rejected(r) ==
  /\ Finish(r, "waiting", "upstream-rejected")
  /\ UNCHANGED <<policyVars, adminVars, cacheVars, list, retried, sent, records,
                 pledge, backed>>

Accepted(r) ==
  /\ Goto(r, "waiting", "streaming")
  /\ UNCHANGED <<policyVars, adminVars, cacheVars, list, retried, outcome, sent,
                 records, pledge, backed>>

\* The body was read to its terminal event, or reading or writing it failed.
BodyEnds(r) ==
  /\ Finish(r, "streaming", "ended")
  /\ UNCHANGED <<policyVars, adminVars, cacheVars, list, retried, sent, records,
                 pledge, backed>>

\* The newest MaxRecords observations.
Recent(s) == IF Len(s) > MaxRecords THEN Tail(s) ELSE s

\* The deferred Observe: recordSpend.
Observe(r) ==
  /\ Goto(r, "observe", IF r \in Voice THEN "done" ELSE "release")
  /\ records' = Recent(Append(records, r))
  /\ UNCHANGED <<policyVars, adminVars, cacheVars, list, retried, outcome, sent,
                 pledge, backed>>

\* Fault: a handler that failed leaves its reservation behind.
ReturnKeepingLoad(r) ==
  /\ Goto(r, "release", IF r \in Voice THEN "observe" ELSE "done")
  /\ IF Holding(r) /\ sent[r] THEN Release(r) ELSE UNCHANGED policyVars
  /\ UNCHANGED <<adminVars, cacheVars, list, retried, outcome, sent, records,
                 pledge, backed>>

\* The deferred release of a reservation, if the handler has one.
Return(r) ==
  /\ Goto(r, "release", IF r \in Voice THEN "observe" ELSE "done")
  /\ IF Holding(r) THEN Release(r) ELSE UNCHANGED policyVars
  /\ UNCHANGED <<adminVars, cacheVars, list, retried, outcome, sent, records,
                 pledge, backed>>

Handler(r) ==
  \/ Arrive(r) \/ UseCache(r) \/ BeginRefresh(r) \/ EndRefresh(r)
  \/ RefreshTimesOut(r) \/ Abandon(r) \/ TakeDecision(r) \/ Refuse(r)
  \/ ReadCredentials(r) \/ NoCredentials(r) \/ Dispatch(r)
  \/ TransportFails(r) \/ Rejected(r) \/ Accepted(r) \/ BodyEnds(r)
  \/ Observe(r) \/ Return(r)

Admin ==
  \/ \E m \in Mode : SelectMode(m)
  \/ ApplyMode
  \/ \E a \in Account, s \in {"enabled", "disabled", "absent"} : ChangeAccount(a, s)

Child == \E a \in Account : Hang(a) \/ Recover(a)

GNext == Admin \/ Child \/ Tick \/ \E r \in Request : Handler(r)

\* Handlers run on.  The reads of capacity and the wait for the head of a
\* response have timeouts; a connection upstream no longer reads from is taken
\* to fail, and fewer handlers are at work than MaxConnsPerHost, 32.  A child
\* that hangs need not recover, and a body has no time limit.
Fairness ==
  /\ WF_gvars(ApplyMode)
  /\ \A r \in Request :
       /\ WF_gvars(UseCache(r) \/ BeginRefresh(r))
       /\ WF_gvars(EndRefresh(r) \/ RefreshTimesOut(r))
       /\ WF_gvars(TakeDecision(r) \/ Refuse(r))
       /\ WF_gvars(ReadCredentials(r) \/ NoCredentials(r))
       /\ WF_gvars(Dispatch(r))
       /\ WF_gvars(TransportFails(r) \/ Rejected(r) \/ Accepted(r))
       /\ WF_gvars(Observe(r)) /\ WF_gvars(Return(r))

GSpec == GInit /\ [][GNext]_gvars

FairGSpec == GSpec /\ Fairness

-----------------------------------------------------------------------------
(* Properties                                                              *)

\* PER-REQUEST-SPENDING.md: an explicitly selected account is charged or
\* nobody is.  A request that arrives with a mode in force, and is decided
\* before it changes, goes to that account and to no other, whatever
\* snapshot the cache still holds (spending.go:82, policy.go:77).
ExplicitAccountOrNobody ==
  \A r \in Request :
    sent[r] /\ pledge[r] \in Account => Payer(r) = pledge[r]

\* A cached candidate is not trusted at the moment of payment: an account
\* charged was enabled at some instant after the decision to charge it
\* (spending.go:152-155).
PayerWasEnabledSinceDecision ==
  \A r \in Request : sent[r] => backed[r]

\* "not-sent" is a promise that nothing was spent, and every other outcome
\* admits that something may have been (gateway.go:141, 183-186).
OutcomeTellsWhetherSent ==
  \A r \in Request :
    pc[r] \in {"observe", "release", "done"} =>
      (sent[r] <=> outcome[r] \notin {"none", "not-sent"})

\* An Auto decision considers every account: a snapshot taken for an explicit
\* account is never reused once the mode is Auto (spending.go:82).
AutoConsidersEveryAccount ==
  \A r \in Request :
    pc[r] = "reserve" /\ pledge[r] = AutoMode =>
      {a \in Account : account[a] # "absent"} \subseteq {c.id : c \in Range(list[r])}

\* A request that went upstream is in the spending history before its load is
\* released (gateway.go:139-156), and a voice call, which releases first, by
\* the time it returns (voice.go:88, 108), until MaxRecords newer ones push it
\* out (spending.go:243-249).
SentReachesTheHistory ==
  \A r \in Request :
    sent[r] /\ (pc[r] = "done" \/ (r \notin Voice /\ ~Holding(r))) =>
      r \in Range(records) \/ Len(records) = MaxRecords

\* Load exists only for handlers still at work (gateway.go:139): when every
\* handler has returned, no account is under pressure.
NoLoadLeftBehind ==
  (\A r \in Request : pc[r] \in {"idle", "done"}) =>
    \A a \in Account : inflight[a] = 0

\* If no child hangs for ever, every request is answered, whatever becomes of
\* the accounts and the mode meanwhile; only an accepted body may take for
\* ever.  One that does hang keeps every request waiting, those of other
\* accounts too: no timeout ends a write to it, which holds up the snapshot
\* and spendCacheMu (gateway.go:120-133, spending.go:62-149, child.go:121-138).
RequestsAreAnswered ==
  <>[](hung = {}) =>
    \A r \in Request : pc[r] = "arrived" ~> pc[r] \in {"streaming", "done"}

=============================================================================
