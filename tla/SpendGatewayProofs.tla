------------------------- MODULE SpendGatewayProofs --------------------------
(***************************************************************************)
(* An explicitly selected account is charged or nobody is: for any number  *)
(* of concurrent requests, accounts and administrative changes.  Then what *)
(* was behind a decision, and what remains of a request after it.  The     *)
(* invariant of SpendPolicy is used where the load is counted.             *)
(***************************************************************************)
EXTENDS SpendGateway, SpendPolicyProofs

\* Snapshots handlers hold, or the cache hands out, are snapshots.
SnapshotInv ==
  /\ storeMode \in Mode
  /\ cache # NoSnapshot => cache.list \in CandidateLists
  /\ pc \in [Request -> Places]
  /\ list \in [Request -> CandidateLists \cup {NoSnapshot}]
  /\ \A r \in Request : pc[r] \in {"refreshing", "reserve"} => list[r] \in CandidateLists

\* What the place of a handler says about its ticket and its record.
PlaceInv ==
  /\ outcome \in [Request -> Outcomes]
  /\ sent \in [Request -> BOOLEAN]
  /\ \A r \in Request :
       /\ pc[r] \in {"idle", "arrived", "refreshing", "reserve"} =>
            ticket[r] = NoTicket /\ ~sent[r] /\ outcome[r] = "none"
       /\ pc[r] \in {"credentials", "dispatch"} =>
            Holding(r) /\ ~sent[r] /\ outcome[r] = "not-sent"
       /\ pc[r] \in {"waiting", "streaming"} => Holding(r) /\ sent[r]
       /\ pc[r] \in {"observe", "release", "done"} =>
            /\ sent[r] <=> outcome[r] \notin {"none", "not-sent"}
            /\ sent[r] => HasTicket(r)
       /\ pc[r] = "done" \/ (pc[r] = "observe" /\ r \in Voice) => ~Holding(r)

\* A pledge is the policy's mode until the decision, and the payer after it.
PledgeInv ==
  /\ pledge \in [Request -> Mode \cup {Nobody}]
  /\ ~mutating => storeMode = mode
  /\ \A r \in Request : pledge[r] \in Mode =>
       /\ Undecided(r) => ~mutating /\ mode = pledge[r]
       /\ HasTicket(r) /\ pledge[r] \in Account => Payer(r) = pledge[r]

-----------------------------------------------------------------------------
(* Snapshots, and the policy underneath                                    *)

\* A child that hangs or recovers touches nothing but hung.
LEMMA ChildSteps ==
  ASSUME Child
  PROVE  /\ UNCHANGED <<policyVars, storeMode, mutating, account, cacheVars, pc, list,
                        retried, outcome, sent, records, pledge, backed>>
         /\ changes' = changes \/ (changes < MaxChanges /\ changes' = changes + 1)
         /\ \E a \in Account : hung' = hung \cup {a} \/ hung' = hung \ {a}
BY DEF Child, Hang, Recover

LEMMA InitSnapshot == GInit => SnapshotInv
  BY DEF GInit, Init, SnapshotInv, Mode, Places

LEMMA NextSnapshot == SnapshotInv /\ [GNext]_gvars => SnapshotInv'
<1> SUFFICES ASSUME SnapshotInv, [GNext]_gvars PROVE SnapshotInv'
  OBVIOUS
<1> USE DEF SnapshotInv, Places, Goto, Finish, FirstDeferred
<1>1. ASSUME NEW m \in Mode, SelectMode(m) PROVE SnapshotInv'
  BY <1>1 DEF SelectMode, cacheVars
<1>2. ASSUME ApplyMode PROVE SnapshotInv'
  BY <1>2 DEF ApplyMode, cacheVars
<1>3. ASSUME NEW a \in Account, NEW s, ChangeAccount(a, s) PROVE SnapshotInv'
  BY <1>3 DEF ChangeAccount, cacheVars
<1>4. ASSUME Tick PROVE SnapshotInv'
  <2>1. \A s \in CandidateLists : Older(s) \in CandidateLists
    BY DEF Older
  <2>2. Older(NoSnapshot) = NoSnapshot
    BY DEF Older
  <2>3. list' \in [Request -> CandidateLists \cup {NoSnapshot}]
    BY <1>4, <2>1, <2>2 DEF Tick
  <2>4. \A r \in Request : list[r] \in CandidateLists => list'[r] \in CandidateLists
    BY <1>4, <2>1 DEF Tick
  <2>5. cache' # NoSnapshot => cache'.list \in CandidateLists
    BY <1>4, <2>1 DEF Tick
  <2>6. QED
    BY <1>4, <2>3, <2>4, <2>5 DEF Tick, adminVars
<1>5. ASSUME NEW r \in Request, Handler(r) PROVE SnapshotInv'
  <2>1. CASE Arrive(r)
    BY <2>1 DEF Arrive, adminVars, cacheVars
  <2>2. CASE UseCache(r)
    BY <2>2 DEF UseCache, CacheUsable, adminVars, cacheVars
  <2>3. CASE BeginRefresh(r)
    BY <2>3 DEF BeginRefresh, adminVars
  <2>4. CASE EndRefresh(r)
    BY <2>4 DEF EndRefresh, adminVars
  <2>5. CASE RefreshTimesOut(r)
    BY <2>5 DEF RefreshTimesOut, adminVars
  <2>6. CASE Abandon(r)
    BY <2>6 DEF Abandon, adminVars
  <2>7. CASE TakeDecision(r)
    BY <2>7 DEF TakeDecision, adminVars, cacheVars
  <2>8. CASE Refuse(r)
    BY <2>8 DEF Refuse, adminVars, cacheVars
  <2>9. CASE \/ ReadCredentials(r) \/ NoCredentials(r) \/ Dispatch(r)
             \/ TransportFails(r) \/ Rejected(r) \/ Accepted(r) \/ BodyEnds(r)
             \/ Observe(r) \/ Return(r)
    BY <2>9 DEF ReadCredentials, NoCredentials, Dispatch, TransportFails,
         Rejected, Accepted, BodyEnds, Observe, Return, adminVars, cacheVars
  <2>10. QED
    BY <1>5, <2>1, <2>2, <2>3, <2>4, <2>5, <2>6, <2>7, <2>8, <2>9 DEF Handler
<1>6. CASE UNCHANGED gvars
  BY <1>6 DEF gvars, adminVars, cacheVars
<1>7. CASE Child
  BY <1>7, ChildSteps DEF cacheVars
<1>8. QED
  BY <1>1, <1>2, <1>3, <1>4, <1>5, <1>6, <1>7 DEF GNext, Admin

LEMMA StepRefines == SnapshotInv /\ [GNext]_gvars => [Next]_vars
<1> SUFFICES ASSUME SnapshotInv, GNext PROVE [Next]_vars
  BY DEF gvars, vars
<1>1. ASSUME NEW m \in Mode, SelectMode(m) PROVE UNCHANGED vars
  BY <1>1 DEF SelectMode, policyVars
<1>2. ASSUME ApplyMode PROVE Next
  BY <1>2 DEF ApplyMode, SnapshotInv, Next
<1>3. ASSUME NEW a \in Account, NEW s, ChangeAccount(a, s) PROVE UNCHANGED vars
  BY <1>3 DEF ChangeAccount, policyVars
<1>4. ASSUME Tick PROVE UNCHANGED vars
  BY <1>4 DEF Tick, policyVars
<1>5. ASSUME NEW r \in Request, Handler(r) PROVE [Next]_vars
  <2>1. CASE TakeDecision(r)
    BY <2>1 DEF TakeDecision, Goto, SnapshotInv, Next
  <2>2. CASE Return(r)
    BY <2>2 DEF Return, policyVars, Next
  <2>3. CASE \/ Arrive(r) \/ UseCache(r) \/ BeginRefresh(r) \/ EndRefresh(r)
             \/ RefreshTimesOut(r) \/ Abandon(r) \/ Refuse(r)
             \/ ReadCredentials(r) \/ NoCredentials(r) \/ Dispatch(r)
             \/ TransportFails(r) \/ Rejected(r) \/ Accepted(r) \/ BodyEnds(r)
             \/ Observe(r)
    BY <2>3 DEF Arrive, UseCache, BeginRefresh, EndRefresh, RefreshTimesOut,
         Abandon, Refuse, ReadCredentials, NoCredentials, Dispatch,
         TransportFails, Rejected, Accepted, BodyEnds, Observe, policyVars
  <2>4. QED
    BY <1>5, <2>1, <2>2, <2>3 DEF Handler
<1>6. CASE Child
  BY <1>6, ChildSteps DEF policyVars
<1>7. QED
  BY <1>1, <1>2, <1>3, <1>4, <1>5, <1>6 DEF GNext, Admin

\* The handlers use the policy through its methods only (gateway.go:134-139,
\* spending.go:53-60), so that its invariant is theirs.
LEMMA PolicySteps == GSpec => Spec
<1>1. GInit => Init
  BY DEF GInit
<1>2. QED
  BY <1>1, InitSnapshot, NextSnapshot, StepRefines, PTL DEF GSpec, Spec

-----------------------------------------------------------------------------
(* Handlers and their tickets                                              *)

GInv == SnapshotInv /\ TypeOK /\ PlaceInv /\ PledgeInv

LEMMA InitGInv == GInit => GInv
<1> SUFFICES ASSUME GInit PROVE GInv
  OBVIOUS
<1>1. TypeOK /\ SnapshotInv
  BY InitIInv, InitSnapshot DEF GInit, IInv
<1>2. PlaceInv
  BY DEF GInit, Init, PlaceInv, Outcomes
<1>3. PledgeInv
  BY NobodyAssumption DEF GInit, Init, PledgeInv, HasTicket, Undecided
<1>4. QED
  BY <1>1, <1>2, <1>3 DEF GInv

LEMMA DecisionKeepsGInv ==
  ASSUME GInv, TypeOK', SnapshotInv', NEW r \in Request, TakeDecision(r)
  PROVE  PlaceInv' /\ PledgeInv'
<1> USE DEF GInv
<1>1. pc[r] = "reserve" /\ pc' = [pc EXCEPT ![r] = "credentials"]
  BY DEF TakeDecision, Goto
<1>2. list[r] \in CandidateLists
  BY <1>1 DEF SnapshotInv
<1>3. PICK c : /\ c.id \in Account
               /\ Allowed(mode, c.id)
               /\ ticket' = [ticket EXCEPT ![r] = Issued(c)]
  BY <1>2, ReserveShape DEF TakeDecision
<1>4. Issued(c) # NoTicket /\ Issued(c).open = TRUE /\ Issued(c).account = c.id
  BY <1>3, IssuedType DEF Issued
<1>5. HasTicket(r)' /\ Holding(r)' /\ Payer(r)' = c.id
  BY <1>3, <1>4 DEF TypeOK, HasTicket, Holding, Payer
<1>6. \A q \in Request : q # r => ticket'[q] = ticket[q] /\ pc'[q] = pc[q]
  BY <1>1, <1>3 DEF TypeOK, SnapshotInv
<1>7. PlaceInv'
  BY <1>1, <1>5, <1>6 DEF TakeDecision, PlaceInv, Holding, HasTicket, SnapshotInv, Outcomes
<1>8. pledge' = pledge /\ mode' = mode /\ storeMode' = storeMode /\ mutating' = mutating
  BY DEF TakeDecision, Reserve, adminVars
<1>9. Undecided(r) /\ ~Undecided(r)'
  BY <1>1 DEF Undecided, SnapshotInv
<1>10. pledge[r] \in Account => c.id = pledge[r]
  BY <1>3, <1>9, AccountAssumption DEF PledgeInv, Mode, Allowed
<1>11. PledgeInv'
  BY <1>5, <1>6, <1>8, <1>9, <1>10 DEF PledgeInv, Undecided, Payer, HasTicket
<1>12. QED
  BY <1>7, <1>11

LEMMA ReturnKeepsGInv ==
  ASSUME GInv, TypeOK', SnapshotInv', NEW r \in Request, Return(r)
  PROVE  PlaceInv' /\ PledgeInv'
<1> USE DEF GInv
<1>1. /\ pc[r] = "release"
      /\ \/ r \in Voice /\ pc' = [pc EXCEPT ![r] = "observe"]
         \/ r \notin Voice /\ pc' = [pc EXCEPT ![r] = "done"]
  BY DEF Return, Goto
<1>2. ticket' = IF Holding(r) THEN [ticket EXCEPT ![r].open = FALSE] ELSE ticket
  BY DEF Return, Release, policyVars, vars
<1>3. /\ ~Holding(r)'
      /\ HasTicket(r)' = HasTicket(r)
      /\ HasTicket(r) => Payer(r)' = Payer(r)
  <2>1. CASE Holding(r)
    <3>1. ticket[r] \in Ticket
      BY <2>1 DEF Holding, HasTicket, TypeOK
    <3>2. ticket'[r] = [ticket[r] EXCEPT !.open = FALSE]
      BY <1>2, <2>1 DEF TypeOK
    <3>3. ticket'[r] \in Ticket /\ ticket'[r].open = FALSE
      BY <3>1, <3>2 DEF Ticket
    <3>4. HasTicket(r)' /\ HasTicket(r)
      BY <2>1, <3>3, TicketAssumption DEF Holding, HasTicket
    <3>5. QED
      BY <3>1, <3>2, <3>3, <3>4 DEF Holding, Payer, Ticket
  <2>2. CASE ~Holding(r)
    BY <1>2, <2>2 DEF Holding, HasTicket, Payer
  <2>3. QED
    BY <2>1, <2>2
<1>4. \A q \in Request : q # r => ticket'[q] = ticket[q] /\ pc'[q] = pc[q]
  BY <1>1, <1>2 DEF TypeOK, SnapshotInv
<1>5. PlaceInv'
  BY <1>1, <1>3, <1>4 DEF Return, PlaceInv, Holding, HasTicket, SnapshotInv
<1>6. /\ pledge' = pledge /\ storeMode' = storeMode /\ mutating' = mutating
      /\ mode' = mode
  BY DEF Return, Release, adminVars, policyVars, vars
<1>7. PledgeInv'
  BY <1>1, <1>3, <1>4, <1>6 DEF PledgeInv, Undecided, Payer, HasTicket, SnapshotInv
<1>8. QED
  BY <1>5, <1>7

\* The other steps of a handler leave every ticket alone.
LEMMA HandlerKeepsGInv ==
  ASSUME GInv, TypeOK', SnapshotInv', NEW r \in Request, Handler(r)
  PROVE  PlaceInv' /\ PledgeInv'
<1> USE DEF GInv, Goto, Finish, FirstDeferred
<1>1. CASE TakeDecision(r)
  BY <1>1, DecisionKeepsGInv
<1>2. CASE Return(r)
  BY <1>2, ReturnKeepsGInv
<1>3. CASE Arrive(r)
  BY <1>3, NobodyAssumption DEF Arrive, PlaceInv, PledgeInv, SnapshotInv, Undecided, Payer,
     Holding, HasTicket, policyVars, vars, adminVars
<1>4. CASE UseCache(r) \/ BeginRefresh(r) \/ EndRefresh(r)
  BY <1>4 DEF UseCache, BeginRefresh, EndRefresh, PlaceInv, PledgeInv, SnapshotInv,
     Undecided, Payer, Holding, HasTicket, policyVars, vars, adminVars
<1>5. CASE RefreshTimesOut(r) \/ Abandon(r) \/ Refuse(r)
  <2>1. /\ ticket' = ticket /\ sent' = sent /\ pledge' = pledge /\ mode' = mode
        /\ storeMode' = storeMode /\ mutating' = mutating
        /\ Undecided(r) /\ ticket[r] = NoTicket /\ ~sent[r] /\ outcome[r] = "none"
        /\ \/ /\ \E p \in {"observe", "release"} : pc' = [pc EXCEPT ![r] = p]
              /\ outcome' = [outcome EXCEPT ![r] = "not-sent"]
           \/ pc' = [pc EXCEPT ![r] = "arrived"] /\ outcome' = outcome
           \/ pc' = [pc EXCEPT ![r] = "done"] /\ outcome' = outcome
    BY <1>5 DEF RefreshTimesOut, Abandon, Refuse, PlaceInv, Undecided, policyVars, vars, adminVars
  <2>2. PlaceInv'
    BY <2>1 DEF PlaceInv, SnapshotInv, Holding, HasTicket, Outcomes
  <2>3. PledgeInv'
    BY <2>1 DEF PledgeInv, SnapshotInv, Undecided, Payer, HasTicket
  <2>4. QED
    BY <2>2, <2>3
<1>6. CASE ReadCredentials(r) \/ NoCredentials(r) \/ Dispatch(r)
  <2>1. /\ ticket' = ticket /\ pledge' = pledge /\ mode' = mode
        /\ storeMode' = storeMode /\ mutating' = mutating
        /\ ~Undecided(r) /\ Holding(r) /\ ~sent[r] /\ outcome[r] = "not-sent"
        /\ outcome' = outcome
        /\ \/ pc' = [pc EXCEPT ![r] = "dispatch"] /\ sent' = sent
           \/ r \in Voice /\ pc' = [pc EXCEPT ![r] = "release"] /\ sent' = sent
           \/ r \notin Voice /\ pc' = [pc EXCEPT ![r] = "observe"] /\ sent' = sent
           \/ pc' = [pc EXCEPT ![r] = "waiting"] /\ sent' = [sent EXCEPT ![r] = TRUE]
    BY <1>6 DEF ReadCredentials, NoCredentials, Dispatch, PlaceInv, Undecided,
       policyVars, vars, adminVars
  <2>2. PlaceInv'
    <3>1. outcome' \in [Request -> Outcomes'] /\ sent' \in [Request -> BOOLEAN]
      BY <2>1 DEF PlaceInv, Outcomes
    <3>2. ASSUME NEW q \in Request, q # r PROVE pc'[q] = pc[q] /\ sent'[q] = sent[q]
      BY <2>1, <3>2 DEF PlaceInv, SnapshotInv
    <3>3. \/ pc'[r] = "dispatch" /\ ~sent'[r]
          \/ r \in Voice /\ pc'[r] = "release" /\ ~sent'[r]
          \/ r \notin Voice /\ pc'[r] = "observe" /\ ~sent'[r]
          \/ pc'[r] = "waiting" /\ sent'[r]
      BY <2>1 DEF PlaceInv, SnapshotInv
    <3>4. QED
      BY <2>1, <3>1, <3>2, <3>3 DEF PlaceInv, Holding, HasTicket
  <2>3. PledgeInv'
    BY <2>1 DEF PledgeInv, SnapshotInv, Undecided, Payer, HasTicket
  <2>4. QED
    BY <2>2, <2>3
<1>7. CASE TransportFails(r) \/ Rejected(r) \/ Accepted(r) \/ BodyEnds(r)
  BY <1>7 DEF TransportFails, Rejected, Accepted, BodyEnds, PlaceInv, PledgeInv, SnapshotInv,
     Undecided, Payer, Holding, HasTicket, Outcomes, policyVars, vars, adminVars
<1>8. CASE Observe(r)
  BY <1>8 DEF Observe, PlaceInv, PledgeInv, SnapshotInv,
     Undecided, Payer, Holding, HasTicket, policyVars, vars, adminVars
<1>9. QED
  BY <1>1, <1>2, <1>3, <1>4, <1>5, <1>6, <1>7, <1>8 DEF Handler

LEMMA NextGInv == GInv /\ TypeOK' /\ [GNext]_gvars => GInv'
<1> SUFFICES ASSUME GInv, TypeOK', [GNext]_gvars PROVE GInv'
  OBVIOUS
<1> USE DEF GInv
<1>1. SnapshotInv'
  BY NextSnapshot
<1>2. ASSUME NEW m \in Mode, SelectMode(m) PROVE PlaceInv' /\ PledgeInv'
  BY <1>2, NobodyAssumption DEF SelectMode, PlaceInv, PledgeInv, Undecided, Payer,
     Holding, HasTicket, policyVars, vars
<1>3. ASSUME ApplyMode PROVE PlaceInv' /\ PledgeInv'
  BY <1>3 DEF ApplyMode, Set, PlaceInv, PledgeInv, Undecided, Payer, Holding, HasTicket
<1>4. ASSUME NEW a \in Account, NEW s, ChangeAccount(a, s) PROVE PlaceInv' /\ PledgeInv'
  BY <1>4 DEF ChangeAccount, PlaceInv, PledgeInv, Undecided, Payer, Holding, HasTicket,
     policyVars, vars
<1>5. ASSUME Tick PROVE PlaceInv' /\ PledgeInv'
  BY <1>5 DEF Tick, PlaceInv, PledgeInv, Undecided, Payer, Holding, HasTicket,
     policyVars, vars, adminVars
<1>6. CASE UNCHANGED gvars
  <2>1. /\ pc' = pc /\ ticket' = ticket /\ mode' = mode /\ outcome' = outcome
        /\ sent' = sent /\ pledge' = pledge /\ storeMode' = storeMode
        /\ mutating' = mutating
    BY <1>6 DEF gvars, vars, adminVars
  <2>2. PlaceInv'
    <3>1. outcome' \in [Request -> Outcomes'] /\ sent' \in [Request -> BOOLEAN]
      BY <2>1 DEF PlaceInv, Outcomes
    <3>2. QED
      BY <2>1, <3>1, ZenonT(30) DEF PlaceInv, Holding, HasTicket
  <2>3. PledgeInv'
    BY <2>1 DEF PledgeInv, Undecided, Payer, HasTicket
  <2>4. QED
    BY <1>1, <2>2, <2>3
<1>7. ASSUME Child PROVE PlaceInv' /\ PledgeInv'
  BY <1>7, ChildSteps DEF PlaceInv, PledgeInv, Undecided, Payer, Holding, HasTicket,
     policyVars, vars
<1>8. QED
  BY <1>1, <1>2, <1>3, <1>4, <1>5, <1>6, <1>7, HandlerKeepsGInv DEF GNext, Admin

LEMMA PolicyInvariant == GSpec => []IInv
  BY PolicySteps, Invariant, PTL

\* What the place of a handler says about its ticket, its record and its pledge
\* holds through every interleaving (ServeHTTP, gateway.go:54).
THEOREM GatewayInvariant == GSpec => []GInv
<1>1. IInv => TypeOK
  BY DEF IInv
<1>2. QED
  BY <1>1, InitGInv, NextGInv, PolicyInvariant, PTL DEF GSpec

\* An explicitly selected account is charged or nobody is, however many
\* requests, mode changes and cached snapshots interleave (policy.go:77).
THEOREM ExplicitAccount == GSpec => []ExplicitAccountOrNobody
<1>1. GInv => ExplicitAccountOrNobody
  BY DEF GInv, PlaceInv, PledgeInv, SnapshotInv, ExplicitAccountOrNobody,
     Holding, Places, Mode
<1>2. QED
  BY <1>1, GatewayInvariant, PTL

\* "not-sent" is reported exactly when nothing went upstream (gateway.go:141).
THEOREM OutcomeIsHonest == GSpec => []OutcomeTellsWhetherSent
<1>1. GInv => OutcomeTellsWhetherSent
  BY DEF GInv, PlaceInv, OutcomeTellsWhetherSent
<1>2. QED
  BY <1>1, GatewayInvariant, PTL

\* When no handler is at work no account carries load (gateway.go:139).
THEOREM LoadReturns == GSpec => []NoLoadLeftBehind
<1>1. GInv /\ IInv => NoLoadLeftBehind
  <2> SUFFICES ASSUME GInv, IInv, \A r \in Request : pc[r] \in {"idle", "done"},
                      NEW a \in Account
               PROVE  inflight[a] = 0
    BY DEF NoLoadLeftBehind
  <2>1. \A r \in Request : ~Holding(r)
    BY DEF GInv, PlaceInv, Holding, HasTicket
  <2>2. OpenOn(a) = {}
    BY <2>1 DEF OpenOn
  <2>3. QED
    BY <2>2, FS_EmptySet DEF IInv, InflightIsOpenTickets
<1>2. QED
  BY <1>1, GatewayInvariant, PolicyInvariant, PTL

-----------------------------------------------------------------------------
(* Shapes                                                                  *)

\* What the type invariant asks besides GInv.
ShapeInv ==
  /\ mutating \in BOOLEAN
  /\ account \in [Account -> {"enabled", "disabled", "absent"}]
  /\ changes \in 0..MaxChanges
  /\ hung \subseteq Account
  /\ cacheMu \in [by : Request, mode : Mode] \cup {Nobody}
  /\ cache \in [mode : Mode, list : CandidateLists, age : 0..CacheTTL] \cup {NoSnapshot}
  /\ retried \in [Request -> BOOLEAN]
  /\ records \in Seq(Request) /\ Len(records) <= MaxRecords
  /\ backed \in [Request -> BOOLEAN]

LEMMA InitShape == GInit => ShapeInv
<1>1. <<>> \in Seq(Request) /\ Len(<<>>) <= MaxRecords /\ 0 \in 0..MaxChanges
  BY CacheAssumption
<1>2. QED
  BY <1>1 DEF GInit, ShapeInv

LEMMA NextShape == GInv /\ ShapeInv /\ [GNext]_gvars => ShapeInv'
<1> SUFFICES ASSUME GInv, ShapeInv, [GNext]_gvars PROVE ShapeInv'
  OBVIOUS
<1> USE DEF ShapeInv, Goto, Finish
<1>0. CASE Child
  BY <1>0, ChildSteps, CacheAssumption DEF cacheVars
<1>1. ASSUME NEW m \in Mode, SelectMode(m) PROVE ShapeInv'
  BY <1>1, CacheAssumption DEF SelectMode, cacheVars
<1>2. ASSUME ApplyMode PROVE ShapeInv'
  BY <1>2 DEF ApplyMode, cacheVars
<1>3. ASSUME NEW a \in Account, NEW s \in {"enabled", "disabled", "absent"},
             ChangeAccount(a, s)
      PROVE  ShapeInv'
  <2>1. backed' \in [Request -> BOOLEAN]
    BY <1>3, ZenonT(30) DEF ChangeAccount, Holding
  <2>2. changes' \in 0..MaxChanges
    BY <1>3, CacheAssumption DEF ChangeAccount
  <2>3. QED
    BY <1>3, <2>1, <2>2 DEF ChangeAccount, cacheVars
<1>4. ASSUME Tick PROVE ShapeInv'
  <2>1. \A s \in CandidateLists : Older(s) \in CandidateLists
    BY DEF Older
  <2>2. cache' \in [mode : Mode, list : CandidateLists, age : 0..CacheTTL] \cup {NoSnapshot}
    <3>1. CASE cache = NoSnapshot
      BY <1>4, <3>1 DEF Tick
    <3>2. CASE cache # NoSnapshot
      <4>1. PICK m \in Mode, l \in CandidateLists, n \in 0..CacheTTL :
              cache = [mode |-> m, list |-> l, age |-> n]
        BY <3>2
      <4>2. cache' = [mode |-> m, list |-> Older(l),
                      age |-> IF n < CacheTTL THEN n + 1 ELSE n]
        BY <1>4, <3>2, <4>1 DEF Tick
      <4>3. (IF n < CacheTTL THEN n + 1 ELSE n) \in 0..CacheTTL
        BY CacheAssumption
      <4>4. QED
        BY <2>1, <4>2, <4>3
    <3>3. QED
      BY <3>1, <3>2
  <2>3. QED
    BY <1>4, <2>2 DEF Tick, adminVars
<1>5. ASSUME NEW r \in Request, Handler(r) PROVE ShapeInv'
  <2>1. CASE BeginRefresh(r)
    BY <2>1 DEF BeginRefresh, adminVars, GInv, SnapshotInv
  <2>2. CASE EndRefresh(r)
    <3>1. cacheMu \in [by : Request, mode : Mode] /\ list[r] \in CandidateLists
      BY <2>2 DEF EndRefresh, Refreshing, GInv, SnapshotInv
    <3>2. QED
      BY <2>2, <3>1, CacheAssumption DEF EndRefresh, adminVars
  <2>3. CASE UseCache(r) \/ RefreshTimesOut(r) \/ Abandon(r)
    BY <2>3 DEF UseCache, RefreshTimesOut, Abandon, adminVars, cacheVars
  <2>4. CASE TakeDecision(r)
    BY <2>4 DEF TakeDecision, adminVars, cacheVars
  <2>5. CASE Observe(r)
    <3>1. Append(records, r) \in Seq(Request) /\ Len(Append(records, r)) = Len(records) + 1
      OBVIOUS
    <3>2. Recent(Append(records, r)) \in Seq(Request)
      BY <3>1, CacheAssumption DEF Recent
    <3>3. Len(Recent(Append(records, r))) <= MaxRecords
      BY <3>1, CacheAssumption DEF Recent
    <3>4. QED
      BY <2>5, <3>2, <3>3 DEF Observe, adminVars, cacheVars
  <2>6. CASE \/ Arrive(r) \/ Refuse(r) \/ ReadCredentials(r) \/ NoCredentials(r)
             \/ Dispatch(r) \/ TransportFails(r) \/ Rejected(r) \/ Accepted(r)
             \/ BodyEnds(r) \/ Return(r)
    BY <2>6 DEF Arrive, Refuse, ReadCredentials, NoCredentials, Dispatch,
         TransportFails, Rejected, Accepted, BodyEnds, Return, adminVars, cacheVars
  <2>7. QED
    BY <1>5, <2>1, <2>2, <2>3, <2>4, <2>5, <2>6 DEF Handler
<1>6. CASE UNCHANGED gvars
  BY <1>6 DEF gvars, adminVars, cacheVars
<1>7. QED
  BY <1>0, <1>1, <1>2, <1>3, <1>4, <1>5, <1>6 DEF GNext, Admin

\* The cache, its lock and the records of handlers and administration keep
\* their shape (spendCandidates, recordSpend, spending.go).
THEOREM ShapesHold == GSpec => []ShapeInv
  BY InitShape, NextShape, GatewayInvariant, PTL DEF GSpec

\* The state of the boundary is well formed, for any number of requests.
THEOREM GatewayTypes == GSpec => []GTypeOK
<1>1. GInv /\ ShapeInv => GTypeOK
  BY DEF GInv, SnapshotInv, PlaceInv, PledgeInv, ShapeInv, GTypeOK
<1>2. QED
  BY <1>1, GatewayInvariant, ShapesHold, PTL

-----------------------------------------------------------------------------
(* Who pays                                                                *)

\* While its credentials are read, a payer that is enabled has been so since
\* the decision; past them it has been.
BackedInv ==
  \A r \in Request :
    /\ pc[r] = "credentials" /\ account[Payer(r)] = "enabled" => backed[r]
    /\ pc[r] = "dispatch" => backed[r]
    /\ sent[r] => backed[r]

LEMMA InitBacked == GInit => BackedInv
  BY DEF GInit, BackedInv

LEMMA NextBacked == GInv /\ ShapeInv /\ BackedInv /\ [GNext]_gvars => BackedInv'
<1> SUFFICES ASSUME GInv, ShapeInv, BackedInv, [GNext]_gvars PROVE BackedInv'
  OBVIOUS
<1> USE DEF BackedInv, Payer, Goto, Finish, FirstDeferred
<1>0. /\ pc \in [Request -> Places] /\ sent \in [Request -> BOOLEAN]
      /\ ticket \in [Request -> Ticket \cup {NoTicket}]
      /\ backed \in [Request -> BOOLEAN]
  BY DEF GInv, SnapshotInv, PlaceInv, TypeOK, ShapeInv
<1>1. ASSUME NEW m \in Mode, SelectMode(m) PROVE BackedInv'
  BY <1>1 DEF SelectMode, policyVars, vars
<1>2. ASSUME ApplyMode PROVE BackedInv'
  BY <1>2 DEF ApplyMode, Set
<1>3. ASSUME NEW a \in Account, NEW s \in {"enabled", "disabled", "absent"},
             ChangeAccount(a, s)
      PROVE  BackedInv'
  <2>1. /\ pc' = pc /\ ticket' = ticket /\ sent' = sent
        /\ account' = [account EXCEPT ![a] = s]
    BY <1>3 DEF ChangeAccount, policyVars, vars
  <2>2. \A r \in Request :
          backed'[r] = (backed[r] \/ (Holding(r) /\ ticket[r].account = a
                                      /\ s = "enabled" /\ ~sent[r]))
    BY <1>3 DEF ChangeAccount
  <2>3. \A r \in Request : backed[r] => backed'[r]
    BY <2>2
  <2>4. ASSUME NEW r \in Request, pc[r] = "credentials",
               account'[ticket[r].account] = "enabled"
        PROVE  backed'[r]
    <3>1. Holding(r) /\ ~sent[r]
      BY <2>4 DEF GInv, PlaceInv
    <3>2. CASE ticket[r].account = a
      <4>1. s = "enabled"
        BY <2>1, <2>4, <3>2 DEF ShapeInv
      <4>2. QED
        BY <2>2, <3>1, <3>2, <4>1
    <3>3. CASE ticket[r].account # a
      <4>1. account[ticket[r].account] = "enabled"
        <5>1. ticket[r].account \in Account
          BY <1>0, <3>1 DEF Holding, HasTicket, Ticket
        <5>2. QED
          BY <2>1, <2>4, <3>3, <5>1 DEF ShapeInv
      <4>2. QED
        BY <2>3, <2>4, <4>1
    <3>4. QED
      BY <3>2, <3>3
  <2>5. QED
    BY <2>1, <2>3, <2>4
<1>4. ASSUME Tick PROVE BackedInv'
  BY <1>4 DEF Tick, policyVars, vars, adminVars
<1>5. ASSUME NEW r \in Request, Handler(r) PROVE BackedInv'
  <2>1. CASE TakeDecision(r)
    <3>1. /\ pc' = [pc EXCEPT ![r] = "credentials"]
          /\ account' = account /\ sent' = sent
          /\ backed' = [backed EXCEPT ![r] = (account[ticket'[r].account] = "enabled")]
      BY <2>1 DEF TakeDecision, adminVars
    <3>2. pc[r] = "reserve" /\ ~sent[r]
      BY <2>1 DEF TakeDecision, GInv, PlaceInv
    <3>3. \A q \in Request : q # r => ticket'[q] = ticket[q]
      BY <1>0, <2>1 DEF TakeDecision, Reserve
    <3>4. QED
      BY <1>0, <3>1, <3>2, <3>3
  <2>2. CASE Return(r)
    <3>1. /\ \E p \in {"observe", "done"} : pc' = [pc EXCEPT ![r] = p]
          /\ account' = account /\ sent' = sent /\ backed' = backed
      BY <2>2 DEF Return, adminVars
    <3>2. \A q \in Request : q # r => ticket'[q] = ticket[q]
      BY <1>0, <2>2 DEF Return, Release, policyVars, vars
    <3>3. QED
      BY <1>0, <3>1, <3>2
  <2>3. CASE \/ Arrive(r) \/ UseCache(r) \/ BeginRefresh(r) \/ EndRefresh(r)
             \/ RefreshTimesOut(r) \/ Abandon(r) \/ Refuse(r)
    BY <1>0, <2>3 DEF Arrive, UseCache, BeginRefresh, EndRefresh, RefreshTimesOut,
         Abandon, Refuse, policyVars, vars, adminVars
  <2>4. CASE ReadCredentials(r)
    BY <1>0, <2>4 DEF ReadCredentials, policyVars, vars, adminVars
  <2>5. CASE Dispatch(r)
    BY <1>0, <2>5 DEF Dispatch, policyVars, vars, adminVars
  <2>6. CASE \/ NoCredentials(r) \/ TransportFails(r) \/ Rejected(r) \/ Accepted(r)
             \/ BodyEnds(r) \/ Observe(r)
    BY <1>0, <2>6 DEF NoCredentials, TransportFails, Rejected, Accepted, BodyEnds,
         Observe, policyVars, vars, adminVars
  <2>7. QED
    BY <1>5, <2>1, <2>2, <2>3, <2>4, <2>5, <2>6 DEF Handler
<1>6. CASE UNCHANGED gvars
  BY <1>6 DEF gvars, vars, adminVars
<1>7. CASE Child
  BY <1>7, ChildSteps DEF policyVars, vars
<1>8. QED
  BY <1>1, <1>2, <1>3, <1>4, <1>5, <1>6, <1>7 DEF GNext, Admin

\* An account charged was enabled at some instant after the decision to
\* charge it (spending.go:152-155).
THEOREM PayerWasEnabled == GSpec => []PayerWasEnabledSinceDecision
<1>1. BackedInv => PayerWasEnabledSinceDecision
  BY DEF BackedInv, PayerWasEnabledSinceDecision
<1>2. QED
  BY <1>1, InitBacked, NextBacked, GatewayInvariant, ShapesHold, PTL DEF GSpec

-----------------------------------------------------------------------------
(* The history of what was sent                                            *)

Recorded(r) == r \in Range(records) \/ Len(records) = MaxRecords

\* A request that was sent holds its load until it has been recorded, and a
\* voice call, which has released it by then, is recorded when it returns.
RecordedInv ==
  \A r \in Request : sent[r] =>
    /\ pc[r] = "observe" /\ r \notin Voice => Holding(r)
    /\ pc[r] = "release" /\ r \notin Voice => Recorded(r)
    /\ pc[r] = "done" => Recorded(r)

LEMMA InitRecorded == GInit => RecordedInv
  BY DEF GInit, RecordedInv

\* One more observation loses none, unless the list is full.
LEMMA RecentKeeps ==
  ASSUME ShapeInv, NEW r \in Request,
         NEW q, q = r \/ q \in Range(records) \/ Len(records) = MaxRecords
  PROVE  LET s == Recent(Append(records, r))
         IN q \in Range(s) \/ Len(s) = MaxRecords
<1> DEFINE more == Append(records, r)
<1>1. /\ more \in Seq(Request) /\ Len(more) = Len(records) + 1
      /\ more[Len(more)] = r
      /\ \A i \in 1..Len(records) : more[i] = records[i]
  BY DEF ShapeInv
<1>2. CASE Len(more) > MaxRecords
  BY <1>1, <1>2, CacheAssumption DEF Recent, ShapeInv
<1>3. CASE ~(Len(more) > MaxRecords)
  <2>1. Recent(more) = more
    BY <1>3 DEF Recent
  <2>2. r \in Range(more)
    BY <1>1 DEF Range, ShapeInv
  <2>3. Range(records) \subseteq Range(more)
    BY <1>1 DEF Range, ShapeInv
  <2>4. Len(records) # MaxRecords
    BY <1>1, <1>3, CacheAssumption DEF ShapeInv
  <2>5. QED
    BY <2>1, <2>2, <2>3, <2>4
<1>4. QED
  BY <1>2, <1>3

LEMMA NextRecorded == GInv /\ ShapeInv /\ RecordedInv /\ [GNext]_gvars => RecordedInv'
<1> SUFFICES ASSUME GInv, ShapeInv, RecordedInv, [GNext]_gvars PROVE RecordedInv'
  OBVIOUS
<1> USE DEF RecordedInv, Recorded, Holding, HasTicket, Goto, Finish
<1>0. /\ pc \in [Request -> Places] /\ sent \in [Request -> BOOLEAN]
      /\ ticket \in [Request -> Ticket \cup {NoTicket}]
  BY DEF GInv, SnapshotInv, PlaceInv, TypeOK
<1>1. ASSUME NEW m \in Mode, SelectMode(m) PROVE RecordedInv'
  BY <1>1 DEF SelectMode, policyVars, vars
<1>2. ASSUME ApplyMode PROVE RecordedInv'
  BY <1>2 DEF ApplyMode, Set
<1>3. ASSUME NEW a \in Account, NEW s, ChangeAccount(a, s) PROVE RecordedInv'
  BY <1>3 DEF ChangeAccount, policyVars, vars
<1>4. ASSUME Tick PROVE RecordedInv'
  BY <1>4 DEF Tick, policyVars, vars
<1>5. ASSUME NEW r \in Request, Handler(r) PROVE RecordedInv'
  <2>1. CASE TakeDecision(r)
    <3>1. /\ pc' = [pc EXCEPT ![r] = "credentials"]
          /\ sent' = sent /\ records' = records
      BY <2>1 DEF TakeDecision
    <3>2. \A q \in Request : q # r => ticket'[q] = ticket[q]
      BY <1>0, <2>1 DEF TakeDecision, Reserve
    <3>3. QED
      BY <1>0, <3>1, <3>2
  <2>2. CASE Return(r)
    <3>1. /\ pc[r] = "release"
          /\ \/ r \in Voice /\ pc' = [pc EXCEPT ![r] = "observe"]
             \/ r \notin Voice /\ pc' = [pc EXCEPT ![r] = "done"]
          /\ sent' = sent /\ records' = records
      BY <2>2 DEF Return
    <3>2. \A q \in Request : q # r => ticket'[q] = ticket[q]
      BY <1>0, <2>2 DEF Return, Release, policyVars, vars
    <3>3. QED
      BY <1>0, <3>1, <3>2
  <2>3. CASE \/ Arrive(r) \/ UseCache(r) \/ BeginRefresh(r) \/ EndRefresh(r)
             \/ RefreshTimesOut(r) \/ Abandon(r) \/ Refuse(r)
    <3>1. ~sent[r]
      BY <2>3 DEF Arrive, UseCache, BeginRefresh, EndRefresh, RefreshTimesOut,
         Abandon, Refuse, GInv, PlaceInv
    <3>2. QED
      BY <1>0, <2>3, <3>1 DEF Arrive, UseCache, BeginRefresh, EndRefresh, RefreshTimesOut,
         Abandon, Refuse, policyVars, vars, adminVars
  <2>4. CASE ReadCredentials(r) \/ Dispatch(r) \/ Accepted(r)
    BY <1>0, <2>4 DEF ReadCredentials, Dispatch, Accepted, policyVars, vars
  <2>5. CASE NoCredentials(r) \/ TransportFails(r) \/ Rejected(r) \/ BodyEnds(r)
    <3>1. ticket[r] # NoTicket /\ ticket[r].open
      BY <2>5 DEF NoCredentials, TransportFails, Rejected, BodyEnds, GInv, PlaceInv
    <3>2. /\ \/ r \in Voice /\ pc' = [pc EXCEPT ![r] = "release"]
             \/ r \notin Voice /\ pc' = [pc EXCEPT ![r] = "observe"]
          /\ sent' = sent /\ records' = records /\ ticket' = ticket
      BY <2>5 DEF NoCredentials, TransportFails, Rejected, BodyEnds, FirstDeferred,
         policyVars, vars
    <3>3. QED
      BY <1>0, <3>1, <3>2
  <2>6. CASE Observe(r)
    <3>1. /\ \/ r \in Voice /\ pc' = [pc EXCEPT ![r] = "done"]
             \/ r \notin Voice /\ pc' = [pc EXCEPT ![r] = "release"]
          /\ sent' = sent /\ ticket' = ticket
          /\ records' = Recent(Append(records, r))
      BY <2>6 DEF Observe, policyVars, vars
    <3>2. \A q \in Request :
            q = r \/ Recorded(q) => Recorded(q)'
      BY <3>1, RecentKeeps
    <3>3. QED
      BY <1>0, <3>1, <3>2
  <2>7. QED
    BY <1>5, <2>1, <2>2, <2>3, <2>4, <2>5, <2>6 DEF Handler
<1>6. CASE UNCHANGED gvars
  BY <1>6 DEF gvars, vars
<1>7. CASE Child
  BY <1>7, ChildSteps DEF policyVars, vars
<1>8. QED
  BY <1>1, <1>2, <1>3, <1>4, <1>5, <1>6, <1>7 DEF GNext, Admin

\* What went upstream is in the history before its load is released, and a
\* voice call's by the time it returns, until newer requests push it out
\* (gateway.go:151-156, voice.go:88-93).
THEOREM SentIsRecorded == GSpec => []SentReachesTheHistory
<1>1. GInv /\ RecordedInv => SentReachesTheHistory
  BY DEF GInv, PlaceInv, SnapshotInv, Places, RecordedInv, Recorded, SentReachesTheHistory
<1>2. QED
  BY <1>1, InitRecorded, NextRecorded, GatewayInvariant, ShapesHold, PTL DEF GSpec

-----------------------------------------------------------------------------
(* What an Auto decision has seen                                          *)

Listed(s, a) == \E i \in DOMAIN s : s[i].id = a
Covers(s) == \A a \in Account : account[a] # "absent" => Listed(s, a)

\* Snapshots taken for Auto cover the accounts, in the cache, in the hands of
\* whoever refreshes it, and with every request that will decide in Auto.
CoverInv ==
  /\ cache # NoSnapshot /\ cache.mode = AutoMode => Covers(cache.list)
  /\ cacheMu # Nobody => /\ pc[cacheMu.by] = "refreshing"
                         /\ cacheMu.mode = AutoMode => Covers(list[cacheMu.by])
  /\ \A r \in Request :
       pc[r] \in {"refreshing", "reserve"} /\ pledge[r] = AutoMode => Covers(list[r])

LEMMA InitCover == GInit => CoverInv
  BY DEF GInit, CoverInv

LEMMA OlderListsTheSame ==
  ASSUME NEW s \in CandidateLists, NEW a, Listed(s, a)
  PROVE  Listed(Older(s), a)
<1>1. PICK i \in DOMAIN s : s[i].id = a
  BY DEF Listed
<1>2. s[i] \in Candidate
  BY <1>1, CandidateAssumption
<1>3. i \in DOMAIN OneTickOlder(s) /\ OneTickOlder(s)[i].id = a
  BY <1>1, <1>2 DEF OneTickOlder, Candidate
<1>4. QED
  BY <1>1, <1>3 DEF Older, Listed

LEMMA ObservedInAuto ==
  ASSUME NEW s, Observes(s), storeMode = AutoMode
  PROVE  Covers(s)
<1> SUFFICES ASSUME NEW a \in Account, account[a] # "absent" PROVE Listed(s, a)
  BY DEF Covers
<1>1. a \in {c.id : c \in Range(s)}
  BY DEF Observes, Allowed
<1>2. QED
  BY <1>1 DEF Range, Listed

LEMMA NextCover == GInv /\ ShapeInv /\ CoverInv /\ [GNext]_gvars => CoverInv'
<1> SUFFICES ASSUME GInv, ShapeInv, CoverInv, [GNext]_gvars PROVE CoverInv'
  OBVIOUS
<1> USE DEF CoverInv, Goto, Finish
<1>0. /\ pc \in [Request -> Places]
      /\ list \in [Request -> CandidateLists \cup {NoSnapshot}]
      /\ pledge \in [Request -> Mode \cup {Nobody}]
      /\ cacheMu # Nobody => cacheMu \in [by : Request, mode : Mode]
      /\ cache # NoSnapshot => cache \in [mode : Mode, list : CandidateLists, age : 0..CacheTTL]
      /\ \A r \in Request : pc[r] \in {"refreshing", "reserve"} => list[r] \in CandidateLists
  BY DEF GInv, SnapshotInv, PledgeInv, ShapeInv
<1>a. ASSUME UNCHANGED account, NEW s PROVE Covers(s)' <=> Covers(s)
  BY <1>a DEF Covers
<1>1. ASSUME NEW m \in Mode, SelectMode(m) PROVE CoverInv'
  <2>1. \A r \in Request : pledge'[r] = AutoMode => pledge[r] = AutoMode
    BY <1>1, NobodyAssumption DEF SelectMode, Mode
  <2>2. QED
    BY <1>1, <2>1 DEF SelectMode, cacheVars, Covers
<1>2. ASSUME ApplyMode PROVE CoverInv'
  BY <1>2 DEF ApplyMode, cacheVars, Covers
<1>3. ASSUME NEW a \in Account, NEW s \in {"enabled", "disabled", "absent"},
             ChangeAccount(a, s)
      PROVE  CoverInv'
  <2>1. \A b \in Account : account'[b] # "absent" => account[b] # "absent"
    BY <1>3 DEF ChangeAccount, ShapeInv
  <2>2. \A l : Covers(l) => Covers(l)'
    BY <2>1 DEF Covers
  <2>3. /\ cache' = cache /\ cacheMu' = cacheMu /\ pc' = pc /\ list' = list
        /\ pledge' = pledge
    BY <1>3 DEF ChangeAccount, cacheVars
  <2>4. QED
    BY <2>2, <2>3
<1>4. ASSUME Tick PROVE CoverInv'
  <2>1. ASSUME NEW l \in CandidateLists, Covers(l) PROVE Covers(Older(l))'
    <3>1. Covers(Older(l))
      BY <2>1, OlderListsTheSame DEF Covers
    <3>2. QED
      BY <1>4, <3>1 DEF Tick, adminVars, Covers
  <2>2. /\ cacheMu' = cacheMu /\ pc' = pc /\ pledge' = pledge
        /\ \A r \in Request : list'[r] = Older(list[r])
    BY <1>4 DEF Tick
  <2>3. cache' # NoSnapshot =>
          /\ cache # NoSnapshot /\ cache'.mode = cache.mode
          /\ cache'.list = Older(cache.list) /\ cache.list \in CandidateLists
    <3>1. CASE cache = NoSnapshot
      BY <1>4, <3>1 DEF Tick
    <3>2. CASE cache # NoSnapshot
      BY <1>0, <1>4, <3>2 DEF Tick
    <3>3. QED
      BY <3>1, <3>2
  <2>4. (cache # NoSnapshot /\ cache.mode = AutoMode => Covers(cache.list))'
    BY <2>1, <2>3 DEF Covers
  <2>5. cacheMu # Nobody => cacheMu.by \in Request /\ list[cacheMu.by] \in CandidateLists
    <3>1. cacheMu # Nobody => cacheMu.by \in Request
      BY <1>0
    <3>2. QED
      BY <1>0, <3>1
  <2>6. (cacheMu # Nobody => /\ pc[cacheMu.by] = "refreshing"
                             /\ cacheMu.mode = AutoMode => Covers(list[cacheMu.by]))'
    BY <2>1, <2>2, <2>5 DEF Covers
  <2>7. (\A r \in Request :
           pc[r] \in {"refreshing", "reserve"} /\ pledge[r] = AutoMode => Covers(list[r]))'
    BY <1>0, <2>1, <2>2 DEF Covers
  <2>8. QED
    BY <2>4, <2>6, <2>7
<1>5. ASSUME NEW r \in Request, Handler(r) PROVE CoverInv'
  <2>0. account' = account
    BY <1>5 DEF Handler, Arrive, UseCache, BeginRefresh, EndRefresh, RefreshTimesOut,
       Abandon, TakeDecision, Refuse, ReadCredentials, NoCredentials, Dispatch,
       TransportFails, Rejected, Accepted, BodyEnds, Observe, Return, adminVars
  <2>1. CASE Arrive(r)
    BY <1>0, <2>0, <2>1 DEF Arrive, cacheVars, Covers
  <2>2. CASE UseCache(r)
    <3>1. pledge[r] = AutoMode => Covers(cache.list)
      BY <2>2 DEF UseCache, CacheUsable, GInv, PledgeInv, Undecided, Mode
    <3>2. QED
      BY <1>0, <2>0, <2>2, <3>1 DEF UseCache, CacheUsable, cacheVars, Covers
  <2>3. CASE BeginRefresh(r)
    <3>1. PICK s \in CandidateLists : Observes(s) /\ list' = [list EXCEPT ![r] = s]
      BY <2>3 DEF BeginRefresh
    <3>2. storeMode = AutoMode => Covers(s)
      BY <3>1, ObservedInAuto
    <3>3. pledge[r] = AutoMode => storeMode = AutoMode
      BY <2>3 DEF BeginRefresh, GInv, PledgeInv, Undecided, Mode
    <3>4. /\ pc[r] = "arrived" /\ pc' = [pc EXCEPT ![r] = "refreshing"]
          /\ cacheMu' = [by |-> r, mode |-> storeMode]
          /\ cache' = cache /\ pledge' = pledge
      BY <2>3 DEF BeginRefresh
    <3>5. QED
      BY <1>0, <2>0, <3>1, <3>2, <3>3, <3>4 DEF Covers
  <2>4. CASE EndRefresh(r)
    BY <1>0, <2>0, <2>4 DEF EndRefresh, Refreshing, Covers
  <2>5. CASE RefreshTimesOut(r)
    <3>1. /\ pc[r] = "refreshing" /\ cacheMu' = Nobody
          /\ list' = [list EXCEPT ![r] = NoSnapshot]
          /\ \E p \in {"observe", "release", "arrived"} : pc' = [pc EXCEPT ![r] = p]
          /\ cache' = cache /\ pledge' = pledge
      BY <2>5 DEF RefreshTimesOut, FirstDeferred
    <3>2. QED
      BY <1>0, <2>0, <3>1 DEF Covers
  <2>6. CASE Abandon(r)
    <3>1. /\ \/ pc[r] = "arrived" /\ cacheMu' = cacheMu
             \/ pc[r] = "refreshing" /\ cacheMu' = Nobody
          /\ list' = [list EXCEPT ![r] = NoSnapshot]
          /\ \E p \in {"observe", "release"} : pc' = [pc EXCEPT ![r] = p]
          /\ cache' = cache /\ pledge' = pledge
      BY <2>6 DEF Abandon, FirstDeferred
    <3>2. cacheMu' # Nobody => cacheMu' = cacheMu /\ cacheMu.by # r /\ cacheMu.by \in Request
      BY <1>0, <3>1
    <3>3. QED
      BY <1>0, <2>0, <3>1, <3>2 DEF Covers
  <2>7. CASE TakeDecision(r) \/ Refuse(r)
    <3>1. /\ pc[r] = "reserve" /\ list' = [list EXCEPT ![r] = NoSnapshot]
          /\ \E p \in {"credentials", "observe", "release", "done"} : pc' = [pc EXCEPT ![r] = p]
          /\ cache' = cache /\ cacheMu' = cacheMu /\ pledge' = pledge
      BY <2>7 DEF TakeDecision, Refuse, FirstDeferred, cacheVars
    <3>2. cacheMu # Nobody => cacheMu.by # r /\ cacheMu.by \in Request
      BY <1>0, <3>1
    <3>3. QED
      BY <1>0, <2>0, <3>1, <3>2 DEF Covers
  <2>8. CASE \/ ReadCredentials(r) \/ NoCredentials(r) \/ Dispatch(r)
             \/ TransportFails(r) \/ Rejected(r) \/ Accepted(r) \/ BodyEnds(r)
             \/ Observe(r) \/ Return(r)
    <3>1. /\ pc[r] \notin {"refreshing", "reserve"}
          /\ \E p \in Places \ {"refreshing", "reserve"} : pc' = [pc EXCEPT ![r] = p]
          /\ list' = list /\ cache' = cache /\ cacheMu' = cacheMu /\ pledge' = pledge
      BY <2>8 DEF ReadCredentials, NoCredentials, Dispatch, TransportFails, Rejected,
         Accepted, BodyEnds, Observe, Return, FirstDeferred, cacheVars, Places
    <3>2. cacheMu # Nobody => cacheMu.by # r /\ cacheMu.by \in Request
      BY <1>0, <3>1
    <3>3. QED
      BY <1>0, <2>0, <3>1, <3>2 DEF Covers
  <2>9. QED
    BY <1>5, <2>1, <2>2, <2>3, <2>4, <2>5, <2>6, <2>7, <2>8 DEF Handler
<1>6. CASE UNCHANGED gvars
  BY <1>6 DEF gvars, adminVars, cacheVars, Covers
<1>7. CASE Child
  BY <1>7, ChildSteps DEF cacheVars, Covers
<1>8. QED
  BY <1>1, <1>2, <1>3, <1>4, <1>5, <1>6, <1>7 DEF GNext, Admin

\* A decision in Auto has every account before it: no snapshot taken for an
\* explicit account is reused (spending.go:82).
THEOREM AutoConsidersAll == GSpec => []AutoConsidersEveryAccount
<1>1. CoverInv /\ GInv => AutoConsidersEveryAccount
  <2> SUFFICES ASSUME CoverInv, GInv, NEW r \in Request, pc[r] = "reserve",
                      pledge[r] = AutoMode, NEW a \in Account, account[a] # "absent"
               PROVE  a \in {c.id : c \in Range(list[r])}
    BY DEF AutoConsidersEveryAccount
  <2>1. PICK i \in DOMAIN list[r] : list[r][i].id = a
    BY DEF CoverInv, Covers, Listed
  <2>2. list[r][i] \in Range(list[r])
    BY DEF Range
  <2>3. QED
    BY <2>1, <2>2
<1>2. QED
  BY <1>1, InitCover, NextCover, GatewayInvariant, ShapesHold, PTL DEF GSpec
=============================================================================
