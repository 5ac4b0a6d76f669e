----------------------------- MODULE SpendPolicy -----------------------------
(***************************************************************************)
(* The billing policy of internal/spend/policy.go: which subscription pays *)
(* for one inference.  A Policy is a mutex around a mode, two counters and *)
(* a map of responses in flight, so every method is one atomic step:       *)
(*                                                                         *)
(*   Set(m)         an administrator selects Auto or one account               *)
(*   Reserve(r,cs)  request r takes a decision over a snapshot of accounts *)
(*   Release(r)     the closure Reserve returned; sync.Once turns a second *)
(*                  call into no step at all                               *)
(*                                                                         *)
(* A Reserve that returns an error changes nothing; Refused says when.     *)
(*                                                                         *)
(* Remaining and Urgency are floats in the code; here they are integers,   *)
(* which keeps the comparisons.  NaN and infinities are "not Known".       *)
(***************************************************************************)
EXTENDS Integers, Sequences, FiniteSets, Functions

CONSTANTS
  Account,        \* account identities; their order stands for string order
  Request,        \* callers of Reserve
  CandidateLists, \* the snapshots callers may pass to Reserve
  MaxAge,         \* Policy.maxAge
  MaxSequence,    \* bound on the number of reservations explored
  MaxRevision,    \* bound on the number of mode changes explored
  AutoMode,       \* Mode{AccountID: ""}
  NoTicket        \* a caller that holds no decision yet

Candidate ==
  [id : Account, enabled : BOOLEAN, connected : BOOLEAN, known : BOOLEAN,
   remaining : Int, urgency : Int, age : Int]

ASSUME AccountAssumption    == Account \subseteq Int /\ AutoMode \notin Account
ASSUME RequestAssumption    == IsFiniteSet(Request)
ASSUME CandidateAssumption  == CandidateLists \subseteq Seq(Candidate)
ASSUME BoundAssumption      == /\ MaxAge \in Nat
                               /\ MaxSequence \in Nat
                               /\ MaxRevision \in Nat

Mode == Account \cup {AutoMode}

Ticket == [sequence : Nat, revision : Nat, account : Account,
           reason : {"auto", "strict"}, open : BOOLEAN]

ASSUME TicketAssumption == NoTicket \notin Ticket

VARIABLES
  mode,      \* Policy.mode
  revision,  \* Policy.revision
  sequence,  \* Policy.sequence
  inflight,  \* Policy.inflight, 0 for an account the map does not hold
  ticket     \* the Decision each caller holds, and whether its Once is unused

vars == <<mode, revision, sequence, inflight, ticket>>

TypeOK ==
  /\ mode \in Mode
  /\ revision \in Nat
  /\ sequence \in Nat
  /\ inflight \in [Account -> Nat]
  /\ ticket \in [Request -> Ticket \cup {NoTicket}]

\* A policy is Auto until EnableRequestSpending sets the mode the store kept.
Init ==
  /\ mode \in Mode
  /\ revision = IF mode = AutoMode THEN 0 ELSE 1
  /\ sequence = 0
  /\ inflight = [a \in Account |-> 0]
  /\ ticket = [r \in Request |-> NoTicket]

-----------------------------------------------------------------------------
(* What Reserve decides                                                    *)

\* An identity listed twice makes the whole snapshot invalid.
Distinct(list) ==
  \A i, j \in DOMAIN list : list[i].id = list[j].id => i = j

\* The account can pay: everything Reserve asks of a candidate but the mode.
CanPay(c) ==
  /\ c.enabled /\ c.connected /\ c.known
  /\ c.age >= 0 /\ c.age <= MaxAge
  /\ c.remaining > 0 /\ c.remaining <= 100

\* Fault: the mode is not consulted.
AllowedAlways(m, id) == TRUE

Allowed(m, id) == m = AutoMode \/ m = id

Eligible(list, m) == {c \in Range(list) : CanPay(c) /\ Allowed(m, c.id)}

\* Urgency per response in flight, compared without dividing.
Pressure(c, load, d) == c.urgency * (1 + load[d.id])

\* The order sort.Slice is given: x comes before y.
Before(x, y, load) ==
  LET px == Pressure(x, load, y)
      py == Pressure(y, load, x)
  IN  \/ px > py
      \/ px = py /\ load[x.id] < load[y.id]
      \/ px = py /\ load[x.id] = load[y.id] /\ x.remaining > y.remaining
      \/ /\ px = py /\ load[x.id] = load[y.id] /\ x.remaining = y.remaining
         /\ x.id < y.id

\* The candidates nothing in the eligible set is sorted before.
Best(set, load) == {c \in set : \A d \in set \ {c} : ~Before(d, c, load)}

-----------------------------------------------------------------------------
(* The methods                                                             *)

\* Fault: a mode change that keeps the revision.
SetSameRevision(m) ==
  /\ m # mode
  /\ mode' = m
  /\ UNCHANGED <<revision, sequence, inflight, ticket>>

Set(m) ==
  /\ m # mode
  /\ revision < MaxRevision
  /\ mode' = m
  /\ revision' = revision + 1
  /\ UNCHANGED <<sequence, inflight, ticket>>

HasTicket(r) == ticket[r] # NoTicket

\* The caller holds a decision whose sync.Once has not run.
Holding(r) == HasTicket(r) /\ ticket[r].open

Reserve(r, list) ==
  /\ ~Holding(r)
  /\ sequence < MaxSequence
  /\ Distinct(list)
  /\ \E c \in Best(Eligible(list, mode), inflight) :
       /\ inflight' = [inflight EXCEPT ![c.id] = @ + 1]
       /\ ticket' = [ticket EXCEPT ![r] =
            [sequence |-> sequence + 1, revision |-> revision,
             account |-> c.id, open |-> TRUE,
             reason |-> IF mode = AutoMode THEN "auto" ELSE "strict"]]
  /\ sequence' = sequence + 1
  /\ UNCHANGED <<mode, revision>>

Release(r) ==
  /\ Holding(r)
  /\ inflight' = [inflight EXCEPT ![ticket[r].account] = @ - 1]
  /\ ticket' = [ticket EXCEPT ![r].open = FALSE]
  /\ UNCHANGED <<mode, revision, sequence>>

\* The errors: a repeated identity, ErrUnavailable, ErrNoCapacity.
Refused(list, m) == ~Distinct(list) \/ Eligible(list, m) = {}

Next ==
  \/ \E m \in Mode : Set(m)
  \/ \E r \in Request, list \in CandidateLists : Reserve(r, list)
  \/ \E r \in Request : Release(r)

Spec == Init /\ [][Next]_vars

-----------------------------------------------------------------------------
(* Properties                                                              *)

OpenOn(a) == {r \in Request : Holding(r) /\ ticket[r].account = a}

\* The load Reserve balances by is exactly the number of responses that were
\* reserved on an account and not released: no path of Reserve or release
\* leaks or double-counts one (policy.go:103, 114-117).
InflightIsOpenTickets ==
  \A a \in Account : inflight[a] = Cardinality(OpenOn(a))

\* A policy revision identifies the instruction a decision was taken under
\* (policy.go:51-58): two strict decisions of one revision charge one
\* account, strict and auto decisions never share one, and a decision of the
\* current revision obeys the current mode.
RevisionIdentifiesMode ==
  /\ \A r, s \in Request :
       HasTicket(r) /\ HasTicket(s) /\ ticket[r].revision = ticket[s].revision =>
         /\ ticket[r].reason = ticket[s].reason
         /\ ticket[r].reason = "strict" => ticket[r].account = ticket[s].account
  /\ \A r \in Request :
       HasTicket(r) /\ ticket[r].revision = revision =>
         IF mode = AutoMode THEN ticket[r].reason = "auto"
         ELSE ticket[r].reason = "strict" /\ ticket[r].account = mode

\* Decisions are numbered in the order they are taken, and a later decision
\* never carries an older revision (policy.go:62-64, 108).
NewDecisionIsLast(r) ==
  \A s \in Request : HasTicket(s) =>
    /\ ticket[s].sequence < ticket'[r].sequence
    /\ ticket[s].revision <= ticket'[r].revision

DecisionsAreOrdered ==
  [][\A r \in Request :
       ticket'[r] # ticket[r] /\ Holding(r)' => NewDecisionIsLast(r)]_vars

=============================================================================
