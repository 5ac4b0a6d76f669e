-------------------------- MODULE SpendPolicyProofs --------------------------
(***************************************************************************)
(* What SpendPolicy promises, for every set of accounts and callers, every *)
(* family of snapshots and every bound.                                    *)
(***************************************************************************)
EXTENDS SpendPolicy, FiniteSetTheorems, TLAPS

\* The ticket Reserve writes for a winner c.
Issued(c) ==
  [sequence |-> sequence + 1, revision |-> revision, account |-> c.id,
   open |-> TRUE, reason |-> IF mode = AutoMode THEN "auto" ELSE "strict"]

\* No ticket is from the future.
TicketsArePast ==
  \A r \in Request : HasTicket(r) =>
    ticket[r].sequence <= sequence /\ ticket[r].revision <= revision

IInv ==
  /\ TypeOK
  /\ InflightIsOpenTickets
  /\ TicketsArePast
  /\ RevisionIdentifiesMode

LEMMA EligibleType ==
  ASSUME NEW s \in CandidateLists, NEW m \in Mode
  PROVE  Eligible(s, m) \subseteq {c \in Candidate : Allowed(m, c.id)}
<1>1. s \in Seq(Candidate)
  BY CandidateAssumption
<1>2. Range(s) \subseteq Candidate
  BY <1>1 DEF Range
<1>3. QED
  BY <1>2 DEF Eligible

\* The winner of a reservation is a known account the mode allows.
LEMMA BestType ==
  ASSUME NEW s \in CandidateLists, NEW m \in Mode, NEW load,
         NEW c \in Best(Eligible(s, m), load)
  PROVE  c.id \in Account /\ Allowed(m, c.id)
<1>1. c \in Eligible(s, m)
  BY DEF Best
<1>2. c \in Candidate /\ Allowed(m, c.id)
  BY <1>1, EligibleType
<1>3. QED
  BY <1>2 DEF Candidate

LEMMA ReserveShape ==
  ASSUME TypeOK, NEW r \in Request, NEW s \in CandidateLists, Reserve(r, s)
  PROVE  \E c \in Best(Eligible(s, mode), inflight) :
           /\ c.id \in Account
           /\ Allowed(mode, c.id)
           /\ inflight' = [inflight EXCEPT ![c.id] = @ + 1]
           /\ ticket' = [ticket EXCEPT ![r] = Issued(c)]
<1>1. PICK c \in Best(Eligible(s, mode), inflight) :
        /\ inflight' = [inflight EXCEPT ![c.id] = @ + 1]
        /\ ticket' = [ticket EXCEPT ![r] = Issued(c)]
  BY DEF Reserve, Issued
<1>2. c.id \in Account /\ Allowed(mode, c.id)
  BY BestType DEF TypeOK
<1>3. QED
  BY <1>1, <1>2

LEMMA IssuedType ==
  ASSUME TypeOK, NEW c, c.id \in Account
  PROVE  /\ Issued(c) \in Ticket
         /\ Issued(c) # NoTicket
<1> DEFINE why == IF mode = AutoMode THEN "auto" ELSE "strict"
<1>1. why \in {"auto", "strict"}
  OBVIOUS
<1>2. sequence + 1 \in Nat /\ revision \in Nat
  BY DEF TypeOK
<1>3. Issued(c) \in Ticket
  <2> HIDE DEF why
  <2>1. Issued(c) = [sequence |-> sequence + 1, revision |-> revision,
                     account |-> c.id, open |-> TRUE, reason |-> why]
    BY DEF Issued, why
  <2>2. QED
    BY <1>1, <1>2, <2>1 DEF Ticket
<1>4. QED
  BY <1>3, TicketAssumption

-----------------------------------------------------------------------------
(* The load                                                                *)

LEMMA OpenOnFinite ==
  ASSUME NEW a \in Account
  PROVE  IsFiniteSet(OpenOn(a)) /\ Cardinality(OpenOn(a)) \in Nat
<1>1. IsFiniteSet(OpenOn(a))
  BY RequestAssumption, FS_Subset DEF OpenOn
<1>2. QED
  BY <1>1, FS_CardinalityType

\* A reservation opens exactly one ticket, on the account it charges.
LEMMA ReserveOpens ==
  ASSUME TypeOK, NEW r \in Request, NEW c, c.id \in Account, ~Holding(r),
         ticket' = [ticket EXCEPT ![r] = Issued(c)], NEW a \in Account
  PROVE  OpenOn(a)' = IF a = c.id THEN OpenOn(a) \cup {r} ELSE OpenOn(a)
<1>1. ticket'[r] = Issued(c) /\ Issued(c) # NoTicket
  BY IssuedType DEF TypeOK
<1>2. Holding(r)' /\ ticket'[r].account = c.id
  BY <1>1 DEF Holding, HasTicket, Issued
<1>3. \A q \in Request : q # r =>
        Holding(q)' = Holding(q) /\ ticket'[q] = ticket[q]
  BY DEF Holding, HasTicket, TypeOK
<1>4. QED
  BY <1>2, <1>3 DEF OpenOn

\* A release closes exactly one ticket, on the account it was charged to.
LEMMA ReleaseCloses ==
  ASSUME TypeOK, NEW r \in Request, Release(r), NEW a \in Account
  PROVE  OpenOn(a)' = IF a = ticket[r].account THEN OpenOn(a) \ {r} ELSE OpenOn(a)
<1>1. ticket[r] \in Ticket /\ ticket[r] # NoTicket
  BY DEF TypeOK, Release, Holding, HasTicket
<1>2. ~Holding(r)'
  BY <1>1 DEF Release, Holding, HasTicket, TypeOK, Ticket
<1>3. \A q \in Request : q # r =>
        Holding(q)' = Holding(q) /\ ticket'[q] = ticket[q]
  BY DEF Release, Holding, HasTicket, TypeOK
<1>4. QED
  BY <1>2, <1>3 DEF OpenOn

LEMMA ReserveKeepsLoad ==
  ASSUME TypeOK, InflightIsOpenTickets,
         NEW r \in Request, NEW s \in CandidateLists, Reserve(r, s)
  PROVE  inflight' \in [Account -> Nat] /\ InflightIsOpenTickets'
<1>1. PICK c : /\ c.id \in Account
               /\ inflight' = [inflight EXCEPT ![c.id] = @ + 1]
               /\ ticket' = [ticket EXCEPT ![r] = Issued(c)]
  BY ReserveShape
<1>2. inflight' \in [Account -> Nat]
  BY <1>1 DEF TypeOK
<1>3. ASSUME NEW a \in Account
      PROVE  inflight'[a] = Cardinality(OpenOn(a)')
  <2>1. OpenOn(a)' = IF a = c.id THEN OpenOn(a) \cup {r} ELSE OpenOn(a)
    BY <1>1, ReserveOpens DEF Reserve
  <2>2. r \notin OpenOn(a)
    BY DEF Reserve, OpenOn
  <2>3. Cardinality(OpenOn(a) \cup {r}) = Cardinality(OpenOn(a)) + 1
    BY <2>2, OpenOnFinite, FS_AddElement
  <2>4. inflight[a] = Cardinality(OpenOn(a))
    BY DEF InflightIsOpenTickets
  <2>5. QED
    BY <1>1, <2>1, <2>3, <2>4 DEF TypeOK
<1>4. QED
  BY <1>2, <1>3 DEF InflightIsOpenTickets

LEMMA ReleaseKeepsLoad ==
  ASSUME TypeOK, InflightIsOpenTickets, NEW r \in Request, Release(r)
  PROVE  inflight' \in [Account -> Nat] /\ InflightIsOpenTickets'
<1> DEFINE payer == ticket[r].account
<1>1. Holding(r) /\ inflight' = [inflight EXCEPT ![payer] = @ - 1]
  BY DEF Release
<1>2. payer \in Account
  BY <1>1 DEF Holding, HasTicket, TypeOK, Ticket
<1>3. r \in OpenOn(payer)
  BY <1>1 DEF OpenOn
<1>4. Cardinality(OpenOn(payer) \ {r}) = Cardinality(OpenOn(payer)) - 1
  BY <1>2, <1>3, OpenOnFinite, FS_RemoveElement
<1>5. Cardinality(OpenOn(payer) \ {r}) \in Nat
  BY <1>2, OpenOnFinite, FS_RemoveElement, FS_CardinalityType, FS_Subset
<1>6. inflight[payer] - 1 = Cardinality(OpenOn(payer) \ {r})
  BY <1>2, <1>4 DEF InflightIsOpenTickets
<1>7. inflight' \in [Account -> Nat]
  BY <1>1, <1>2, <1>5, <1>6 DEF TypeOK
<1>8. ASSUME NEW a \in Account
      PROVE  inflight'[a] = Cardinality(OpenOn(a)')
  <2>1. OpenOn(a)' = IF a = payer THEN OpenOn(a) \ {r} ELSE OpenOn(a)
    BY ReleaseCloses
  <2>2. CASE a = payer
    BY <1>1, <1>2, <1>6, <2>1, <2>2 DEF TypeOK
  <2>3. CASE a # payer
    BY <1>1, <2>1, <2>3 DEF TypeOK, InflightIsOpenTickets
  <2>4. QED
    BY <2>2, <2>3
<1>9. QED
  BY <1>7, <1>8 DEF InflightIsOpenTickets

-----------------------------------------------------------------------------
(* Tickets and revisions                                                   *)

LEMMA ReserveKeepsTickets ==
  ASSUME TypeOK, TicketsArePast, RevisionIdentifiesMode,
         NEW r \in Request, NEW s \in CandidateLists, Reserve(r, s)
  PROVE  /\ ticket' \in [Request -> Ticket \cup {NoTicket}]
         /\ TicketsArePast'
         /\ RevisionIdentifiesMode'
<1>1. PICK c : /\ c.id \in Account
               /\ Allowed(mode, c.id)
               /\ ticket' = [ticket EXCEPT ![r] = Issued(c)]
  BY ReserveShape
<1>2. Issued(c) \in Ticket /\ Issued(c) # NoTicket
  BY <1>1, IssuedType
<1>3. ticket' \in [Request -> Ticket \cup {NoTicket}]
  BY <1>1, <1>2 DEF TypeOK
<1>4. ticket'[r] = Issued(c) /\ HasTicket(r)'
  BY <1>1, <1>2 DEF TypeOK, HasTicket
<1>5. \A q \in Request : q # r => ticket'[q] = ticket[q] /\ HasTicket(q)' = HasTicket(q)
  BY <1>1 DEF TypeOK, HasTicket
<1>6. sequence' = sequence + 1 /\ revision' = revision /\ mode' = mode
  BY DEF Reserve
<1>7. /\ Issued(c).sequence = sequence + 1
      /\ Issued(c).revision = revision
      /\ Issued(c).account = c.id
      /\ Issued(c).reason = IF mode = AutoMode THEN "auto" ELSE "strict"
  BY DEF Issued
<1>8. TicketsArePast'
  <2>1. ASSUME NEW q \in Request, HasTicket(q)'
        PROVE  ticket'[q].sequence <= sequence' /\ ticket'[q].revision <= revision'
    <3>1. CASE q = r
      BY <1>4, <1>6, <1>7, <3>1 DEF TypeOK
    <3>2. CASE q # r
      <4>1. ticket[q] \in Ticket /\ HasTicket(q)
        BY <1>5, <2>1, <3>2 DEF TypeOK, HasTicket
      <4>2. ticket[q].sequence \in Nat /\ ticket[q].sequence <= sequence
        BY <4>1 DEF Ticket, TicketsArePast
      <4>3. QED
        BY <1>5, <1>6, <3>2, <4>1, <4>2 DEF TypeOK, TicketsArePast
    <3>3. QED
      BY <3>1, <3>2
  <2>2. QED
    BY <2>1 DEF TicketsArePast
\* The new ticket agrees with the current mode, as every ticket of this
\* revision already does; so any two of this revision agree.
<1>9. ASSUME NEW q \in Request, HasTicket(q)', ticket'[q].revision = revision'
      PROVE  IF mode = AutoMode THEN ticket'[q].reason = "auto"
             ELSE ticket'[q].reason = "strict" /\ ticket'[q].account = mode
  <2>1. CASE q = r
    BY <1>1, <1>4, <1>7, <2>1 DEF Allowed
  <2>2. CASE q # r
    BY <1>5, <1>6, <1>9, <2>2 DEF RevisionIdentifiesMode
  <2>3. QED
    BY <2>1, <2>2
<1>10. ASSUME NEW p \in Request, NEW q \in Request, HasTicket(p)', HasTicket(q)',
              ticket'[p].revision = ticket'[q].revision
       PROVE  /\ ticket'[p].reason = ticket'[q].reason
              /\ ticket'[p].reason = "strict" => ticket'[p].account = ticket'[q].account
  <2>1. CASE ticket'[p].revision = revision'
    BY <1>9, <1>10, <2>1
  <2>2. CASE ticket'[p].revision # revision'
    <3>1. p # r /\ q # r
      BY <1>4, <1>6, <1>7, <1>10, <2>2
    <3>2. QED
      BY <1>5, <1>10, <3>1 DEF RevisionIdentifiesMode
  <2>3. QED
    BY <2>1, <2>2
<1>11. RevisionIdentifiesMode'
  BY <1>6, <1>9, <1>10 DEF RevisionIdentifiesMode
<1>12. QED
  BY <1>3, <1>8, <1>11

LEMMA ReleaseKeepsTickets ==
  ASSUME TypeOK, TicketsArePast, RevisionIdentifiesMode,
         NEW r \in Request, Release(r)
  PROVE  /\ ticket' \in [Request -> Ticket \cup {NoTicket}]
         /\ TicketsArePast'
         /\ RevisionIdentifiesMode'
<1>1. ticket[r] \in Ticket /\ ticket' = [ticket EXCEPT ![r].open = FALSE]
  BY DEF TypeOK, Release, Holding, HasTicket
<1>2. ticket'[r] \in Ticket
  BY <1>1 DEF TypeOK, Ticket
<1>3. ticket' \in [Request -> Ticket \cup {NoTicket}]
  BY <1>1, <1>2 DEF TypeOK
<1>4. HasTicket(r) /\ HasTicket(r)'
  BY <1>2, TicketAssumption DEF Release, Holding, HasTicket
<1>5. \A q \in Request :
        /\ HasTicket(q)' = HasTicket(q)
        /\ HasTicket(q) => /\ ticket'[q].sequence = ticket[q].sequence
                           /\ ticket'[q].revision = ticket[q].revision
                           /\ ticket'[q].account = ticket[q].account
                           /\ ticket'[q].reason = ticket[q].reason
  BY <1>1, <1>4 DEF TypeOK, Ticket, HasTicket
<1>6. sequence' = sequence /\ revision' = revision /\ mode' = mode
  BY DEF Release
<1>7. TicketsArePast'
  BY <1>5, <1>6 DEF TicketsArePast
<1>8. RevisionIdentifiesMode'
  BY <1>5, <1>6 DEF RevisionIdentifiesMode
<1>9. QED
  BY <1>3, <1>7, <1>8

\* A mode change opens a revision no ticket carries yet.
LEMMA SetKeepsTickets ==
  ASSUME TypeOK, TicketsArePast, RevisionIdentifiesMode, NEW m \in Mode, Set(m)
  PROVE  TicketsArePast' /\ RevisionIdentifiesMode'
<1>1. /\ ticket' = ticket /\ sequence' = sequence
      /\ revision' = revision + 1 /\ mode' = m
  BY DEF Set
<1>2. ASSUME NEW q \in Request, HasTicket(q)
      PROVE  ticket[q].revision \in Nat /\ ticket[q].revision <= revision
  BY <1>2 DEF TypeOK, HasTicket, Ticket, TicketsArePast
<1>3. TicketsArePast'
  BY <1>1, <1>2 DEF TicketsArePast, TypeOK, HasTicket
<1>4. RevisionIdentifiesMode'
  <2>1. \A q \in Request : HasTicket(q)' => ticket'[q].revision # revision'
    BY <1>1, <1>2 DEF TypeOK, HasTicket
  <2>2. QED
    BY <1>1, <2>1 DEF RevisionIdentifiesMode, HasTicket
<1>5. QED
  BY <1>3, <1>4

-----------------------------------------------------------------------------
(* The invariant                                                           *)

LEMMA InitIInv == Init => IInv
<1> SUFFICES ASSUME Init PROVE IInv
  OBVIOUS
<1>1. TypeOK
  BY DEF Init, TypeOK, Mode
<1>2. \A r \in Request : ~HasTicket(r)
  BY DEF Init, HasTicket
<1>3. \A a \in Account : OpenOn(a) = {}
  BY <1>2 DEF OpenOn, Holding
<1>4. InflightIsOpenTickets
  BY <1>3, FS_EmptySet DEF InflightIsOpenTickets, Init
<1>5. TicketsArePast /\ RevisionIdentifiesMode
  BY <1>2 DEF TicketsArePast, RevisionIdentifiesMode
<1>6. QED
  BY <1>1, <1>4, <1>5 DEF IInv

LEMMA NextIInv == IInv /\ [Next]_vars => IInv'
<1> SUFFICES ASSUME IInv, [Next]_vars PROVE IInv'
  OBVIOUS
<1> USE DEF IInv
<1>1. ASSUME NEW m \in Mode, Set(m) PROVE IInv'
  <2>1. TypeOK'
    BY <1>1 DEF TypeOK, Set
  <2>2. InflightIsOpenTickets'
    BY <1>1 DEF Set, InflightIsOpenTickets, OpenOn, Holding, HasTicket
  <2>3. QED
    BY <1>1, <2>1, <2>2, SetKeepsTickets
<1>2. ASSUME NEW r \in Request, NEW s \in CandidateLists, Reserve(r, s) PROVE IInv'
  <2>1. mode' \in Mode /\ revision' \in Nat /\ sequence' \in Nat
    BY <1>2 DEF TypeOK, Reserve
  <2>2. QED
    BY <1>2, <2>1, ReserveKeepsLoad, ReserveKeepsTickets DEF TypeOK
<1>3. ASSUME NEW r \in Request, Release(r) PROVE IInv'
  <2>1. mode' \in Mode /\ revision' \in Nat /\ sequence' \in Nat
    BY <1>3 DEF TypeOK, Release
  <2>2. QED
    BY <1>3, <2>1, ReleaseKeepsLoad, ReleaseKeepsTickets DEF TypeOK
<1>4. CASE UNCHANGED vars
  BY <1>4 DEF vars, TypeOK, InflightIsOpenTickets, OpenOn, Holding, HasTicket,
              TicketsArePast, RevisionIdentifiesMode
<1>5. QED
  BY <1>1, <1>2, <1>3, <1>4 DEF Next

THEOREM Invariant == Spec => []IInv
  BY InitIInv, NextIInv, PTL DEF Spec

\* The policy's state keeps its type (policy.go:34-41).
THEOREM TypeCorrect == Spec => []TypeOK
<1>1. IInv => TypeOK
  BY DEF IInv
<1>2. QED
  BY Invariant, <1>1, PTL

\* The load of every account is the number of reservations still open on it,
\* for any number of callers (policy.go:103, 112-117).
THEOREM LoadIsExact == Spec => []InflightIsOpenTickets
<1>1. IInv => InflightIsOpenTickets
  BY DEF IInv
<1>2. QED
  BY Invariant, <1>1, PTL

\* A revision names one spending instruction, for ever (policy.go:51-58).
THEOREM RevisionIsInstruction == Spec => []RevisionIdentifiesMode
<1>1. IInv => RevisionIdentifiesMode
  BY DEF IInv
<1>2. QED
  BY Invariant, <1>1, PTL

-----------------------------------------------------------------------------
(* Order and determinism                                                   *)

LEMMA StepIsOrdered ==
  IInv /\ [Next]_vars =>
    [\A r \in Request :
       ticket'[r] # ticket[r] /\ Holding(r)' => NewDecisionIsLast(r)]_vars
<1> SUFFICES ASSUME IInv, Next, NEW r \in Request,
                    ticket'[r] # ticket[r], Holding(r)'
             PROVE  NewDecisionIsLast(r)
  BY DEF vars
<1> USE DEF IInv
<1>1. ASSUME NEW m \in Mode, Set(m) PROVE FALSE
  BY <1>1 DEF Set
<1>2. ASSUME NEW q \in Request, Release(q) PROVE FALSE
  <2>1. ticket' = [ticket EXCEPT ![q].open = FALSE] /\ ticket[q] \in Ticket
    BY <1>2 DEF Release, Holding, HasTicket, TypeOK
  <2>2. q = r
    BY <2>1 DEF TypeOK
  <2>3. QED
    BY <2>1, <2>2 DEF TypeOK, Ticket, Holding
<1>3. ASSUME NEW q \in Request, NEW l \in CandidateLists, Reserve(q, l)
      PROVE  NewDecisionIsLast(r)
  <2>1. PICK c : ticket' = [ticket EXCEPT ![q] = Issued(c)]
    BY <1>3, ReserveShape
  <2>2. q = r
    BY <2>1 DEF TypeOK
  <2>3. ticket'[r].sequence = sequence + 1 /\ ticket'[r].revision = revision
    BY <2>1, <2>2 DEF TypeOK, Issued
  <2>4. ASSUME NEW s \in Request, HasTicket(s)
        PROVE  /\ ticket[s].sequence \in Nat /\ ticket[s].sequence <= sequence
               /\ ticket[s].revision <= revision
    BY <2>4 DEF TypeOK, Ticket, HasTicket, TicketsArePast
  <2>5. QED
    BY <2>3, <2>4 DEF NewDecisionIsLast, TypeOK
<1>4. QED
  BY <1>1, <1>2, <1>3 DEF Next

\* Decisions are numbered in the order they are taken and their revisions
\* never go back (policy.go:62-64, 104-108).
THEOREM DecisionsOrdered == Spec => DecisionsAreOrdered
  BY Invariant, StepIsOrdered, PTL DEF Spec, DecisionsAreOrdered

\* Two candidates with different identities are never tied.
LEMMA BeforeIsTotal ==
  ASSUME NEW x \in Candidate, NEW y \in Candidate, x.id # y.id,
         NEW load \in [Account -> Nat]
  PROVE  Before(x, y, load) \/ Before(y, x, load)
<1> DEFINE px == Pressure(x, load, y)
           py == Pressure(y, load, x)
<1>1. px \in Int /\ py \in Int
  BY DEF Pressure, Candidate
<1>2. /\ load[x.id] \in Int /\ load[y.id] \in Int
      /\ x.remaining \in Int /\ y.remaining \in Int
      /\ x.id \in Int /\ y.id \in Int
  <2>1. /\ x.id \in Account /\ y.id \in Account
        /\ x.remaining \in Int /\ y.remaining \in Int
    BY DEF Candidate
  <2>2. load[x.id] \in Nat /\ load[y.id] \in Nat
    BY <2>1
  <2>3. x.id \in Int /\ y.id \in Int
    BY <2>1, AccountAssumption
  <2>4. QED
    BY <2>1, <2>2, <2>3
<1> HIDE DEF px, py
<1>3. \/ px > py
      \/ px = py /\ load[x.id] < load[y.id]
      \/ px = py /\ load[x.id] = load[y.id] /\ x.remaining > y.remaining
      \/ /\ px = py /\ load[x.id] = load[y.id] /\ x.remaining = y.remaining
         /\ x.id < y.id
      \/ py > px
      \/ py = px /\ load[y.id] < load[x.id]
      \/ py = px /\ load[y.id] = load[x.id] /\ y.remaining > x.remaining
      \/ /\ py = px /\ load[y.id] = load[x.id] /\ y.remaining = x.remaining
         /\ y.id < x.id
  BY <1>1, <1>2
<1>4. QED
  BY <1>3 DEF Before, px, py

\* No snapshot has two winners, so an unstable sort cannot make the choice
\* depend on the order of the accounts (policy.go:88-102).
THEOREM ChoiceIsUnique ==
  ASSUME NEW s \in CandidateLists, Distinct(s), NEW m \in Mode,
         NEW load \in [Account -> Nat],
         NEW x \in Best(Eligible(s, m), load), NEW y \in Best(Eligible(s, m), load)
  PROVE  x = y
<1>1. x \in Range(s) /\ y \in Range(s)
  BY DEF Best, Eligible
<1>2. x \in Candidate /\ y \in Candidate
  BY EligibleType DEF Best
<1>3. x.id = y.id => x = y
  BY <1>1 DEF Range, Distinct
<1>4. x # y => ~Before(x, y, load) /\ ~Before(y, x, load)
  BY DEF Best
<1>5. QED
  BY <1>2, <1>3, <1>4, BeforeIsTotal
=============================================================================
