--------------------------- MODULE MuxRoutesProofs ---------------------------
(* What the request table keeps, for every set of accounts, requests and   *)
(* threads and any number of crashes: how often a request is answered, who *)
(* is awaited; that failover asks no account twice, sends turns where      *)
(* their history is and leaves a thread with an account that has it; and   *)
(* that spending apart from history takes no conversation elsewhere.       *)
EXTENDS MuxRoutes, SequenceTheorems, TLAPS

\* Where a request is before its route is registered.
Early == {"idle", "choose", "lock", "check", "relock", "pick", "move", "own",
          "forward", "found"}

Response(m) == m.kind # "started"

\* No child works on r and no answer to it is on its way.
Quiet(r) ==
  /\ \A a \in Account : <<r, a>> \notin work
  /\ \A m \in inbound : Response(m) => m.req # r

\* One child works on r, or one answer to it is on its way, or neither.
AtMostOne(r) ==
  /\ \A a \in Account : <<r, a>> \in work =>
       a = route[r] /\ \A m \in inbound : Response(m) => m.req # r
  /\ \A m, n \in inbound :
       Response(m) /\ Response(n) /\ m.req = r /\ n.req = r => m = n

Answered(r) ==
  \/ \E what \in Answers : answers[r] = <<what>>
  \/ answers[r] = <<"expired", "failed">>

\* How the place of a request, its route and its answers agree.
Agrees(r) ==
  /\ pc[r] \in Early => answers[r] = <<>> /\ route[r] = None /\ Quiet(r)
  /\ pc[r] = "sending" =>
       /\ Quiet(r)
       /\ \/ answers[r] = <<>> /\ route[r] = target[r]
          \/ answers[r] = <<"expired">> /\ route[r] = None
  /\ pc[r] = "sent" => answers[r] = <<>> /\ route[r] # None /\ AtMostOne(r)
  /\ pc[r] = "done" => Answered(r) /\ route[r] = None

\* Who forwards knows to whom; who moves a thread knows from where.
Directed(r) ==
  /\ pc[r] \notin {"idle", "choose", "done"} => target[r] # None
  /\ pc[r] \in {"relock", "pick", "move", "own"} => source[r] # None

IInv == TypeOK /\ \A r \in Request : Agrees(r) /\ Directed(r)

\* A step that is not about q, but may lose what was on its way.
Spares(q) ==
  /\ pc'[q] = pc[q] /\ target'[q] = target[q] /\ source'[q] = source[q]
  /\ route'[q] = route[q] /\ answers'[q] = answers[q]
  /\ \A a \in Account : <<q, a>> \in work' => <<q, a>> \in work
  /\ \A m \in inbound' : Response(m) /\ m.req = q => m \in inbound

LEMMA SparedAgrees ==
  ASSUME NEW q \in Request, Agrees(q), Directed(q), Spares(q)
  PROVE  Agrees(q)' /\ Directed(q)'
<1>1. Quiet(q) => Quiet(q)'
  BY DEF Quiet, Spares
<1>2. AtMostOne(q) => AtMostOne(q)'
  BY DEF AtMostOne, Spares
<1>3. Answered(q) => Answered(q)'
  BY DEF Answered, Spares
<1>4. QED
  BY <1>1, <1>2, <1>3 DEF Agrees, Directed, Spares

\* The answers a client can get are short.
LEMMA ShortAnswers ==
  ASSUME NEW x \in Answers, NEW y \in Answers
  PROVE  /\ Append(<<>>, x) = <<x>> /\ Append(<<x>>, y) = <<x, y>>
         /\ {<<>>, <<x>>, <<x, y>>} \subseteq BoundedSeq(Answers, 2)
<1> DEFINE A(s, e) == Append(s, e)
<1>1. /\ <<>> \in Seq(Answers) /\ Len(<<>>) = 0
      /\ <<x>> \in Seq(Answers) /\ Len(<<x>>) = 1 /\ <<x>>[1] = x
      /\ <<x, y>> \in Seq(Answers) /\ Len(<<x, y>>) = 2
      /\ <<x, y>>[1] = x /\ <<x, y>>[2] = y
  OBVIOUS
<1>2. A(<<>>, x) = <<x>>
  <2>1. A(<<>>, x) \in Seq(Answers) /\ Len(A(<<>>, x)) = 1 /\ A(<<>>, x)[1] = x
    BY <1>1, AppendProperties
  <2>2. QED
    BY <1>1, <2>1, SeqEqual
<1>3. A(<<x>>, y) = <<x, y>>
  <2>1. /\ A(<<x>>, y) \in Seq(Answers) /\ Len(A(<<x>>, y)) = 2
        /\ A(<<x>>, y)[1] = x /\ A(<<x>>, y)[2] = y
    BY <1>1, AppendProperties
  <2>2. \A i \in 1..2 : A(<<x>>, y)[i] = <<x, y>>[i]
    BY <1>1, <2>1
  <2> HIDE DEF A
  <2>3. QED
    BY <1>1, <2>1, <2>2, SeqEqual
<1>4. <<>> \in [1..0 -> Answers] /\ <<x>> \in [1..1 -> Answers]
      /\ <<x, y>> \in [1..2 -> Answers]
  OBVIOUS
<1>5. QED
  BY <1>2, <1>3, <1>4 DEF BoundedSeq, SeqOf

LEMMA InitIInv == Init => IInv
<1> SUFFICES ASSUME Init PROVE IInv
  OBVIOUS
<1> USE RoutesAssumption DEF Init
<1>1. TypeOK
  <2>1. answers \in [Request -> BoundedSeq(Answers, 2)]
    BY ShortAnswers DEF Answers
  <2>2. tried \in [Request -> Seq(Account)]
    OBVIOUS
  <2>3. history \in [Thread -> SUBSET Account]
    OBVIOUS
  <2>4. QED
    BY <2>1, <2>2, <2>3 DEF TypeOK, Stages, Places
<1>2. ASSUME NEW r \in Request PROVE Agrees(r) /\ Directed(r)
  BY DEF Agrees, Directed, Early, Quiet
<1>3. QED
  BY <1>1, <1>2 DEF IInv

\* The steps of a request that is not forwarded yet.
Prepare(r) ==
  \/ Receive(r) \/ Choose(r) \/ TakeThread(r) \/ KeepOwner(r) \/ LeaveOwner(r)
  \/ RetakeThread(r) \/ PickFallback(r) \/ Resume(r) \/ Own(r) \/ FindChild(r)

LEMMA PrepareKeeps ==
  ASSUME IInv, NEW r \in Request, Prepare(r)
  PROVE  IInv'
<1> USE RoutesAssumption DEF Goto
<1>1. TypeOK'
  <2>1. CASE Receive(r)
    BY <2>1 DEF IInv, TypeOK, Receive, OwnerOrController, Places, runVars, listVars,
       childVars, threadVars, tableVars
  <2>2. CASE Choose(r)
    BY <2>2 DEF IInv, TypeOK, Choose, Eligible, Places, runVars, listVars, childVars,
       threadVars, tableVars
  <2>3. CASE TakeThread(r)
    BY <2>3 DEF IInv, TypeOK, TakeThread, Places, runVars, listVars, childVars, tableVars
  <2>4. CASE KeepOwner(r)
    BY <2>4 DEF IInv, TypeOK, KeepOwner, Places, runVars, listVars, childVars,
       threadVars, tableVars
  <2>5. CASE LeaveOwner(r)
    <3>1. target[r] \in Account
      BY <2>5 DEF IInv, TypeOK, LeaveOwner, Directed
    <3>2. /\ source' \in [Request -> Account \cup {None}]
          /\ excluded' \in [Request -> SUBSET Account]
      BY <2>5, <3>1 DEF IInv, TypeOK, LeaveOwner
    <3>3. QED
      BY <2>5, <3>2 DEF IInv, TypeOK, LeaveOwner, Places, runVars, listVars, childVars,
         threadVars, tableVars
  <2>6. CASE RetakeThread(r)
    BY <2>6 DEF IInv, TypeOK, RetakeThread, Places, runVars, listVars, childVars, tableVars
  <2>7. CASE PickFallback(r)
    BY <2>7 DEF IInv, TypeOK, PickFallback, Eligible, Places, runVars, listVars,
       childVars, threadVars, tableVars
  <2>8. CASE Resume(r)
    BY <2>8 DEF IInv, TypeOK, Resume, Places, runVars, listVars, childVars, tableVars
  <2>9. CASE Own(r)
    BY <2>9 DEF IInv, TypeOK, Own, Places, runVars, listVars, childVars, tableVars
  <2>10. CASE FindChild(r)
    BY <2>10 DEF IInv, TypeOK, FindChild, Places, runVars, listVars, childVars,
       threadVars, tableVars
  <2>11. QED
    BY <2>1, <2>2, <2>3, <2>4, <2>5, <2>6, <2>7, <2>8, <2>9, <2>10 DEF Prepare
<1>2. /\ pc[r] \in Early /\ pc'[r] \in Early
      /\ route' = route /\ answers' = answers /\ work' = work /\ inbound' = inbound
      /\ \A q \in Request \ {r} :
           pc'[q] = pc[q] /\ target'[q] = target[q] /\ source'[q] = source[q]
  BY DEF Prepare, IInv, TypeOK, Early, Receive, Choose, TakeThread, KeepOwner,
     LeaveOwner, RetakeThread, PickFallback, Resume, Own, FindChild, tableVars
<1>3. Agrees(r)'
  BY <1>2 DEF IInv, Agrees, Early, Quiet
<1>4. Directed(r)'
  BY DEF Prepare, IInv, TypeOK, Directed, Receive, Choose, TakeThread,
     KeepOwner, LeaveOwner, RetakeThread, PickFallback, Resume, Own, FindChild,
     Eligible, OwnerOrController
<1>5. ASSUME NEW q \in Request \ {r} PROVE Agrees(q)' /\ Directed(q)'
  BY <1>2, SparedAgrees DEF IInv, Spares
<1>6. QED
  BY <1>1, <1>3, <1>4, <1>5 DEF IInv

LEMMA GiveUpKeeps ==
  ASSUME IInv, NEW r \in Request,
         \/ ChooseNone(r) \/ NoFallback(r) \/ ResumeFails(r) \/ OwnFails(r)
         \/ CannotForward(r)
  PROVE  IInv'
<1>1. PICK from \in Early, what \in Answers :
        GiveUp(r, from, what) /\ route' = route
  BY DEF ChooseNone, NoFallback, ResumeFails, OwnFails, CannotForward, Early,
     Answers
<1> USE RoutesAssumption, <1>1 DEF GiveUp, Goto, Answer
<1>2. answers[r] = <<>> /\ answers' = [answers EXCEPT ![r] = <<what>>]
  BY ShortAnswers DEF IInv, TypeOK, Agrees
<1>3. TypeOK'
  <2>1. answers' \in [Request -> BoundedSeq(Answers, 2)]
    <3>1. answers \in [Request -> BoundedSeq(Answers, 2)]
      BY DEF IInv, TypeOK
    <3>2. <<what>> \in BoundedSeq(Answers, 2)
      BY ShortAnswers
    <3>3. QED
      BY <1>2, <3>1, <3>2
  <2>2. lock' \in [Thread -> Request \cup {None}]
    BY DEF IInv, TypeOK, Unlock
  <2>3. pc' \in [Request -> Places]
    BY DEF IInv, TypeOK, Places
  <2>4. QED
    BY <2>1, <2>2, <2>3 DEF IInv, TypeOK, runVars, listVars, childVars
<1>4. Agrees(r)' /\ Directed(r)'
  BY <1>2 DEF IInv, TypeOK, Agrees, Directed, Early, Answered
<1>5. ASSUME NEW q \in Request \ {r} PROVE Agrees(q)' /\ Directed(q)'
  BY SparedAgrees DEF IInv, TypeOK, Spares
<1>6. QED
  BY <1>3, <1>4, <1>5 DEF IInv

LEMMA RegisterKeeps ==
  ASSUME IInv, NEW r \in Request, Register(r)
  PROVE  IInv'
<1> USE RoutesAssumption DEF Register, Goto
<1>1. target[r] \in Account
  BY DEF IInv, TypeOK, Directed
<1>2. TypeOK'
  BY <1>1 DEF IInv, TypeOK, Places, runVars, listVars, childVars, threadVars
<1>3. Agrees(r)' /\ Directed(r)'
  BY DEF IInv, TypeOK, Agrees, Directed, Early, Quiet
<1>4. ASSUME NEW q \in Request \ {r} PROVE Agrees(q)' /\ Directed(q)'
  BY SparedAgrees DEF IInv, TypeOK, Spares
<1>5. QED
  BY <1>2, <1>3, <1>4 DEF IInv

LEMMA SendKeeps ==
  ASSUME IInv, NEW r \in Request, Send(r)
  PROVE  IInv'
<1> USE RoutesAssumption DEF Send, Goto
<1>1. target[r] \in Account
  BY DEF IInv, TypeOK, Directed
<1>2. TypeOK'
  <2>1. lock' \in [Thread -> Request \cup {None}]
    BY DEF IInv, TypeOK, Unlock
  <2>2. tried' \in [Request -> Seq(Account)]
    BY <1>1, AppendProperties DEF IInv, TypeOK
  <2>3. QED
    BY <1>1, <2>1, <2>2 DEF IInv, TypeOK, Places, runVars, listVars, childVars
<1>3. Agrees(r)' /\ Directed(r)'
  <2>1. CASE route[r] = None
    BY <1>1, <2>1 DEF IInv, TypeOK, Agrees, Directed, Early, Answered, Answers
  <2>2. CASE route[r] # None
    <3>1. Quiet(r) /\ route[r] = target[r] /\ answers[r] = <<>>
      BY <2>2 DEF IInv, Agrees
    <3>2. AtMostOne(r)'
      BY <3>1, <1>1 DEF IInv, AtMostOne, Quiet
    <3>3. pc'[r] = "sent"
      BY <2>2 DEF IInv, TypeOK
    <3>4. QED
      BY <2>2, <3>1, <3>2, <3>3 DEF IInv, Agrees, Directed, Early
  <2>3. QED
    BY <2>1, <2>2
<1>4. ASSUME NEW q \in Request \ {r} PROVE Agrees(q)' /\ Directed(q)'
  BY SparedAgrees DEF IInv, TypeOK, Spares
<1>5. QED
  BY <1>2, <1>3, <1>4 DEF IInv

LEMMA SendFailsKeeps ==
  ASSUME IInv, NEW r \in Request, SendFails(r)
  PROVE  IInv'
<1> USE RoutesAssumption DEF SendFails, GiveUp, Goto, Answer
<1>1. \/ answers[r] = <<>> /\ answers' = [answers EXCEPT ![r] = <<"failed">>]
      \/ answers' = [answers EXCEPT ![r] = <<"expired", "failed">>]
  BY ShortAnswers DEF IInv, TypeOK, Agrees, Answers
<1>2. TypeOK'
  <2>1. answers' \in [Request -> BoundedSeq(Answers, 2)]
    BY <1>1, ShortAnswers DEF IInv, TypeOK, Answers
  <2>2. lock' \in [Thread -> Request \cup {None}]
    BY DEF IInv, TypeOK, Unlock
  <2>3. QED
    BY <2>1, <2>2 DEF IInv, TypeOK, Places, runVars, listVars, childVars
<1>3. Agrees(r)' /\ Directed(r)'
  BY <1>1 DEF IInv, TypeOK, Agrees, Directed, Early, Answered, Answers
<1>4. ASSUME NEW q \in Request \ {r} PROVE Agrees(q)' /\ Directed(q)'
  BY SparedAgrees DEF IInv, TypeOK, Spares
<1>5. QED
  BY <1>2, <1>3, <1>4 DEF IInv

LEMMA ExpireKeeps ==
  ASSUME IInv, NEW r \in Request, Expire(r)
  PROVE  IInv'
<1> USE RoutesAssumption DEF Expire, Answer
<1>1. answers[r] = <<>> /\ pc[r] \in {"sending", "sent"}
  BY DEF IInv, TypeOK, Agrees, Early, Places
<1>2. answers' = [answers EXCEPT ![r] = <<"expired">>]
  BY <1>1, ShortAnswers DEF Answers
<1>3. TypeOK'
  <2>1. answers' \in [Request -> BoundedSeq(Answers, 2)]
    BY <1>2, ShortAnswers DEF IInv, TypeOK, Answers
  <2>2. QED
    BY <2>1 DEF IInv, TypeOK, Places, runVars, listVars, childVars, threadVars
<1>4. Agrees(r)' /\ Directed(r)'
  BY <1>1, <1>2 DEF IInv, TypeOK, Agrees, Directed, Early, Quiet, Answered,
     Answers
<1>5. ASSUME NEW q \in Request \ {r} PROVE Agrees(q)' /\ Directed(q)'
  BY SparedAgrees DEF IInv, TypeOK, Spares
<1>6. QED
  BY <1>3, <1>4, <1>5 DEF IInv

LEMMA ChildAnswersKeeps ==
  ASSUME IInv, NEW r \in Request, NEW a \in Account, ChildAnswers(r, a)
  PROVE  IInv'
<1> USE RoutesAssumption DEF ChildAnswers
<1>1. pc[r] \in {"sent", "done"}
  BY DEF IInv, TypeOK, Agrees, Quiet, Places, Early
<1>2. PICK kind \in {"ok", "limit"} :
        \A m \in inbound' : Response(m) /\ m \notin inbound =>
          m = [req |-> r, account |-> a, kind |-> kind]
  BY DEF Response
<1>3. TypeOK'
  <2>1. inbound' \subseteq Messages
    BY DEF IInv, TypeOK, Messages
  <2>2. history' \in [Thread -> SUBSET Account]
    <3>1. \/ history' = history
          \/ history' = [history EXCEPT ![ThreadOf[r]] = @ \cup {a}]
      OBVIOUS
    <3>2. history \in [Thread -> SUBSET Account]
      BY DEF IInv, TypeOK
    <3>3. QED
      BY <3>1, <3>2
  <2>3. QED
    BY <2>1, <2>2 DEF IInv, TypeOK, runVars, listVars, childVars, handlerVars
<1>4. Agrees(r)' /\ Directed(r)'
  <2>1. pc[r] = "sent" => AtMostOne(r)'
    BY <1>2 DEF IInv, TypeOK, Agrees, AtMostOne, Response
  <2>2. QED
    BY <1>1, <2>1 DEF IInv, Agrees, Directed, Early, Answered, handlerVars
<1>5. ASSUME NEW q \in Request \ {r} PROVE Agrees(q)' /\ Directed(q)'
  <2>1. Spares(q)
    BY <1>2 DEF Spares, handlerVars
  <2>2. QED
    BY <2>1, SparedAgrees DEF IInv
<1>6. QED
  BY <1>3, <1>4, <1>5 DEF IInv

LEMMA HandleResponseKeeps ==
  ASSUME IInv, NEW m \in inbound, HandleResponse(m)
  PROVE  IInv'
<1> DEFINE r == m.req
<1> USE RoutesAssumption DEF HandleResponse
<1>1. /\ r \in Request /\ m.account \in Account /\ Response(m)
      /\ inbound' = inbound \ {m}
      /\ UNCHANGED <<runVars, listVars, childVars, lock, history, target, stale, work, tried>>
  BY DEF IInv, TypeOK, Messages, Response
<1>2. CASE ~Awaited(m)
  <2>1. TypeOK'
    BY <1>1, <1>2 DEF IInv, TypeOK, runVars, listVars, childVars
  <2>2. ASSUME NEW q \in Request PROVE Agrees(q)' /\ Directed(q)'
    BY <1>1, <1>2, SparedAgrees DEF IInv, Spares
  <2>3. QED
    BY <2>1, <2>2 DEF IInv
<1>3. CASE Awaited(m)
  <2>1. pc[r] = "sent" /\ answers[r] = <<>> /\ AtMostOne(r) /\ target[r] # None
    <3>1. pc[r] \in Places /\ Agrees(r) /\ Directed(r)
      BY <1>1 DEF IInv, TypeOK
    <3>2. route[r] # None /\ ~Quiet(r)
      BY <1>1, <1>3 DEF Awaited, Quiet
    <3>3. QED
      BY <3>1, <3>2 DEF Agrees, Directed, Early, Places
  <2>2. Quiet(r)'
    BY <1>1, <2>1 DEF AtMostOne, Quiet
  <2>3. route' = [route EXCEPT ![r] = None]
    BY <1>3
  <2>4. CASE Retry(r, m.account)
    <3> HIDE DEF HandleResponse
    <3>1. TypeOK'
      BY <1>1, <2>3, <2>4 DEF Retry, IInv, TypeOK, Places, runVars, listVars, childVars
    <3>2. Agrees(r)' /\ Directed(r)'
      BY <1>1, <2>1, <2>2, <2>3, <2>4
      DEF Retry, IInv, TypeOK, Agrees, Directed, Early
    <3>3. ASSUME NEW q \in Request \ {r} PROVE Agrees(q)' /\ Directed(q)'
      BY <1>1, <2>3, <2>4, SparedAgrees DEF Retry, IInv, TypeOK, Spares
    <3>4. QED
      BY <3>1, <3>2, <3>3 DEF IInv
  <2>5. CASE Deliver(r, m.account, m.kind)
    <3> HIDE DEF HandleResponse
    <3>1. answers' = [answers EXCEPT ![r] = <<"response">>]
      BY <2>1, <2>5, ShortAnswers DEF Deliver, Answer, Answers
    <3>2. TypeOK'
      <4>1. answers' \in [Request -> BoundedSeq(Answers, 2)]
        BY <1>1, <3>1, ShortAnswers DEF IInv, TypeOK, Answers
      <4>2. owner' \in [Thread -> Account \cup {None}]
        BY <1>1, <2>5 DEF Deliver, IInv, TypeOK
      <4>3. pc' \in [Request -> Places]
        BY <2>5 DEF Deliver, IInv, TypeOK, Places
      <4>4. QED
        BY <1>1, <2>3, <2>5, <4>1, <4>2, <4>3
        DEF Deliver, IInv, TypeOK, runVars, listVars, childVars
    <3>3. Agrees(r)' /\ Directed(r)'
      BY <1>1, <2>3, <2>5, <3>1
      DEF Deliver, IInv, TypeOK, Agrees, Directed, Early, Answered, Answers
    <3>4. ASSUME NEW q \in Request \ {r} PROVE Agrees(q)' /\ Directed(q)'
      BY <1>1, <2>3, <2>5, <3>1, SparedAgrees DEF Deliver, IInv, TypeOK, Spares
    <3>5. QED
      BY <3>2, <3>3, <3>4 DEF IInv
  <2>6. QED
    BY <1>3, <2>4, <2>5
<1>4. QED
  BY <1>2, <1>3

LEMMA HandleStartedKeeps ==
  ASSUME IInv, NEW m \in inbound, HandleStarted(m)
  PROVE  IInv'
<1> USE RoutesAssumption DEF HandleStarted
<1>1. m.req \in Request /\ m.account \in Account
  BY DEF IInv, TypeOK, Messages
<1>2. TypeOK'
  BY <1>1 DEF IInv, TypeOK, runVars, listVars, childVars, handlerVars
<1>3. ASSUME NEW q \in Request PROVE Agrees(q)' /\ Directed(q)'
  BY SparedAgrees DEF IInv, Spares, handlerVars
<1>4. QED
  BY <1>2, <1>3 DEF IInv

LEMMA ListsKeep ==
  ASSUME IInv, Lists
  PROVE  IInv'
<1> USE RoutesAssumption DEF Lists, MergeList, OwnListed
<1>1. TypeOK'
  <2>1. ASSUME NEW l \in List, MergeList(l) PROVE TypeOK'
    BY <2>1 DEF IInv, TypeOK, runVars, childVars, threadVars, handlerVars, tableVars
  <2>2. ASSUME NEW l \in List, OwnListed(l) PROVE TypeOK'
    <3>1. owner' \in [Thread -> Account \cup {None}]
      <4>1. /\ owner \in [Thread -> Account \cup {None}]
            /\ chosen[l] \in [Thread -> Account \cup {None}]
        BY <2>2 DEF IInv, TypeOK
      <4>2. QED
        BY <2>2, <4>1
    <3>2. QED
      BY <2>2, <3>1 DEF IInv, TypeOK, runVars, childVars, handlerVars, tableVars
  <2>3. QED
    BY <2>1, <2>2
<1>2. ASSUME NEW q \in Request PROVE Agrees(q)' /\ Directed(q)'
  BY SparedAgrees DEF IInv, Spares, handlerVars, tableVars
<1>3. QED
  BY <1>1, <1>2 DEF IInv

LEMMA ChildrenKeep ==
  ASSUME IInv,
         \/ \E a \in Account : Crash(a) \/ Hang(a) \/ Recover(a) \/ Unlist(a) \/ Restart(a)
         \/ CloseChildren
  PROVE  IInv'
<1> USE RoutesAssumption DEF Crash, Hang, Recover, Unlist, Restart, CloseChildren, Lose
<1>1. TypeOK'
  <2>1. ASSUME NEW a \in Account, Crash(a) PROVE TypeOK'
    BY <2>1 DEF IInv, TypeOK, runVars, listVars, threadVars
  <2>2. ASSUME NEW a \in Account, Hang(a) PROVE TypeOK'
    BY <2>2 DEF IInv, TypeOK, runVars, listVars, threadVars, handlerVars, tableVars
  <2>3. ASSUME NEW a \in Account, Recover(a) PROVE TypeOK'
    BY <2>3 DEF IInv, TypeOK, runVars, listVars, threadVars, handlerVars, tableVars
  <2>4. ASSUME NEW a \in Account, Unlist(a) \/ Restart(a) PROVE TypeOK'
    BY <2>4 DEF IInv, TypeOK, runVars, listVars, threadVars, handlerVars, tableVars
  <2>5. CASE CloseChildren
    BY <2>5 DEF IInv, TypeOK, Stages, listVars, threadVars
  <2>6. QED
    BY <2>1, <2>2, <2>3, <2>4, <2>5
<1>2. ASSUME NEW q \in Request PROVE Agrees(q)' /\ Directed(q)'
  BY SparedAgrees DEF IInv, Spares, handlerVars, tableVars
<1>3. QED
  BY <1>1, <1>2 DEF IInv

LEMMA StagesKeep ==
  ASSUME IInv, Signal \/ EndOfInput \/ BeginClose \/ \E l \in loops : LoopEnds(l)
  PROVE  IInv'
<1> USE DEF Signal, EndOfInput, BeginClose, LoopEnds
<1>1. TypeOK'
  BY DEF IInv, TypeOK, Stages, listVars, childVars, threadVars, handlerVars,
     tableVars
<1>2. ASSUME NEW q \in Request PROVE Agrees(q)' /\ Directed(q)'
  BY SparedAgrees DEF IInv, Spares, handlerVars, tableVars
<1>3. QED
  BY <1>1, <1>2 DEF IInv

LEMMA ExpireAllKeeps ==
  ASSUME IInv, ExpireAll
  PROVE  IInv'
<1> USE RoutesAssumption DEF ExpireAll
<1>1. \A q \in Request :
        /\ route[q] # None => answers[q] = <<>> /\ pc[q] \in {"sending", "sent"}
        /\ answers'[q] = IF route[q] = None THEN answers[q] ELSE <<"expired">>
  BY ShortAnswers DEF IInv, TypeOK, Agrees, Early, Places, Answers
<1>2. TypeOK'
  <2>1. answers' \in [Request -> BoundedSeq(Answers, 2)]
    BY <1>1, ShortAnswers DEF IInv, TypeOK, Answers
  <2>2. pc' \in [Request -> Places] /\ route' \in [Request -> Account \cup {None}]
    BY DEF IInv, TypeOK, Places
  <2>3. QED
    BY <2>1, <2>2 DEF IInv, TypeOK, Stages, listVars, childVars, threadVars
<1>3. ASSUME NEW q \in Request PROVE Agrees(q)' /\ Directed(q)'
  <2>1. CASE route[q] = None
    BY <2>1, <1>1, SparedAgrees DEF IInv, TypeOK, Spares
  <2>2. CASE route[q] # None
    BY <2>2, <1>1
    DEF IInv, TypeOK, Agrees, Directed, Early, Quiet, Answered, Answers
  <2>3. QED
    BY <2>1, <2>2
<1>4. QED
  BY <1>2, <1>3 DEF IInv

LEMMA NextIInv == IInv /\ [Next]_vars => IInv'
<1> SUFFICES ASSUME IInv, [Next]_vars PROVE IInv'
  OBVIOUS
<1>1. ASSUME NEW r \in Request, Router(r) PROVE IInv'
  <2>1. CASE Prepare(r)
    BY <2>1, PrepareKeeps
  <2>2. CASE \/ ChooseNone(r) \/ NoFallback(r) \/ ResumeFails(r) \/ OwnFails(r)
             \/ CannotForward(r)
    BY <2>2, GiveUpKeeps
  <2>3. QED
    BY <1>1, <2>1, <2>2, RegisterKeeps, SendKeeps, SendFailsKeeps, ExpireKeeps
    DEF Router, Goroutine, Prepare
<1>2. CASE Inbound
  BY <1>2, HandleResponseKeeps, HandleStartedKeeps DEF Inbound
<1>3. ASSUME NEW a \in Account, Child(a) PROVE IInv'
  BY <1>3, ChildrenKeep, ChildAnswersKeeps DEF Child
<1>4. CASE Shutdown
  BY <1>4, StagesKeep, ExpireAllKeeps, ChildrenKeep DEF Shutdown
<1>5. CASE UNCHANGED vars
  <2>1. TypeOK'
    BY <1>5 DEF IInv, TypeOK, vars, runVars, listVars, childVars, threadVars,
       handlerVars, tableVars
  <2>2. ASSUME NEW q \in Request PROVE Agrees(q)' /\ Directed(q)'
    BY <1>5, SparedAgrees DEF IInv, Spares, vars, handlerVars, tableVars
  <2>3. QED
    BY <2>1, <2>2 DEF IInv
<1>6. QED
  BY <1>1, <1>2, <1>3, <1>4, <1>5, ListsKeep DEF Next

\* Every variable keeps its type.
THEOREM TypesHold == Spec => []TypeOK
<1>1. IInv => TypeOK
  BY DEF IInv
<1>2. QED
  BY <1>1, InitIInv, NextIInv, PTL DEF Spec

\* A request is answered once, whatever times out, crashes or is shut down, but
\* for a Send that fails after its route expired (mux.go:475-480, 1251-1266).
THEOREM AnsweredAtMostOnce == Spec => []AnsweredOnce
<1>1. IInv => AnsweredOnce
  <2>1. ASSUME NEW r \in Request, Agrees(r), pc[r] \in Places
        PROVE  Len(answers[r]) <= 1 \/ answers[r] = <<"expired", "failed">>
    BY <2>1 DEF Agrees, Answered, Early, Places
  <2>2. QED
    BY <2>1 DEF IInv, TypeOK, AnsweredOnce
<1>2. QED
  BY <1>1, InitIInv, NextIInv, PTL DEF Spec

\* A child that works for a client still waiting is the one whose response the
\* table lets through (mux.go:631-638).
THEOREM WorkIsAwaited == Spec => []PendingWorkIsAwaited
<1>1. IInv => PendingWorkIsAwaited
  <2>1. SUFFICES ASSUME IInv, NEW r \in Request, NEW a \in Account,
                        <<r, a>> \in work, answers[r] = <<>>
                 PROVE  route[r] = a
    BY DEF IInv, TypeOK, PendingWorkIsAwaited
  <2>2. ~Answered(r)
    <3>1. \A x, y : Len(<<x>>) = 1 /\ Len(<<x, y>>) = 2
      OBVIOUS
    <3>2. QED
      BY <2>1, <3>1 DEF Answered
  <2>3. pc[r] = "sent"
    BY <2>1, <2>2 DEF IInv, TypeOK, Agrees, Quiet, Early, Places
  <2>4. QED
    BY <2>1, <2>3 DEF IInv, Agrees, AtMostOne
<1>2. QED
  BY <1>1, InitIInv, NextIInv, PTL DEF Spec

\* No retry takes an answered request to another account
\* (mux.go:631-646, 1255-1262).
THEOREM NoRetryAfterAnswer == Spec => []AnsweredIsLeftAlone
<1>1. IInv => AnsweredIsLeftAlone
  BY DEF IInv, TypeOK, Agrees, Early, Places, AnsweredIsLeftAlone
<1>2. QED
  BY <1>1, InitIInv, NextIInv, PTL DEF Spec

-----------------------------------------------------------------------------
(* Failover                                                                *)

\* Only new threads are chosen for, only turns are moved, and not when
\* spending is apart from history.
Toward(r) ==
  /\ pc[r] = "choose" => r \in Start
  /\ pc[r] \in {"lock", "check", "relock", "pick", "move", "own"} =>
       r \in Turn /\ ~spending

\* The accounts a request was sent to are excluded, but for the one it is
\* with; the next one is none of them.
Fresh(r) ==
  /\ pc[r] \in {"idle", "lock", "check"} => tried[r] = <<>> /\ source[r] = None
  /\ pc[r] = "choose" /\ spending => tried[r] = <<>>
  /\ pc[r] \in {"choose", "relock", "pick", "move", "own", "forward", "found",
               "sending"} =>
       Range(tried[r]) \subseteq excluded[r]
  /\ pc[r] = "sent" => Range(tried[r]) \subseteq excluded[r] \cup {target[r]}
  /\ pc[r] \in {"move", "own", "forward", "found", "sending"} =>
       target[r] \notin Range(tried[r])
  /\ pc[r] \in {"move", "own"} => target[r] \notin excluded[r]
  /\ route[r] \in {None, target[r]}
  /\ IsInjective(tried[r])

FInv == \A r \in Request : Toward(r) /\ Fresh(r)

\* A step that is not about q, but may drop its route.
Steady(q) ==
  /\ pc'[q] = pc[q] /\ target'[q] = target[q] /\ source'[q] = source[q]
  /\ tried'[q] = tried[q] /\ excluded'[q] = excluded[q]
  /\ route'[q] \in {None, route[q]}

\* What one more account does to a sequence of accounts.
LEMMA OneMoreAccount ==
  ASSUME NEW s \in Seq(Account), NEW a \in Account
  PROVE  /\ Range(Append(s, a)) = Range(s) \cup {a}
         /\ IsInjective(s) /\ a \notin Range(s) => IsInjective(Append(s, a))
<1>1. /\ DOMAIN s = 1..Len(s) /\ Len(s) \in Nat
      /\ DOMAIN Append(s, a) = 1..(Len(s) + 1)
      /\ Append(s, a)[Len(s) + 1] = a
      /\ \A i \in 1..Len(s) : Append(s, a)[i] = s[i]
  BY AppendProperties, LenProperties
<1> DEFINE t == Append(s, a)
<1> HIDE DEF t
<1>2. /\ DOMAIN t = DOMAIN s \cup {Len(s) + 1} /\ Len(s) + 1 \notin DOMAIN s
      /\ t[Len(s) + 1] = a /\ \A i \in DOMAIN s : t[i] = s[i]
  BY <1>1 DEF t
<1>3. Range(t) = Range(s) \cup {a}
  BY <1>2, Zenon DEF Range
<1>4. IsInjective(s) /\ a \notin Range(s) => IsInjective(t)
  BY <1>2 DEF Range, IsInjective
<1>5. QED
  BY <1>3, <1>4 DEF t

LEMMA EmptyIsInjective == Range(<<>>) = {} /\ IsInjective(<<>>)
BY DEF Range, IsInjective

LEMMA SpendingIsFixed == [Next]_vars => spending' = spending
<1> SUFFICES ASSUME [Next]_vars PROVE spending' = spending
  OBVIOUS
<1> USE DEF runVars
<1>1. ASSUME NEW r \in Request, Router(r) PROVE spending' = spending
  BY <1>1
  DEF Router, Goroutine, Receive, Choose, ChooseNone, TakeThread, KeepOwner,
      LeaveOwner, RetakeThread, PickFallback, NoFallback, Resume, ResumeFails,
      Own, OwnFails, FindChild, CannotForward, Register, Send, SendFails,
      Expire, GiveUp
<1>2. CASE Inbound \/ Lists
  BY <1>2 DEF Inbound, HandleResponse, HandleStarted, Lists, MergeList, OwnListed
<1>3. ASSUME NEW a \in Account, Child(a) PROVE spending' = spending
  BY <1>3 DEF Child, Crash, Hang, Recover, Unlist, Restart, ChildAnswers
<1>4. CASE Shutdown
  BY <1>4 DEF Shutdown, Signal, EndOfInput, BeginClose, ExpireAll,
     CloseChildren, LoopEnds
<1>5. QED
  BY <1>1, <1>2, <1>3, <1>4 DEF Next, vars

LEMMA InitFInv == Init => FInv
BY EmptyIsInjective DEF Init, FInv, Toward, Fresh

LEMMA SteadyStaysFresh ==
  ASSUME NEW q \in Request, Toward(q), Fresh(q), Steady(q), spending' = spending
  PROVE  Toward(q)' /\ Fresh(q)'
BY DEF Toward, Fresh, Steady

LEMMA RouterStaysFresh ==
  ASSUME IInv, FInv, NEW r \in Request, Router(r), spending' = spending
  PROVE  FInv'
<1> USE RoutesAssumption DEF Goto
<1>1. \A q \in Request \ {r} : Steady(q)
  BY DEF Router, Goroutine, Receive, Choose, ChooseNone, TakeThread, KeepOwner,
     LeaveOwner, RetakeThread, PickFallback, NoFallback, Resume, ResumeFails,
     Own, OwnFails, FindChild, CannotForward, Register, Send, SendFails,
     Expire, GiveUp, IInv, TypeOK, Steady, tableVars
<1>2. Toward(r)' /\ Fresh(r)'
  <2>0. Toward(r) /\ Fresh(r) /\ Agrees(r) /\ Directed(r) /\ TypeOK
    BY DEF FInv, IInv
  <2> USE <2>0, EmptyIsInjective DEF TypeOK, Toward, Fresh
  <2>1. CASE Receive(r)
    BY <2>1 DEF Receive, tableVars, Agrees, Early
  <2>2. CASE Choose(r)
    BY <2>2 DEF Choose, Eligible, tableVars, Agrees, Early
  <2>3. CASE TakeThread(r)
    BY <2>3 DEF TakeThread, tableVars, Agrees, Early
  <2>4. CASE KeepOwner(r)
    BY <2>4 DEF KeepOwner, tableVars
  <2>5. CASE LeaveOwner(r)
    BY <2>5 DEF LeaveOwner, tableVars
  <2>6. CASE RetakeThread(r)
    BY <2>6 DEF RetakeThread, tableVars
  <2>7. CASE PickFallback(r)
    BY <2>7 DEF PickFallback, Eligible, tableVars, Agrees, Early
  <2>8. CASE Resume(r)
    BY <2>8 DEF Resume, tableVars
  <2>9. CASE Own(r)
    BY <2>9 DEF Own, tableVars
  <2>10. CASE \/ ChooseNone(r) \/ NoFallback(r) \/ ResumeFails(r) \/ OwnFails(r)
              \/ CannotForward(r)
    BY <2>10 DEF ChooseNone, NoFallback, ResumeFails, OwnFails, CannotForward, GiveUp
  <2>11. CASE FindChild(r)
    BY <2>11 DEF FindChild, tableVars
  <2>12. CASE Register(r)
    BY <2>12 DEF Register
  <2>13. CASE Send(r)
    <3>1. target[r] \in Account
      BY <2>13 DEF Send, Directed
    <3>2. tried[r] \in Seq(Account) /\ tried'[r] = Append(tried[r], target[r])
      BY <2>13 DEF Send
    <3>3. /\ Range(tried'[r]) = Range(tried[r]) \cup {target[r]}
          /\ IsInjective(tried'[r])
      BY <2>13, <3>1, <3>2, OneMoreAccount DEF Send
    <3>4. /\ pc'[r] \in {"sent", "done"} /\ route' = route /\ target' = target
          /\ excluded' = excluded /\ Range(tried[r]) \subseteq excluded[r]
      BY <2>13 DEF Send
    <3>5. QED
      BY <3>3, <3>4
  <2>14. CASE SendFails(r)
    BY <2>14 DEF SendFails, GiveUp
  <2>15. CASE Expire(r)
    BY <2>15 DEF Expire
  <2>16. QED
    BY <2>1, <2>2, <2>3, <2>4, <2>5, <2>6, <2>7, <2>8, <2>9, <2>10, <2>11,
       <2>12, <2>13, <2>14, <2>15 DEF Router, Goroutine
<1>3. QED
  BY <1>1, <1>2, SteadyStaysFresh DEF FInv

LEMMA ResponseStaysFresh ==
  ASSUME IInv, FInv, NEW m \in inbound, HandleResponse(m), spending' = spending
  PROVE  FInv'
<1> DEFINE r == m.req
<1> USE RoutesAssumption
<1>0. /\ r \in Request /\ m.account \in Account
      /\ target' = target /\ tried' = tried
  BY DEF IInv, TypeOK, Messages, HandleResponse
<1>1. CASE ~Awaited(m)
  BY <1>1, SteadyStaysFresh DEF HandleResponse, FInv, Steady
<1>2. CASE Awaited(m) /\ Deliver(r, m.account, m.kind)
  <2>1. route' = [route EXCEPT ![r] = None]
    BY <1>2 DEF HandleResponse
  <2>2. Toward(r)' /\ Fresh(r)'
    BY <1>0, <1>2, <2>1 DEF Deliver, FInv, IInv, TypeOK, Toward, Fresh
  <2>3. \A q \in Request \ {r} : Steady(q)
    BY <1>0, <1>2, <2>1 DEF Deliver, IInv, TypeOK, Steady
  <2>4. QED
    BY <2>2, <2>3, SteadyStaysFresh DEF FInv
<1>3. CASE Awaited(m) /\ Retries(m) /\ Retry(r, m.account)
  <2>1. route' = [route EXCEPT ![r] = None]
    BY <1>3 DEF HandleResponse
  <2>2. pc[r] = "sent" /\ m.account = target[r]
    <3>1. route[r] = m.account /\ ~Quiet(r)
      BY <1>0, <1>3 DEF Awaited, Quiet, Response
    <3>2. QED
      BY <1>0, <3>1 DEF FInv, Fresh, IInv, TypeOK, Agrees, Early, Places
  <2>3. Toward(r)' /\ Fresh(r)'
    BY <1>0, <1>3, <2>1, <2>2 DEF Retries, Retry, FInv, IInv, TypeOK, Toward, Fresh
  <2>4. \A q \in Request \ {r} : Steady(q)
    BY <1>0, <1>3, <2>1 DEF Retry, IInv, TypeOK, Steady
  <2>5. QED
    BY <2>3, <2>4, SteadyStaysFresh DEF FInv
<1>4. QED
  BY <1>1, <1>2, <1>3 DEF HandleResponse

LEMMA NextFInv == IInv /\ FInv /\ [Next]_vars => FInv'
<1> SUFFICES ASSUME IInv, FInv, [Next]_vars PROVE FInv'
  OBVIOUS
<1>0. spending' = spending
  BY SpendingIsFixed
<1>1. ASSUME \A q \in Request : Steady(q) PROVE FInv'
  BY <1>0, <1>1, SteadyStaysFresh DEF FInv
<1>2. ASSUME NEW m \in inbound, HandleStarted(m) PROVE FInv'
  BY <1>1, <1>2 DEF HandleStarted, Steady, handlerVars
<1>3. ASSUME NEW a \in Account, Child(a) PROVE FInv'
  BY <1>1, <1>3 DEF Child, Crash, Hang, Recover, Unlist, Restart, ChildAnswers, Steady,
     handlerVars, tableVars
<1>4. CASE Shutdown /\ ~ExpireAll
  BY <1>1, <1>4 DEF Shutdown, Signal, EndOfInput, BeginClose, CloseChildren,
     LoopEnds, Steady, handlerVars, tableVars
<1>5. CASE ExpireAll
  <2>1. ASSUME NEW q \in Request, route[q] # None PROVE Toward(q)' /\ Fresh(q)'
    <3>1. pc[q] \in {"sending", "sent"}
      BY <2>1 DEF IInv, TypeOK, Agrees, Early, Places
    <3>2. QED
      BY <1>5, <2>1, <3>1 DEF ExpireAll, FInv, IInv, TypeOK, Toward, Fresh
  <2>2. ASSUME NEW q \in Request, route[q] = None PROVE Toward(q)' /\ Fresh(q)'
    BY <1>0, <1>5, <2>2, SteadyStaysFresh DEF ExpireAll, FInv, IInv, TypeOK, Steady
  <2>3. QED
    BY <2>1, <2>2 DEF FInv
<1>6. CASE UNCHANGED vars
  BY <1>1, <1>6 DEF vars, handlerVars, tableVars, Steady
<1>7. CASE Lists
  BY <1>1, <1>7 DEF Lists, MergeList, OwnListed, Steady, handlerVars, tableVars
<1>8. QED
  BY <1>0, <1>2, <1>3, <1>4, <1>5, <1>6, <1>7, RouterStaysFresh, ResponseStaysFresh
  DEF Next, Inbound

\* However often a request is retried, over whichever limits, crashes and
\* timeouts, no account gets it twice (WIN-RTE-007; mux.go:740-769).
THEOREM TriedOnce == Spec => []EachAccountTriedOnce
<1>1. FInv => EachAccountTriedOnce
  BY DEF FInv, Fresh, EachAccountTriedOnce
<1>2. QED
  BY <1>1, InitIInv, NextIInv, InitFInv, NextFInv, PTL DEF Spec
-----------------------------------------------------------------------------
(* Where the history of a thread is                                        *)

\* Whom a list takes for the owner of a thread has its history.
Concludes(l) == \A t \in Thread : chosen[l][t] \in history[t] \cup {None}

\* An answer that names an owner comes from an account with the history.
Teaches(m) ==
  /\ pc[m.req] # "idle"
  /\ m.kind = "started" => m.req \in Start
  /\ m.req \notin Turn /\ m.kind # "limit" => m.account \in history[ThreadOf[m.req]]

\* A turn is on its way to an account that has the history of its thread.
Follows(r) ==
  /\ Range(tried[r]) \subseteq history[ThreadOf[r]]
  /\ pc[r] \in {"lock", "check", "own", "forward", "found", "sending"} =>
       target[r] \in history[ThreadOf[r]]

HistoryInv ==
  /\ OwnerHasHistory
  /\ \A m \in inbound : Teaches(m)
  /\ \A r \in Turn : Follows(r)
  /\ \A l \in List : Concludes(l)

\* History is never taken from an account.
HistoryGrows == \A t \in Thread : history[t] \subseteq history'[t]

LEMMA InitHistoryInv == Init => HistoryInv
BY RoutesAssumption, EmptyIsInjective
DEF Init, HistoryInv, OwnerHasHistory, Teaches, Follows, Concludes

\* A step that sends, moves and teaches nothing of r.
LEMMA StillFollows ==
  ASSUME IInv, NEW r \in Turn, Follows(r), HistoryGrows,
         tried'[r] = tried[r], target'[r] = target[r],
         pc'[r] \in {"lock", "check", "own", "forward", "found", "sending"} =>
           pc'[r] = pc[r]
  PROVE  Follows(r)'
BY RoutesAssumption DEF Follows, HistoryGrows

\* Requests do not go back to where they have not been received.
LEMMA StillTeaches ==
  ASSUME IInv, NEW m \in inbound, Teaches(m), HistoryGrows,
         pc[m.req] # "idle" => pc'[m.req] # "idle"
  PROVE  Teaches(m)'
BY RoutesAssumption DEF IInv, TypeOK, Messages, Teaches, HistoryGrows

LEMMA StillConcludes ==
  ASSUME IInv, HistoryInv, HistoryGrows, UNCHANGED listVars
  PROVE  \A l \in List : Concludes(l)'
BY DEF HistoryInv, Concludes, HistoryGrows, listVars

LEMMA StillOwned ==
  ASSUME IInv, OwnerHasHistory, HistoryGrows,
         \A t \in Thread : owner'[t] # owner[t] => owner'[t] \in history'[t]
  PROVE  OwnerHasHistory'
BY DEF OwnerHasHistory, HistoryGrows

LEMMA RouterKeepsHistory ==
  ASSUME IInv, FInv, HistoryInv, NEW r \in Request, Router(r)
  PROVE  HistoryInv'
<1> USE RoutesAssumption DEF Goto
<1>0. TypeOK /\ Agrees(r) /\ Directed(r) /\ Toward(r) /\ (r \in Turn => Follows(r))
  BY DEF IInv, FInv, HistoryInv
<1>1. /\ inbound' = inbound /\ pc'[r] # "idle" /\ UNCHANGED listVars
      /\ \A q \in Request \ {r} :
           pc'[q] = pc[q] /\ target'[q] = target[q] /\ tried'[q] = tried[q]
  BY <1>0
  DEF TypeOK, Router, Goroutine, Receive, Choose, ChooseNone, TakeThread, KeepOwner,
      LeaveOwner, RetakeThread, PickFallback, NoFallback, Resume, ResumeFails, Own,
      OwnFails, FindChild, CannotForward, Register, Send, SendFails, Expire, GiveUp,
      Agrees, Early, tableVars
<1>2. HistoryGrows
  <2>1. CASE Resume(r)
    BY <1>0, <2>1 DEF Resume, HistoryGrows, TypeOK
  <2>2. CASE ~Resume(r)
    <3>1. history' = history
      BY <2>2
      DEF Router, Goroutine, Receive, Choose, ChooseNone, TakeThread, KeepOwner,
          LeaveOwner, RetakeThread, PickFallback, NoFallback, ResumeFails, Own,
          OwnFails, FindChild, CannotForward, Register, Send, SendFails, Expire,
          GiveUp, threadVars
    <3>2. QED
      BY <3>1 DEF HistoryGrows
  <2>3. QED
    BY <2>1, <2>2
<1>3. OwnerHasHistory'
  <2>1. CASE Own(r)
    <3>1. owner' = [owner EXCEPT ![ThreadOf[r]] = target[r]] /\ history' = history
      BY <2>1 DEF Own
    <3>2. target[r] \in history[ThreadOf[r]]
      BY <1>0, <2>1 DEF Own, Toward, Follows
    <3>3. QED
      BY <1>0, <3>1, <3>2 DEF TypeOK, HistoryInv, OwnerHasHistory
  <2>2. CASE ~Own(r)
    <3>1. owner' = owner
      BY <2>2
      DEF Router, Goroutine, Receive, Choose, ChooseNone, TakeThread, KeepOwner,
          LeaveOwner, RetakeThread, PickFallback, NoFallback, Resume, ResumeFails,
          OwnFails, FindChild, CannotForward, Register, Send, SendFails, Expire,
          GiveUp, threadVars
    <3>2. QED
      BY <1>2, <3>1, StillOwned DEF HistoryInv
  <2>3. QED
    BY <2>1, <2>2
<1>4. \A m \in inbound' : Teaches(m)'
  <2>1. ASSUME NEW m \in inbound PROVE Teaches(m)'
    <3>1. m.req \in Request
      BY <1>0 DEF TypeOK, Messages
    <3>2. QED
      BY <1>1, <1>2, <3>1, StillTeaches DEF HistoryInv
  <2>2. QED
    BY <1>1, <2>1
<1>5. ASSUME r \in Turn PROVE Follows(r)'
  <2> USE <1>0, <1>5 DEF TypeOK, Toward
  <2>1. CASE Receive(r)
    <3>1. target'[r] \in history[ThreadOf[r]]
      BY <2>1 DEF Receive, OwnerOrController, HistoryInv, OwnerHasHistory
    <3>2. QED
      BY <2>1, <3>1 DEF Receive, Follows, threadVars, tableVars
  <2>2. CASE TakeThread(r)
    <3>1. target'[r] \in history[ThreadOf[r]]
      BY <2>2 DEF TakeThread, HistoryInv, OwnerHasHistory, Follows
    <3>2. QED
      BY <2>2, <3>1 DEF TakeThread, Follows, tableVars
  <2>3. CASE KeepOwner(r)
    BY <2>3 DEF KeepOwner, Follows, threadVars, tableVars
  <2>4. CASE Resume(r)
    <3>1. target[r] \in Account
      BY <2>4 DEF Resume, Directed
    <3>2. target[r] \in history'[ThreadOf[r]]
      BY <2>4, <3>1 DEF Resume
    <3>3. QED
      BY <1>2, <2>4, <3>2 DEF Resume, Follows, HistoryGrows, tableVars
  <2>5. CASE Own(r)
    BY <2>5 DEF Own, Follows, tableVars
  <2>6. CASE FindChild(r)
    BY <2>6 DEF FindChild, Follows, threadVars, tableVars
  <2>7. CASE Register(r)
    BY <2>7 DEF Register, Follows, threadVars
  <2>8. CASE Send(r)
    <3>1. /\ Range(tried'[r]) = Range(tried[r]) \cup {target[r]}
          /\ history' = history /\ pc'[r] \in {"sent", "done"}
      BY <2>8, OneMoreAccount DEF Send, Directed
    <3>2. QED
      BY <2>8, <3>1 DEF Send, Follows
  <2>11. CASE \/ LeaveOwner(r) \/ RetakeThread(r) \/ PickFallback(r)
              \/ SendFails(r) \/ ChooseNone(r) \/ NoFallback(r)
              \/ ResumeFails(r) \/ OwnFails(r) \/ CannotForward(r)
    <3>1. tried'[r] = tried[r] /\ pc'[r] \in {"pick", "move", "done"}
      BY <2>11 DEF LeaveOwner, RetakeThread, PickFallback, SendFails,
         ChooseNone, NoFallback, ResumeFails, OwnFails, CannotForward, GiveUp,
         tableVars
    <3>2. QED
      BY <1>2, <3>1 DEF Follows, HistoryGrows
  <2>9. CASE Expire(r)
    BY <1>2, <2>9, StillFollows DEF Expire
  <2>10. CASE Choose(r)
    BY <2>10 DEF Choose
  <2>12. QED
    BY <2>1, <2>2, <2>3, <2>4, <2>5, <2>6, <2>7, <2>8, <2>9, <2>10, <2>11
    DEF Router, Goroutine
<1>6. ASSUME NEW q \in Turn, q # r PROVE Follows(q)'
  BY <1>1, <1>2, <1>6, StillFollows DEF HistoryInv
<1>7. QED
  BY <1>1, <1>2, <1>3, <1>4, <1>5, <1>6, StillConcludes DEF HistoryInv

LEMMA InboundKeepsHistory ==
  ASSUME IInv, FInv, HistoryInv, NEW m \in inbound,
         HandleResponse(m) \/ HandleStarted(m)
  PROVE  HistoryInv'
<1> USE RoutesAssumption
<1>0. /\ TypeOK /\ m.req \in Request /\ m.account \in Account /\ Teaches(m)
      /\ history' = history /\ inbound' \subseteq inbound
      /\ tried' = tried /\ target' = target /\ UNCHANGED listVars
  BY DEF IInv, TypeOK, Messages, HistoryInv, HandleResponse, HandleStarted, handlerVars
<1>1. HistoryGrows
  BY <1>0 DEF HistoryGrows
<1>2. \A q \in Request : \/ pc'[q] = pc[q]
                         \/ pc'[q] \in {"choose", "relock", "done"}
  BY <1>0 DEF TypeOK, HandleResponse, HandleStarted, Retry, Deliver, handlerVars
<1>3. \/ owner' = owner
      \/ /\ owner' = [owner EXCEPT ![ThreadOf[m.req]] = m.account]
         /\ m.account \in history[ThreadOf[m.req]]
  BY <1>0 DEF HandleResponse, HandleStarted, Retry, Deliver, Teaches
<1>4. OwnerHasHistory'
  BY <1>0, <1>3 DEF HistoryInv, TypeOK, OwnerHasHistory
<1>5. ASSUME NEW n \in inbound PROVE Teaches(n)'
  <2>1. n.req \in Request
    BY <1>0 DEF TypeOK, Messages
  <2>2. QED
    BY <1>1, <1>2, <2>1, StillTeaches DEF HistoryInv
<1>6. ASSUME NEW q \in Turn PROVE Follows(q)'
  BY <1>0, <1>1, <1>2, StillFollows DEF HistoryInv
<1>7. QED
  BY <1>0, <1>1, <1>4, <1>5, <1>6, StillConcludes DEF HistoryInv

LEMMA ChildAnswersKeepsHistory ==
  ASSUME IInv, FInv, HistoryInv, NEW r \in Request, NEW a \in Account,
         ChildAnswers(r, a)
  PROVE  HistoryInv'
<1> USE RoutesAssumption
<1>0. /\ TypeOK /\ owner' = owner /\ tried' = tried
      /\ pc' = pc /\ target' = target /\ pc[r] # "idle" /\ UNCHANGED listVars
  BY DEF IInv, ChildAnswers, handlerVars, Agrees, Early, Quiet
<1>1. HistoryGrows
  <2>1. \/ history' = history
        \/ history' = [history EXCEPT ![ThreadOf[r]] = @ \cup {a}]
    BY DEF ChildAnswers
  <2>2. history \in [Thread -> SUBSET Account]
    BY <1>0 DEF TypeOK
  <2>3. ASSUME NEW t \in Thread PROVE history[t] \subseteq history'[t]
    BY <2>1, <2>2, <2>3
  <2>4. QED
    BY <2>3 DEF HistoryGrows
<1>2. OwnerHasHistory'
  BY <1>0, <1>1, StillOwned DEF HistoryInv
<1>3. ASSUME NEW m \in inbound', m \notin inbound PROVE Teaches(m)'
  <2>1. /\ m.req = r /\ m.account = a
        /\ m.kind = "started" => r \in Start
        /\ m.kind # "limit" /\ r \notin Turn =>
             history' = [history EXCEPT ![ThreadOf[r]] = @ \cup {a}]
    BY <1>3 DEF ChildAnswers
  <2>2. QED
    BY <1>0, <2>1 DEF Teaches, TypeOK
<1>4. ASSUME NEW m \in inbound PROVE Teaches(m)'
  BY <1>0, <1>1, StillTeaches DEF HistoryInv
<1>5. ASSUME NEW q \in Turn PROVE Follows(q)'
  BY <1>0, <1>1, StillFollows DEF HistoryInv
<1>6. QED
  BY <1>0, <1>1, <1>2, <1>3, <1>4, <1>5, StillConcludes DEF HistoryInv

\* Steps that touch neither threads nor messages.
LEMMA IdleKeepsHistory ==
  ASSUME IInv, HistoryInv, history' = history, owner' = owner, tried' = tried,
         target' = target, inbound' = inbound, UNCHANGED listVars,
         \A q \in Request : pc'[q] = pc[q] \/ pc'[q] = "done"
  PROVE  HistoryInv'
<1>1. HistoryGrows
  BY DEF HistoryGrows
<1>2. ASSUME NEW m \in inbound PROVE Teaches(m)'
  <2>1. m.req \in Request
    BY DEF IInv, TypeOK, Messages
  <2>2. QED
    BY <1>1, <2>1, StillTeaches DEF HistoryInv
<1>3. ASSUME NEW q \in Turn PROVE Follows(q)'
  BY <1>1, StillFollows, RoutesAssumption DEF HistoryInv
<1>4. QED
  BY <1>1, <1>2, <1>3, StillOwned, StillConcludes DEF HistoryInv

\* A list only ever writes accounts that have the threads.
LEMMA ListsKeepHistory ==
  ASSUME IInv, HistoryInv, NEW l \in List, MergeList(l) \/ OwnListed(l)
  PROVE  HistoryInv'
<1>0. /\ TypeOK /\ history' = history /\ tried' = tried /\ target' = target
      /\ inbound' = inbound /\ pc' = pc
  BY DEF IInv, MergeList, OwnListed, threadVars, handlerVars, tableVars
<1>1. HistoryGrows
  BY <1>0 DEF HistoryGrows
<1>2. OwnerHasHistory'
  <2>1. \A t \in Thread : owner'[t] # owner[t] => owner'[t] \in history'[t]
    BY <1>0 DEF TypeOK, HistoryInv, Concludes, MergeList, OwnListed, threadVars
  <2>2. QED
    BY <1>1, <2>1, StillOwned DEF HistoryInv
<1>3. ASSUME NEW m \in inbound PROVE Teaches(m)'
  <2>1. m.req \in Request
    BY <1>0 DEF TypeOK, Messages
  <2>2. QED
    BY <1>0, <1>1, <2>1, StillTeaches DEF HistoryInv
<1>4. ASSUME NEW q \in Turn PROVE Follows(q)'
  BY <1>0, <1>1, StillFollows, RoutesAssumption DEF HistoryInv
<1>5. ASSUME NEW o \in List PROVE Concludes(o)'
  <2>1. CASE MergeList(l)
    <3>1. PICK found \in [Thread -> Account \cup {None}] :
            /\ \A t \in Thread : found[t] \in MergedOwner(t)
            /\ chosen' = [chosen EXCEPT ![l] = found]
      BY <2>1 DEF MergeList
    <3>2. \A t \in Thread : MergedOwner(t) \subseteq history[t] \cup {None}
      BY DEF MergedOwner
    <3>3. chosen'[o] = found \/ chosen'[o] = chosen[o]
      BY <1>0, <3>1 DEF TypeOK
    <3>4. QED
      BY <1>0, <3>1, <3>2, <3>3 DEF HistoryInv, Concludes
  <2>2. CASE OwnListed(l)
    BY <1>0, <2>2 DEF TypeOK, HistoryInv, Concludes, OwnListed
  <2>3. QED
    BY <2>1, <2>2
<1>6. QED
  BY <1>0, <1>2, <1>3, <1>4, <1>5 DEF HistoryInv

LEMMA NextHistoryInv == IInv /\ FInv /\ HistoryInv /\ [Next]_vars => HistoryInv'
<1> SUFFICES ASSUME IInv, FInv, HistoryInv, [Next]_vars PROVE HistoryInv'
  OBVIOUS
<1>1. ASSUME NEW a \in Account, Crash(a) \/ Hang(a) \/ Recover(a) \/ Unlist(a) \/ Restart(a)
      PROVE  HistoryInv'
  BY <1>1, IdleKeepsHistory
  DEF Crash, Hang, Recover, Unlist, Restart, Lose, threadVars, handlerVars, tableVars
<1>2. CASE Shutdown
  <2>1. \A q \in Request : pc'[q] = pc[q] \/ pc'[q] = "done"
    BY <1>2 DEF Shutdown, Signal, EndOfInput, BeginClose, ExpireAll, CloseChildren,
       LoopEnds, handlerVars
  <2>2. QED
    BY <1>2, <2>1, IdleKeepsHistory
    DEF Shutdown, Signal, EndOfInput, BeginClose, ExpireAll, CloseChildren,
        LoopEnds, Lose, threadVars, handlerVars, tableVars
<1>3. CASE UNCHANGED vars
  BY <1>3, IdleKeepsHistory DEF vars, threadVars, handlerVars, tableVars
<1>4. QED
  BY <1>1, <1>2, <1>3, RouterKeepsHistory, InboundKeepsHistory,
     ChildAnswersKeepsHistory, ListsKeepHistory
  DEF Next, Inbound, Child, Lists

\* Whatever is moved, resumed, listed, answered late or fails half-way, the recorded
\* owner of a thread is an account that has it (WIN-RTE-005; mux.go:537-544).
THEOREM OwnersHaveHistory == Spec => []OwnerHasHistory
<1>1. HistoryInv => OwnerHasHistory
  BY DEF HistoryInv
<1>2. QED
  BY <1>1, InitIInv, NextIInv, InitFInv, NextFInv, InitHistoryInv, NextHistoryInv,
     PTL DEF Spec

\* A turn is only sent where the history of its thread is (mux.go:503-520,
\* 537-548).
THEOREM TurnsGoToHistory == Spec => []TurnsFollowHistory
<1>1. HistoryInv => TurnsFollowHistory
  BY DEF HistoryInv, Follows, TurnsFollowHistory
<1>2. QED
  BY <1>1, InitIInv, NextIInv, InitFInv, NextFInv, InitHistoryInv, NextHistoryInv,
     PTL DEF Spec
-----------------------------------------------------------------------------
(* Where a moved thread is                                                 *)

\* Only turns have been received of the thread of r, and no list has begun.
OnlyTurns(r) ==
  /\ \A q \in Request \ Turn : ThreadOf[q] = ThreadOf[r] => pc[q] = "idle"
  /\ \A l \in List : lpc[l] = "idle"

\* A turn that moves its thread holds it, and until it has been forwarded.
Holds(r) ==
  \/ pc[r] \in {"check", "pick", "move", "own"}
  \/ pc[r] = "forward" /\ source[r] # None
  => lock[ThreadOf[r]] = r

Arrives(r) ==
  pc[r] = "forward" /\ source[r] # None /\ OnlyTurns(r)
  => owner[ThreadOf[r]] = target[r]

MovedInv == \A r \in Turn : Holds(r) /\ Arrives(r)

LEMMA InitMovedInv == Init => MovedInv
BY RoutesAssumption DEF Init, MovedInv, Holds, Arrives

\* A step of others, who do not have the lock of q's thread.
LEMMA StillHolds ==
  ASSUME IInv, NEW q \in Turn, Holds(q), source'[q] = source[q],
         pc'[q] = pc[q] \/ pc'[q] \in {"relock", "choose", "done"},
         lock[ThreadOf[q]] = q => lock'[ThreadOf[q]] = q
  PROVE  Holds(q)'
BY RoutesAssumption DEF Holds

\* A step of others, which gives q's thread to nobody or answers a request
\* that is not a turn.
LEMMA StillArrives ==
  ASSUME IInv, NEW q \in Turn, Arrives(q),
         source'[q] = source[q], target'[q] = target[q],
         pc'[q] = pc[q] \/ pc'[q] \in {"relock", "choose", "done"},
         \A o \in Request : pc[o] # "idle" => pc'[o] # "idle",
         \A l \in List : lpc[l] # "idle" => lpc'[l] # "idle",
         owner'[ThreadOf[q]] = owner[ThreadOf[q]] \/ ~OnlyTurns(q)
  PROVE  Arrives(q)'
BY RoutesAssumption DEF Arrives, OnlyTurns

LEMMA RouterKeepsMoved ==
  ASSUME IInv, FInv, MovedInv, NEW r \in Request, Router(r)
  PROVE  MovedInv'
<1> USE RoutesAssumption DEF Goto
<1>0. TypeOK /\ Agrees(r) /\ Toward(r) /\ Fresh(r) /\ (r \in Turn => Holds(r) /\ Arrives(r))
  BY DEF IInv, FInv, MovedInv
<1>1. /\ \A q \in Request \ {r} :
           pc'[q] = pc[q] /\ target'[q] = target[q] /\ source'[q] = source[q]
      /\ pc'[r] # "idle" /\ lpc' = lpc
  <2>1. \/ pc' = pc /\ pc[r] # "idle"
        \/ \E to \in Places \ {"idle"} : pc' = [pc EXCEPT ![r] = to]
    BY <1>0
    DEF TypeOK, Places, Router, Goroutine, Receive, Choose, ChooseNone, TakeThread,
        KeepOwner, LeaveOwner, RetakeThread, PickFallback, NoFallback, Resume,
        ResumeFails, Own, OwnFails, FindChild, CannotForward, Register, Send,
        SendFails, Expire, GiveUp, Agrees, Early
  <2>2. /\ target' = target \/ \E x : target' = [target EXCEPT ![r] = x]
        /\ source' = source \/ \E x : source' = [source EXCEPT ![r] = x]
    BY DEF Router, Goroutine, Receive, Choose, ChooseNone, TakeThread, KeepOwner,
       LeaveOwner, RetakeThread, PickFallback, NoFallback, Resume, ResumeFails, Own,
       OwnFails, FindChild, CannotForward, Register, Send, SendFails, Expire, GiveUp
  <2>3. lpc' = lpc
    BY DEF Router, Goroutine, Receive, Choose, ChooseNone, TakeThread, KeepOwner,
       LeaveOwner, RetakeThread, PickFallback, NoFallback, Resume, ResumeFails, Own,
       OwnFails, FindChild, CannotForward, Register, Send, SendFails, Expire, GiveUp,
       listVars
  <2>4. QED
    BY <1>0, <2>1, <2>2, <2>3 DEF TypeOK
<1>2. \/ lock' = lock
      \/ lock' = [t \in Thread |-> IF lock[t] = r THEN None ELSE lock[t]]
      \/ lock[ThreadOf[r]] = None /\ lock' = [lock EXCEPT ![ThreadOf[r]] = r]
  BY DEF Router, Goroutine, Receive, Choose, ChooseNone, TakeThread, KeepOwner,
     LeaveOwner, RetakeThread, PickFallback, NoFallback, Resume, ResumeFails, Own,
     OwnFails, FindChild, CannotForward, Register, Send, SendFails, Expire, GiveUp,
     Unlock, threadVars
<1>3. \/ owner' = owner
      \/ /\ r \in Turn /\ lock[ThreadOf[r]] = r /\ pc'[r] = "forward"
         /\ target' = target
         /\ owner' = [owner EXCEPT ![ThreadOf[r]] = target[r]]
  <2>1. CASE Own(r)
    BY <1>0, <2>1 DEF Own, Toward, Holds, TypeOK
  <2>2. CASE ~Own(r)
    BY <2>2
    DEF Router, Goroutine, Receive, Choose, ChooseNone, TakeThread, KeepOwner,
        LeaveOwner, RetakeThread, PickFallback, NoFallback, Resume, ResumeFails,
        OwnFails, FindChild, CannotForward, Register, Send, SendFails, Expire,
        GiveUp, threadVars
  <2>3. QED
    BY <2>1, <2>2
<1>4. ASSUME NEW q \in Turn, q # r PROVE Holds(q)' /\ Arrives(q)'
  <2>1. Holds(q) /\ Arrives(q) /\ ThreadOf[q] \in Thread /\ q \in Request
    BY <1>4 DEF MovedInv
  <2>2. lock[ThreadOf[q]] = q => lock'[ThreadOf[q]] = q
    BY <1>0, <1>2, <1>4, <2>1 DEF TypeOK
  <2>3. Holds(q)'
    BY <1>1, <1>4, <2>1, <2>2, StillHolds
  <2>4. CASE owner'[ThreadOf[q]] = owner[ThreadOf[q]]
    <3>1. \A o \in Request : pc[o] # "idle" => pc'[o] # "idle"
      BY <1>1
    <3>2. QED
      BY <1>1, <1>4, <2>1, <2>3, <2>4, <3>1, StillArrives
  <2>5. CASE owner'[ThreadOf[q]] # owner[ThreadOf[q]]
    <3>1. lock[ThreadOf[q]] = r
      BY <1>0, <1>3, <2>1, <2>5 DEF TypeOK
    <3>2. pc[q] = "forward" => source[q] = None
      BY <1>4, <2>1, <3>1 DEF Holds
    <3>3. pc'[q] = pc[q] /\ source'[q] = source[q]
      BY <1>1, <1>4, <2>1
    <3>4. QED
      BY <2>3, <3>2, <3>3 DEF Arrives
  <2>6. QED
    BY <2>3, <2>4, <2>5
<1>5. ASSUME r \in Turn PROVE Holds(r)' /\ Arrives(r)'
  <2> USE <1>0, <1>5 DEF TypeOK
  <2>1. CASE Receive(r)
    BY <2>1 DEF Receive, Fresh, Holds, Arrives
  <2>2. CASE TakeThread(r)
    BY <2>2 DEF TakeThread, Holds, Arrives
  <2>3. CASE KeepOwner(r)
    BY <2>3 DEF KeepOwner, Fresh, Holds, Arrives
  <2>4. CASE LeaveOwner(r) \/ PickFallback(r) \/ Resume(r)
    BY <2>4 DEF LeaveOwner, PickFallback, Resume, Holds, Arrives, threadVars
  <2>5. CASE RetakeThread(r)
    BY <2>5 DEF RetakeThread, Holds, Arrives
  <2>6. CASE Own(r)
    BY <2>6 DEF Own, Holds, Arrives
  <2>7. CASE \/ FindChild(r) \/ Register(r) \/ Send(r) \/ SendFails(r)
             \/ ChooseNone(r) \/ NoFallback(r) \/ ResumeFails(r) \/ OwnFails(r)
             \/ CannotForward(r)
    <3>1. pc'[r] \in {"found", "sending", "sent", "done"}
      BY <2>7 DEF FindChild, Register, Send, SendFails, ChooseNone, NoFallback,
         ResumeFails, OwnFails, CannotForward, GiveUp
    <3>2. QED
      BY <3>1 DEF Holds, Arrives
  <2>8. CASE Expire(r)
    <3>1. /\ pc'[r] = pc[r] \/ pc'[r] = "done"
          /\ target' = target /\ source' = source /\ owner' = owner /\ lock' = lock
      BY <2>8 DEF Expire, threadVars
    <3>2. Holds(r)'
      BY <1>5, <3>1 DEF Holds
    <3>3. \A o \in Request : pc[o] # "idle" => pc'[o] # "idle"
      BY <1>1
    <3>4. QED
      BY <1>1, <3>1, <3>2, <3>3, StillArrives
  <2>9. CASE Choose(r)
    BY <2>9 DEF Choose, Toward
  <2>10. QED
    BY <2>1, <2>2, <2>3, <2>4, <2>5, <2>6, <2>7, <2>8, <2>9 DEF Router, Goroutine
<1>6. QED
  BY <1>4, <1>5 DEF MovedInv

LEMMA InboundKeepsMoved ==
  ASSUME IInv, HistoryInv, MovedInv, NEW m \in inbound,
         HandleResponse(m) \/ HandleStarted(m)
  PROVE  MovedInv'
<1> USE RoutesAssumption
<1>0. /\ TypeOK /\ m.req \in Request /\ m.account \in Account /\ Teaches(m)
      /\ lock' = lock /\ target' = target /\ lpc' = lpc
  BY DEF IInv, TypeOK, Messages, HistoryInv, HandleResponse, HandleStarted,
     handlerVars, listVars
<1>1. \A q \in Request :
        \/ pc'[q] = pc[q] /\ source'[q] = source[q]
        \/ pc'[q] \in {"choose", "relock", "done"}
  BY <1>0 DEF TypeOK, HandleResponse, HandleStarted, Retry, Deliver, handlerVars
<1>2. \/ owner' = owner
      \/ /\ owner' = [owner EXCEPT ![ThreadOf[m.req]] = m.account]
         /\ m.req \notin Turn /\ pc[m.req] # "idle"
  BY <1>0 DEF HandleResponse, HandleStarted, Retry, Deliver, Teaches
<1>3. ASSUME NEW q \in Turn PROVE Holds(q)' /\ Arrives(q)'
  <2>1. Holds(q) /\ Arrives(q) /\ q \in Request /\ ThreadOf[q] \in Thread
    BY DEF MovedInv
  <2>2. CASE pc'[q] \in {"choose", "relock", "done"}
    BY <2>2 DEF Holds, Arrives
  <2>3. CASE pc'[q] = pc[q] /\ source'[q] = source[q]
    <3>1. Holds(q)'
      BY <1>0, <2>1, <2>3, StillHolds
    <3>2. owner'[ThreadOf[q]] = owner[ThreadOf[q]] \/ ~OnlyTurns(q)
      BY <1>0, <1>2, <2>1 DEF OnlyTurns, TypeOK
    <3>3. Arrives(q)'
      BY <1>0, <1>1, <2>1, <2>3, <3>2, StillArrives
    <3>4. QED
      BY <3>1, <3>3
  <2>4. QED
    BY <1>1, <2>1, <2>2, <2>3
<1>4. QED
  BY <1>3 DEF MovedInv

\* Steps that move no thread and lock none.
LEMMA IdleKeepsMoved ==
  ASSUME IInv, MovedInv, owner' = owner, lock' = lock, source' = source,
         target' = target, lpc' = lpc, \A q \in Request : pc'[q] = pc[q] \/ pc'[q] = "done"
  PROVE  MovedInv'
<1>1. ASSUME NEW q \in Turn PROVE Holds(q)' /\ Arrives(q)'
  <2>1. Holds(q) /\ Arrives(q) /\ q \in Request
    BY RoutesAssumption DEF MovedInv
  <2>2. QED
    BY <1>1, <2>1, StillHolds, StillArrives
<1>2. QED
  BY <1>1 DEF MovedInv

\* A thread that a list may have concerned is no longer one of turns only.
LEMMA ListsKeepMoved ==
  ASSUME IInv, MovedInv, NEW l \in List, MergeList(l) \/ OwnListed(l)
  PROVE  MovedInv'
<1>1. lpc'[l] # "idle"
  BY DEF IInv, TypeOK, MergeList, OwnListed
<1>2. ASSUME NEW q \in Turn PROVE Holds(q)' /\ Arrives(q)'
  <2>1. Holds(q) /\ q \in Request
    BY RoutesAssumption DEF MovedInv
  <2>2. Holds(q)'
    BY <2>1 DEF Holds, MergeList, OwnListed, threadVars, handlerVars
  <2>3. Arrives(q)'
    BY <1>1 DEF Arrives, OnlyTurns
  <2>4. QED
    BY <2>2, <2>3
<1>3. QED
  BY <1>2 DEF MovedInv

LEMMA NextMovedInv ==
  IInv /\ FInv /\ HistoryInv /\ MovedInv /\ [Next]_vars => MovedInv'
<1> SUFFICES ASSUME IInv, FInv, HistoryInv, MovedInv, [Next]_vars PROVE MovedInv'
  OBVIOUS
<1>1. ASSUME NEW a \in Account, Child(a) PROVE MovedInv'
  BY <1>1, IdleKeepsMoved
  DEF Child, Crash, Hang, Recover, Unlist, Restart, ChildAnswers, threadVars,
      handlerVars, listVars
<1>2. CASE Shutdown
  <2>1. \A q \in Request : pc'[q] = pc[q] \/ pc'[q] = "done"
    BY <1>2 DEF Shutdown, Signal, EndOfInput, BeginClose, ExpireAll, CloseChildren,
       LoopEnds, handlerVars
  <2>2. QED
    BY <1>2, <2>1, IdleKeepsMoved
    DEF Shutdown, Signal, EndOfInput, BeginClose, ExpireAll, CloseChildren,
        LoopEnds, threadVars, handlerVars, listVars
<1>3. CASE UNCHANGED vars
  BY <1>3, IdleKeepsMoved DEF vars, threadVars, handlerVars, listVars
<1>4. QED
  BY <1>1, <1>2, <1>3, RouterKeepsMoved, InboundKeepsMoved, ListsKeepMoved
  DEF Next, Inbound, Lists

\* Turns that fail over at once take their thread along one after the other
\* where no other request and no list touched it (WIN-RTE-005; mux.go:490-548,
\* 740-769).
THEOREM ThreadsMoveWithTurns == Spec => []MovedTurnGoesToOwner
<1>1. MovedInv => MovedTurnGoesToOwner
  BY DEF MovedInv, Arrives, OnlyTurns, MovedTurnGoesToOwner
<1>2. QED
  BY <1>1, InitIInv, NextIInv, InitFInv, NextFInv, InitHistoryInv, NextHistoryInv,
     InitMovedInv, NextMovedInv, PTL DEF Spec
-----------------------------------------------------------------------------
(* Spending apart from history                                             *)

\* The accounts that have the thread of r, or will create it.
Homes(r) ==
  history[ThreadOf[r]] \cup (IF ThreadOf[r] \in NewThreads THEN {Controller} ELSE {})

\* A request only ever concerns accounts where its thread is.
AtHome(r) ==
  /\ target[r] \in Homes(r) \cup {None} /\ route[r] \in Homes(r) \cup {None}
  /\ \A a \in Account : <<r, a>> \in work => a \in Homes(r)

\* A thread is with the controller or was there before.
Settled(t) ==
  IF t \in NewThreads THEN history[t] \subseteq {Controller} ELSE owner[t] # None

HInv ==
  spending => /\ \A t \in Thread : Settled(t)
              /\ \A r \in Request : AtHome(r)

LEMMA InitHInv == Init => HInv
BY RoutesAssumption DEF Init, HInv, AtHome, Homes, Settled, NewThreads

\* No step of spending mode gives a thread to one more account.
StaysHome ==
  \A t \in Thread :
    \/ history'[t] = history[t]
    \/ t \in NewThreads /\ history[t] = {} /\ history'[t] = {Controller}

LEMMA HistoryStaysHome ==
  ASSUME IInv, FInv, HistoryInv, HInv, spending, [Next]_vars
  PROVE  StaysHome
<1> USE RoutesAssumption
<1>1. history' = history => StaysHome
  BY DEF StaysHome
<1>2. ASSUME NEW r \in Request, Router(r) PROVE history' = history
  <2>1. ~Resume(r)
    BY DEF FInv, Toward, Resume, Goto
  <2>2. QED
    BY <1>2, <2>1
    DEF Router, Goroutine, Receive, Choose, ChooseNone, TakeThread, KeepOwner,
        LeaveOwner, RetakeThread, PickFallback, NoFallback, ResumeFails, Own,
        OwnFails, FindChild, CannotForward, Register, Send, SendFails, Expire,
        GiveUp, threadVars
<1>3. ASSUME NEW r \in Request, NEW a \in Account, ChildAnswers(r, a)
      PROVE  StaysHome
  <2>1. a \in Homes(r) /\ history \in [Thread -> SUBSET Account]
    BY <1>3 DEF HInv, AtHome, ChildAnswers, IInv, TypeOK
  <2>2. CASE a \in history[ThreadOf[r]]
    BY <1>1, <1>3, <2>1, <2>2 DEF ChildAnswers
  <2>3. CASE a \notin history[ThreadOf[r]]
    <3>1. /\ ThreadOf[r] \in NewThreads /\ a = Controller
          /\ history[ThreadOf[r]] = {}
      BY <2>1, <2>3 DEF Homes, HInv, Settled
    <3>2. \/ history' = history
          \/ history' = [history EXCEPT ![ThreadOf[r]] = @ \cup {a}]
      BY <1>3 DEF ChildAnswers
    <3>3. QED
      BY <2>1, <3>1, <3>2 DEF StaysHome
  <2>4. QED
    BY <2>2, <2>3
<1>4. CASE Inbound \/ Lists
  BY <1>1, <1>4
  DEF Inbound, HandleResponse, HandleStarted, Lists, MergeList, OwnListed, threadVars
<1>5. ASSUME NEW a \in Account,
             Crash(a) \/ Hang(a) \/ Recover(a) \/ Unlist(a) \/ Restart(a)
      PROVE  history' = history
  BY <1>5 DEF Crash, Hang, Recover, Unlist, Restart, threadVars
<1>6. CASE Shutdown
  BY <1>1, <1>6 DEF Shutdown, Signal, EndOfInput, BeginClose, ExpireAll,
     CloseChildren, LoopEnds, threadVars
<1>7. QED
  BY <1>1, <1>2, <1>3, <1>4, <1>5, <1>6 DEF Next, Child, vars, threadVars

\* Known owners are replaced, not forgotten.
LEMMA OwnersRemain ==
  ASSUME IInv, HistoryInv, [Next]_vars
  PROVE  \A t \in Thread : owner[t] # None => owner'[t] # None
<1> USE RoutesAssumption
<1>1. ASSUME NEW r \in Request, Router(r)
      PROVE  \/ owner' = owner
             \/ /\ owner' = [owner EXCEPT ![ThreadOf[r]] = target[r]]
                /\ target[r] # None
  <2>1. Own(r) => target[r] # None
    BY DEF Own, Goto, IInv, Directed
  <2>2. QED
    BY <1>1, <2>1
    DEF Router, Goroutine, Receive, Choose, ChooseNone, TakeThread, KeepOwner,
        LeaveOwner, RetakeThread, PickFallback, NoFallback, Resume, ResumeFails,
        Own, OwnFails, FindChild, CannotForward, Register, Send, SendFails,
        Expire, GiveUp, threadVars
<1>2. ASSUME NEW m \in inbound, HandleResponse(m) \/ HandleStarted(m)
      PROVE  /\ m.account # None
             /\ \/ owner' = owner
                \/ owner' = [owner EXCEPT ![ThreadOf[m.req]] = m.account]
  BY <1>2 DEF HandleResponse, HandleStarted, Retry, Deliver, IInv, TypeOK, Messages
<1>3. ASSUME NEW l \in List, MergeList(l) \/ OwnListed(l)
      PROVE  \A t \in Thread : owner[t] # None => owner'[t] # None
  BY <1>3 DEF MergeList, OwnListed, threadVars
<1>4. ASSUME NEW a \in Account, Child(a) PROVE owner' = owner
  BY <1>4 DEF Child, Crash, Hang, Recover, Unlist, Restart, ChildAnswers, threadVars
<1>5. Shutdown => owner' = owner
  BY DEF Shutdown, Signal, EndOfInput, BeginClose, ExpireAll, CloseChildren,
     LoopEnds, threadVars
<1>6. owner \in [Thread -> Account \cup {None}]
  BY DEF IInv, TypeOK
<1>7. CASE \E r \in Request : Router(r)
  BY <1>1, <1>6, <1>7
<1>8. CASE Inbound
  BY <1>2, <1>6, <1>8 DEF Inbound
<1>9. CASE Lists
  BY <1>3, <1>9 DEF Lists
<1>10. QED
  BY <1>4, <1>5, <1>7, <1>8, <1>9 DEF Next, vars, threadVars

LEMMA RouterStaysHome ==
  ASSUME IInv, FInv, HistoryInv, HInv, spending, NEW q \in Request, Router(q),
         NEW r \in Request, Homes(r)' = Homes(r)
  PROVE  AtHome(r)'
<1> USE RoutesAssumption DEF AtHome, Goto
<1>0. TypeOK /\ Toward(q) /\ AtHome(r) /\ AtHome(q) /\ Directed(q)
  BY DEF IInv, FInv, HInv
<1> USE <1>0 DEF TypeOK
<1>1. CASE Receive(q)
  <2>1. OwnerOrController(ThreadOf[q]) \in Homes(q)
    BY DEF OwnerOrController, Homes, HInv, Settled, HistoryInv, OwnerHasHistory
  <2>2. QED
    BY <1>1, <2>1 DEF Receive, tableVars
<1>2. CASE Choose(q)
  BY <1>2 DEF Choose, tableVars, Toward, NewThreads, Homes
<1>3. CASE \/ ChooseNone(q) \/ NoFallback(q) \/ ResumeFails(q) \/ OwnFails(q)
           \/ CannotForward(q)
  BY <1>3 DEF ChooseNone, NoFallback, ResumeFails, OwnFails, CannotForward, GiveUp
<1>4. CASE FindChild(q)
  BY <1>4 DEF FindChild, tableVars
<1>5. CASE Register(q)
  BY <1>5 DEF Register
<1>6. CASE Send(q)
  BY <1>6 DEF Send, Directed
<1>7. CASE SendFails(q) \/ Expire(q)
  <2>1. target' = target /\ work' = work /\ route' = [route EXCEPT ![q] = None]
    BY <1>7 DEF SendFails, Expire, GiveUp
  <2>2. QED
    BY <2>1
<1>8. QED
  BY <1>1, <1>2, <1>3, <1>4, <1>5, <1>6, <1>7
  DEF Toward, Router, Goroutine, TakeThread, KeepOwner, LeaveOwner, RetakeThread,
      PickFallback, Resume, Own

LEMMA NextHInv == IInv /\ FInv /\ HistoryInv /\ HInv /\ [Next]_vars => HInv'
<1> SUFFICES ASSUME IInv, FInv, HistoryInv, HInv, [Next]_vars, spending
             PROVE  HInv'
  BY SpendingIsFixed DEF HInv
<1> USE RoutesAssumption
<1>1. StaysHome
  BY HistoryStaysHome
<1>2. ASSUME NEW t \in Thread PROVE Settled(t)'
  BY <1>1, <1>2, OwnersRemain DEF HInv, Settled, StaysHome
<1>3. ASSUME NEW r \in Request PROVE AtHome(r)'
  <2>1. AtHome(r) /\ Homes(r)' = Homes(r)
    BY <1>1 DEF HInv, Homes, StaysHome
  <2>2. ASSUME NEW m \in inbound, HandleResponse(m) PROVE AtHome(r)'
    <3>1. /\ target' = target /\ work' = work
          /\ route' = route \/ route' = [route EXCEPT ![m.req] = None]
      BY <2>2 DEF HandleResponse
    <3>2. route'[r] \in {route[r], None}
      BY <3>1 DEF IInv, TypeOK
    <3>3. QED
      BY <2>1, <3>1, <3>2 DEF AtHome
  <2>3. ASSUME NEW m \in inbound, HandleStarted(m) PROVE AtHome(r)'
    BY <2>1, <2>3 DEF HandleStarted, AtHome, handlerVars
  <2>4. ASSUME NEW a \in Account, NEW q \in Request, ChildAnswers(q, a)
        PROVE  AtHome(r)'
    BY <2>1, <2>4 DEF ChildAnswers, AtHome, handlerVars
  <2>5. ASSUME NEW a \in Account,
               Crash(a) \/ Hang(a) \/ Recover(a) \/ Unlist(a) \/ Restart(a)
        PROVE  AtHome(r)'
    BY <2>1, <2>5
    DEF Crash, Hang, Recover, Unlist, Restart, Lose, AtHome, handlerVars, tableVars
  <2>6. CASE Shutdown
    BY <2>1, <2>6 DEF Shutdown, Signal, EndOfInput, BeginClose, ExpireAll,
       CloseChildren, LoopEnds, Lose, AtHome, handlerVars, tableVars
  <2>7. CASE Lists
    BY <2>1, <2>7 DEF Lists, MergeList, OwnListed, AtHome, handlerVars, tableVars
  <2>8. CASE UNCHANGED vars
    BY <2>1, <2>8 DEF vars, handlerVars, tableVars, AtHome
  <2>9. QED
    BY <2>1, <2>2, <2>3, <2>4, <2>5, <2>6, <2>7, <2>8, RouterStaysHome
    DEF Next, Inbound, Child
<1>4. QED
  BY <1>2, <1>3 DEF HInv

\* With spending apart from history no conversation is taken to an account
\* that did not have it, whatever the lists make of its owner (HIS-002;
\* mux.go:377-388, 501-506, 639; thread_list.go:113-161).
THEOREM HistoryIsKept == Spec => HistoryStaysPut
<1> DEFINE Kept == spending =>
             \A t \in Thread : history[t] # {} => history'[t] = history[t]
<1>1. IInv /\ FInv /\ HistoryInv /\ HInv /\ [Next]_vars => Kept
  BY HistoryStaysHome DEF StaysHome
<1>2. QED
  BY <1>1, InitIInv, NextIInv, InitFInv, NextFInv, InitHistoryInv, NextHistoryInv,
     InitHInv, NextHInv, PTL DEF Spec, HistoryStaysPut
=============================================================================
