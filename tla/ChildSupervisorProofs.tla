------------------------ MODULE ChildSupervisorProofs ------------------------
(* What supervision keeps, for any number of accounts, processes and       *)
(* control calls: an account has one serving process, which is watched and *)
(* initialized, and a chain of restarts does not end by itself.            *)
EXTENDS ChildSupervisor, TLAPS

\* The places of a task that holds the operation lock of its account.
Held == {"enter", "launch", "read", "handshake", "stop"}

\* The lock of an account is with the task at work on it.
Locks(t) ==
  \A a \in Account : lock[a] = t <=> on[t] = a /\ pc[t] \in Held

\* A task at work has an account; one that starts a child has a process of
\* that account which nobody watches yet; one about to launch is alone.
Placed(t) ==
  /\ pc[t] \notin {"none", "idle", "end"} => on[t] \in Account
  /\ pc[t] \in {"read", "handshake"} =>
       making[t] \in Proc /\ pc[making[t]] = "none" /\ on[making[t]] = on[t]
  /\ pc[t] = "launch" =>
       /\ children[on[t]] = None
       /\ \A p \in Proc : proc[p] = "running" => on[p] # on[t]

\* Until Close is over a process that serves is on the list.
Serves(p) ==
  proc[p] = "running" =>
    on[p] \in Account /\ (closing # "closed" => children[on[p]] = p)

Lists(a) == children[a] # None => on[children[a]] = a

\* Someone has repeated to p what the client said, or is about to.
Told(p) ==
  /\ client \in {"awaiting", "greeted", "noting", "done"} => inits[p] > 0
  /\ client = "done" =>
       \/ notes[p] > 0
       \/ \E t \in Task : /\ pc[t] = "handshake" /\ making[t] = p
                          /\ knows[t] = "initialized"

Greets(a) ==
  Running(a) => \/ \E t \in Task : pc[t] = "read" /\ making[t] = children[a]
                \/ Told(children[a])

SInv ==
  /\ TypeOK
  /\ \A t \in Task : Placed(t)
  /\ \A p \in Proc : Serves(p)
  /\ \A a \in Account : Lists(a)
  /\ AtMostOneServing

\* The types alone.
Data ==
  /\ stored \in [Account -> Stores]
  /\ children \in [Account -> Proc \cup {None}]
  /\ proc \in [Proc -> {"running", "closing", "exited"}]
  /\ inits \in [Proc -> 0..2] /\ notes \in [Proc -> 0..2]
  /\ lock \in [Account -> Task \cup {None}]
  /\ pc \in [Task -> Places]
  /\ on \in [Task -> Account \cup {None}]
  /\ doing \in [Task -> Calls]
  /\ prev \in [Task -> Stores]
  /\ making \in [Task -> Proc \cup {None}]
  /\ knows \in [Task -> Handshakes]
  /\ failures \in [Account -> 0..FailureLimit]
  /\ circuit \in [Account -> BOOLEAN]
  /\ client \in Steps /\ asking \subseteq Proc
  /\ closing \in {"open", "begun", "closed"} /\ entries \subseteq Proc
  /\ ops \in 0..MaxOps

LEMMA TypesAndLocks == TypeOK <=> Data /\ \A t \in Task : Locks(t)
BY DEF TypeOK, Data, Locks, Held

LEMMA TypesAndLocksNext == TypeOK' <=> Data' /\ \A t \in Task : Locks(t)'
BY DEF TypeOK, Data, Locks, Held

LEMMA InitSInv == Init => SInv
<1> SUFFICES ASSUME Init PROVE SInv
  OBVIOUS
<1> USE SupervisorAssumption DEF Task
<1>1. ASSUME NEW a \in Account, children[a] # None
      PROVE  /\ children[a] \in Proc /\ on[children[a]] = a
             /\ pc[children[a]] = "watch" /\ children[a] \in Listed
  <2>1. children[a] \in Listed /\ children[a] \in Proc
    BY <1>1 DEF Init, Listed
  <2>2. \A b \in Account : children[b] = children[a] => b = a
    BY <1>1 DEF Init
  <2>3. on[children[a]] = CHOOSE b \in Account : children[b] = children[a]
    BY <2>1 DEF Init
  <2>4. QED
    BY <2>1, <2>2, <2>3 DEF Init
<1>2. ASSUME NEW t \in Task
      PROVE  /\ t \in Listed => \E a \in Account : children[a] = t /\ on[t] = a
             /\ t \notin Listed => on[t] = None
             /\ pc[t] \in {"none", "idle", "watch"}
             /\ pc[t] = "watch" => t \in Listed
  <2>1. CASE t \in Listed
    <3>1. PICK a \in Account : children[a] = t /\ t # None
      BY <2>1 DEF Listed
    <3>2. QED
      BY <1>1, <3>1 DEF Init
  <2>2. CASE t \notin Listed
    BY <2>2 DEF Init
  <2>3. QED
    BY <2>1, <2>2
<1>3. \A p \in Proc : proc[p] = "running" => p \in Listed
  BY DEF Init
<1>4. TypeOK
  <2>1. on \in [Task -> Account \cup {None}]
    <3> DEFINE At(t) == IF t \in Listed
                         THEN CHOOSE a \in Account : children[a] = t ELSE None
    <3>1. on = [t \in Task |-> At(t)]
      BY DEF Init
    <3>2. \A t \in Task : At(t) \in Account \cup {None}
      BY <1>2, <3>1
    <3> HIDE DEF At
    <3>3. QED
      BY <3>1, <3>2
  <2>2. Data
    BY <2>1 DEF Init, Data, Stores, Places, Calls, Handshakes, Steps
  <2>3. \A t \in Task : Locks(t)
    BY <1>2 DEF Init, Locks, Held
  <2>4. QED
    BY <2>2, <2>3, TypesAndLocks
<1>5. ASSUME NEW t \in Task PROVE Placed(t)
  BY <1>2 DEF Placed
<1>6. ASSUME NEW p \in Proc PROVE Serves(p)
  BY <1>2, <1>3 DEF Serves
<1>7. AtMostOneServing
  BY <1>2, <1>3 DEF AtMostOneServing
<1>8. QED
  BY <1>1, <1>4, <1>5, <1>6, <1>7 DEF SInv, Lists
-----------------------------------------------------------------------------
(* Types and locks                                                         *)

\* What a task does while others work: it takes a lock, or gives one back.
LEMMA LockTaken ==
  ASSUME Data, \A s \in Task : Locks(s), NEW t \in Task, NEW a \in Account,
         on[t] = a, pc[t] \notin Held, lock[a] = None, on' = on,
         pc' = [pc EXCEPT ![t] = pc'[t]], pc'[t] \in Held,
         lock' = [lock EXCEPT ![a] = t]
  PROVE  \A s \in Task : Locks(s)'
BY SupervisorAssumption DEF Data, Locks, Task

LEMMA LockGiven ==
  ASSUME Data, \A s \in Task : Locks(s), NEW t \in Task, on' = on,
         \A s \in Task : s # t => (pc'[s] \in Held <=> pc[s] \in Held),
         pc'[t] \notin Held, Release(t)
  PROVE  \A s \in Task : Locks(s)'
BY SupervisorAssumption DEF Data, Locks, Task, Release

\* No task at work changes its account, takes a lock or gives one back.
LEMMA LockLeft ==
  ASSUME Data, \A s \in Task : Locks(s), lock' = lock,
         \A s \in Task : pc'[s] \in Held <=> pc[s] \in Held,
         \A s \in Task : on'[s] = on[s] \/ pc[s] \notin Held
  PROVE  \A s \in Task : Locks(s)'
BY SupervisorAssumption DEF Data, Locks, Task

LEMMA StartKeepsData ==
  ASSUME SInv, NEW t \in Task, AcquireStart(t) \/ Start(t)
  PROVE  Data'
<1> USE SupervisorAssumption DEF Data, Places
<1>0. Data /\ Placed(t) /\ Task = Proc \cup Operator
  BY TypesAndLocks DEF SInv, Task
<1> USE <1>0 DEF Placed, Goto, Finished, Failed, Release
<1>1. CASE AcquireStart(t)
  BY <1>1 DEF AcquireStart, TakeLock, procVars, runtimeVars, clientVars, closeVars
<1>2. CASE EnterFinds(t)
  BY <1>2 DEF EnterFinds, procVars, runtimeVars, clientVars, closeVars
<1>3. CASE EnterRefused(t)
  BY <1>3 DEF EnterRefused, runtimeVars, clientVars, closeVars
<1>4. CASE EnterLaunches(t)
  BY <1>4 DEF EnterLaunches, runtimeVars, clientVars, closeVars
<1>5. CASE Launch(t)
  BY <1>5 DEF Launch, runtimeVars, clientVars, closeVars
<1>6. CASE LaunchFails(t)
  BY <1>6 DEF LaunchFails, procVars, runtimeVars, clientVars, closeVars
<1>7. CASE ReadHandshake(t)
  BY <1>7 DEF ReadHandshake, HandshakeSeen, Handshakes, OneMore, runtimeVars,
     clientVars, closeVars
<1>8. CASE HandshakeEnds(t)
  BY <1>8 DEF HandshakeEnds, Handshakes, OneMore, runtimeVars, clientVars, closeVars
<1>9. CASE HandshakeFails(t)
  BY <1>9 DEF HandshakeFails, Unlisted, Ending, Handshakes, runtimeVars,
     clientVars, closeVars
<1>10. QED
  BY <1>1, <1>2, <1>3, <1>4, <1>5, <1>6, <1>7, <1>8, <1>9 DEF Start

LEMMA ProcessKeepsData ==
  ASSUME SInv, NEW p \in Proc,
         Monitor(p) \/ Exit(p) \/ ClientInitOk(p) \/ ClientInitFails(p)
  PROVE  Data'
<1> USE SupervisorAssumption DEF Data, Places, Goto
<1>0. Data /\ Placed(p) /\ p \in Task
  BY TypesAndLocks DEF SInv, Task
<1> USE <1>0 DEF Placed
<1>1. CASE Notice(p)
  BY <1>1 DEF Notice, Unlisted, runtimeVars, clientVars, closeVars
<1>2. CASE Record(p)
  <2>1. circuit' \in [Account -> BOOLEAN]
    BY <1>2, Zenon DEF Record, runtimeVars
  <2>2. failures' \in [Account -> 0..FailureLimit]
    BY <1>2 DEF Record, runtimeVars
  <2>3. QED
    BY <1>2, <2>1, <2>2 DEF Record, procVars, clientVars, closeVars
<1>3. CASE DelayEnds(p)
  BY <1>3 DEF DelayEnds, procVars, clientVars, closeVars
<1>4. CASE Exit(p)
  BY <1>4 DEF Exit, taskVars, runtimeVars, clientVars, closeVars
<1>5. CASE ClientInitOk(p)
  BY <1>5 DEF ClientInitOk, Steps, procVars, taskVars, runtimeVars, closeVars
<1>6. CASE ClientInitFails(p)
  BY <1>6 DEF ClientInitFails, Unlisted, Ending, taskVars, runtimeVars, closeVars
<1>7. QED
  BY <1>1, <1>2, <1>3, <1>4, <1>5, <1>6 DEF Monitor

LEMMA OperatorKeepsData ==
  ASSUME SInv, NEW o \in Operator,
         Operate(o) \/ \E a \in Account, call \in Calls : Begin(o, a, call)
  PROVE  Data'
<1> USE SupervisorAssumption DEF Data, Places, Stores, Goto, Reset, Release, TakeLock
<1>0. Data /\ Placed(o) /\ o \in Task
  BY TypesAndLocks DEF SInv, Task
<1> USE <1>0 DEF Placed
<1>1. CASE AcquireEnable(o)
  BY <1>1 DEF AcquireEnable, procVars, clientVars, closeVars
<1>2. CASE AcquireStop(o)
  BY <1>2 DEF AcquireStop, Ending, clientVars, closeVars
<1>3. CASE AcquireLogin(o)
  BY <1>3 DEF AcquireLogin, procVars, runtimeVars, clientVars, closeVars
<1>4. CASE AcquireIdle(o)
  BY <1>4 DEF AcquireIdle, procVars, runtimeVars, clientVars, closeVars
<1>5. CASE Stopped(o)
  BY <1>5 DEF Stopped, procVars, runtimeVars, clientVars, closeVars
<1>6. CASE RemoveFails(o)
  BY <1>6 DEF RemoveFails, Calls, procVars, runtimeVars, clientVars, closeVars
<1>7. CASE StopFails(o)
  BY <1>7 DEF StopFails, procVars, runtimeVars, clientVars, closeVars
<1>8. CASE Demote(o)
  BY <1>8 DEF Demote, procVars, runtimeVars, clientVars, closeVars
<1>9. ASSUME NEW a \in Account, NEW call \in Calls, Begin(o, a, call) PROVE Data'
  <2>1. /\ stored' \in [Account -> Stores] /\ circuit' \in [Account -> BOOLEAN]
        /\ failures' \in [Account -> 0..FailureLimit]
    <3>1. \/ UNCHANGED <<stored, failures, circuit>>
          \/ /\ stored' = [stored EXCEPT ![a] = "enabled"]
             /\ failures' = [failures EXCEPT ![a] = 0]
             /\ circuit' = [circuit EXCEPT ![a] = FALSE]
      BY <1>9 DEF Begin, runtimeVars
    <3>2. stored' \in [Account -> Stores]
      BY <3>1
    <3>3. failures' \in [Account -> 0..FailureLimit]
      BY <3>1
    <3>4. circuit' \in [Account -> BOOLEAN]
      <4>1. circuit' = circuit \/ circuit' = [circuit EXCEPT ![a] = FALSE]
        BY <3>1
      <4>2. QED
        BY <4>1, Zenon
    <3>5. QED
      BY <3>2, <3>3, <3>4
  <2>2. ops' \in 0..MaxOps
    BY <1>9 DEF Begin
  <2>3. QED
    BY <1>9, <2>1, <2>2 DEF Begin, procVars, clientVars, closeVars
<1>10. QED
  BY <1>1, <1>2, <1>3, <1>4, <1>5, <1>6, <1>7, <1>8, <1>9 DEF Operate

LEMMA RouterKeepsData ==
  ASSUME SInv,
         \/ \E a \in Account : CircuitLapses(a) \/ Healthy(a)
         \/ ClientInitialize \/ ClientAsks \/ ClientInitialized \/ ClientNotes
         \/ CloseBegin \/ CloseEnd \/ UNCHANGED vars
  PROVE  Data'
<1> USE SupervisorAssumption DEF Data, Client, Steps
<1>0. Data
  BY TypesAndLocks DEF SInv
<1> USE <1>0
<1>1. ASSUME NEW a \in Account, CircuitLapses(a) \/ Healthy(a) PROVE Data'
  <2>1. /\ failures' = failures \/ failures' = [failures EXCEPT ![a] = 0]
        /\ circuit' = [circuit EXCEPT ![a] = FALSE]
    BY <1>1 DEF CircuitLapses, Healthy
  <2>2. failures' \in [Account -> 0..FailureLimit] /\ circuit' \in [Account -> BOOLEAN]
    BY <2>1
  <2>3. /\ UNCHANGED <<stored, children, proc, inits, notes, lock>>
        /\ UNCHANGED <<pc, on, doing, prev, making, knows>>
        /\ UNCHANGED <<client, asking, closing, entries, ops>>
    BY <1>1 DEF CircuitLapses, Healthy, procVars, taskVars, clientVars, closeVars
  <2>4. QED
    BY <2>2, <2>3
<1>2. CASE ClientInitialize \/ ClientInitialized
  BY <1>2 DEF ClientInitialize, ClientInitialized, procVars, taskVars,
     runtimeVars, closeVars
<1>3. CASE ClientAsks
  BY <1>3 DEF ClientAsks, Listed, OneMore, taskVars, runtimeVars, closeVars
<1>4. CASE ClientNotes
  BY <1>4 DEF ClientNotes, OneMore, taskVars, runtimeVars, closeVars
<1>5. CASE CloseBegin
  BY <1>5 DEF CloseBegin, Listed, procVars, taskVars, runtimeVars, clientVars
<1>6. CASE CloseEnd
  BY <1>6 DEF CloseEnd, Ending, taskVars, runtimeVars, clientVars
<1>7. CASE UNCHANGED vars
  BY <1>7 DEF vars, procVars, taskVars, runtimeVars, clientVars, closeVars
<1>8. QED
  BY <1>1, <1>2, <1>3, <1>4, <1>5, <1>6, <1>7

LEMMA NextData == SInv /\ [Next]_vars => Data'
BY StartKeepsData, ProcessKeepsData, OperatorKeepsData, RouterKeepsData DEF Next

LEMMA NextLocks == SInv /\ [Next]_vars => \A s \in Task : Locks(s)'
<1> SUFFICES ASSUME SInv, [Next]_vars PROVE \A s \in Task : Locks(s)'
  OBVIOUS
<1> USE SupervisorAssumption DEF Held
<1>0. /\ Data /\ \A s \in Task : Locks(s) /\ Placed(s)
      /\ Proc \subseteq Task /\ Operator \subseteq Task
  BY TypesAndLocks DEF SInv, Task
<1>1. ASSUME NEW t \in Task, NEW a \in Account, on[t] = a, pc[t] = "wait",
             lock[a] = None, lock' = [lock EXCEPT ![a] = t], on' = on,
             pc' = [pc EXCEPT ![t] = "enter"] \/ pc' = [pc EXCEPT ![t] = "stop"]
      PROVE  \A s \in Task : Locks(s)'
  <2>1. pc' = [pc EXCEPT ![t] = pc'[t]] /\ pc'[t] \in Held
    BY <1>0, <1>1 DEF Data
  <2>2. QED
    BY <1>0, <1>1, <2>1, LockTaken
<1>2. ASSUME NEW t \in Task, Release(t), on' = on,
             \E to \in Places \ Held : Goto(t, pc[t], to)
      PROVE  \A s \in Task : Locks(s)'
  <2>1. /\ pc'[t] \notin Held
        /\ \A s \in Task : s # t => pc'[s] = pc[s]
    BY <1>0, <1>2 DEF Data, Goto
  <2>2. QED
    BY <1>0, <1>2, <2>1, LockGiven
<1>3. ASSUME NEW t \in Task, on' = on, lock' = lock,
             \E to \in Places : Goto(t, pc[t], to) /\ (pc[t] \in Held <=> to \in Held)
      PROVE  \A s \in Task : Locks(s)'
  <2>1. \A s \in Task : pc'[s] \in Held <=> pc[s] \in Held
    BY <1>0, <1>3 DEF Data, Goto
  <2>2. QED
    BY <1>0, <1>3, <2>1, LockLeft
<1>4. CASE UNCHANGED <<pc, on, lock>>
  BY <1>0, <1>4, LockLeft
<1>5. ASSUME NEW t \in Task, AcquireStart(t) \/ Start(t)
      PROVE  \A s \in Task : Locks(s)'
  <2> USE <1>0 DEF Places, Finished, Failed
  <2>1. CASE AcquireStart(t)
    BY <1>1, <2>1 DEF AcquireStart, TakeLock, Goto, Placed
  <2>2. CASE EnterFinds(t)
    <3>1. Release(t) /\ on' = on /\ \E to \in {"end", "idle"} : Goto(t, pc[t], to)
      BY <2>2 DEF EnterFinds, Goto
    <3>2. QED
      BY <1>2, <3>1
  <2>3. CASE EnterRefused(t) \/ LaunchFails(t) \/ HandshakeFails(t)
    <3>1. Release(t) /\ on' = on
      BY <2>3 DEF EnterRefused, LaunchFails, HandshakeFails
    <3>2. \E to \in {"record", "demote", "idle"} : Goto(t, pc[t], to)
      BY <2>3 DEF EnterRefused, LaunchFails, HandshakeFails, Goto
    <3>3. QED
      BY <1>2, <3>1, <3>2
  <2>4. CASE EnterLaunches(t) \/ ReadHandshake(t)
    BY <1>3, <2>4 DEF EnterLaunches, ReadHandshake, Goto
  <2>5. CASE Launch(t)
    <3>1. PICK p \in Proc : /\ Free(p) /\ pc[t] = "launch"
                            /\ pc' = [pc EXCEPT ![t] = "read", ![p] = "none"]
                            /\ on' = [on EXCEPT ![p] = on[t]]
                            /\ lock' = lock
      BY <2>5 DEF Launch
    <3>2. /\ \A s \in Task : pc'[s] \in Held <=> pc[s] \in Held
          /\ \A s \in Task : on'[s] = on[s] \/ pc[s] \notin Held
      BY <3>1 DEF Free, Data
    <3>3. QED
      BY <3>1, <3>2, LockLeft
  <2>6. CASE HandshakeEnds(t)
    <3>1. /\ making[t] \in Proc /\ pc[making[t]] = "none" /\ on' = on /\ Release(t)
          /\ pc[t] = "handshake"
          /\ pc' = [pc EXCEPT ![t] = Finished(t), ![making[t]] = "watch"]
      BY <2>6 DEF HandshakeEnds, Placed
    <3>2. /\ \A s \in Task : s # t => (pc'[s] \in Held <=> pc[s] \in Held)
          /\ pc'[t] \notin Held
      BY <3>1 DEF Data
    <3>3. QED
      BY <3>1, <3>2, LockGiven
  <2>7. QED
    BY <1>5, <2>1, <2>2, <2>3, <2>4, <2>5, <2>6 DEF Start
<1>6. ASSUME NEW p \in Proc, Monitor(p) PROVE \A s \in Task : Locks(s)'
  <2> USE <1>0 DEF Places
  <2>1. on' = on /\ lock' = lock
    BY <1>6 DEF Monitor, Notice, Record, DelayEnds
  <2>2. \E to \in {"record", "end", "delay", "wait"} :
          Goto(p, pc[p], to) /\ pc[p] \notin Held
    BY <1>6 DEF Monitor, Notice, Record, DelayEnds, Goto
  <2>3. QED
    BY <1>3, <2>1, <2>2
<1>7. ASSUME NEW o \in Operator, Operate(o) PROVE \A s \in Task : Locks(s)'
  <2> USE <1>0 DEF Places
  <2>1. CASE AcquireEnable(o) \/ AcquireStop(o) \/ AcquireLogin(o)
    BY <1>1, <2>1 DEF AcquireEnable, AcquireStop, AcquireLogin, TakeLock, Goto, Placed
  <2>2. CASE Stopped(o) \/ StopFails(o)
    BY <1>2, <2>2 DEF Stopped, StopFails, Goto
  <2>3. CASE AcquireIdle(o) \/ Demote(o)
    BY <1>3, <2>3 DEF AcquireIdle, Demote, Goto
  <2>4. CASE RemoveFails(o)
    <3>1. CASE prev[o] = "enabled"
      BY <1>3, <2>4, <3>1 DEF RemoveFails, Goto
    <3>2. CASE prev[o] # "enabled"
      BY <1>2, <2>4, <3>2 DEF RemoveFails, Goto
    <3>3. QED
      BY <3>1, <3>2
  <2>5. QED
    BY <1>7, <2>1, <2>2, <2>3, <2>4 DEF Operate
<1>8. ASSUME NEW o \in Operator, NEW a \in Account, NEW call \in Calls, Begin(o, a, call)
      PROVE  \A s \in Task : Locks(s)'
  <2>1. /\ lock' = lock /\ pc[o] = "idle" /\ pc' = [pc EXCEPT ![o] = "wait"]
        /\ on' = [on EXCEPT ![o] = a]
    BY <1>8 DEF Begin, Goto
  <2>2. /\ \A s \in Task : pc'[s] \in Held <=> pc[s] \in Held
        /\ \A s \in Task : on'[s] = on[s] \/ pc[s] \notin Held
    BY <1>0, <2>1 DEF Data
  <2>3. QED
    BY <1>0, <2>1, <2>2, LockLeft
<1>9. ASSUME NEW p \in Proc, Exit(p) \/ ClientInitOk(p) \/ ClientInitFails(p)
      PROVE  \A s \in Task : Locks(s)'
  BY <1>4, <1>9 DEF Exit, ClientInitOk, ClientInitFails, taskVars
<1>10. ASSUME NEW a \in Account, CircuitLapses(a) \/ Healthy(a)
       PROVE  \A s \in Task : Locks(s)'
  BY <1>4, <1>10 DEF CircuitLapses, Healthy, taskVars
<1>11. CASE \/ ClientInitialize \/ ClientAsks \/ ClientInitialized \/ ClientNotes
            \/ CloseBegin \/ CloseEnd \/ UNCHANGED vars
  BY <1>4, <1>11 DEF ClientInitialize, ClientAsks, ClientInitialized, ClientNotes,
     CloseBegin, CloseEnd, vars, taskVars
<1>12. QED
  BY <1>5, <1>6, <1>7, <1>8, <1>9, <1>10, <1>11 DEF Next
-----------------------------------------------------------------------------
(* Who serves and who watches                                              *)

\* What a step does to a task: nothing, ...
Stays(s) ==
  /\ pc'[s] = pc[s] /\ on'[s] = on[s]
  /\ making'[s] = making[s] /\ knows'[s] = knows[s]

\* ... or it goes on without starting a child, and gives up what it watched
\* or started once that is off the list, ...
Aside(s) ==
  /\ pc[s] # "none" /\ pc'[s] \notin {"launch", "read", "handshake"}
  /\ pc'[s] \notin {"none", "idle", "end"} => on'[s] \in Account
  /\ pc[s] = "watch" => \A a \in Account : children'[a] # s
  /\ pc[s] \in {"read", "handshake"} => \A a \in Account : children'[a] # making[s]

\* ... or it has read the client's handshake.
Reads(s) ==
  /\ pc[s] = "read" /\ pc'[s] = "handshake"
  /\ on'[s] = on[s] /\ making'[s] = making[s]

\* No process is started or listed, and one that stays in service is not
\* unlisted before Close.
Calm ==
  /\ \A p \in Proc : on'[p] = on[p] /\ (proc'[p] = "running" => proc[p] = "running")
  /\ \A a \in Account : children'[a] \in {children[a], None}
  /\ \A p \in Proc : proc'[p] = "running" /\ closing' # "closed" =>
       closing # "closed" /\ children'[on[p]] = children[on[p]]

WInv == SInv /\ ListedIsWatched

LEMMA NextTypes == SInv /\ [Next]_vars => TypeOK'
<1> SUFFICES ASSUME SInv, [Next]_vars PROVE TypeOK'
  OBVIOUS
<1>1. Data' /\ \A s \in Task : Locks(s)'
  BY NextData, NextLocks
<1>2. QED
  BY <1>1, TypesAndLocksNext

LEMMA CalmKeeps ==
  ASSUME WInv, TypeOK', Calm, \A s \in Task : Stays(s) \/ Aside(s) \/ Reads(s)
  PROVE  WInv'
<1> USE SupervisorAssumption
<1>0. /\ Data /\ Proc \subseteq Task
      /\ \A s \in Task : Locks(s) /\ Placed(s) /\ Locks(s)'
      /\ \A a \in Account : Lists(a)
      /\ \A p \in Proc : Serves(p)
  BY TypesAndLocks, TypesAndLocksNext DEF WInv, SInv, Task
<1>1. ASSUME NEW s \in Task PROVE Placed(s)'
  <2>1. CASE Aside(s)
    BY <2>1 DEF Aside, Placed
  <2>2. ASSUME pc[s] \in {"read", "handshake"}, on'[s] = on[s], making'[s] = making[s]
        PROVE  /\ making'[s] \in Proc /\ pc'[making'[s]] = "none"
               /\ on'[making'[s]] = on'[s] /\ on'[s] \in Account
    BY <1>0, <2>2 DEF Placed, Stays, Aside, Reads
  <2>3. CASE Reads(s)
    BY <2>2, <2>3 DEF Reads, Placed
  <2>4. CASE Stays(s)
    <3>1. pc[s] = "launch" => on[s] \in Account /\ children'[on[s]] = None
      BY <1>0, <2>4 DEF Placed, Calm, Data
    <3>2. QED
      BY <1>0, <2>2, <2>4, <3>1 DEF Stays, Placed, Calm
  <2>5. QED
    BY <2>1, <2>3, <2>4
<1>2. ASSUME NEW p \in Proc PROVE Serves(p)'
  BY <1>0 DEF Serves, Calm
<1>3. ASSUME NEW a \in Account PROVE Lists(a)'
  BY <1>0 DEF Lists, Calm, Data
<1>4. AtMostOneServing'
  BY DEF WInv, SInv, AtMostOneServing, Calm
<1>5. ListedIsWatched'
  <2> SUFFICES ASSUME NEW a \in Account, children'[a] # None
               PROVE  \/ pc'[children'[a]] = "watch"
                      \/ /\ lock'[a] # None /\ making'[lock'[a]] = children'[a]
                         /\ pc'[lock'[a]] \in {"read", "handshake"}
    BY DEF ListedIsWatched
  <2>1. children'[a] = children[a] /\ children[a] \in Proc
    BY <1>0 DEF Calm, Data
  <2>2. CASE pc[children[a]] = "watch"
    BY <1>0, <2>1, <2>2 DEF Stays, Aside, Reads
  <2>3. CASE /\ lock[a] # None /\ making[lock[a]] = children[a]
             /\ pc[lock[a]] \in {"read", "handshake"}
    <3>1. lock[a] \in Task /\ on[lock[a]] = a
      BY <1>0, <2>3 DEF Data, Locks
    <3>2. /\ pc'[lock[a]] \in {"read", "handshake"} /\ on'[lock[a]] = a
          /\ making'[lock[a]] = children[a]
      BY <2>1, <2>3, <3>1 DEF Stays, Aside, Reads
    <3>3. lock'[a] = lock[a]
      BY <1>0, <3>1, <3>2 DEF Locks, Held
    <3>4. QED
      BY <2>1, <2>3, <3>2, <3>3
  <2>4. QED
    BY <2>1, <2>2, <2>3 DEF WInv, ListedIsWatched
<1>6. QED
  BY <1>1, <1>2, <1>3, <1>4, <1>5 DEF WInv, SInv

\* The same list of processes in service, and nobody asked to end.
Untouched == UNCHANGED <<children, proc, closing>> /\ \A p \in Proc : on'[p] = on[p]

LEMMA UntouchedIsCalm == Data /\ Untouched => Calm
BY DEF Untouched, Calm, Data

\* One task goes on, and is not one that watches or starts a child.
LEMMA TaskGoesOn ==
  ASSUME WInv, TypeOK', NEW t \in Task, Untouched,
         pc[t] \notin {"none", "watch", "read", "handshake"},
         pc'[t] \notin {"none", "launch", "read", "handshake"},
         on'[t] \in Account,
         \A s \in Task \ {t} : Stays(s)
  PROVE  WInv'
<1>1. Aside(t)
  BY DEF Aside
<1>2. QED
  BY <1>1, UntouchedIsCalm, CalmKeeps, TypesAndLocks DEF WInv, SInv

LEMMA StartIsWatched ==
  ASSUME WInv, TypeOK', NEW t \in Task,
         \/ AcquireStart(t) \/ EnterFinds(t) \/ EnterRefused(t) \/ LaunchFails(t)
         \/ ReadHandshake(t) \/ HandshakeFails(t)
  PROVE  WInv'
<1> USE SupervisorAssumption
<1>0. /\ Data /\ Proc \subseteq Task
      /\ \A s \in Task : Locks(s) /\ Placed(s)
      /\ \A p \in Proc : Serves(p)
  BY TypesAndLocks DEF WInv, SInv, Task
<1> USE <1>0 DEF Goto, Placed, Finished, Failed
<1>1. CASE AcquireStart(t) \/ EnterFinds(t) \/ LaunchFails(t)
  <2>1. Untouched
    BY <1>1 DEF AcquireStart, EnterFinds, LaunchFails, Untouched, procVars, closeVars
  <2>2. on' = on /\ making' = making /\ knows' = knows
    BY <1>1 DEF AcquireStart, EnterFinds, LaunchFails
  <2>3. /\ pc[t] \in {"wait", "enter", "launch"}
        /\ \E to \in {"enter", "end", "idle", "record", "demote"} : pc' = [pc EXCEPT ![t] = to]
    BY <1>1 DEF AcquireStart, TakeLock, EnterFinds, LaunchFails
  <2>4. \A s \in Task \ {t} : Stays(s)
    BY <2>2, <2>3 DEF Stays, Data
  <2>5. pc'[t] \in {"enter", "end", "idle", "record", "demote"} /\ on'[t] \in Account
    BY <2>2, <2>3 DEF Data
  <2>6. QED
    BY <2>1, <2>3, <2>4, <2>5, TaskGoesOn
<1>2. CASE EnterRefused(t)
  <2>1. /\ UNCHANGED <<proc, on, making, knows, closing>> /\ pc[t] = "enter"
        /\ \E to \in {"idle", "record", "demote"} : pc' = [pc EXCEPT ![t] = to]
    BY <1>2 DEF EnterRefused, closeVars
  <2>2. Aside(t) /\ \A s \in Task \ {t} : Stays(s)
    BY <2>1 DEF Stays, Aside, Data
  <2>3. Calm
    <3>1. CASE closing # "open"
      BY <1>2, <2>1, <3>1 DEF EnterRefused, Calm, Data
    <3>2. CASE closing = "open"
      <4>1. /\ ~Running(on[t]) /\ on[t] \in Account
            /\ children' = [children EXCEPT ![on[t]] = None]
        BY <1>2, <2>1, <3>2 DEF EnterRefused
      <4>2. \A p \in Proc : proc[p] = "running" => on[p] # on[t]
        BY <3>2, <4>1 DEF Running, Serves
      <4>3. QED
        BY <2>1, <4>1, <4>2 DEF Calm, Data, Serves
    <3>3. QED
      BY <3>1, <3>2
  <2>4. QED
    BY <2>2, <2>3, CalmKeeps
<1>3. CASE ReadHandshake(t)
  <2>1. Reads(t) /\ \A s \in Task \ {t} : Stays(s)
    BY <1>3 DEF ReadHandshake, Reads, Stays, Data
  <2>2. Calm
    BY <1>3 DEF ReadHandshake, Calm, closeVars, Data
  <2>3. QED
    BY <2>1, <2>2, CalmKeeps
<1>4. CASE HandshakeFails(t)
  <2>1. /\ UNCHANGED <<on, closing>> /\ pc[t] = "handshake"
        /\ \E to \in {"idle", "record", "demote"} : pc' = [pc EXCEPT ![t] = to]
        /\ making' = [making EXCEPT ![t] = None] /\ knows' = [knows EXCEPT ![t] = "new"]
    BY <1>4 DEF HandshakeFails, closeVars
  <2>2. children' = Unlisted(making[t]) /\ proc' = Ending({making[t]})
    BY <1>4 DEF HandshakeFails
  <2>3. \A s \in Task \ {t} : Stays(s)
    BY <2>1 DEF Stays, Data
  <2>4. Aside(t)
    BY <2>1, <2>2 DEF Aside, Data, Unlisted
  <2>5. Calm
    BY <2>1, <2>2 DEF Calm, Data, Unlisted, Ending, Serves
  <2>6. QED
    BY <2>3, <2>4, <2>5, CalmKeeps
<1>5. QED
  BY <1>1, <1>2, <1>3, <1>4

LEMMA ProcessIsWatched ==
  ASSUME WInv, TypeOK', NEW p \in Proc,
         Monitor(p) \/ Exit(p) \/ ClientInitOk(p) \/ ClientInitFails(p)
  PROVE  WInv'
<1> USE SupervisorAssumption
<1>0. /\ Data /\ Proc \subseteq Task /\ Placed(p)
      /\ \A q \in Proc : Serves(q)
  BY TypesAndLocks DEF WInv, SInv, Task
<1> USE <1>0 DEF Goto, Placed
<1>1. CASE Record(p) \/ DelayEnds(p)
  <2>1. Untouched
    BY <1>1 DEF Record, DelayEnds, Untouched, procVars, closeVars
  <2>2. UNCHANGED <<on, making, knows>>
    BY <1>1 DEF Record, DelayEnds
  <2>3. /\ pc[p] \in {"record", "delay"}
        /\ \E to \in {"delay", "end", "wait"} : pc' = [pc EXCEPT ![p] = to]
    BY <1>1 DEF Record, DelayEnds
  <2>4. \A s \in Task \ {p} : Stays(s)
    BY <2>2, <2>3 DEF Stays, Data
  <2>5. pc'[p] \in {"delay", "end", "wait"} /\ on'[p] \in Account
    BY <2>2, <2>3 DEF Data
  <2>6. QED
    BY <2>1, <2>3, <2>4, <2>5, TaskGoesOn
<1>2. CASE Notice(p)
  <2>1. /\ UNCHANGED <<proc, on, making, knows, closing>> /\ pc[p] = "watch"
        /\ \E to \in {"record", "end"} : pc' = [pc EXCEPT ![p] = to]
        /\ children' = Unlisted(p) /\ proc[p] = "exited"
    BY <1>2 DEF Notice, closeVars
  <2>2. Aside(p) /\ \A s \in Task \ {p} : Stays(s)
    BY <2>1 DEF Stays, Aside, Data, Unlisted
  <2>3. Calm
    BY <2>1 DEF Calm, Data, Unlisted, Serves
  <2>4. QED
    BY <2>2, <2>3, CalmKeeps
<1>3. CASE Exit(p) \/ ClientInitOk(p)
  <2>1. Calm
    BY <1>3 DEF Exit, ClientInitOk, Calm, Data, procVars, taskVars, closeVars
  <2>2. \A s \in Task : Stays(s)
    BY <1>3 DEF Exit, ClientInitOk, Stays, taskVars
  <2>3. QED
    BY <2>1, <2>2, CalmKeeps
<1>4. CASE ClientInitFails(p)
  <2>1. UNCHANGED <<taskVars, closing>> /\ children' = Unlisted(p)
    BY <1>4 DEF ClientInitFails, closeVars
  <2>2. Calm
    <3>1. CASE p \in Listed
      <4>1. proc' = Ending({p})
        BY <1>4, <3>1 DEF ClientInitFails
      <4>2. QED
        BY <2>1, <4>1 DEF Calm, Data, Unlisted, Ending, Serves, taskVars
    <3>2. CASE p \notin Listed
      <4>1. proc' = proc /\ \A a \in Account : children[a] # p
        BY <1>4, <3>2 DEF ClientInitFails, Listed
      <4>2. QED
        BY <2>1, <4>1 DEF Calm, Data, Unlisted, taskVars
    <3>3. QED
      BY <3>1, <3>2
  <2>3. \A s \in Task : Stays(s)
    BY <2>1 DEF Stays, taskVars
  <2>4. QED
    BY <2>2, <2>3, CalmKeeps
<1>5. QED
  BY <1>1, <1>2, <1>3, <1>4 DEF Monitor

LEMMA OperatorIsWatched ==
  ASSUME WInv, TypeOK', NEW o \in Operator,
         Operate(o) \/ \E a \in Account, call \in Calls : Begin(o, a, call)
  PROVE  WInv'
<1> USE SupervisorAssumption
<1>0. /\ Data /\ Proc \subseteq Task /\ o \in Task /\ o \notin Proc /\ Placed(o)
      /\ \A q \in Proc : Serves(q)
  BY TypesAndLocks DEF WInv, SInv, Task
<1> USE <1>0 DEF Goto, Placed
<1>1. CASE \/ AcquireEnable(o) \/ AcquireLogin(o) \/ AcquireIdle(o) \/ Demote(o)
           \/ Stopped(o) \/ RemoveFails(o) \/ StopFails(o)
  <2>1. UNCHANGED <<on, knows, children, proc, closing>>
    BY <1>1 DEF AcquireEnable, AcquireLogin, AcquireIdle, Demote, Stopped,
       RemoveFails, StopFails, procVars, closeVars
  <2>2. making' = making \/ making' = [making EXCEPT ![o] = None]
    BY <1>1 DEF AcquireEnable, AcquireLogin, AcquireIdle, Demote, Stopped,
       RemoveFails, StopFails
  <2>3. /\ pc[o] \in {"wait", "stop", "demote"}
        /\ \E to \in {"enter", "idle"} : pc' = [pc EXCEPT ![o] = to]
    BY <1>1 DEF AcquireEnable, AcquireLogin, AcquireIdle, Demote, Stopped,
       RemoveFails, StopFails, TakeLock
  <2>4. \A s \in Task \ {o} : Stays(s)
    BY <2>1, <2>2, <2>3 DEF Stays, Data
  <2>5. pc'[o] \in {"enter", "idle"} /\ on'[o] \in Account
    BY <2>1, <2>3 DEF Data
  <2>6. Untouched
    BY <2>1 DEF Untouched
  <2>7. QED
    BY <2>3, <2>4, <2>5, <2>6, TaskGoesOn
<1>2. ASSUME NEW a \in Account, NEW call \in Calls, Begin(o, a, call) PROVE WInv'
  <2>1. /\ pc[o] = "idle" /\ pc' = [pc EXCEPT ![o] = "wait"]
        /\ on' = [on EXCEPT ![o] = a] /\ UNCHANGED <<making, knows>>
    BY <1>2 DEF Begin
  <2>2. Untouched
    BY <1>2, <2>1 DEF Begin, Untouched, procVars, closeVars, Data
  <2>3. \A s \in Task \ {o} : Stays(s)
    BY <2>1 DEF Stays, Data
  <2>4. pc'[o] = "wait" /\ on'[o] \in Account
    BY <2>1 DEF Data
  <2>5. QED
    BY <2>1, <2>2, <2>3, <2>4, TaskGoesOn
<1>3. CASE AcquireStop(o)
  <2>1. /\ pc[o] = "wait" /\ pc' = [pc EXCEPT ![o] = "stop"]
        /\ UNCHANGED <<on, knows, closing>>
        /\ making' = [making EXCEPT ![o] = children[on[o]]]
        /\ children' = [children EXCEPT ![on[o]] = None]
        /\ proc' = Ending({children[on[o]]}) /\ on[o] \in Account
    BY <1>3 DEF AcquireStop, TakeLock, closeVars
  <2>2. Aside(o) /\ \A s \in Task \ {o} : Stays(s)
    BY <2>1 DEF Stays, Aside, Data
  <2>3. Calm
    BY <2>1 DEF Calm, Data, Ending, Serves
  <2>4. QED
    BY <2>2, <2>3, CalmKeeps
<1>4. QED
  BY <1>1, <1>2, <1>3 DEF Operate

LEMMA RouterIsWatched ==
  ASSUME WInv, TypeOK',
         \/ \E a \in Account : CircuitLapses(a) \/ Healthy(a)
         \/ ClientInitialize \/ ClientAsks \/ ClientInitialized \/ ClientNotes
         \/ CloseBegin \/ CloseEnd \/ UNCHANGED vars
  PROVE  WInv'
<1>0. Data
  BY TypesAndLocks DEF WInv, SInv
<1>1. UNCHANGED taskVars
  BY DEF CircuitLapses, Healthy, ClientInitialize, ClientAsks, ClientInitialized,
     ClientNotes, CloseBegin, CloseEnd, vars
<1>2. \A s \in Task : Stays(s)
  BY <1>1 DEF Stays, taskVars
<1>3. CASE CloseEnd
  <2>1. Calm
    BY <1>0, <1>1, <1>3 DEF CloseEnd, Calm, Data, Ending, taskVars
  <2>2. QED
    BY <1>2, <2>1, CalmKeeps
<1>4. CASE ~CloseEnd
  <2>1. /\ UNCHANGED <<children, proc>>
        /\ closing' # "closed" => closing # "closed"
    BY <1>4 DEF CircuitLapses, Healthy, ClientInitialize, ClientAsks,
       ClientInitialized, ClientNotes, CloseBegin, vars, procVars, closeVars
  <2>2. Calm
    BY <1>0, <1>1, <2>1 DEF Calm, Data, taskVars
  <2>3. QED
    BY <1>2, <2>2, CalmKeeps
<1>5. QED
  BY <1>3, <1>4

LEMMA LauncherIsAlone ==
  ASSUME WInv, TypeOK', NEW t \in Task, EnterLaunches(t)
  PROVE  WInv'
<1> USE SupervisorAssumption DEF Goto
<1> DEFINE b == on[t]
<1>0. /\ Data /\ Proc \subseteq Task
      /\ \A s \in Task : Locks(s) /\ Locks(s)' /\ Placed(s)
      /\ \A a \in Account : Lists(a)
      /\ \A p \in Proc : Serves(p)
  BY TypesAndLocks, TypesAndLocksNext DEF WInv, SInv, Task
<1>1. /\ pc[t] = "enter" /\ pc' = [pc EXCEPT ![t] = "launch"]
      /\ closing = "open" /\ ~Running(b) /\ b \in Account
      /\ children' = [children EXCEPT ![b] = None]
      /\ UNCHANGED <<proc, on, making, closing, lock>>
  BY <1>0 DEF EnterLaunches, Placed, closeVars
<1>2. \A p \in Proc : proc[p] = "running" => on[p] # b /\ on[p] \in Account
  BY <1>0, <1>1 DEF Running, Serves
<1>3. ASSUME NEW s \in Task PROVE Placed(s)'
  <2>1. CASE s = t
    BY <1>0, <1>1, <1>2, <2>1 DEF Placed, Data
  <2>2. CASE s # t
    BY <1>0, <1>1, <2>2 DEF Placed, Data
  <2>3. QED
    BY <2>1, <2>2
<1>4. \A p \in Proc : Serves(p)'
  BY <1>0, <1>1, <1>2 DEF Serves, Data
<1>5. \A a \in Account : Lists(a)'
  BY <1>0, <1>1 DEF Lists, Data
<1>6. AtMostOneServing'
  BY <1>1 DEF WInv, SInv, AtMostOneServing
<1>7. ListedIsWatched'
  BY <1>0, <1>1 DEF WInv, ListedIsWatched, Data
<1>8. QED
  BY <1>3, <1>4, <1>5, <1>6, <1>7 DEF WInv, SInv

LEMMA LaunchedIsWatched ==
  ASSUME WInv, TypeOK', NEW t \in Task, Launch(t)
  PROVE  WInv'
<1> USE SupervisorAssumption
<1> DEFINE b == on[t]
<1>0. /\ Data /\ Data' /\ Proc \subseteq Task
      /\ \A s \in Task : Locks(s) /\ Locks(s)' /\ Placed(s)
      /\ \A a \in Account : Lists(a)
      /\ \A p \in Proc : Serves(p)
  BY TypesAndLocks, TypesAndLocksNext DEF WInv, SInv, Task
<1>1. PICK p \in Proc :
        /\ Free(p) /\ pc[t] = "launch"
        /\ pc' = [pc EXCEPT ![t] = "read", ![p] = "none"]
        /\ proc' = [proc EXCEPT ![p] = "running"]
        /\ children' = [children EXCEPT ![b] = p]
        /\ making' = [making EXCEPT ![t] = p]
        /\ on' = [on EXCEPT ![p] = b]
        /\ UNCHANGED <<lock, closing>>
  BY DEF Launch, closeVars
<1>2. /\ pc[p] \in {"none", "end"} /\ p # t /\ p # None /\ t # None
      /\ \A a \in Account : children[a] # p
      /\ \A s \in Task : making[s] # p
      /\ b \in Account /\ children[b] = None /\ lock[b] = t
      /\ \A q \in Proc : proc[q] = "running" => on[q] # b
  BY <1>0, <1>1 DEF Free, Placed, Locks, Held, Data, Task
<1>3. /\ \A s \in Task \ {t, p} :
           pc'[s] = pc[s] /\ on'[s] = on[s] /\ making'[s] = making[s]
      /\ pc'[t] = "read" /\ on'[t] = b /\ making'[t] = p
      /\ pc'[p] = "none" /\ on'[p] = b /\ making'[p] = making[p]
      /\ children'[b] = p /\ \A a \in Account \ {b} : children'[a] = children[a]
      /\ proc'[p] = "running" /\ \A q \in Proc \ {p} : proc'[q] = proc[q]
  BY <1>0, <1>1, <1>2 DEF Data
<1>4. ASSUME NEW s \in Task PROVE Placed(s)'
  <2>1. CASE s = t
    <3>1. making'[t] \in Proc /\ pc'[making'[t]] = "none" /\ on'[making'[t]] = on'[t]
      BY <1>3
    <3>2. QED
      BY <1>2, <1>3, <2>1, <3>1 DEF Placed
  <2>2. CASE s = p
    BY <1>3, <2>2 DEF Placed
  <2>3. CASE s # t /\ s # p
    <3>1. pc'[s] = pc[s] /\ on'[s] = on[s] /\ making'[s] = making[s] /\ Placed(s)
      BY <1>0, <1>3, <2>3
    <3>2. pc[s] \in {"read", "handshake"} =>
            making[s] \in Proc /\ pc'[making[s]] = "none" /\ on'[making[s]] = on[s]
      <4>1. making[s] # p
        BY <1>2
      <4>2. pc[s] \in {"read", "handshake"} =>
              making[s] \in Task \ {t, p} /\ pc[making[s]] = "none"
        BY <1>0, <1>1, <3>1, <4>1 DEF Placed
      <4>3. QED
        BY <1>3, <3>1, <4>2 DEF Placed
    <3>3. pc[s] = "launch" => on[s] # b /\ on[s] \in Account
      BY <1>0, <1>2, <2>3, <3>1 DEF Locks, Held, Placed
    <3>4. pc[s] = "launch" =>
            /\ children'[on[s]] = None
            /\ \A q \in Proc : proc'[q] = "running" => on'[q] # on[s]
      BY <1>0, <1>1, <1>3, <3>1, <3>3 DEF Placed, Data
    <3>5. QED
      BY <3>1, <3>2, <3>4 DEF Placed
  <2>4. QED
    BY <2>1, <2>2, <2>3
<1>5. ASSUME NEW q \in Proc PROVE Serves(q)'
  <2>1. CASE q = p
    BY <1>1, <1>2, <1>3, <2>1 DEF Serves
  <2>2. CASE q # p
    BY <1>0, <1>1, <1>2, <1>3, <2>2 DEF Serves, Data
  <2>3. QED
    BY <2>1, <2>2
<1>6. ASSUME NEW a \in Account PROVE Lists(a)'
  BY <1>0, <1>1, <1>2, <1>3 DEF Lists, Data
<1>7. AtMostOneServing'
  BY <1>0, <1>1, <1>2, <1>3 DEF WInv, SInv, AtMostOneServing, Data
<1>8. ListedIsWatched'
  <2> SUFFICES ASSUME NEW a \in Account, children'[a] # None
               PROVE  \/ pc'[children'[a]] = "watch"
                      \/ /\ lock'[a] # None /\ making'[lock'[a]] = children'[a]
                         /\ pc'[lock'[a]] \in {"read", "handshake"}
    BY DEF ListedIsWatched
  <2>1. CASE a = b
    BY <1>1, <1>2, <1>3, <2>1
  <2>2. CASE a # b
    <3>1. children'[a] = children[a] /\ children[a] \in Proc
      BY <1>0, <1>3, <2>2 DEF Data
    <3>2. CASE pc[children[a]] = "watch"
      <4>1. children[a] \in Task \ {t, p}
        BY <1>0, <1>1, <1>2, <3>1, <3>2
      <4>2. QED
        BY <1>3, <3>1, <3>2, <4>1
    <3>3. CASE /\ lock[a] # None /\ making[lock[a]] = children[a]
               /\ pc[lock[a]] \in {"read", "handshake"}
      BY <1>0, <1>1, <1>2, <1>3, <3>1, <3>3 DEF Data
    <3>4. QED
      BY <3>1, <3>2, <3>3 DEF WInv, ListedIsWatched
  <2>3. QED
    BY <2>1, <2>2
<1>9. QED
  BY <1>4, <1>5, <1>6, <1>7, <1>8 DEF WInv, SInv

LEMMA ReadyIsWatched ==
  ASSUME WInv, TypeOK', NEW t \in Task, HandshakeEnds(t)
  PROVE  WInv'
<1> USE SupervisorAssumption
<1> DEFINE p == making[t]
<1>0. /\ Data /\ Proc \subseteq Task
      /\ \A s \in Task : Locks(s) /\ Locks(s)' /\ Placed(s)
      /\ \A a \in Account : Lists(a)
      /\ \A q \in Proc : Serves(q)
  BY TypesAndLocks, TypesAndLocksNext DEF WInv, SInv, Task
<1>1. /\ pc[t] = "handshake" /\ pc' = [pc EXCEPT ![t] = Finished(t), ![p] = "watch"]
      /\ making' = [making EXCEPT ![t] = None]
      /\ UNCHANGED <<children, proc, on, closing>>
      /\ p \in Proc /\ pc[p] = "none" /\ on[p] = on[t] /\ on[t] \in Account
      /\ lock[on[t]] = t /\ lock' = [a \in Account |-> IF lock[a] = t THEN None ELSE lock[a]]
  BY <1>0 DEF HandshakeEnds, Placed, Locks, Held, closeVars, Release
<1>2. /\ \A s \in Task \ {t, p} : pc'[s] = pc[s] /\ making'[s] = making[s]
      /\ pc'[t] \in {"end", "idle"} /\ pc'[p] = "watch" /\ p # t
  BY <1>0, <1>1 DEF Data, Finished
<1>3. \A s \in Task : s # t /\ pc[s] \in {"read", "handshake"} => making[s] # p
  BY <1>0, <1>1 DEF Placed, Locks, Held
<1>4. ASSUME NEW s \in Task PROVE Placed(s)'
  <2>1. CASE s = t \/ s = p
    BY <1>1, <1>2, <2>1 DEF Placed
  <2>2. CASE s # t /\ s # p
    <3>1. /\ pc'[s] = pc[s] /\ making'[s] = making[s] /\ on'[s] = on[s] /\ Placed(s)
      BY <1>0, <1>1, <1>2, <2>2
    <3>2. pc[s] \in {"read", "handshake"} =>
            making[s] \in Proc /\ pc'[making[s]] = "none" /\ on'[making[s]] = on[s]
      <4>1. pc[s] \in {"read", "handshake"} =>
              /\ making[s] \in Proc /\ pc[making[s]] = "none"
              /\ making[s] \notin {t, p} /\ on[making[s]] = on[s]
        BY <1>0, <1>1, <1>3, <2>2, <3>1 DEF Placed
      <4>2. QED
        BY <1>0, <1>1, <1>2, <4>1
    <3>3. QED
      BY <1>1, <3>1, <3>2 DEF Placed
  <2>3. QED
    BY <2>1, <2>2
<1>5. \A q \in Proc : Serves(q)'
  BY <1>0, <1>1 DEF Serves
<1>6. \A a \in Account : Lists(a)'
  BY <1>0, <1>1 DEF Lists
<1>7. AtMostOneServing'
  BY <1>1 DEF WInv, SInv, AtMostOneServing
<1>8. ListedIsWatched'
  <2> SUFFICES ASSUME NEW a \in Account, children[a] # None
               PROVE  \/ pc'[children[a]] = "watch"
                      \/ /\ lock'[a] # None /\ making'[lock'[a]] = children[a]
                         /\ pc'[lock'[a]] \in {"read", "handshake"}
    BY <1>1 DEF ListedIsWatched
  <2>1. children[a] \in Proc
    BY <1>0 DEF Data
  <2>2. CASE pc[children[a]] = "watch"
    BY <1>0, <1>1, <1>2, <2>1, <2>2
  <2>3. CASE /\ lock[a] # None /\ making[lock[a]] = children[a]
             /\ pc[lock[a]] \in {"read", "handshake"}
    <3>1. CASE lock[a] = t
      BY <1>2, <2>3, <3>1
    <3>2. CASE lock[a] # t
      <4>1. lock'[a] = lock[a] /\ lock[a] \in Task \ {t, p}
        BY <1>0, <1>1, <2>3, <3>2 DEF Data
      <4>2. QED
        BY <1>2, <2>3, <4>1
    <3>3. QED
      BY <3>1, <3>2
  <2>4. QED
    BY <2>2, <2>3 DEF WInv, ListedIsWatched
<1>9. QED
  BY <1>4, <1>5, <1>6, <1>7, <1>8 DEF WInv, SInv

LEMMA InitWInv == Init => WInv
<1> SUFFICES ASSUME Init PROVE WInv
  OBVIOUS
<1>1. SInv
  BY InitSInv
<1>2. ListedIsWatched
  BY SupervisorAssumption DEF Init, ListedIsWatched, Listed, Task
<1>3. QED
  BY <1>1, <1>2 DEF WInv

LEMMA NextWInv == WInv /\ [Next]_vars => WInv'
<1> SUFFICES ASSUME WInv, [Next]_vars PROVE WInv'
  OBVIOUS
<1>1. TypeOK'
  BY NextTypes DEF WInv
<1>2. ASSUME NEW t \in Task, AcquireStart(t) \/ Start(t) PROVE WInv'
  BY <1>1, <1>2, StartIsWatched, LauncherIsAlone, LaunchedIsWatched, ReadyIsWatched
  DEF Start
<1>3. QED
  BY <1>1, <1>2, ProcessIsWatched, OperatorIsWatched, RouterIsWatched DEF Next

\* The operation lock of an account is held by the task at work on its child,
\* and everything else has its type (accounts.go, mux.go).
THEOREM SupervisorTypes == Spec => []TypeOK
<1>1. WInv => TypeOK
  BY DEF WInv, SInv
<1>2. QED
  BY <1>1, InitWInv, NextWInv, PTL DEF Spec

\* One account never has two processes serving (startChildLocked, mux.go).
THEOREM OneServes == Spec => []AtMostOneServing
<1>1. WInv => AtMostOneServing
  BY DEF WInv, SInv
<1>2. QED
  BY <1>1, InitWInv, NextWInv, PTL DEF Spec

\* No child is listed without somebody who notices its exit (monitorChild).
THEOREM ExitsAreNoticed == Spec => []ListedIsWatched
<1>1. WInv => ListedIsWatched
  BY DEF WInv
<1>2. QED
  BY <1>1, InitWInv, NextWInv, PTL DEF Spec
-----------------------------------------------------------------------------
(* Who was told what the client said                                       *)

GInv == \A a \in Account : Greets(a)

Asked == {"awaiting", "greeted", "noting", "done"}

LEMMA InitGInv == Init => GInv
BY DEF Init, GInv, Greets, Told

\* Two tasks never start the same process.
LEMMA OneStarts ==
  ASSUME WInv, NEW s \in Task, NEW t \in Task, making[s] = making[t],
         pc[s] \in {"read", "handshake"}, pc[t] \in {"read", "handshake"}
  PROVE  s = t
<1>1. /\ \A u \in Task : Locks(u) /\ Placed(u)
  BY TypesAndLocks DEF WInv, SInv
<1>2. on[s] = on[t] /\ on[s] \in Account
  BY <1>1 DEF Placed
<1>3. QED
  BY <1>1, <1>2 DEF Locks, Held

\* A step in which nobody starts serving, is asked or has to be told more.
LEMMA GreetingsStay ==
  ASSUME WInv, GInv,
         \A a \in Account : children'[a] \in {children[a], None},
         \A p \in Proc : proc'[p] = "running" => proc[p] = "running",
         \A s \in Task : pc[s] \in {"read", "handshake"} =>
           Stays(s) \/ \A a \in Account : children'[a] # making[s],
         client' \in Asked => client \in Asked,
         client' = "done" => client = "done",
         inits' = inits, notes' = notes
  PROVE  GInv'
<1>0. Data
  BY TypesAndLocks DEF WInv, SInv
<1> SUFFICES ASSUME NEW a \in Account, Running(a)' PROVE Greets(a)'
  BY DEF GInv, Greets
<1>1. children'[a] = children[a] /\ children[a] \in Proc /\ Running(a)
  BY <1>0, SupervisorAssumption DEF Running, Data
<1>2. CASE \E s \in Task : pc[s] = "read" /\ making[s] = children[a]
  BY <1>1, <1>2 DEF Stays, Greets
<1>3. CASE Told(children[a])
  BY <1>1, <1>3 DEF Told, Stays, Asked, Greets
<1>4. QED
  BY <1>1, <1>2, <1>3 DEF GInv, Greets

LEMMA StartIsGreeted ==
  ASSUME WInv, GInv, NEW t \in Task, AcquireStart(t) \/ Start(t)
  PROVE  GInv'
<1> USE SupervisorAssumption
<1> DEFINE p == making[t]
<1>0. /\ Data /\ Proc \subseteq Task
      /\ \A s \in Task : Placed(s)
  BY TypesAndLocks DEF WInv, SInv, Task
<1> USE <1>0 DEF Goto
<1>1. CASE \/ AcquireStart(t) \/ EnterFinds(t) \/ EnterRefused(t)
           \/ EnterLaunches(t) \/ LaunchFails(t)
  <2>1. UNCHANGED <<proc, inits, notes, client, on, making, knows>>
    BY <1>1 DEF AcquireStart, EnterFinds, EnterRefused, EnterLaunches, LaunchFails,
       procVars, clientVars
  <2>2. children' = children \/ children' = [children EXCEPT ![on[t]] = None]
    BY <1>1 DEF AcquireStart, EnterFinds, EnterRefused, EnterLaunches, LaunchFails,
       procVars
  <2>3. pc[t] \in {"wait", "enter", "launch"} /\ \E to : pc' = [pc EXCEPT ![t] = to]
    BY <1>1 DEF AcquireStart, TakeLock, EnterFinds, EnterRefused, EnterLaunches,
       LaunchFails, Failed
  <2>4. \A s \in Task : pc[s] \in {"read", "handshake"} => Stays(s)
    BY <2>1, <2>3 DEF Stays, Data
  <2>5. \A a \in Account : children'[a] \in {children[a], None}
    BY <2>2 DEF Data
  <2>6. QED
    BY <2>1, <2>4, <2>5, GreetingsStay
<1>2. CASE HandshakeFails(t)
  <2>1. /\ pc[t] = "handshake" /\ children' = Unlisted(p) /\ proc' = Ending({p})
        /\ \E to : pc' = [pc EXCEPT ![t] = to]
        /\ making' = [making EXCEPT ![t] = None]
        /\ knows' = [knows EXCEPT ![t] = "new"]
        /\ UNCHANGED <<on, inits, notes, client>>
    BY <1>2 DEF HandshakeFails, Failed, clientVars
  <2>2. \A a \in Account : children'[a] \in {children[a], None} /\ children'[a] # p
    BY <2>1 DEF Unlisted, Data, Placed
  <2>3. \A q \in Proc : proc'[q] = "running" => proc[q] = "running"
    BY <2>1 DEF Ending
  <2>4. \A s \in Task : s # t => Stays(s)
    BY <2>1 DEF Stays, Data
  <2>5. QED
    BY <2>1, <2>2, <2>3, <2>4, GreetingsStay
<1>3. CASE Launch(t)
  <2>1. PICK q \in Proc :
          /\ Free(q) /\ pc[t] = "launch"
          /\ pc' = [pc EXCEPT ![t] = "read", ![q] = "none"]
          /\ proc' = [proc EXCEPT ![q] = "running"]
          /\ inits' = [inits EXCEPT ![q] = 0] /\ notes' = [notes EXCEPT ![q] = 0]
          /\ children' = [children EXCEPT ![on[t]] = q]
          /\ making' = [making EXCEPT ![t] = q]
          /\ UNCHANGED <<client, knows>>
    BY <1>3 DEF Launch, clientVars
  <2>2. ASSUME NEW a \in Account, Running(a)' PROVE Greets(a)'
    <3>1. CASE a = on[t]
      <4>1. pc'[t] = "read" /\ making'[t] = q /\ children'[a] = q
        BY <2>1, <3>1 DEF Free, Data
      <4>2. QED
        BY <4>1 DEF Greets
    <3>2. CASE a # on[t]
      <4>1. children'[a] = children[a] /\ children[a] \in Proc \ {q}
        BY <2>1, <2>2, <3>2 DEF Running, Free, Data
      <4>2. /\ proc'[children[a]] = proc[children[a]]
            /\ inits'[children[a]] = inits[children[a]]
            /\ notes'[children[a]] = notes[children[a]]
        BY <2>1, <4>1 DEF Data
      <4>3. Running(a)
        BY <2>2, <4>1, <4>2 DEF Running
      <4>4. \A s \in Task : pc[s] \in {"read", "handshake"} =>
              pc'[s] = pc[s] /\ making'[s] = making[s]
        BY <2>1 DEF Free, Data
      <4>5. CASE \E s \in Task : pc[s] = "read" /\ making[s] = children[a]
        BY <4>1, <4>4, <4>5 DEF Greets
      <4>6. CASE Told(children[a])
        BY <2>1, <4>1, <4>2, <4>4, <4>6 DEF Told, Greets
      <4>7. QED
        BY <4>3, <4>5, <4>6 DEF GInv, Greets
    <3>3. QED
      BY <3>1, <3>2
  <2>3. QED
    BY <2>2 DEF GInv, Greets
<1>4. CASE ReadHandshake(t)
  <2>1. /\ pc[t] = "read" /\ pc' = [pc EXCEPT ![t] = "handshake"]
        /\ knows' = [knows EXCEPT ![t] = HandshakeSeen]
        /\ UNCHANGED <<children, proc, notes, making, client>>
        /\ inits' = IF HandshakeSeen = "new" THEN inits ELSE OneMore(inits, {p})
        /\ p \in Proc
    BY <1>4 DEF ReadHandshake, clientVars, Placed
  <2>2. /\ \A q \in Proc : inits[q] > 0 => inits'[q] > 0
        /\ HandshakeSeen # "new" => inits'[p] > 0
    BY <2>1 DEF OneMore, Data
  <2>3. Told(p)'
    <3>1. client \in Asked => inits'[p] > 0
      BY <2>2 DEF HandshakeSeen, Asked
    <3>2. client = "done" => knows'[t] = "initialized"
      BY <2>1 DEF HandshakeSeen, Data
    <3>3. pc'[t] = "handshake" /\ making'[t] = p
      BY <2>1 DEF Data
    <3>4. QED
      BY <2>1, <3>1, <3>2, <3>3 DEF Told, Asked
  <2>4. ASSUME NEW a \in Account, Running(a), children[a] # p PROVE Greets(a)'
    <3>1. children[a] \in Proc
      BY <2>4 DEF Running, Data
    <3>2. \A s \in Task : s # t =>
            pc'[s] = pc[s] /\ making'[s] = making[s] /\ knows'[s] = knows[s]
      BY <2>1 DEF Data
    <3>3. CASE \E s \in Task : pc[s] = "read" /\ making[s] = children[a]
      BY <2>1, <2>4, <3>2, <3>3 DEF Greets
    <3>4. CASE Told(children[a])
      BY <2>1, <2>2, <2>4, <3>1, <3>2, <3>4 DEF Told, Greets
    <3>5. QED
      BY <2>4, <3>3, <3>4 DEF GInv, Greets
  <2>5. QED
    BY <2>1, <2>3, <2>4 DEF GInv, Greets, Running
<1>5. CASE HandshakeEnds(t)
  <2>1. /\ pc[t] = "handshake" /\ pc[p] = "none" /\ p \in Proc /\ p # t
        /\ pc' = [pc EXCEPT ![t] = Finished(t), ![p] = "watch"]
        /\ making' = [making EXCEPT ![t] = None]
        /\ knows' = [knows EXCEPT ![t] = "new"]
        /\ UNCHANGED <<children, proc, inits, client>>
        /\ notes' = IF knows[t] = "initialized" THEN OneMore(notes, {p}) ELSE notes
    BY <1>5 DEF HandshakeEnds, clientVars, Placed
  <2>2. /\ \A q \in Proc : notes[q] > 0 => notes'[q] > 0
        /\ knows[t] = "initialized" => notes'[p] > 0
    BY <2>1 DEF OneMore, Data
  <2>3. \A s \in Task : s # t /\ pc[s] \in {"read", "handshake"} =>
          /\ pc'[s] = pc[s] /\ making'[s] = making[s] /\ knows'[s] = knows[s]
          /\ making[s] # p
    BY <2>1, OneStarts DEF Data
  <2>4. ASSUME NEW a \in Account, Running(a) PROVE Greets(a)'
    <3>1. children[a] \in Proc
      BY <2>4 DEF Running, Data
    <3>2. CASE \E s \in Task : pc[s] = "read" /\ making[s] = children[a]
      BY <2>1, <2>3, <3>2 DEF Greets
    <3>3. CASE Told(children[a])
      <4>1. CASE children[a] = p
        BY <2>1, <2>2, <2>3, <3>3, <4>1 DEF Told, Greets
      <4>2. CASE children[a] # p
        BY <2>1, <2>2, <2>3, <3>1, <3>3, <4>2 DEF Told, Greets
      <4>3. QED
        BY <4>1, <4>2
    <3>4. QED
      BY <2>4, <3>2, <3>3 DEF GInv, Greets
  <2>5. QED
    BY <2>1, <2>4 DEF GInv, Greets, Running
<1>6. QED
  BY <1>1, <1>2, <1>3, <1>4, <1>5 DEF Start

\* The client tells the children on the list.
LEMMA ClientGreets ==
  ASSUME WInv, GInv, ClientAsks \/ ClientNotes
  PROVE  GInv'
<1> USE SupervisorAssumption
<1>0. Data
  BY TypesAndLocks DEF WInv, SInv
<1>1. UNCHANGED <<children, proc, pc, making, knows>>
  BY DEF ClientAsks, ClientNotes, taskVars
<1>2. ASSUME NEW a \in Account, Running(a) PROVE Greets(a)'
  <2>1. children[a] \in Proc /\ children[a] \in Listed /\ proc[children[a]] = "running"
    BY <1>0, <1>2 DEF Running, Data, Listed
  <2>2. CASE \E s \in Task : pc[s] = "read" /\ making[s] = children[a]
    BY <1>1, <2>2 DEF Greets
  <2>3. CASE ClientAsks /\ Told(children[a])
    BY <1>0, <2>1, <2>3 DEF ClientAsks, Client, OneMore, Told, Greets, Data
  <2>4. CASE ClientNotes /\ Told(children[a])
    <3>1. client = "noting" /\ client' = "done" /\ inits' = inits /\ notes'[children[a]] > 0
      BY <1>0, <2>1, <2>4 DEF ClientNotes, Client, OneMore, Data
    <3>2. QED
      BY <1>1, <2>4, <3>1 DEF Told, Greets
  <2>5. QED
    BY <1>2, <2>2, <2>3, <2>4 DEF GInv, Greets
<1>3. QED
  BY <1>1, <1>2 DEF GInv, Greets, Running

LEMMA NextGInv == WInv /\ GInv /\ [Next]_vars => GInv'
<1> SUFFICES ASSUME WInv, GInv, [Next]_vars PROVE GInv'
  OBVIOUS
<1> USE SupervisorAssumption
<1>0. Data /\ Proc \subseteq Task /\ Operator \subseteq Task
  BY TypesAndLocks DEF WInv, SInv, Task
<1> USE <1>0
<1>1. ASSUME NEW q \in Task, pc[q] \notin {"read", "handshake"},
             \E to : pc' = [pc EXCEPT ![q] = to],
             on' = on \/ \E a : on' = [on EXCEPT ![q] = a],
             making' = making \/ \E r : making' = [making EXCEPT ![q] = r],
             knows' = knows
      PROVE  \A s \in Task : pc[s] \in {"read", "handshake"} => Stays(s)
  BY <1>1 DEF Stays, Data
<1>2. UNCHANGED taskVars => \A s \in Task : Stays(s)
  BY DEF Stays, taskVars
<1>3. \A q : /\ \A a \in Account : Unlisted(q)[a] \in {children[a], None}
             /\ \A r \in Proc : Ending({q})[r] = "running" => proc[r] = "running"
  BY DEF Unlisted, Ending
<1>4. ASSUME NEW q \in Proc, Monitor(q) PROVE GInv'
  <2>1. UNCHANGED <<proc, inits, notes, on, making, knows, client>>
    BY <1>4 DEF Monitor, Notice, Record, DelayEnds, procVars, clientVars
  <2>2. children' = children \/ children' = Unlisted(q)
    BY <1>4 DEF Monitor, Notice, Record, DelayEnds, procVars
  <2>3. pc[q] \notin {"read", "handshake"} /\ \E to : pc' = [pc EXCEPT ![q] = to]
    BY <1>4 DEF Monitor, Notice, Record, DelayEnds, Goto
  <2>4. QED
    BY <1>1, <1>3, <2>1, <2>2, <2>3, GreetingsStay
<1>5. ASSUME NEW q \in Proc, Exit(q) \/ ClientInitOk(q) \/ ClientInitFails(q)
      PROVE  GInv'
  <2>1. UNCHANGED <<taskVars, inits, notes>>
    BY <1>5 DEF Exit, ClientInitOk, ClientInitFails, procVars
  <2>2. children' = children \/ children' = Unlisted(q)
    BY <1>5 DEF Exit, ClientInitOk, ClientInitFails, procVars
  <2>3. proc' = proc \/ proc' = Ending({q}) \/ proc' = [proc EXCEPT ![q] = "exited"]
    BY <1>5 DEF Exit, ClientInitOk, ClientInitFails, procVars
  <2>4. client' = client \/ (client \in Asked /\ client' = "greeted")
    BY <1>5 DEF Exit, ClientInitOk, ClientInitFails, Answers, clientVars, Asked
  <2>5. \A r \in Proc : proc'[r] = "running" => proc[r] = "running"
    BY <1>3, <2>3 DEF Data
  <2>6. \A a \in Account : children'[a] \in {children[a], None}
    BY <1>3, <2>2
  <2>7. QED
    BY <1>2, <2>1, <2>4, <2>5, <2>6, GreetingsStay DEF Asked
<1>6. ASSUME NEW o \in Operator,
             Operate(o) \/ \E a \in Account, call \in Calls : Begin(o, a, call)
      PROVE  GInv'
  <2>1. UNCHANGED <<inits, notes, knows, client>>
    BY <1>6 DEF Operate, AcquireEnable, AcquireStop, AcquireLogin, AcquireIdle,
       Stopped, RemoveFails, StopFails, Demote, Begin, procVars, clientVars
  <2>2. /\ children' = children \/ children' = [children EXCEPT ![on[o]] = None]
        /\ proc' = proc \/ proc' = Ending({children[on[o]]})
    BY <1>6 DEF Operate, AcquireEnable, AcquireStop, AcquireLogin, AcquireIdle,
       Stopped, RemoveFails, StopFails, Demote, Begin, procVars
  <2>3. /\ pc[o] \notin {"read", "handshake"} /\ \E to : pc' = [pc EXCEPT ![o] = to]
        /\ on' = on \/ \E a : on' = [on EXCEPT ![o] = a]
        /\ making' = making \/ \E r : making' = [making EXCEPT ![o] = r]
    BY <1>6 DEF Operate, AcquireEnable, AcquireStop, AcquireLogin, AcquireIdle,
       Stopped, RemoveFails, StopFails, Demote, Begin, TakeLock, Goto
  <2>4. \A a \in Account : children'[a] \in {children[a], None}
    BY <2>2 DEF Data
  <2>5. \A s \in Task : pc[s] \in {"read", "handshake"} => Stays(s)
    BY <1>1, <2>1, <2>3
  <2>6. QED
    BY <1>3, <2>1, <2>2, <2>4, <2>5, GreetingsStay
<1>7. CASE \/ \E a \in Account : CircuitLapses(a) \/ Healthy(a)
           \/ ClientInitialize \/ ClientInitialized
           \/ CloseBegin \/ CloseEnd \/ UNCHANGED vars
  <2>1. UNCHANGED <<taskVars, inits, notes>>
    BY <1>7 DEF CircuitLapses, Healthy, ClientInitialize, ClientInitialized,
       CloseBegin, CloseEnd, vars, procVars
  <2>2. \A a \in Account : children'[a] \in {children[a], None}
    BY <1>7 DEF CircuitLapses, Healthy, ClientInitialize, ClientInitialized,
       CloseBegin, CloseEnd, vars, procVars
  <2>3. \A r \in Proc : proc'[r] = "running" => proc[r] = "running"
    BY <1>7 DEF CircuitLapses, Healthy, ClientInitialize, ClientInitialized,
       CloseBegin, CloseEnd, Ending, vars, procVars
  <2>4. /\ client' \in Asked => client \in Asked
        /\ client' = "done" => client = "done"
    BY <1>7 DEF CircuitLapses, Healthy, ClientInitialize, ClientInitialized,
       CloseBegin, CloseEnd, Client, vars, clientVars, Asked
  <2>5. QED
    BY <1>2, <2>1, <2>2, <2>3, <2>4, GreetingsStay
<1>8. QED
  BY <1>4, <1>5, <1>6, <1>7, StartIsGreeted, ClientGreets DEF Next

\* Whenever a child was started, around or amid the client's handshake, it got
\* both messages before it serves (WIN-RPC-003; mux.go).
THEOREM ServersAreInitialized == Spec => []ServingIsInitialized
<1>1. WInv /\ GInv => ServingIsInitialized
  <2> SUFFICES ASSUME WInv, GInv, client = "done", NEW a \in Account, Running(a),
                      pc[children[a]] = "watch"
               PROVE  inits[children[a]] > 0 /\ notes[children[a]] > 0
    BY DEF ServingIsInitialized
  <2>1. \A s \in Task : pc[s] \in {"read", "handshake"} => making[s] # children[a]
    BY DEF WInv, SInv, Placed
  <2>2. QED
    BY <2>1 DEF GInv, Greets, Told
<1>2. QED
  BY <1>1, InitWInv, NextWInv, InitGInv, NextGInv, PTL DEF Spec

\* A chain of restarts is not lost: it ends with a child that is watched, a
\* closed or disabled account, or the router (mux.go).
THEOREM ChainsGoOn == Spec => SupervisionPersists
<1>1. ASSUME WInv, [Next]_vars, NEW p \in Proc,
             pc[p] \notin {"none", "watch", "end"}, pc'[p] = "end"
      PROVE  \/ children'[on[p]] # None
             \/ making[p] # None /\ pc'[making[p]] = "watch"
             \/ stored[on[p]] # "enabled"
             \/ closing # "open"
  <2> USE SupervisorAssumption
  <2>0. /\ Data /\ p \in Task /\ Task = Proc \cup Operator
        /\ \A s \in Task : Placed(s)
    BY <1>1, TypesAndLocks DEF WInv, SInv, Task
  <2> USE <1>1, <2>0 DEF Goto
  <2>1. UNCHANGED pc => FALSE
    BY DEF Data
  <2>2. \A to : \A t \in Task \ {p} : pc' = [pc EXCEPT ![t] = to] => FALSE
    BY DEF Data
  <2>3. \A to \in Places \ {"end"} : pc' = [pc EXCEPT ![p] = to] => FALSE
    BY DEF Data
  <2>4. CASE EnterFinds(p)
    BY <2>4 DEF EnterFinds, Running, procVars
  <2>5. CASE HandshakeEnds(p)
    BY <2>5 DEF HandshakeEnds, Placed, Data
  <2>6. CASE Monitor(p)
    BY <2>6 DEF Monitor, Notice, Record, DelayEnds, Data
  <2>7. ASSUME NEW t \in Task, AcquireStart(t) \/ Start(t),
               ~EnterFinds(p), ~HandshakeEnds(p)
        PROVE  FALSE
    <3>1. CASE Launch(t)
      BY <3>1 DEF Launch, Free, Data
    <3>2. CASE HandshakeEnds(t)
      <4>1. t # p
        BY <2>7, <3>2
      <4>2. /\ pc' = [pc EXCEPT ![t] = Finished(t), ![making[t]] = "watch"]
            /\ pc[making[t]] = "none"
        BY <3>2 DEF HandshakeEnds, Placed
      <4>3. QED
        BY <4>1, <4>2 DEF Data
    <3>3. CASE ~Launch(t) /\ ~HandshakeEnds(t)
      <4>1. \E to \in Places : pc' = [pc EXCEPT ![t] = to] /\ (to = "end" => EnterFinds(t))
        BY <2>7, <3>3 DEF AcquireStart, TakeLock, Start, EnterFinds, EnterRefused,
           EnterLaunches, LaunchFails, ReadHandshake, HandshakeFails, Failed,
           Finished, Places
      <4>2. QED
        BY <2>2, <2>3, <2>7, <4>1
    <3>4. QED
      BY <3>1, <3>2, <3>3
  <2>8. ASSUME NEW q \in Proc, Monitor(q), q # p PROVE FALSE
    BY <2>2, <2>8 DEF Monitor, Notice, Record, DelayEnds
  <2>9. ASSUME NEW o \in Operator,
               Operate(o) \/ \E a \in Account, call \in Calls : Begin(o, a, call)
        PROVE  FALSE
    <3>1. \E to : pc' = [pc EXCEPT ![o] = to]
      BY <2>9 DEF Operate, AcquireEnable, AcquireStop, AcquireLogin, AcquireIdle,
         Stopped, RemoveFails, StopFails, Demote, Begin, TakeLock
    <3>2. QED
      BY <2>2, <3>1
  <2>10. \/ \E q \in Proc : Exit(q) \/ ClientInitOk(q) \/ ClientInitFails(q)
         \/ \E a \in Account : CircuitLapses(a) \/ Healthy(a)
         \/ ClientInitialize \/ ClientAsks \/ ClientInitialized \/ ClientNotes
         \/ CloseBegin \/ CloseEnd \/ UNCHANGED vars
         => UNCHANGED pc
    BY DEF Exit, ClientInitOk, ClientInitFails, CircuitLapses, Healthy,
       ClientInitialize, ClientAsks, ClientInitialized, ClientNotes, CloseBegin,
       CloseEnd, vars, taskVars
  <2>11. QED
    BY <2>1, <2>4, <2>5, <2>6, <2>7, <2>8, <2>9, <2>10 DEF Next
<1>2. WInv /\ [Next]_vars =>
        [\A p \in Proc :
           /\ pc[p] \notin {"none", "watch", "end"}
           /\ pc'[p] = "end"
           => \/ children'[on[p]] # None
              \/ making[p] # None /\ pc'[making[p]] = "watch"
              \/ stored[on[p]] # "enabled"
              \/ closing # "open"]_vars
  BY <1>1
<1>3. QED
  BY <1>2, InitWInv, NextWInv, PTL DEF Spec, SupervisionPersists
=============================================================================
