-------------------------- MODULE RouterStoreProofs --------------------------
(* What the files and the memory of the router keep, for every set of      *)
(* accounts and threads and any number of crashes and failures.            *)
EXTENDS RouterStore, TLAPS

\* Owners are exactly what was learned of the accounts listed.
OwnedBy(acc, own) ==
  \A t \in Thread :
    own[t] = IF learned[t] # None /\ acc[learned[t]] # "absent"
             THEN learned[t] ELSE None

\* Primary is there, the other accounts have their directories.
Housed(acc) ==
  /\ acc[Primary] = "enabled"
  /\ \A a \in Account \ {Primary} : acc[a] # "absent" => a \in homes

\* No account is listed, and no thread learned, before its identity is issued.
IssuedFirst ==
  /\ \A a \in Account :
       accounts[a] # "absent" \/ dAccounts[a] # "absent" => a \in issued
  /\ \A t \in Thread : learned[t] # None => learned[t] \in issued
  /\ homes \subseteq issued

\* Memory and files, apart from an undone removal that could not be saved.
Together ==
  /\ ~torn \/ pc = "down" => accounts = dAccounts /\ owners = dOwners
  /\ pc # "down" => mode = dMode /\ ~older

\* What the holder of Store.mu has established.
Holder ==
  /\ op.to = "absent" => op.admin
  /\ pc = "adding" =>
       /\ accounts[op.acc] = "absent" /\ dAccounts[op.acc] = "absent"
       /\ op.acc \in homes
       /\ \A t \in Thread : learned[t] # op.acc
  /\ pc \in {"mode", "state"} =>
       /\ op.prev = accounts[op.acc]
       /\ op.to # "enabled" => op.acc # Primary
       /\ op.to = "enabled" => pc = "state"
       /\ op.to # "enabled" /\ pc = "state" => mode # op.acc
  /\ pc \in {"quarantine", "rollback"} =>
       /\ ~torn /\ op.acc # Primary
       /\ accounts[op.acc] = "absent" /\ op.acc \in homes
  /\ pc \in {"mode", "state", "quarantine", "rollback"} =>
       /\ op.prev # "absent"
       /\ op.owned = {t \in Thread : learned[t] = op.acc}

\* Accounts a call is starting, or may have to disable again.
Callers ==
  /\ Primary \notin starting
  /\ undo # None => pc # "down" /\ admin = "publish" /\ undo # Primary
                    /\ accounts[undo] # "absent"

Files ==
  /\ Housed(accounts) /\ Housed(dAccounts)
  /\ OwnedBy(accounts, owners) /\ OwnedBy(dAccounts, dOwners)

IInv ==
  /\ TypeOK /\ IssuedFirst /\ Files /\ Together /\ Holder /\ Callers
  /\ ModeIsEnabled /\ PreferenceIsUsable

LEMMA InitIInv == Init => IInv
<1> SUFFICES ASSUME Init PROVE IInv
  OBVIOUS
<1> USE StoreAssumption DEF Init
<1>1. TypeOK
  <2>1. op \in Op /\ ~op.admin
    BY DEF Op, NoOp, Status
  <2>2. accounts \in [Account -> Status] /\ owners \in [Thread -> Account \cup {None}]
    BY DEF Status
  <2>3. admin = "held" <=> op.admin
    BY <2>1
  <2>4. faults \in 0..MaxFaults
    OBVIOUS
  <2>5. QED
    BY <2>1, <2>2, <2>3, <2>4 DEF TypeOK
<1>2. IssuedFirst /\ Files
  BY DEF IssuedFirst, Files, Housed, OwnedBy
<1>3. Together /\ Holder /\ Callers
  BY DEF Together, Holder, Callers, NoOp
<1>4. ModeIsEnabled /\ PreferenceIsUsable
  BY DEF ModeIsEnabled, PreferenceIsUsable, Usable
<1>5. QED
  BY <1>1, <1>2, <1>3, <1>4 DEF IInv

LEMMA AddHomeKeeps ==
  ASSUME IInv, NEW a \in Account, AddHome(a)
  PROVE  IInv'
<1> USE DEF IInv, memVars, AddHome
<1>1. TypeOK'
  BY DEF callVars, TypeOK, Op
<1>2. IssuedFirst'
  BY DEF IssuedFirst
<1>3. Files'
  BY DEF Files, OwnedBy, Housed
<1>4. Together'
  BY DEF Together
<1>5. Holder'
  BY StoreAssumption DEF NoOp, IssuedFirst, Holder
<1>6. Callers'
  BY DEF callVars, Callers
<1>7. ModeIsEnabled' /\ PreferenceIsUsable'
  BY DEF ModeIsEnabled, PreferenceIsUsable, Usable
<1>8. QED
  BY <1>1, <1>2, <1>3, <1>4, <1>5, <1>6, <1>7 DEF IInv

LEMMA AddCommitKeeps ==
  ASSUME IInv, AddCommit
  PROVE  IInv'
<1> USE DEF IInv, AddCommit
<1>1. TypeOK'
  BY StoreAssumption DEF Done, NoOp, Save, TypeOK, Op, Status
<1>2. IssuedFirst'
  BY DEF Save, IssuedFirst, Holder
<1>3. Files'
  BY DEF Save, Files, OwnedBy, Housed, Holder
<1>4. Together'
  BY DEF Save, Together
<1>5. Holder'
  BY DEF Done, NoOp, Holder
<1>6. Callers'
  BY DEF Done, Save, Files, Housed, Holder, Callers
<1>7. ModeIsEnabled' /\ PreferenceIsUsable'
  BY DEF Save, Together, ModeIsEnabled, PreferenceIsUsable, Usable
<1>8. QED
  BY <1>1, <1>2, <1>3, <1>4, <1>5, <1>6, <1>7 DEF IInv

LEMMA AddFailsKeeps ==
  ASSUME IInv, AddFails
  PROVE  IInv'
<1> USE DEF IInv, AddFails
<1>1. TypeOK'
  BY StoreAssumption DEF memVars, Done, NoOp, Fault, TypeOK, Op, Status
<1>2. IssuedFirst'
  BY DEF memVars, IssuedFirst
<1>3. Files'
  BY DEF memVars, Files, OwnedBy, Housed, Holder
<1>4. Together'
  BY DEF memVars, Done, Together
<1>5. Holder'
  BY DEF Done, NoOp, Holder
<1>6. Callers'
  BY DEF memVars, Done, Callers
<1>7. ModeIsEnabled' /\ PreferenceIsUsable'
  BY DEF memVars, ModeIsEnabled, PreferenceIsUsable, Usable
<1>8. QED
  BY <1>1, <1>2, <1>3, <1>4, <1>5, <1>6, <1>7 DEF IInv

LEMMA WriteModeKeeps ==
  ASSUME IInv, WriteMode
  PROVE  IInv'
<1> USE DEF IInv, WriteMode
<1>1. TypeOK'
  BY DEF callVars, SaveMode, TypeOK
<1>2. IssuedFirst'
  BY DEF IssuedFirst
<1>3. Files'
  BY DEF Files, OwnedBy, Housed
<1>4. Together'
  BY DEF SaveMode, Together
<1>5. Holder'
  BY StoreAssumption DEF SaveMode, TypeOK, Op, Holder
<1>6. Callers'
  BY DEF callVars, Callers
<1>7. ModeIsEnabled' /\ PreferenceIsUsable'
  BY DEF SaveMode, ModeIsEnabled, PreferenceIsUsable, Usable
<1>8. QED
  BY <1>1, <1>2, <1>3, <1>4, <1>5, <1>6, <1>7 DEF IInv

LEMMA WriteUpdateKeeps ==
  ASSUME IInv, WriteUpdate
  PROVE  IInv'
<1> USE DEF IInv, WriteUpdate
<1>1. TypeOK'
  BY StoreAssumption DEF Done, NoOp, Save, TypeOK, Op, Status
<1>2. IssuedFirst'
  BY DEF Save, IssuedFirst, Holder
<1>3. Files'
  BY DEF Save, Files, OwnedBy, Housed, Holder
<1>4. Together'
  BY DEF Save, Together
<1>5. Holder'
  BY DEF Done, NoOp, Holder
<1>6. Callers'
  BY DEF Done, Save, Files, Housed, Holder, Callers
<1>7. ModeIsEnabled' /\ PreferenceIsUsable'
  BY DEF Save, Together, Holder, ModeIsEnabled, PreferenceIsUsable, Usable
<1>8. QED
  BY <1>1, <1>2, <1>3, <1>4, <1>5, <1>6, <1>7 DEF IInv

LEMMA WriteRemovalKeeps ==
  ASSUME IInv, WriteRemoval
  PROVE  IInv'
<1> USE DEF IInv, WriteRemoval
<1>1. TypeOK'
  BY DEF callVars, Save, Disowned, TypeOK, Status
<1>2. IssuedFirst'
  BY DEF Save, IssuedFirst
<1>3. Files'
  BY DEF Save, Disowned, TypeOK, Files, OwnedBy, Housed, Holder
<1>4. Together'
  BY DEF Save, Together
<1>5. Holder'
  BY DEF Save, TypeOK, Op, Files, Housed, Holder
<1>6. Callers'
  BY DEF callVars, TypeOK, Holder, Callers
<1>7. ModeIsEnabled' /\ PreferenceIsUsable'
  BY DEF Save, Together, Holder, ModeIsEnabled, PreferenceIsUsable, Usable
<1>8. QED
  BY <1>1, <1>2, <1>3, <1>4, <1>5, <1>6, <1>7 DEF IInv

LEMMA WriteFailsKeeps ==
  ASSUME IInv, WriteFails
  PROVE  IInv'
<1> USE DEF IInv, WriteFails
<1>1. TypeOK'
  BY StoreAssumption DEF memVars, diskVars, Done, NoOp, Fault, TypeOK, Op,
     Status
<1>2. IssuedFirst'
  BY DEF memVars, diskVars, IssuedFirst
<1>3. Files'
  BY DEF memVars, diskVars, Files, OwnedBy, Housed
<1>4. Together'
  BY DEF memVars, diskVars, Done, Together
<1>5. Holder'
  BY DEF Done, NoOp, Holder
<1>6. Callers'
  BY DEF memVars, Done, Callers
<1>7. ModeIsEnabled' /\ PreferenceIsUsable'
  BY DEF memVars, diskVars, ModeIsEnabled, PreferenceIsUsable, Usable
<1>8. QED
  BY <1>1, <1>2, <1>3, <1>4, <1>5, <1>6, <1>7 DEF IInv

LEMMA QuarantineKeeps ==
  ASSUME IInv, Quarantine
  PROVE  IInv'
<1> USE DEF IInv, Quarantine
<1>1. TypeOK'
  BY StoreAssumption DEF memVars, Done, NoOp, TypeOK, Op, Status
<1>2. IssuedFirst'
  BY DEF memVars, IssuedFirst
<1>3. Files'
  BY DEF memVars, Files, OwnedBy, Housed, Together, Holder
<1>4. Together'
  BY DEF memVars, Done, Together
<1>5. Holder'
  BY DEF Done, NoOp, Holder
<1>6. Callers'
  BY DEF memVars, Done, Callers
<1>7. ModeIsEnabled' /\ PreferenceIsUsable'
  BY DEF memVars, ModeIsEnabled, PreferenceIsUsable, Usable
<1>8. QED
  BY <1>1, <1>2, <1>3, <1>4, <1>5, <1>6, <1>7 DEF IInv

LEMMA QuarantineFailsKeeps ==
  ASSUME IInv, QuarantineFails
  PROVE  IInv'
<1> USE DEF IInv, memVars, QuarantineFails
<1>1. TypeOK'
  BY StoreAssumption DEF diskVars, callVars, Fault, TypeOK
<1>2. IssuedFirst'
  BY DEF diskVars, IssuedFirst
<1>3. Files'
  BY DEF diskVars, Files, OwnedBy, Housed
<1>4. Together'
  BY DEF diskVars, Together
<1>5. Holder'
  BY DEF diskVars, Holder
<1>6. Callers'
  BY DEF callVars, Callers
<1>7. ModeIsEnabled' /\ PreferenceIsUsable'
  BY DEF diskVars, ModeIsEnabled, PreferenceIsUsable, Usable
<1>8. QED
  BY <1>1, <1>2, <1>3, <1>4, <1>5, <1>6, <1>7 DEF IInv

LEMMA RollbackKeeps ==
  ASSUME IInv, Rollback
  PROVE  IInv'
<1> USE DEF IInv, Rollback
<1>1. TypeOK'
  BY StoreAssumption DEF Done, NoOp, Save, Restored, Reowned, TypeOK, Op,
     Status
<1>2. IssuedFirst'
  BY DEF Save, Restored, IssuedFirst, Holder
<1>3. Files'
  BY DEF Save, Restored, Reowned, TypeOK, Files, OwnedBy, Housed, Holder
<1>4. Together'
  BY DEF Save, Together
<1>5. Holder'
  BY DEF Done, NoOp, Holder
<1>6. Callers'
  BY DEF Done, Save, Restored, Holder, Callers
<1>7. ModeIsEnabled' /\ PreferenceIsUsable'
  BY DEF Save, Restored, Together, Holder, ModeIsEnabled, PreferenceIsUsable,
     Usable
<1>8. QED
  BY <1>1, <1>2, <1>3, <1>4, <1>5, <1>6, <1>7 DEF IInv

LEMMA RollbackFailsKeeps ==
  ASSUME IInv, RollbackFails
  PROVE  IInv'
<1> USE DEF IInv, RollbackFails
<1>1. TypeOK'
  BY StoreAssumption DEF diskVars, Done, NoOp, Fault, Restored, Reowned,
     TypeOK, Op, Status
<1>2. IssuedFirst'
  BY DEF diskVars, Restored, IssuedFirst, Holder
<1>3. Files'
  BY DEF diskVars, Restored, Reowned, TypeOK, Files, OwnedBy, Housed, Holder
<1>4. Together'
  BY DEF diskVars, Done, Together
<1>5. Holder'
  BY DEF Done, NoOp, Holder
<1>6. Callers'
  BY DEF Done, Restored, Holder, Callers
<1>7. ModeIsEnabled' /\ PreferenceIsUsable'
  BY DEF Restored, Holder, ModeIsEnabled, PreferenceIsUsable
<1>8. QED
  BY <1>1, <1>2, <1>3, <1>4, <1>5, <1>6, <1>7 DEF IInv

LEMMA SetOwnerKeeps ==
  ASSUME IInv, NEW t \in Thread, NEW a \in Account, SetOwner(t, a)
  PROVE  IInv'
<1> USE DEF IInv, SetOwner
<1>1. TypeOK'
  BY DEF callVars, Save, TypeOK
<1>2. IssuedFirst'
  BY DEF Save, IssuedFirst
<1>3. Files'
  BY DEF Save, TypeOK, Files, OwnedBy, Housed
<1>4. Together'
  BY DEF Save, Together
<1>5. Holder'
  BY DEF Holder
<1>6. Callers'
  BY DEF callVars, Save, Callers
<1>7. ModeIsEnabled' /\ PreferenceIsUsable'
  BY DEF Save, Together, ModeIsEnabled, PreferenceIsUsable, Usable
<1>8. QED
  BY <1>1, <1>2, <1>3, <1>4, <1>5, <1>6, <1>7 DEF IInv

LEMMA ChangeKeeps ==
  ASSUME IInv, NEW a \in Account, NEW to \in Status, Change(a, to)
  PROVE  IInv'
<1> USE DEF IInv, Change
<1>1. TypeOK'
  BY DEF memVars, diskVars, Begin, Begins, TypeOK, Op
<1>2. IssuedFirst'
  BY DEF memVars, diskVars, Begin, Begins, IssuedFirst
<1>3. Files'
  BY DEF memVars, diskVars, Begin, Begins, Files, OwnedBy, Housed
<1>4. Together'
  BY DEF memVars, diskVars, Begin, Begins, Together
<1>5. Holder'
  BY StoreAssumption DEF memVars, Begin, Begins, Files, OwnedBy, Holder
<1>6. Callers'
  BY DEF Callers
<1>7. ModeIsEnabled' /\ PreferenceIsUsable'
  BY DEF memVars, diskVars, Begin, Begins, ModeIsEnabled, PreferenceIsUsable,
     Usable
<1>8. QED
  BY <1>1, <1>2, <1>3, <1>4, <1>5, <1>6, <1>7 DEF IInv

LEMMA EnableFailsKeeps ==
  ASSUME IInv, EnableFails
  PROVE  IInv'
<1> USE DEF IInv, EnableFails
<1>1. TypeOK'
  BY DEF memVars, diskVars, Begin, Begins, TypeOK, Op, Status
<1>2. IssuedFirst'
  BY DEF memVars, diskVars, Begin, Begins, IssuedFirst
<1>3. Files'
  BY DEF memVars, diskVars, Begin, Begins, Files, OwnedBy, Housed
<1>4. Together'
  BY DEF memVars, diskVars, Begin, Begins, Together
<1>5. Holder'
  BY DEF memVars, Begin, Begins, Files, OwnedBy, Holder, Callers
<1>6. Callers'
  BY DEF Callers
<1>7. ModeIsEnabled' /\ PreferenceIsUsable'
  BY DEF memVars, diskVars, Begin, Begins, ModeIsEnabled, PreferenceIsUsable,
     Usable
<1>8. QED
  BY <1>1, <1>2, <1>3, <1>4, <1>5, <1>6, <1>7 DEF IInv

LEMMA SetModeKeeps ==
  ASSUME IInv, NEW m \in Account \cup {AutoMode}, SetMode(m)
  PROVE  IInv'
<1> USE DEF IInv, SetMode
<1>1. TypeOK'
  BY DEF SaveMode, TypeOK
<1>2. IssuedFirst'
  BY DEF IssuedFirst
<1>3. Files'
  BY DEF Files, OwnedBy, Housed
<1>4. Together'
  BY DEF SaveMode, Together
<1>5. Holder'
  BY DEF Holder
<1>6. Callers'
  BY DEF Callers
<1>7. ModeIsEnabled' /\ PreferenceIsUsable'
  BY DEF SaveMode, Together, ModeIsEnabled, PreferenceIsUsable, Usable
<1>8. QED
  BY <1>1, <1>2, <1>3, <1>4, <1>5, <1>6, <1>7 DEF IInv

LEMMA PublishKeeps ==
  ASSUME IInv, Publish
  PROVE  IInv'
<1> USE DEF IInv, Publish
<1>1. TypeOK'
  BY DEF memVars, diskVars, TypeOK
<1>2. IssuedFirst'
  BY DEF memVars, diskVars, IssuedFirst
<1>3. Files'
  BY DEF memVars, diskVars, Files, OwnedBy, Housed
<1>4. Together'
  BY DEF memVars, diskVars, Together
<1>5. Holder'
  BY DEF Holder
<1>6. Callers'
  BY DEF Callers
<1>7. ModeIsEnabled' /\ PreferenceIsUsable'
  BY DEF memVars, diskVars, ModeIsEnabled, PreferenceIsUsable, Usable
<1>8. QED
  BY <1>1, <1>2, <1>3, <1>4, <1>5, <1>6, <1>7 DEF IInv

LEMMA ChildStartsKeeps ==
  ASSUME IInv, NEW a \in Account, ChildStarts(a)
  PROVE  IInv'
<1> USE DEF IInv, memVars, ChildStarts
<1>1. TypeOK'
  BY DEF diskVars, TypeOK
<1>2. IssuedFirst'
  BY DEF diskVars, IssuedFirst
<1>3. Files'
  BY DEF diskVars, Files, OwnedBy, Housed
<1>4. Together'
  BY DEF diskVars, Together
<1>5. Holder'
  BY DEF diskVars, Holder
<1>6. Callers'
  BY DEF Callers
<1>7. ModeIsEnabled' /\ PreferenceIsUsable'
  BY DEF diskVars, ModeIsEnabled, PreferenceIsUsable, Usable
<1>8. QED
  BY <1>1, <1>2, <1>3, <1>4, <1>5, <1>6, <1>7 DEF IInv

LEMMA ChildFailsKeeps ==
  ASSUME IInv, NEW a \in Account, ChildFails(a)
  PROVE  IInv'
<1> USE DEF IInv, memVars, ChildFails, Begin, Begins
<1>1. TypeOK'
  BY DEF diskVars, NoOp, TypeOK, Op, Status
<1>2. IssuedFirst'
  BY DEF diskVars, IssuedFirst
<1>3. Files'
  BY DEF diskVars, Files, OwnedBy, Housed
<1>4. Together'
  BY DEF diskVars, Together
<1>5. Holder'
  BY StoreAssumption DEF Files, OwnedBy, Holder, Callers
<1>6. Callers'
  BY DEF Callers
<1>7. ModeIsEnabled' /\ PreferenceIsUsable'
  BY DEF diskVars, ModeIsEnabled, PreferenceIsUsable, Usable
<1>8. QED
  BY <1>1, <1>2, <1>3, <1>4, <1>5, <1>6, <1>7 DEF IInv

LEMMA CrashKeeps ==
  ASSUME IInv, Crash
  PROVE  IInv'
<1> USE DEF IInv, Crash
<1>1. TypeOK'
  BY StoreAssumption DEF diskVars, Fault, NoOp, TypeOK, Op, Status
<1>2. IssuedFirst'
  BY DEF diskVars, IssuedFirst
<1>3. Files'
  BY DEF diskVars, Files, OwnedBy, Housed
<1>4. Together'
  BY DEF diskVars, Together
<1>5. Holder'
  BY DEF NoOp, Holder
<1>6. Callers'
  BY DEF Callers
<1>7. ModeIsEnabled' /\ PreferenceIsUsable'
  BY DEF diskVars, ModeIsEnabled, PreferenceIsUsable, Usable
<1>8. QED
  BY <1>1, <1>2, <1>3, <1>4, <1>5, <1>6, <1>7 DEF IInv

LEMMA OpenKeeps ==
  ASSUME IInv, Open
  PROVE  IInv'
<1> USE DEF IInv, Open
<1>1. TypeOK'
  BY DEF SaveMode, TypeOK
<1>2. IssuedFirst'
  BY DEF IssuedFirst
<1>3. Files'
  BY DEF Files, OwnedBy, Housed
<1>4. Together'
  BY DEF SaveMode, Together
<1>5. Holder'
  BY DEF Holder
<1>6. Callers'
  BY DEF Callers
<1>7. ModeIsEnabled' /\ PreferenceIsUsable'
  BY DEF SaveMode, Together, ModeIsEnabled, PreferenceIsUsable, Usable
<1>8. QED
  BY <1>1, <1>2, <1>3, <1>4, <1>5, <1>6, <1>7 DEF IInv

LEMMA OlderRouterKeeps ==
  ASSUME IInv, NEW a \in Account, NEW to \in Status, OlderRouter(a, to)
  PROVE  IInv'
<1> USE DEF IInv, OlderRouter
<1>1. TypeOK'
  BY DEF callVars, Save, TypeOK
<1>2. IssuedFirst'
  BY DEF Save, IssuedFirst
<1>3. Files'
  BY DEF Save, TypeOK, Files, OwnedBy, Housed
<1>4. Together'
  BY DEF Save, Together
<1>5. Holder'
  BY DEF Holder
<1>6. Callers'
  BY DEF callVars, Callers
<1>7. ModeIsEnabled' /\ PreferenceIsUsable'
  BY DEF ModeIsEnabled, PreferenceIsUsable
<1>8. QED
  BY <1>1, <1>2, <1>3, <1>4, <1>5, <1>6, <1>7 DEF IInv

LEMMA NextIInv == IInv /\ [Next]_vars => IInv'
<1> SUFFICES ASSUME IInv, [Next]_vars PROVE IInv'
  OBVIOUS
<1>1. CASE UNCHANGED vars
  BY <1>1 DEF vars, memVars, diskVars, callVars, IInv, TypeOK, IssuedFirst,
     Files, Housed, OwnedBy, Together, Holder, Callers, ModeIsEnabled,
     PreferenceIsUsable, Usable
<1>2. ASSUME NEW a \in Account,
             \/ AddHome(a) \/ ChildStarts(a) \/ ChildFails(a)
             \/ \E to \in Status : Change(a, to) \/ OlderRouter(a, to)
             \/ \E t \in Thread : SetOwner(t, a)
      PROVE  IInv'
  BY <1>2, AddHomeKeeps, ChildStartsKeeps, ChildFailsKeeps, ChangeKeeps,
     OlderRouterKeeps, SetOwnerKeeps
<1>3. ASSUME NEW m \in Account \cup {AutoMode}, SetMode(m) PROVE IInv'
  BY <1>3, SetModeKeeps
<1>4. CASE Crash \/ Open
  BY <1>4, CrashKeeps, OpenKeeps
<1>5. CASE EnableFails \/ Publish
  BY <1>5, EnableFailsKeeps, PublishKeeps
<1>6. QED
  BY <1>1, <1>2, <1>3, <1>4, <1>5, AddCommitKeeps, AddFailsKeeps,
     WriteModeKeeps, WriteUpdateKeeps, WriteRemovalKeeps, WriteFailsKeeps,
     QuarantineKeeps, QuarantineFailsKeeps, RollbackKeeps, RollbackFailsKeeps
     DEF Next

THEOREM StoreInvariant == Spec => []IInv
  BY InitIInv, NextIInv, PTL DEF Spec

\* Whatever fails, and wherever the process is killed, the files agree as
\* validatePersistedState demands (validation.go:148-236).
THEOREM FilesStayValid == Spec => []FilesAreValid
<1>1. IInv => FilesAreValid
  BY StoreAssumption DEF IInv, TypeOK, Files, Housed, OwnedBy, FilesAreValid,
     Consistent, Listed, Status
<1>2. QED
  BY <1>1, StoreInvariant, PTL

\* The mode of a running router names an enabled account (store.go:283,
\* routing_mode.go:139-149).
THEOREM ModeStaysEnabled == Spec => []ModeIsEnabled
<1>1. IInv => ModeIsEnabled
  BY DEF IInv
<1>2. QED
  BY <1>1, StoreInvariant, PTL

\* No crash between the two files leaves a dangling preference
\* (store.go:381-387).
THEOREM NoDanglingPreference == Spec => []PreferenceIsUsable
<1>1. IInv => PreferenceIsUsable
  BY DEF IInv
<1>2. QED
  BY <1>1, StoreInvariant, PTL

\* Between operations a restart would read what memory says (store.go:402-406,
\* 422-429).
THEOREM MemoryAgrees == Spec => []MemoryIsOnDisk
<1>1. IInv => MemoryIsOnDisk
  BY DEF IInv, Together, MemoryIsOnDisk
<1>2. QED
  BY <1>1, StoreInvariant, PTL

\* A thread keeps its owner over crashes, failures and undone removals
\* (store.go:397-406, 422-429).
THEOREM OwnersStay == Spec => []OwnersAreKept
<1>1. IInv => OwnersAreKept
  BY DEF IInv, Files, OwnedBy, OwnersAreKept
<1>2. QED
  BY <1>1, StoreInvariant, PTL
=============================================================================
