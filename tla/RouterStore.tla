----------------------------- MODULE RouterStore -----------------------------
(***************************************************************************)
(* What the router keeps on disk (internal/state/store.go,                 *)
(* routing_mode.go) and the administration calls that change it            *)
(* (internal/mux/accounts.go, routing_mode.go, spending.go).               *)
(*                                                                         *)
(* Two files are replaced one after the other, each atomically: state.json *)
(* (accounts and thread owners) and routing-mode.json (who pays); every    *)
(* secondary account also has a directory.  The process may be killed      *)
(* between any two file operations, and any file operation may fail.       *)
(*                                                                         *)
(* Store.mu is held for a whole operation: pc is where its holder is, and  *)
(* what the operation changes in memory is changed when it is saved,       *)
(* before which no reader sees it.                                         *)
(***************************************************************************)
EXTENDS Naturals, FiniteSets

CONSTANTS
  Account,
  Primary,    \* the controller, which is never disabled or removed
  Thread,
  Spending,   \* requestSpending
  MaxAccounts, \* validation.go:16, what Open accepts
  MaxFaults,  \* bound on the failures and crashes explored
  AutoMode,       \* the routing mode that names nobody
  None

ASSUME StoreAssumption ==
  /\ Primary \in Account /\ AutoMode \notin Account
  /\ None \notin Account \cup {AutoMode}
  /\ Spending \in BOOLEAN /\ MaxFaults \in Nat /\ MaxAccounts \in Nat

Status == {"absent", "enabled", "disabled"}

VARIABLES
  accounts, owners, mode,      \* the Store in memory
  dAccounts, dOwners, dMode,   \* state.json and routing-mode.json
  homes,     \* secondary accounts whose directory is in its place
  issued,    \* identities handed out; randomID does not repeat one
  pc,        \* where the holder of Store.mu is
  op,        \* what it is doing
  admin,     \* spendingMutationMu: free, held, or about to publish the mode
  starting,  \* accounts AddAccount has stored and is starting
  undo,      \* the account UpdateAccount enabled, whose child may not start
  policy,    \* the mode of the spend policy
  torn,      \* a removal was undone in memory and not on disk
  older,     \* an older router wrote state.json last
  learned,   \* history: the account SetThreadOwners last gave each thread
  faults     \* failures and crashes so far, bounded by MaxFaults

memVars  == <<accounts, owners, mode>>
diskVars == <<dAccounts, dOwners, dMode, homes>>
callVars == <<admin, starting, undo, policy>>
vars == <<memVars, diskVars, issued, learned, pc, op, callVars, torn, older,
          faults>>

\* prev and owned are what a failed removal puts back.
Op == [acc : Account, to : Status, prev : Status, owned : SUBSET Thread,
       admin : BOOLEAN]

NoOp == [acc |-> Primary, to |-> "enabled", prev |-> "enabled", owned |-> {},
         admin |-> FALSE]

\* The state is well formed; spendingMutationMu is held by the operation that
\* was begun under it, and Store.mu by an operation that is not over.
TypeOK ==
  /\ accounts \in [Account -> Status] /\ dAccounts \in [Account -> Status]
  /\ owners \in [Thread -> Account \cup {None}]
  /\ dOwners \in [Thread -> Account \cup {None}]
  /\ mode \in Account \cup {AutoMode} /\ dMode \in Account \cup {AutoMode}
  /\ policy \in Account \cup {AutoMode}
  /\ homes \subseteq Account /\ issued \subseteq Account
  /\ starting \subseteq Account
  /\ pc \in {"down", "idle", "adding", "mode", "state", "quarantine", "rollback"}
  /\ op \in Op
  /\ admin \in {"free", "held", "publish"}
  /\ undo \in Account \cup {None}
  /\ learned \in [Thread -> Account \cup {None}]
  /\ torn \in BOOLEAN /\ older \in BOOLEAN
  /\ faults \in 0..MaxFaults
  /\ admin = "held" <=> op.admin
  /\ pc \in {"down", "idle"} => op = NoOp

\* The first start: Open has written state.json with the primary account.
Init ==
  /\ accounts = [a \in Account |-> IF a = Primary THEN "enabled" ELSE "absent"]
  /\ owners = [t \in Thread |-> None]
  /\ mode = AutoMode
  /\ dAccounts = accounts /\ dOwners = owners /\ dMode = mode
  /\ homes = {} /\ issued = {Primary}
  /\ pc = "idle" /\ op = NoOp
  /\ admin = "free" /\ starting = {} /\ undo = None /\ policy = AutoMode
  /\ learned = owners /\ torn = FALSE /\ older = FALSE /\ faults = 0

Fault == faults < MaxFaults /\ faults' = faults + 1

-----------------------------------------------------------------------------
(* The files                                                               *)

\* saveLocked: state.json becomes what memory becomes, all of it.
Save(newAccounts, newOwners) ==
  /\ accounts' = newAccounts /\ dAccounts' = newAccounts
  /\ owners' = newOwners /\ dOwners' = newOwners
  /\ torn' = FALSE

\* saveRoutingModeLocked.
SaveMode(m) == mode' = m /\ dMode' = m

\* Disowned: thread owners without those of the account that is removed.
Disowned == [t \in Thread |-> IF owners[t] = op.acc THEN None ELSE owners[t]]

\* What a removal puts back.
Restored == [accounts EXCEPT ![op.acc] = op.prev]

Reowned == [t \in Thread |-> IF t \in op.owned THEN op.acc ELSE owners[t]]

\* The operation is over; a call under spendingMutationMu publishes the mode.
Done ==
  /\ pc' = "idle" /\ op' = NoOp
  /\ admin' = IF op.admin THEN "publish" ELSE admin

-----------------------------------------------------------------------------
(* Store operations                                                        *)

\* AddAccount makes the directory of a new identity, then commits.
AddHome(a) ==
  /\ pc = "idle" /\ a \notin issued
  /\ pc' = "adding" /\ op' = [NoOp EXCEPT !.acc = a]
  /\ homes' = homes \cup {a} /\ issued' = issued \cup {a}
  /\ UNCHANGED <<memVars, dAccounts, dOwners, dMode, learned, callVars, torn,
                 older, faults>>

AddCommit ==
  /\ pc = "adding" /\ Done
  /\ Save([accounts EXCEPT ![op.acc] = "enabled"], owners)
  /\ starting' = starting \cup {op.acc}
  /\ UNCHANGED <<mode, dMode, homes, issued, learned, undo, policy, older, faults>>

AddFails ==
  /\ pc = "adding" /\ Done /\ Fault
  /\ homes' = homes \ {op.acc}
  /\ UNCHANGED <<memVars, dAccounts, dOwners, dMode, issued, learned, starting,
                 undo, policy, torn, older>>

\* An operation on an account takes Store.mu.
Begins(a, to, byAdmin, at) ==
  /\ pc = "idle" /\ pc' = at
  /\ op' = [acc |-> a, to |-> to, prev |-> accounts[a], admin |-> byAdmin,
            owned |-> {t \in Thread : owners[t] = a}]
  /\ UNCHANGED <<memVars, diskVars, issued, learned, policy, torn, older, faults>>

\* Fault: the mode is left for the next start to repair.
BeginForgetful(a, to, byAdmin) == Begins(a, to, byAdmin, "state")

\* The mode is saved first when it names an account that is to be disabled or
\* removed.
Begin(a, to, byAdmin) ==
  Begins(a, to, byAdmin,
         IF to # "enabled" /\ mode = a THEN "mode" ELSE "state")

WriteMode ==
  /\ pc = "mode" /\ pc' = "state"
  /\ SaveMode(AutoMode)
  /\ UNCHANGED <<accounts, owners, dAccounts, dOwners, homes, issued, learned,
                 op, callVars, torn, older, faults>>

\* UpdateAccount commits; a call that enabled an account now starts its child.
WriteUpdate ==
  /\ pc = "state" /\ op.to # "absent" /\ Done
  /\ Save([accounts EXCEPT ![op.acc] = op.to], owners)
  /\ undo' = IF op.admin /\ op.to = "enabled" /\ op.prev = "disabled"
             THEN op.acc ELSE undo
  /\ UNCHANGED <<mode, dMode, homes, issued, learned, starting, policy, older,
                 faults>>

\* Fault: the owners of a removed account's threads are kept.
WriteRemovalOnly ==
  /\ pc = "state" /\ op.to = "absent" /\ pc' = "quarantine"
  /\ Save([accounts EXCEPT ![op.acc] = "absent"], owners)
  /\ UNCHANGED <<mode, dMode, homes, issued, learned, op, callVars, older, faults>>

\* RemoveAccount commits; the directory is still in its place.
WriteRemoval ==
  /\ pc = "state" /\ op.to = "absent" /\ pc' = "quarantine"
  /\ Save([accounts EXCEPT ![op.acc] = "absent"], Disowned)
  /\ UNCHANGED <<mode, dMode, homes, issued, learned, op, callVars, older, faults>>

\* Fault: what could not be saved stays in memory.
WriteFailsDirty ==
  /\ pc \in {"mode", "state"} /\ Done /\ Fault
  /\ accounts' = [accounts EXCEPT ![op.acc] = op.to]
  /\ UNCHANGED <<owners, mode, diskVars, issued, learned, starting, undo,
                 policy, torn, older>>

\* A file cannot be replaced: nothing more is done.
WriteFails ==
  /\ pc \in {"mode", "state"} /\ Done /\ Fault
  /\ UNCHANGED <<memVars, diskVars, issued, learned, starting, undo, policy,
                 torn, older>>

\* The directory is renamed; deleting it afterwards may fail.
Quarantine ==
  /\ pc = "quarantine" /\ Done
  /\ homes' = homes \ {op.acc}
  /\ UNCHANGED <<memVars, dAccounts, dOwners, dMode, issued, learned, starting,
                 undo, policy, torn, older, faults>>

QuarantineFails ==
  /\ pc = "quarantine" /\ pc' = "rollback" /\ Fault
  /\ UNCHANGED <<memVars, diskVars, issued, learned, op, callVars, torn, older>>

\* Fault: the account comes back without its threads.
RollbackAccountOnly ==
  /\ pc = "rollback" /\ Done
  /\ Save(Restored, owners)
  /\ UNCHANGED <<mode, dMode, homes, issued, learned, starting, undo, policy,
                 older, faults>>

\* rollbackRemovalLocked.
Rollback ==
  /\ pc = "rollback" /\ Done
  /\ Save(Restored, Reowned)
  /\ UNCHANGED <<mode, dMode, homes, issued, learned, starting, undo, policy,
                 older, faults>>

RollbackFails ==
  /\ pc = "rollback" /\ Done /\ Fault
  /\ accounts' = Restored /\ owners' = Reowned
  /\ torn' = TRUE
  /\ UNCHANGED <<mode, diskVars, issued, learned, starting, undo, policy, older>>

\* SetThreadOwners.
SetOwner(t, a) ==
  /\ pc = "idle" /\ accounts[a] # "absent" /\ owners[t] # a
  /\ Save(accounts, [owners EXCEPT ![t] = a])
  /\ learned' = [learned EXCEPT ![t] = a]
  /\ UNCHANGED <<mode, dMode, homes, issued, pc, op, callVars, older, faults>>

-----------------------------------------------------------------------------
(* Administration calls                                                    *)

\* UpdateAccount and DeleteAccount, under spendingMutationMu.  Renaming leaves
\* the status as it is; a DeleteAccount whose child does not stop disables.
Change(a, to) ==
  /\ admin = "free" /\ admin' = "held"
  /\ accounts[a] # "absent" /\ (to # "enabled" => a # Primary)
  /\ (Spending /\ to # "enabled") => mode # a
  /\ Begin(a, to, TRUE)
  /\ UNCHANGED <<starting, undo>>

\* The child of an account UpdateAccount enabled does not start.
EnableFails ==
  /\ admin = "publish" /\ admin' = "held"
  /\ undo # None /\ undo' = None
  /\ Begin(undo, "disabled", TRUE)
  /\ UNCHANGED starting

\* SetRoutingMode.
SetMode(m) ==
  /\ pc = "idle" /\ admin = "free"
  /\ m # AutoMode => accounts[m] = "enabled"
  /\ SaveMode(m)
  /\ admin' = "publish"
  /\ UNCHANGED <<accounts, owners, dAccounts, dOwners, homes, issued, learned,
                 pc, op, starting, undo, policy, torn, older, faults>>

\* publishRoutingModeChange, the last thing under spendingMutationMu.
Publish ==
  /\ pc = "idle" /\ admin = "publish" /\ admin' = "free"
  /\ undo' = None
  /\ policy' = mode
  /\ UNCHANGED <<memVars, diskVars, issued, learned, pc, op, starting, torn,
                 older, faults>>

\* AddAccount's child starts, or does not and the account is gone.
ChildStarts(a) ==
  /\ pc # "down" /\ a \in starting /\ starting' = starting \ {a}
  /\ UNCHANGED <<memVars, diskVars, issued, learned, pc, op, admin, undo,
                 policy, torn, older, faults>>

\* It does not start and AddAccount disables the account, without
\* spendingMutationMu.
ChildFails(a) ==
  /\ a \in starting /\ starting' = starting \ {a}
  /\ accounts[a] # "absent"
  /\ Begin(a, "disabled", FALSE)
  /\ UNCHANGED <<admin, undo>>

-----------------------------------------------------------------------------
(* The process                                                             *)

\* The process ends at any moment; the files are as they are.
Crash ==
  /\ pc # "down" /\ pc' = "down" /\ Fault
  /\ accounts' = dAccounts /\ owners' = dOwners /\ mode' = AutoMode
  /\ op' = NoOp /\ admin' = "free" /\ starting' = {} /\ undo' = None
  /\ policy' = AutoMode
  /\ UNCHANGED <<diskVars, issued, learned, torn, older>>

Listed == {a \in Account : dAccounts[a] # "absent"}

\* validatePersistedState: what Open demands of the files.
Consistent ==
  /\ dAccounts[Primary] = "enabled"
  /\ Listed \ {Primary} \subseteq homes
  /\ \A t \in Thread : dOwners[t] \in Listed \cup {None}

Valid == Consistent /\ Cardinality(Listed) <= MaxAccounts

Usable(m) == m = AutoMode \/ dAccounts[m] = "enabled"

\* Fault: the mode is repaired in memory only.
OpenWithoutRepair ==
  /\ pc = "down" /\ Valid /\ pc' = "idle"
  /\ mode' = IF Usable(dMode) THEN dMode ELSE AutoMode
  /\ policy' = IF Spending THEN mode' ELSE AutoMode
  /\ older' = FALSE /\ torn' = FALSE
  /\ UNCHANGED <<accounts, owners, diskVars, issued, learned, op, admin,
                 starting, undo, faults>>

\* Open, where memory has been what the files say since the process ended; a
\* mode that names no enabled account is repaired on disk.
Open ==
  /\ pc = "down" /\ Valid /\ pc' = "idle"
  /\ SaveMode(IF Usable(dMode) THEN dMode ELSE AutoMode)
  /\ policy' = IF Spending THEN mode' ELSE AutoMode
  /\ older' = FALSE /\ torn' = FALSE
  /\ UNCHANGED <<accounts, owners, dAccounts, dOwners, homes, issued, learned,
                 op, admin, starting, undo, faults>>

\* An older router, which knows state.json only, runs in between and disables
\* or removes an account.
OlderRouter(a, to) ==
  /\ pc = "down" /\ ~older /\ older' = TRUE
  /\ a # Primary /\ dAccounts[a] # "absent" /\ to \in {"disabled", "absent"}
  /\ Save([dAccounts EXCEPT ![a] = to],
          IF to = "absent"
          THEN [t \in Thread |-> IF dOwners[t] = a THEN None ELSE dOwners[t]]
          ELSE dOwners)
  /\ homes' = IF to = "absent" THEN homes \ {a} ELSE homes
  /\ UNCHANGED <<mode, dMode, issued, learned, pc, op, callVars, faults>>

-----------------------------------------------------------------------------

Next ==
  \/ AddCommit \/ AddFails \/ WriteMode \/ WriteUpdate \/ WriteRemoval \/ WriteFails
  \/ Quarantine \/ QuarantineFails \/ Rollback \/ RollbackFails
  \/ EnableFails \/ Publish \/ Crash \/ Open
  \/ \E a \in Account :
       \/ AddHome(a) \/ ChildStarts(a) \/ ChildFails(a)
       \/ \E to \in Status : Change(a, to) \/ OlderRouter(a, to)
       \/ \E t \in Thread : SetOwner(t, a)
  \/ \E m \in Account \cup {AutoMode} : SetMode(m)

Spec == Init /\ [][Next]_vars

-----------------------------------------------------------------------------
(* Properties                                                              *)

\* Wherever the process was killed and whichever file or directory could not be
\* replaced, the files agree as validatePersistedState demands: Primary is there,
\* owners name accounts and accounts have their directories.  The flush that may
\* fail on Unix after a file was replaced (securefs/atomic.go:48-50) is not
\* among the failures.
FilesAreValid == Consistent

\* While the router runs the mode it has saved, which the selector shows and the
\* next start follows, names an enabled account, also after failures and after
\* an older router disabled that account (loadRoutingMode).  What the gateway
\* follows is another variable: SelectorIsFollowed.
ModeIsEnabled ==
  pc # "down" /\ mode # AutoMode => accounts[mode] = "enabled"

\* The saved mode never names an account state.json does not enable, at any
\* moment between the two files ("a crash between the two files cannot leave
\* a dangling preference", store.go:381).  Excepted are a removal undone in
\* memory only and an older router; Open repairs both.
PreferenceIsUsable == Usable(dMode) \/ torn \/ older

\* Between operations memory is what a restart would read, unless undoing a
\* removal failed.
MemoryIsOnDisk ==
  pc \in {"idle", "mode", "state"} /\ ~torn =>
    accounts = dAccounts /\ owners = dOwners /\ mode = dMode

\* No crash, failure or undone removal costs a thread its owner: as long as an
\* account is listed, in memory or on disk, the threads it was last given are
\* its own there too (README.md, "persistent account owner").
OwnersAreKept ==
  \A t \in Thread : learned[t] # None =>
    /\ dAccounts[learned[t]] # "absent" => dOwners[t] = learned[t]
    /\ accounts[learned[t]] # "absent" => owners[t] = learned[t]

\* When no call is under way, the policy that every inference follows has the
\* saved mode, which the selector shows (docs/spec/SPECIFICATION.md:94-95).
SelectorIsFollowed ==
  Spending /\ pc = "idle" /\ admin = "free" => policy = mode
=============================================================================
