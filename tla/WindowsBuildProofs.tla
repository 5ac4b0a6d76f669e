------------------------- MODULE WindowsBuildProofs --------------------------
(***************************************************************************)
(* No run of the Windows patcher overwrites or loses an application, for   *)
(* any number of runs that interleave, fail and die at any step.  What     *)
(* only holds of a run that meets no other follows from the same record.   *)
(* What a run publishes is whole, of any release and from any source.      *)
(***************************************************************************)
EXTENDS WindowsBuild, TLAPS

\* Where an application may be, an application or nothing is.
PlacesInv ==
  /\ dest \in Builds \cup {NoApp}
  /\ backups \in [Run -> Builds \cup {NoApp}]
  /\ aside \in [Run -> Builds \cup {NoApp}]

\* What the place of a run says about what it moved, and about its token.
ProgressInv ==
  /\ pc \in [Run -> Places]
  /\ token \in Tokens \cup {NoToken, Partial}
  /\ root \in BOOLEAN
  /\ run \in [Run -> RunRecords]
  /\ \A r \in Run :
       /\ Active(r) => run[r].token \in Tokens
       /\ pc[r] \in {"idle", "begun", "staged", "writing", "moving"} =>
            backups[r] = NoApp /\ ~run[r].moved
       /\ pc[r] \in {"idle", "begun", "staged", "writing", "moving",
                     "publishing", "rollback"} => aside[r] = NoApp
       /\ pc[r] \in {"publishing", "rollback", "restoring"} /\ run[r].moved =>
            backups[r] # NoApp

\* Where a run is that may have published.
Past == {"cleanup"} \cup Over

\* The build of a run exists only when the run is past its publication ...
MadeInv ==
  \A b \in Elsewhere \cup {dest} :
    b # NoApp /\ b.by # Old => b.by \in Run /\ pc[b.by] \in Past

\* ... and is in one place.
OneplaceInv ==
  /\ \A r \in Run : dest # NoApp => backups[r] # dest /\ aside[r] # dest
  /\ \A r, q \in Run :
       /\ backups[r] # NoApp => aside[q] # backups[r]
       /\ backups[r] # NoApp /\ backups[q] = backups[r] => q = r
       /\ aside[r] # NoApp /\ aside[q] = aside[r] => q = r

WInv == PlacesInv /\ ProgressInv /\ MadeInv /\ OneplaceInv

-----------------------------------------------------------------------------
(* The invariant                                                           *)

LEMMA InitWInv == Init => WInv
<1> SUFFICES ASSUME Init PROVE WInv
  OBVIOUS
<1>1. OldBuild \in Builds /\ OldBuild.by = Old
  BY DEF OldBuild, Build, Builds, Maker, Tokens
<1>2. PlacesInv
  BY <1>1 DEF Init, PlacesInv
<1>3. NotRun \in RunRecords /\ ~NotRun.moved
  BY DEF NotRun, RunRecords, Raised
<1>4. ProgressInv
  BY <1>3 DEF Init, ProgressInv, Places, Tokens, Active, Raised
<1>5. MadeInv
  BY <1>1 DEF Init, MadeInv, Elsewhere
<1>6. OneplaceInv
  BY DEF Init, OneplaceInv
<1>7. QED
  BY <1>2, <1>4, <1>5, <1>6 DEF WInv

\* A step that leaves the applications where they are, and takes no run back
\* from where it may have published.
LEMMA StayKeepsPlaces ==
  ASSUME WInv, UNCHANGED pubVars,
         \A r \in Run : pc[r] \in Past => pc'[r] \in Past
  PROVE  PlacesInv' /\ MadeInv' /\ OneplaceInv'
<1>1. PlacesInv' /\ OneplaceInv'
  BY DEF WInv, PlacesInv, OneplaceInv, pubVars
<1>2. MadeInv'
  BY DEF WInv, MadeInv, Elsewhere, pubVars
<1>3. QED
  BY <1>1, <1>2

\* End keeps the record of a run a record.
LEMMA EndedRecord ==
  ASSUME NEW r \in Run, run \in [Run -> RunRecords]
  PROVE  [NotRun EXCEPT !.alone = run[r].alone] \in RunRecords
  BY DEF NotRun, RunRecords, Raised

\* What a run notes keeps its record a record, with its token.
LEMMA NotedRecord ==
  ASSUME NEW x \in RunRecords, NEW b \in BOOLEAN
  PROVE  /\ [x EXCEPT !.persisted = b] \in RunRecords
         /\ [x EXCEPT !.persisted = b].token = x.token
         /\ [x EXCEPT !.persisted = b].moved = x.moved
         /\ \A e \in Raised : /\ [x EXCEPT !.ends = e] \in RunRecords
                              /\ [x EXCEPT !.ends = e].token = x.token
                              /\ [x EXCEPT !.ends = e].moved = x.moved
         /\ [x EXCEPT !.moved = b] \in RunRecords
         /\ [x EXCEPT !.moved = b].token = x.token
         /\ [x EXCEPT !.moved = b].moved = b
  BY DEF RunRecords, Raised

LEMMA PlannedRecord ==
  ASSUME NEW x \in RunRecords, NEW b \in BOOLEAN, NEW c \in BOOLEAN
  PROVE  /\ [x EXCEPT !.rootPre = b, !.planned = c] \in RunRecords
         /\ [x EXCEPT !.rootPre = b, !.planned = c].token = x.token
         /\ [x EXCEPT !.rootPre = b, !.planned = c].moved = x.moved
  BY DEF RunRecords, Raised

LEMMA BeginKeeps ==
  ASSUME WInv, NEW r \in Run, NEW force \in BOOLEAN, NEW dry \in BOOLEAN,
         NEW allow \in BOOLEAN, Begin(r, force, dry, allow)
  PROVE  WInv'
<1> DEFINE others == {q \in Run : Active(q)}
           mine == [NotRun EXCEPT !.force = force, !.dry = dry, !.allow = allow,
                              !.token = PreparedToken(r), !.fresh = (token = NoToken),
                              !.alone = (others = {}),
                              !.before = [dest |-> dest, token |-> token]]
<1>1. /\ pc[r] = "idle" /\ pc' = [pc EXCEPT ![r] = "begun"]
      /\ UNCHANGED pubVars /\ token' = token /\ token # Partial
      /\ run' = [q \in Run |-> IF q = r THEN mine
                    ELSE IF q \in others THEN [run[q] EXCEPT !.alone = FALSE] ELSE run[q]]
  BY DEF Begin, GoTo, stateVars, TokenIsUsable
<1>2. /\ run \in [Run -> RunRecords] /\ pc \in [Run -> Places]
      /\ token \in Tokens \cup {NoToken, Partial}
      /\ dest \in Builds \cup {NoApp}
  BY DEF WInv, ProgressInv, PlacesInv
<1>3. PlacesInv' /\ MadeInv' /\ OneplaceInv'
  BY <1>1, <1>2, StayKeepsPlaces DEF Past, Over, Raised
<1>4. PreparedToken(r) \in Tokens
  BY <1>1, <1>2 DEF PreparedToken, Tokens
<1>5. mine \in RunRecords /\ mine.token \in Tokens /\ mine.moved = FALSE
  BY <1>2, <1>4 DEF NotRun, RunRecords, Raised
<1>6. ASSUME NEW q \in Run, q # r
      PROVE  /\ run'[q] \in RunRecords
             /\ run'[q].token = run[q].token /\ run'[q].moved = run[q].moved
             /\ pc'[q] = pc[q]
  BY <1>1, <1>2, <1>6 DEF RunRecords, Raised
<1>7. ProgressInv'
  <2>1. run' \in [Run -> RunRecords]
    BY <1>1, <1>5, <1>6
  <2>2. pc' \in [Run -> Places] /\ token' \in Tokens \cup {NoToken, Partial}
    BY <1>1, <1>2 DEF Places, Raised
  <2>6. root' \in BOOLEAN
    BY DEF Begin, stateVars, WInv, ProgressInv
  <2>3. backups' = backups /\ aside' = aside
    BY <1>1 DEF pubVars
  <2>4. run'[r].token \in Tokens /\ run'[r].moved = FALSE /\ pc'[r] = "begun"
    BY <1>1, <1>2, <1>5
  <2>5. QED
    BY <1>1, <1>6, <2>1, <2>2, <2>3, <2>4, <2>6 DEF WInv, ProgressInv, Active
<1>8. QED
  BY <1>3, <1>7 DEF WInv

\* The steps of a run that move no application.
LEMMA QuietKeeps ==
  ASSUME WInv, NEW r \in Run,
         \/ Stage(r) \/ StageFails(r) \/ CreateToken(r) \/ KeepToken(r)
         \/ WriteToken(r) \/ WriteTokenFails(r) \/ InstallFails(r)
         \/ PublishFails(r) \/ RollbackFails(r) \/ Interrupt(r)
         \/ Cleanup(r) \/ CleanupFails(r) \/ Crash(r)
  PROVE  WInv'
<1>0. /\ run \in [Run -> RunRecords] /\ pc \in [Run -> Places]
      /\ token \in Tokens \cup {NoToken, Partial}
      /\ root \in BOOLEAN
  BY DEF WInv, ProgressInv
<1>r. run[r].ends \in Raised
  BY <1>0 DEF RunRecords, Raised
<1>1. UNCHANGED pubVars
  BY DEF Stage, StageFails, CreateToken, KeepToken, WriteToken, WriteTokenFails,
     InstallFails, PublishFails, RollbackFails, Interrupt, Cleanup, CleanupFails, Crash
<1>2. PICK p \in Places : pc' = [pc EXCEPT ![r] = p] /\ (pc[r] \in Past => p \in Past)
  BY <1>r DEF Stage, StageFails, CreateToken, KeepToken, WriteToken, WriteTokenFails,
     InstallFails, PublishFails, RollbackFails, Interrupt, Cleanup, CleanupFails, Crash,
     GoTo, End, Places, Over, Raised, Past, Active
<1>3. PlacesInv' /\ MadeInv' /\ OneplaceInv'
  BY <1>0, <1>1, <1>2, StayKeepsPlaces
<1>4. token' \in Tokens \cup {NoToken, Partial}
  <2>1. CASE WriteToken(r) \/ Interrupt(r)
    BY <1>0, <2>1 DEF WriteToken, Interrupt, WInv, ProgressInv, Active, Over, Raised
  <2>2. CASE ~WriteToken(r) /\ ~Interrupt(r)
    BY <1>0, <2>2 DEF Stage, StageFails, CreateToken, KeepToken, WriteTokenFails,
       InstallFails, PublishFails, RollbackFails, Cleanup, CleanupFails, Crash,
       stateVars
  <2>3. QED
    BY <2>1, <2>2
<1>5. root' \in BOOLEAN
  <2>1. run[r].rootPre \in BOOLEAN
    BY <1>0 DEF RunRecords, Raised
  <2>2. QED
    BY <1>0, <2>1 DEF Stage, StageFails, CreateToken, KeepToken, WriteToken,
       WriteTokenFails, InstallFails, PublishFails, RollbackFails, Interrupt, Cleanup,
       CleanupFails, Crash, stateVars
<1>6. /\ run' \in [Run -> RunRecords]
      /\ \A q \in Run : q # r => run'[q] = run[q]
      /\ pc'[r] \notin Over =>
           run'[r].token = run[r].token /\ run'[r].moved = run[r].moved
  <2>2. CASE Stage(r) /\ ~run[r].dry
    <3> DEFINE x == [run[r] EXCEPT !.rootPre = root, !.planned = PlansBackup]
    <3>1. run' = [run EXCEPT ![r] = x]
      BY <2>2 DEF Stage
    <3>2. PlansBackup \in BOOLEAN
      BY DEF PlansBackup
    <3>3. x \in RunRecords /\ x.token = run[r].token /\ x.moved = run[r].moved
      BY <1>0, <3>2, PlannedRecord
    <3> HIDE DEF x
    <3>4. QED
      BY <1>0, <3>1, <3>3
  <2>3. CASE WriteToken(r)
    <3> DEFINE x == [run[r] EXCEPT !.persisted = TRUE]
    <3>1. run' = [run EXCEPT ![r] = x]
      BY <2>3 DEF WriteToken
    <3>2. x \in RunRecords /\ x.token = run[r].token /\ x.moved = run[r].moved
      BY <1>0, NotedRecord
    <3> HIDE DEF x
    <3>3. QED
      BY <1>0, <3>1, <3>2
  <2>4. CASE RollbackFails(r) \/ Interrupt(r)
    <3>1. PICK e \in Raised : run' = [run EXCEPT ![r] = [run[r] EXCEPT !.ends = e]]
      BY <2>4 DEF RollbackFails, Interrupt, Raised
    <3> DEFINE x == [run[r] EXCEPT !.ends = e]
    <3>2. x \in RunRecords /\ x.token = run[r].token /\ x.moved = run[r].moved
      BY <1>0, NotedRecord
    <3>3. run' = [run EXCEPT ![r] = x]
      BY <3>1
    <3> HIDE DEF x
    <3>4. QED
      BY <1>0, <3>2, <3>3
  <2>5. CASE CreateToken(r) \/ KeepToken(r) \/ WriteTokenFails(r) \/ InstallFails(r)
             \/ PublishFails(r)
    BY <1>0, <2>5 DEF CreateToken, KeepToken, WriteTokenFails, InstallFails, PublishFails
  <2>6. CASE \/ Stage(r) /\ run[r].dry
             \/ StageFails(r) \/ Cleanup(r) \/ CleanupFails(r) \/ Crash(r)
    <3>1. \E e \in Over : End(r, e)
      BY <1>r, <2>6 DEF Stage, StageFails, Cleanup, CleanupFails, Crash, Over, Raised
    <3>2. run' = [run EXCEPT ![r] = [NotRun EXCEPT !.alone = run[r].alone]]
      BY <3>1 DEF End
    <3>3. pc'[r] \in Over
      BY <1>0, <3>1 DEF End, GoTo
    <3>4. QED
      BY <1>0, <3>2, <3>3, EndedRecord
  <2>7. QED
    BY <2>2, <2>3, <2>4, <2>5, <2>6
<1>7. /\ Active(r)
      /\ pc'[r] \in {"begun", "staged", "writing", "moving"} =>
           pc[r] \in {"begun", "staged", "writing", "moving"}
      /\ pc'[r] # "publishing" /\ pc'[r] # "idle" /\ pc'[r] # "restoring"
      /\ pc'[r] = "rollback" => pc[r] = "publishing"
  BY <1>0, <1>r DEF Stage, StageFails, CreateToken, KeepToken, WriteToken, WriteTokenFails,
     InstallFails, PublishFails, RollbackFails, Interrupt, Cleanup, CleanupFails, Crash, GoTo,
     End, Active, Over, Raised
<1>8. ASSUME NEW q \in Run
      PROVE  (/\ Active(q) => run[q].token \in Tokens
              /\ pc[q] \in {"idle", "begun", "staged", "writing", "moving"} =>
                   backups[q] = NoApp /\ ~run[q].moved
              /\ pc[q] \in {"idle", "begun", "staged", "writing", "moving",
                            "publishing", "rollback"} => aside[q] = NoApp
              /\ pc[q] \in {"publishing", "rollback", "restoring"} /\ run[q].moved =>
                   backups[q] # NoApp)'
  <2>1. backups' = backups /\ aside' = aside
    BY <1>1 DEF pubVars
  <2>2. CASE q # r
    <3>1. pc'[q] = pc[q] /\ run'[q] = run[q]
      BY <1>0, <1>2, <1>6, <2>2
    <3>2. QED
      BY <2>1, <3>1 DEF WInv, ProgressInv, Active
  <2>3. CASE q = r
    BY <1>6, <1>7, <2>1, <2>3 DEF WInv, ProgressInv, Active, Over, Raised
  <2>4. QED
    BY <2>2, <2>3
<1>9. ProgressInv'
  BY <1>0, <1>2, <1>4, <1>5, <1>6, <1>8 DEF ProgressInv
<1>10. QED
  BY <1>3, <1>9 DEF WInv

-----------------------------------------------------------------------------
(* The steps that move an application                                      *)

LEMMA NewBuild ==
  ASSUME WInv, NEW r \in Run, Active(r)
  PROVE  LET b == Build(r, run[r].token, run[r].planned, run[r].allow)
         IN b \in Builds /\ b.by = r /\ b # NoApp
<1>1. /\ run[r].token \in Tokens
      /\ run[r].planned \in BOOLEAN /\ run[r].allow \in BOOLEAN
  BY DEF WInv, ProgressInv, RunRecords, Raised
<1>2. QED
  BY <1>1, AppAssumption DEF Build, Builds, Maker

\* Only MoveOld and RestoreOld give a run a backup or take one.
LEMMA MoveKeeps ==
  ASSUME WInv, NEW r \in Run, MoveOld(r)
  PROVE  WInv' /\ (Promise!Withdraw \/ UNCHANGED pubVars)
<1>0. /\ run \in [Run -> RunRecords] /\ pc \in [Run -> Places]
      /\ backups \in [Run -> Builds \cup {NoApp}] /\ aside \in [Run -> Builds \cup {NoApp}]
      /\ pc[r] = "moving" /\ pc' = [pc EXCEPT ![r] = "publishing"]
      /\ token' = token /\ root' = root /\ aside' = aside
      /\ backups[r] = NoApp /\ aside[r] = NoApp
  BY DEF WInv, ProgressInv, PlacesInv, MoveOld, GoTo, stateVars, pubVars
<1>1. CASE dest = NoApp
  <2>1. UNCHANGED pubVars /\ run' = run
    BY <1>1 DEF MoveOld
  <2>2. PlacesInv' /\ MadeInv' /\ OneplaceInv'
    BY <1>0, <2>1, StayKeepsPlaces DEF Past, Over, Raised
  <2>3. ProgressInv'
    BY <1>0, <2>1 DEF WInv, ProgressInv, Active, Over, Places, pubVars, Raised
  <2>4. QED
    BY <2>1, <2>2, <2>3 DEF WInv
<1>2. CASE dest # NoApp
  <2> DEFINE x == [run[r] EXCEPT !.moved = TRUE]
  <2>1. /\ backups' = [backups EXCEPT ![r] = dest] /\ dest' = NoApp
        /\ run' = [run EXCEPT ![r] = x]
    BY <1>2 DEF MoveOld
  <2>2. x \in RunRecords /\ x.token = run[r].token
    BY <1>0, NotedRecord
  <2> HIDE DEF x
  <2>3. dest \in Builds
    BY <1>2 DEF WInv, PlacesInv
  <2>4. Elsewhere' \ {NoApp} = (Elsewhere \ {NoApp}) \cup {dest}
    BY <1>0, <1>2, <2>1 DEF Elsewhere
  <2>5. PlacesInv'
    BY <1>0, <2>1, <2>3 DEF PlacesInv
  <2>6. MadeInv'
    <3> SUFFICES ASSUME NEW b \in Elsewhere' \cup {dest'}, b # NoApp, b.by # Old
                 PROVE  b.by \in Run /\ pc'[b.by] \in Past
      BY DEF MadeInv
    <3>1. b \in Elsewhere \cup {dest}
      BY <2>1, <2>4
    <3>2. b.by \in Run /\ pc[b.by] \in Past
      BY <3>1 DEF WInv, MadeInv
    <3>3. QED
      BY <1>0, <3>2 DEF Past, Over, Raised
  <2>7. OneplaceInv'
    BY <1>0, <1>2, <2>1 DEF WInv, OneplaceInv
  <2>8. ProgressInv'
    BY <1>0, <1>2, <2>1, <2>2 DEF WInv, ProgressInv, Active, Over, Places, Raised
  <2>9. Promise!Withdraw
    BY <1>2, <2>1, <2>4 DEF Promise!Withdraw
  <2>10. QED
    BY <2>5, <2>6, <2>7, <2>8, <2>9 DEF WInv
<1>3. QED
  BY <1>1, <1>2

LEMMA PublishKeeps ==
  ASSUME WInv, NEW r \in Run, Publish(r)
  PROVE  WInv' /\ Promise!Publish
<1> DEFINE new == Build(r, run[r].token, run[r].planned, run[r].allow)
<1>0. /\ run \in [Run -> RunRecords] /\ pc \in [Run -> Places]
      /\ backups \in [Run -> Builds \cup {NoApp}] /\ aside \in [Run -> Builds \cup {NoApp}]
      /\ pc[r] = "publishing" /\ pc' = [pc EXCEPT ![r] = "done"]
      /\ run' = [run EXCEPT ![r] = [NotRun EXCEPT !.alone = run[r].alone]]
      /\ token' = token /\ root' = root /\ aside' = aside /\ backups' = backups
      /\ dest = NoApp /\ dest' = new
  BY DEF WInv, ProgressInv, PlacesInv, Publish, End, GoTo, stateVars
<1>1. new \in Builds /\ new.by = r /\ new # NoApp
  BY <1>0, NewBuild DEF Active, Over, Raised
<1> HIDE DEF new
<1>2. new \notin Elsewhere
  <2>1. \A b \in Elsewhere : b # NoApp /\ b.by # Old => pc[b.by] \in Past
    BY DEF WInv, MadeInv
  <2>2. QED
    BY <1>0, <1>1, <2>1, RunAssumption DEF Past, Over, Raised
<1>3. PlacesInv'
  BY <1>0, <1>1 DEF PlacesInv
<1>4. MadeInv'
  <2> SUFFICES ASSUME NEW b \in Elsewhere' \cup {dest'}, b # NoApp, b.by # Old
               PROVE  b.by \in Run /\ pc'[b.by] \in Past
    BY DEF MadeInv
  <2>1. CASE b = new
    BY <1>0, <1>1, <2>1 DEF Past, Over, Raised
  <2>2. CASE b # new
    <3>1. b \in Elsewhere
      BY <1>0, <2>2 DEF Elsewhere
    <3>2. b.by \in Run /\ pc[b.by] \in Past
      BY <3>1 DEF WInv, MadeInv
    <3>3. QED
      BY <1>0, <3>2 DEF Past, Over, Raised
  <2>3. QED
    BY <2>1, <2>2
<1>5. OneplaceInv'
  BY <1>0, <1>2 DEF WInv, OneplaceInv, Elsewhere
<1>6. ProgressInv'
  <2>1. run' \in [Run -> RunRecords] /\ \A q \in Run : q # r => run'[q] = run[q]
    BY <1>0, EndedRecord
  <2>2. QED
    BY <1>0, <2>1 DEF WInv, ProgressInv, Active, Over, Places, Raised
<1>7. Promise!Publish
  BY <1>0, <1>1, <1>2 DEF Promise!Publish, Elsewhere
<1>8. QED
  BY <1>3, <1>4, <1>5, <1>6, <1>7 DEF WInv

\* An interrupt just after the rename: the run goes on to its cleanup.
LEMMA InterruptKeeps ==
  ASSUME WInv, NEW r \in Run, InterruptPublished(r)
  PROVE  WInv' /\ Promise!Publish
<1> DEFINE new == Build(r, run[r].token, run[r].planned, run[r].allow)
           x == [run[r] EXCEPT !.ends = "interrupted"]
<1>0. /\ run \in [Run -> RunRecords] /\ pc \in [Run -> Places]
      /\ backups \in [Run -> Builds \cup {NoApp}] /\ aside \in [Run -> Builds \cup {NoApp}]
      /\ pc[r] = "publishing" /\ pc' = [pc EXCEPT ![r] = "cleanup"]
      /\ run' = [run EXCEPT ![r] = x]
      /\ token' = token /\ root' = root /\ aside' = aside /\ backups' = backups
      /\ dest = NoApp /\ dest' = new
  BY DEF WInv, ProgressInv, PlacesInv, InterruptPublished, GoTo, stateVars
<1>1. new \in Builds /\ new.by = r /\ new # NoApp
  BY <1>0, NewBuild DEF Active, Over, Raised
<1>r. x \in RunRecords /\ x.token = run[r].token /\ x.moved = run[r].moved
  BY <1>0, NotedRecord DEF Raised
<1> HIDE DEF new, x
<1>2. new \notin Elsewhere
  <2>1. \A b \in Elsewhere : b # NoApp /\ b.by # Old => pc[b.by] \in Past
    BY DEF WInv, MadeInv
  <2>2. QED
    BY <1>0, <1>1, <2>1, RunAssumption DEF Past, Over, Raised
<1>3. PlacesInv'
  BY <1>0, <1>1 DEF PlacesInv
<1>4. MadeInv'
  <2> SUFFICES ASSUME NEW b \in Elsewhere' \cup {dest'}, b # NoApp, b.by # Old
               PROVE  b.by \in Run /\ pc'[b.by] \in Past
    BY DEF MadeInv
  <2>1. CASE b = new
    BY <1>0, <1>1, <2>1 DEF Past
  <2>2. CASE b # new
    <3>1. b \in Elsewhere
      BY <1>0, <2>2 DEF Elsewhere
    <3>2. b.by \in Run /\ pc[b.by] \in Past
      BY <3>1 DEF WInv, MadeInv
    <3>3. QED
      BY <1>0, <3>2 DEF Past
  <2>3. QED
    BY <2>1, <2>2
<1>5. OneplaceInv'
  BY <1>0, <1>2 DEF WInv, OneplaceInv, Elsewhere
<1>6. ProgressInv'
  <2>1. run' \in [Run -> RunRecords] /\ \A q \in Run : q # r => run'[q] = run[q]
    BY <1>0, <1>r
  <2>2. run'[r] = x /\ pc'[r] = "cleanup" /\ \A q \in Run : q # r => pc'[q] = pc[q]
    BY <1>0
  <2>3. Active(r)
    BY <1>0 DEF Active, Over, Raised
  <2>4. pc' \in [Run -> Places]
    BY <1>0 DEF Places, Raised
  <2>5. QED
    BY <1>0, <1>r, <2>1, <2>2, <2>3, <2>4 DEF WInv, ProgressInv, Active
<1>7. Promise!Publish
  BY <1>0, <1>1, <1>2 DEF Promise!Publish, Elsewhere
<1>8. QED
  BY <1>3, <1>4, <1>5, <1>6, <1>7 DEF WInv

LEMMA SetAsideKeeps ==
  ASSUME WInv, NEW r \in Run, SetAside(r)
  PROVE  WInv' /\ (Promise!Withdraw \/ UNCHANGED pubVars)
<1>0. /\ run \in [Run -> RunRecords] /\ pc \in [Run -> Places]
      /\ backups \in [Run -> Builds \cup {NoApp}] /\ aside \in [Run -> Builds \cup {NoApp}]
      /\ pc[r] = "rollback" /\ pc' = [pc EXCEPT ![r] = "restoring"]
      /\ token' = token /\ root' = root /\ run' = run /\ backups' = backups
      /\ aside[r] = NoApp
  BY DEF WInv, ProgressInv, PlacesInv, SetAside, GoTo, stateVars, pubVars
<1>1. ASSUME \A q \in Run : q # r => aside'[q] = aside[q] PROVE ProgressInv'
  BY <1>0, <1>1 DEF WInv, ProgressInv, Active, Over, Places, Raised
<1>2. CASE dest = NoApp
  <2>1. UNCHANGED pubVars
    BY <1>2 DEF SetAside
  <2>2. PlacesInv' /\ MadeInv' /\ OneplaceInv'
    BY <1>0, <2>1, StayKeepsPlaces DEF Past, Over, Raised
  <2>3. QED
    BY <1>1, <2>1, <2>2 DEF WInv, pubVars
<1>3. CASE dest # NoApp
  <2>1. aside' = [aside EXCEPT ![r] = dest] /\ dest' = NoApp
    BY <1>3 DEF SetAside
  <2>2. dest \in Builds
    BY <1>3 DEF WInv, PlacesInv
  <2>3. Elsewhere' \ {NoApp} = (Elsewhere \ {NoApp}) \cup {dest}
    BY <1>0, <1>3, <2>1 DEF Elsewhere
  <2>4. PlacesInv'
    BY <1>0, <2>1, <2>2 DEF PlacesInv
  <2>5. MadeInv'
    <3> SUFFICES ASSUME NEW b \in Elsewhere' \cup {dest'}, b # NoApp, b.by # Old
                 PROVE  b.by \in Run /\ pc'[b.by] \in Past
      BY DEF MadeInv
    <3>1. b \in Elsewhere \cup {dest}
      BY <2>1, <2>3
    <3>2. b.by \in Run /\ pc[b.by] \in Past
      BY <3>1 DEF WInv, MadeInv
    <3>3. QED
      BY <1>0, <3>2 DEF Past, Over, Raised
  <2>6. OneplaceInv'
    BY <1>0, <1>3, <2>1 DEF WInv, OneplaceInv
  <2>7. ProgressInv'
    BY <1>0, <1>1, <2>1
  <2>8. Promise!Withdraw
    BY <1>3, <2>1, <2>3 DEF Promise!Withdraw
  <2>9. QED
    BY <2>4, <2>5, <2>6, <2>7, <2>8 DEF WInv
<1>4. QED
  BY <1>2, <1>3

LEMMA RestoreKeeps ==
  ASSUME WInv, NEW r \in Run, RestoreOld(r)
  PROVE  WInv' /\ (Promise!Restore \/ UNCHANGED pubVars)
<1>0. /\ run \in [Run -> RunRecords] /\ pc \in [Run -> Places]
      /\ backups \in [Run -> Builds \cup {NoApp}] /\ aside \in [Run -> Builds \cup {NoApp}]
      /\ pc[r] = "restoring" /\ pc' = [pc EXCEPT ![r] = "cleanup"]
      /\ token' = token /\ root' = root /\ run' = run /\ aside' = aside
  BY DEF WInv, ProgressInv, PlacesInv, RestoreOld, GoTo, stateVars, pubVars
<1>1. ASSUME \A q \in Run : q # r => backups'[q] = backups[q] PROVE ProgressInv'
  BY <1>0, <1>1 DEF WInv, ProgressInv, Active, Over, Places, Raised
<1>2. CASE ~run[r].moved
  <2>1. UNCHANGED pubVars
    BY <1>2 DEF RestoreOld
  <2>2. PlacesInv' /\ MadeInv' /\ OneplaceInv'
    BY <1>0, <2>1, StayKeepsPlaces DEF Past, Over, Raised
  <2>3. QED
    BY <1>1, <2>1, <2>2 DEF WInv, pubVars
<1>3. CASE run[r].moved
  <2>1. /\ dest = NoApp /\ dest' = backups[r]
        /\ backups' = [backups EXCEPT ![r] = NoApp]
    BY <1>3 DEF RestoreOld
  <2>2. backups[r] # NoApp
    BY <1>0, <1>3 DEF WInv, ProgressInv
  <2>3. /\ \A q \in Run : backups[q] = backups[r] => q = r
        /\ \A q \in Run : aside[q] # backups[r]
    BY <2>2 DEF WInv, OneplaceInv
  <2>4. Elsewhere' \ {NoApp} = (Elsewhere \ {NoApp}) \ {backups[r]}
    BY <1>0, <2>1, <2>2, <2>3 DEF Elsewhere
  <2>5. backups[r] \in Elsewhere \ {NoApp}
    BY <2>2 DEF Elsewhere
  <2>6. PlacesInv'
    BY <1>0, <2>1 DEF PlacesInv
  <2>7. MadeInv'
    <3> SUFFICES ASSUME NEW b \in Elsewhere' \cup {dest'}, b # NoApp, b.by # Old
                 PROVE  b.by \in Run /\ pc'[b.by] \in Past
      BY DEF MadeInv
    <3>1. b \in Elsewhere \cup {dest}
      BY <2>1, <2>4, <2>5
    <3>2. b.by \in Run /\ pc[b.by] \in Past
      BY <3>1 DEF WInv, MadeInv
    <3>3. QED
      BY <1>0, <3>2 DEF Past, Over, Raised
  <2>8. OneplaceInv'
    BY <1>0, <2>1, <2>2, <2>3 DEF WInv, OneplaceInv
  <2>9. ProgressInv'
    BY <1>0, <1>1, <2>1
  <2>10. Promise!Restore
    BY <2>1, <2>4, <2>5 DEF Promise!Restore
  <2>11. QED
    BY <2>6, <2>7, <2>8, <2>9, <2>10 DEF WInv
<1>4. QED
  BY <1>2, <1>3

LEMMA LaunchKeeps ==
  ASSUME WInv, LaunchRouter
  PROVE  WInv' /\ UNCHANGED pubVars
<1>1. /\ UNCHANGED pubVars /\ pc' = pc /\ token' = Router /\ root' = TRUE
      /\ run' = [q \in Run |-> IF Active(q) THEN [run[q] EXCEPT !.alone = FALSE]
                               ELSE run[q]]
  BY DEF LaunchRouter
<1>2. PlacesInv' /\ MadeInv' /\ OneplaceInv'
  BY <1>1, StayKeepsPlaces
<1>3. run \in [Run -> RunRecords]
  BY DEF WInv, ProgressInv
<1>4. \A q \in Run : /\ run'[q] \in RunRecords
                     /\ run'[q].token = run[q].token /\ run'[q].moved = run[q].moved
  BY <1>1, <1>3 DEF RunRecords, Raised
<1>5. run' \in [Run -> RunRecords]
  BY <1>1, <1>4
<1>6. ProgressInv'
  BY <1>1, <1>4, <1>5 DEF WInv, ProgressInv, Active, Tokens, pubVars
<1>7. QED
  BY <1>1, <1>2, <1>6 DEF WInv

LEMMA NextKeeps ==
  ASSUME WInv, [Next]_vars
  PROVE  WInv' /\ [Promise!Next]_<<dest, Elsewhere \ {NoApp}>>
<1>1. ASSUME UNCHANGED pubVars PROVE UNCHANGED <<dest, Elsewhere \ {NoApp}>>
  BY <1>1 DEF pubVars, Elsewhere
<1>2. ASSUME NEW r \in Run, NEW force \in BOOLEAN, NEW dry \in BOOLEAN,
             NEW allow \in BOOLEAN, Begin(r, force, dry, allow)
      PROVE  WInv' /\ UNCHANGED pubVars
  <2>1. WInv'
    BY <1>2, BeginKeeps
  <2>2. QED
    BY <1>2, <2>1 DEF Begin
<1>3. ASSUME NEW r \in Run,
             \/ Stage(r) \/ StageFails(r) \/ CreateToken(r) \/ KeepToken(r)
             \/ WriteToken(r) \/ WriteTokenFails(r) \/ InstallFails(r)
             \/ PublishFails(r) \/ RollbackFails(r) \/ Interrupt(r)
             \/ Cleanup(r) \/ CleanupFails(r) \/ Crash(r)
      PROVE  WInv' /\ UNCHANGED pubVars
  <2>1. WInv'
    BY <1>3, QuietKeeps
  <2>2. QED
    BY <1>3, <2>1 DEF Stage, StageFails, CreateToken, KeepToken, WriteToken,
       WriteTokenFails, InstallFails, PublishFails, RollbackFails, Interrupt, Cleanup,
       CleanupFails, Crash
<1>4. ASSUME NEW r \in Run, \/ MoveOld(r) \/ Publish(r) \/ InterruptPublished(r)
                           \/ SetAside(r) \/ RestoreOld(r)
      PROVE  WInv' /\ (Promise!Next \/ UNCHANGED pubVars)
  BY <1>4, MoveKeeps, PublishKeeps, InterruptKeeps, SetAsideKeeps, RestoreKeeps
     DEF Promise!Next
<1>5. CASE UNCHANGED vars
  <2>1. UNCHANGED pubVars
    BY <1>5 DEF vars
  <2>2. PlacesInv' /\ MadeInv' /\ OneplaceInv'
    BY <1>5, <2>1, StayKeepsPlaces DEF vars
  <2>3. ProgressInv'
    BY <1>5 DEF WInv, ProgressInv, Active, vars, pubVars, stateVars
  <2>4. QED
    BY <1>1, <2>1, <2>2, <2>3 DEF WInv
<1>6. QED
  BY <1>1, <1>2, <1>3, <1>4, <1>5, LaunchKeeps DEF Next

\* Where applications are and what each run of the patcher has moved agree at
\* every step (atomic_install, patch_windows_app.py:2094).
THEOREM WindowsInvariant == Spec => []WInv
  BY InitWInv, NextKeeps, PTL DEF Spec

\* The state of the patcher's runs is well formed, however many there are.
THEOREM BuildTypes == Spec => []BTypeOK
<1>1. WInv => BTypeOK
  BY DEF WInv, PlacesInv, ProgressInv, BTypeOK
<1>2. QED
  BY <1>1, WindowsInvariant, PTL

\* No run overwrites or loses an application (patch_windows_app.py:2094-2130).
THEOREM NothingIsLost == Spec => PublicationSpec
<1>1. Init => Promise!Init
  <2>1. ASSUME Init PROVE dest \in Builds \cup {NoApp}
    BY <2>1, InitWInv DEF WInv, PlacesInv
  <2>2. Init => Elsewhere \ {NoApp} = {}
    BY DEF Init, Elsewhere
  <2>3. QED
    BY <2>1, <2>2 DEF Promise!Init
<1>2. QED
  BY <1>1, WindowsInvariant, NextKeeps, PTL DEF Spec, PublicationSpec, Promise!Spec

-----------------------------------------------------------------------------
(* Runs that meet nobody                                                   *)

\* The token is the one a run found, or the file it created and never filled.
Kept(r) == \/ token = run[r].before.token
           \/ token = Partial /\ run[r].before.token = NoToken

\* What a run that is alone knows: the application and the token it found,
\* and what it has done to them since.
Undisturbed(r) ==
  /\ pc[r] \in {"begun", "staged"} =>
       /\ token = run[r].before.token
       /\ run[r].fresh <=> token = NoToken
       /\ ~run[r].fresh => token = run[r].token
  /\ pc[r] \in {"begun", "staged", "writing"} => ~run[r].persisted /\ run[r].ends = "failed"
  /\ pc[r] = "writing" => token = Partial /\ run[r].before.token = NoToken
  /\ pc[r] \in {"moving", "publishing", "rollback", "restoring"} =>
       /\ token = run[r].token /\ run[r].ends = "failed"
       /\ ~run[r].persisted => token = run[r].before.token
  /\ run[r].persisted => run[r].before.token = NoToken
  /\ pc[r] \in {"begun", "staged", "writing", "moving"} => dest = run[r].before.dest
  /\ pc[r] \in {"staged", "writing", "moving"} => (run[r].planned <=> dest # NoApp)
  /\ pc[r] \in {"publishing", "rollback", "restoring"} =>
       /\ dest = NoApp
       /\ run[r].planned <=> backups[r] # NoApp
       /\ run[r].planned <=> run[r].moved
       /\ run[r].before.dest = backups[r]
  /\ pc[r] = "cleanup" /\ run[r].ends = "failed" =>
       /\ dest = run[r].before.dest
       /\ run[r].persisted \/ Kept(r)

SoloInv ==
  /\ \A r, q \in Run : Active(r) /\ run[r].alone /\ Active(q) => q = r
  /\ \A r \in Run : Active(r) /\ run[r].alone => Undisturbed(r)

LEMMA InitSolo == Init => SoloInv
  BY DEF Init, SoloInv, Active

LEMMA RecordFields ==
  ASSUME NEW x \in RunRecords, NEW b \in BOOLEAN, NEW c \in BOOLEAN
  PROVE  /\ LET y == [x EXCEPT !.rootPre = b, !.planned = c]
            IN /\ y.fresh = x.fresh /\ y.before = x.before /\ y.ends = x.ends
               /\ y.persisted = x.persisted /\ y.alone = x.alone /\ y.planned = c
               /\ y.token = x.token /\ y.moved = x.moved
         /\ LET y == [x EXCEPT !.persisted = b]
            IN /\ y.fresh = x.fresh /\ y.before = x.before /\ y.ends = x.ends
               /\ y.persisted = b /\ y.alone = x.alone /\ y.planned = x.planned
               /\ y.token = x.token /\ y.moved = x.moved
         /\ \A e \in Raised :
              LET y == [x EXCEPT !.ends = e]
              IN /\ y.fresh = x.fresh /\ y.before = x.before /\ y.ends = e
                 /\ y.persisted = x.persisted /\ y.alone = x.alone
         /\ LET y == [x EXCEPT !.moved = b]
            IN /\ y.fresh = x.fresh /\ y.before = x.before /\ y.ends = x.ends
               /\ y.persisted = x.persisted /\ y.alone = x.alone
               /\ y.planned = x.planned
               /\ y.token = x.token /\ y.moved = b
  BY DEF RunRecords, Raised

\* A step of an active run concerns no other run that is alone.
LEMMA SoloStep ==
  ASSUME SoloInv, NEW r \in Run, Active(r),
         \A q \in Run : q # r => pc'[q] = pc[q] /\ run'[q] = run[q],
         run'[r].alone = run[r].alone,
         run[r].alone /\ Active(r)' => Undisturbed(r)'
  PROVE  SoloInv'
<1>1. ASSUME NEW q \in Run, Active(q)', run'[q].alone, q # r PROVE FALSE
  BY <1>1 DEF SoloInv, Active
<1>2. ASSUME NEW p \in Run, NEW q \in Run, Active(p)', run'[p].alone, Active(q)'
      PROVE  q = p
  <2>1. p = r /\ run[r].alone
    BY <1>1, <1>2
  <2>2. q # r => Active(q)
    BY <1>2 DEF Active
  <2>3. QED
    BY <2>1, <2>2 DEF SoloInv
<1>3. ASSUME NEW p \in Run, Active(p)', run'[p].alone PROVE Undisturbed(p)'
  <2>1. p = r
    BY <1>1, <1>3
  <2>2. QED
    BY <1>3, <2>1
<1>4. QED
  BY <1>2, <1>3 DEF SoloInv

\* The steps that end a run.
LEMMA SoloEnds ==
  ASSUME WInv, SoloInv, NEW r \in Run, Active(r), NEW e \in Over, End(r, e)
  PROVE  SoloInv'
<1>1. /\ pc' = [pc EXCEPT ![r] = e]
      /\ run' = [run EXCEPT ![r] = [NotRun EXCEPT !.alone = run[r].alone]]
      /\ pc \in [Run -> Places] /\ run \in [Run -> RunRecords]
  BY DEF End, GoTo, WInv, ProgressInv
<1>2. /\ \A q \in Run : q # r => pc'[q] = pc[q] /\ run'[q] = run[q]
      /\ ~Active(r)'
  BY <1>1 DEF Active
<1>3. run'[r].alone = run[r].alone
  BY <1>1 DEF NotRun, Raised
<1>4. QED
  BY <1>2, <1>3, SoloStep

LEMMA SoloBegin ==
  ASSUME WInv, SoloInv, NEW r \in Run, NEW force \in BOOLEAN, NEW dry \in BOOLEAN,
         NEW allow \in BOOLEAN, Begin(r, force, dry, allow)
  PROVE  SoloInv'
<1> DEFINE others == {q \in Run : Active(q)}
           mine == [NotRun EXCEPT !.force = force, !.dry = dry, !.allow = allow,
                              !.token = PreparedToken(r), !.fresh = (token = NoToken),
                              !.alone = (others = {}),
                              !.before = [dest |-> dest, token |-> token]]
<1>1. /\ pc[r] = "idle" /\ pc' = [pc EXCEPT ![r] = "begun"]
      /\ dest' = dest /\ token' = token
      /\ run' = [q \in Run |-> IF q = r THEN mine
                    ELSE IF q \in others THEN [run[q] EXCEPT !.alone = FALSE] ELSE run[q]]
      /\ pc \in [Run -> Places] /\ run \in [Run -> RunRecords]
  BY DEF Begin, GoTo, stateVars, pubVars, WInv, ProgressInv
<1>2. /\ mine.token = PreparedToken(r) /\ mine.alone = (others = {})
      /\ (mine.fresh <=> token = NoToken)
      /\ mine.before.dest = dest /\ mine.before.token = token
      /\ mine.persisted = FALSE /\ mine.ends = "failed"
  BY DEF NotRun, Raised
<1> HIDE DEF mine
<1>3. ASSUME NEW q \in Run, q # r, Active(q) PROVE run'[q].alone = FALSE
  BY <1>1, <1>3 DEF RunRecords, Raised
<1>4. ASSUME NEW q \in Run, q # r PROVE Active(q)' = Active(q)
  BY <1>1, <1>4 DEF Active
<1>5. run'[r] = mine /\ pc'[r] = "begun"
  BY <1>1
<1>6. Undisturbed(r)'
  BY <1>1, <1>2, <1>5 DEF Undisturbed, PreparedToken
<1>7. run'[r].alone => \A q \in Run : q # r => ~Active(q)'
  BY <1>2, <1>4, <1>5
<1>8. QED
  BY <1>3, <1>4, <1>6, <1>7 DEF SoloInv

LEMMA SoloLaunch ==
  ASSUME WInv, SoloInv, LaunchRouter
  PROVE  SoloInv'
<1>1. /\ pc' = pc /\ run \in [Run -> RunRecords]
      /\ run' = [q \in Run |-> IF Active(q) THEN [run[q] EXCEPT !.alone = FALSE]
                               ELSE run[q]]
  BY DEF LaunchRouter, WInv, ProgressInv
<1>2. \A q \in Run : Active(q)' => ~run'[q].alone
  BY <1>1 DEF Active, RunRecords, Raised
<1>3. QED
  BY <1>2 DEF SoloInv

LEMMA SoloHandler ==
  ASSUME WInv, SoloInv, NEW r \in Run,
         \/ Stage(r) \/ StageFails(r) \/ CreateToken(r) \/ KeepToken(r)
         \/ WriteToken(r) \/ WriteTokenFails(r) \/ MoveOld(r) \/ InstallFails(r)
         \/ Publish(r) \/ PublishFails(r) \/ SetAside(r) \/ RestoreOld(r)
         \/ RollbackFails(r) \/ Interrupt(r) \/ InterruptPublished(r)
         \/ Cleanup(r) \/ CleanupFails(r) \/ Crash(r)
  PROVE  SoloInv'
<1>0. /\ Active(r)
      /\ pc \in [Run -> Places] /\ run \in [Run -> RunRecords]
      /\ run[r] \in RunRecords
  BY DEF WInv, ProgressInv, Stage, StageFails, CreateToken, KeepToken, WriteToken,
     WriteTokenFails, MoveOld, InstallFails, Publish, PublishFails, SetAside,
     RestoreOld, RollbackFails, Interrupt, InterruptPublished, Cleanup, CleanupFails,
     Crash, Active, Over, Raised
<1>d. run[r].alone => Undisturbed(r)
  BY <1>0 DEF SoloInv
<1>1. CASE \/ Stage(r) /\ run[r].dry
           \/ StageFails(r) \/ Publish(r) \/ Cleanup(r) \/ CleanupFails(r) \/ Crash(r)
  <2>1. \E e \in Over : End(r, e)
    BY <1>0, <1>1 DEF Stage, StageFails, Publish, Cleanup, CleanupFails, Crash,
       RunRecords, Over, Raised
  <2>2. QED
    BY <1>0, <2>1, SoloEnds
<1>2. CASE Stage(r) /\ ~run[r].dry
  <2> DEFINE x == [run[r] EXCEPT !.rootPre = root, !.planned = PlansBackup]
  <2>1. /\ run' = [run EXCEPT ![r] = x]
        /\ pc[r] = "begun" /\ pc' = [pc EXCEPT ![r] = "staged"]
        /\ UNCHANGED <<dest, backups, token>>
    BY <1>2 DEF Stage, GoTo, pubVars, stateVars
  <2>2. PlansBackup \in BOOLEAN /\ root \in BOOLEAN
    BY DEF PlansBackup, WInv, ProgressInv
  <2>3. /\ x.fresh = run[r].fresh /\ x.before = run[r].before /\ x.ends = run[r].ends
        /\ x.persisted = run[r].persisted /\ x.alone = run[r].alone
        /\ x.token = run[r].token /\ x.planned = PlansBackup
    BY <1>0, <2>2, RecordFields
  <2> HIDE DEF x
  <2>4. \A q \in Run : q # r => pc'[q] = pc[q] /\ run'[q] = run[q]
    BY <1>0, <2>1
  <2>5. run'[r] = x /\ pc'[r] = "staged"
    BY <1>0, <2>1
  <2>6. run[r].alone => Undisturbed(r)'
    BY <1>d, <2>1, <2>3, <2>5 DEF Undisturbed, PlansBackup
  <2>7. QED
    BY <1>0, <2>3, <2>4, <2>5, <2>6, SoloStep
<1>3. CASE WriteToken(r)
  <2> DEFINE x == [run[r] EXCEPT !.persisted = TRUE]
  <2>1. /\ run' = [run EXCEPT ![r] = x]
        /\ pc[r] = "writing" /\ pc' = [pc EXCEPT ![r] = "moving"]
        /\ UNCHANGED <<dest, backups>> /\ token' = run[r].token
    BY <1>3 DEF WriteToken, GoTo, pubVars
  <2>2. /\ x.before = run[r].before /\ x.ends = run[r].ends
        /\ x.persisted = TRUE /\ x.alone = run[r].alone
        /\ x.token = run[r].token /\ x.planned = run[r].planned
    BY <1>0, RecordFields
  <2> HIDE DEF x
  <2>3. \A q \in Run : q # r => pc'[q] = pc[q] /\ run'[q] = run[q]
    BY <1>0, <2>1
  <2>4. run'[r] = x /\ pc'[r] = "moving"
    BY <1>0, <2>1
  <2>5. run[r].alone => Undisturbed(r)'
    BY <1>d, <2>1, <2>2, <2>4 DEF Undisturbed
  <2>6. QED
    BY <1>0, <2>2, <2>3, <2>4, <2>5, SoloStep
<1>4. CASE RollbackFails(r) \/ Interrupt(r) \/ InterruptPublished(r)
  <2>1. PICK e \in Raised \ {"failed"} : run' = [run EXCEPT ![r] = [run[r] EXCEPT !.ends = e]]
    BY <1>4 DEF RollbackFails, Interrupt, InterruptPublished, Raised
  <2> DEFINE x == [run[r] EXCEPT !.ends = e]
  <2>2. x.ends # "failed" /\ x.persisted = run[r].persisted /\ x.before = run[r].before
        /\ x.alone = run[r].alone
    BY <1>0, RecordFields
  <2>3. run' = [run EXCEPT ![r] = x] /\ pc' = [pc EXCEPT ![r] = "cleanup"]
    BY <1>4, <2>1 DEF RollbackFails, Interrupt, InterruptPublished, GoTo
  <2> HIDE DEF x
  <2>4. \A q \in Run : q # r => pc'[q] = pc[q] /\ run'[q] = run[q]
    BY <1>0, <2>3
  <2>5. run'[r] = x /\ pc'[r] = "cleanup"
    BY <1>0, <2>3
  <2>6. run[r].alone => Undisturbed(r)'
    BY <1>d, <2>2, <2>5 DEF Undisturbed
  <2>7. QED
    BY <1>0, <2>2, <2>4, <2>5, <2>6, SoloStep
<1>5. CASE CreateToken(r) \/ KeepToken(r) \/ WriteTokenFails(r) \/ InstallFails(r)
           \/ PublishFails(r) \/ SetAside(r) \/ RestoreOld(r)
  <2>1. run' = run /\ \E p \in Places : pc' = [pc EXCEPT ![r] = p]
    BY <1>5 DEF CreateToken, KeepToken, WriteTokenFails, InstallFails, PublishFails,
       SetAside, RestoreOld, GoTo, Places, Over, Raised
  <2>2. \A q \in Run : q # r => pc'[q] = pc[q] /\ run'[q] = run[q]
    BY <1>0, <2>1
  <2>3. ASSUME run[r].alone PROVE Undisturbed(r)'
    <3>1. Undisturbed(r)
      BY <1>d, <2>3
    <3>2. CASE CreateToken(r)
      BY <1>0, <2>1, <3>1, <3>2 DEF CreateToken, GoTo, Undisturbed, Kept, pubVars
    <3>3. CASE KeepToken(r)
      BY <1>0, <2>1, <3>1, <3>3 DEF KeepToken, GoTo, Undisturbed, Kept, pubVars, stateVars
    <3>4. CASE InstallFails(r)
      BY <1>0, <2>1, <3>1, <3>4 DEF InstallFails, GoTo, Undisturbed, Kept, pubVars, stateVars
    <3>5. CASE PublishFails(r)
      BY <1>0, <2>1, <3>1, <3>5 DEF PublishFails, GoTo, Undisturbed, Kept, pubVars, stateVars
    <3>6. CASE SetAside(r)
      BY <1>0, <2>1, <3>1, <3>6 DEF SetAside, GoTo, Undisturbed, Kept, pubVars, stateVars
    <3>9. CASE WriteTokenFails(r)
      BY <1>0, <2>1, <3>1, <3>9 DEF WriteTokenFails, GoTo, Undisturbed, Kept, pubVars, stateVars
    <3>7. CASE RestoreOld(r)
      <4>1. /\ pc[r] = "restoring" /\ pc'[r] = "cleanup" /\ token' = token
            /\ dest' = IF run[r].moved THEN backups[r] ELSE dest
        BY <1>0, <3>7 DEF RestoreOld, GoTo, pubVars, stateVars
      <4>2. QED
        BY <2>1, <3>1, <4>1 DEF Undisturbed, Kept
    <3>8. QED
      BY <1>5, <3>2, <3>3, <3>4, <3>5, <3>6, <3>7, <3>9
  <2>4. QED
    BY <1>0, <2>1, <2>2, <2>3, SoloStep
<1>6. CASE MoveOld(r)
  <2>1. /\ pc[r] = "moving" /\ pc' = [pc EXCEPT ![r] = "publishing"]
        /\ token' = token
        /\ backups \in [Run -> Builds \cup {NoApp}]
        /\ backups[r] = NoApp /\ ~run[r].moved
    BY <1>6 DEF MoveOld, GoTo, stateVars, WInv, PlacesInv, ProgressInv
  <2>2. CASE dest = NoApp
    <3>1. run' = run /\ UNCHANGED <<dest, backups>>
      BY <1>6, <2>2 DEF MoveOld, pubVars
    <3>2. \A q \in Run : q # r => pc'[q] = pc[q] /\ run'[q] = run[q]
      BY <1>0, <2>1, <3>1
    <3>3. run[r].alone => Undisturbed(r)'
      BY <1>0, <1>d, <2>1, <2>2, <3>1 DEF Undisturbed
    <3>4. QED
      BY <1>0, <3>1, <3>2, <3>3, SoloStep
  <2>3. CASE dest # NoApp
    <3> DEFINE x == [run[r] EXCEPT !.moved = TRUE]
    <3>1. /\ run' = [run EXCEPT ![r] = x]
          /\ dest' = NoApp /\ backups' = [backups EXCEPT ![r] = dest]
      BY <1>6, <2>3 DEF MoveOld
    <3>2. /\ x.before = run[r].before /\ x.ends = run[r].ends /\ x.moved = TRUE
          /\ x.persisted = run[r].persisted /\ x.alone = run[r].alone
          /\ x.token = run[r].token /\ x.planned = run[r].planned
      BY <1>0, RecordFields
    <3> HIDE DEF x
    <3>3. \A q \in Run : q # r => pc'[q] = pc[q] /\ run'[q] = run[q]
      BY <1>0, <2>1, <3>1
    <3>4. run'[r] = x /\ pc'[r] = "publishing" /\ backups'[r] = dest
      BY <1>0, <2>1, <3>1
    <3>5. run[r].alone => Undisturbed(r)'
      BY <1>d, <2>1, <2>3, <3>1, <3>2, <3>4 DEF Undisturbed
    <3>6. QED
      BY <1>0, <3>2, <3>3, <3>4, <3>5, SoloStep
  <2>4. QED
    BY <2>2, <2>3
<1>7. QED
  BY <1>1, <1>2, <1>3, <1>4, <1>5, <1>6

LEMMA NextSolo == WInv /\ SoloInv /\ [Next]_vars => SoloInv'
<1>1. ASSUME WInv, SoloInv, Next PROVE SoloInv'
  BY <1>1, SoloBegin, SoloLaunch, SoloHandler DEF Next
<1>2. ASSUME SoloInv, UNCHANGED vars PROVE SoloInv'
  BY <1>2 DEF SoloInv, Undisturbed, Kept, Active, vars, pubVars, stateVars
<1>3. QED
  BY <1>1, <1>2

\* A run that is alone finds the application and the token as it left them
\* (patch_app, patch_windows_app.py:2149).
THEOREM SoloRuns == Spec => []SoloInv
  BY InitSolo, NextSolo, WindowsInvariant, PTL DEF Spec

\* A run that ends with an error, having met nobody, and neither interrupted
\* nor unable to undo its work, leaves the application it found and the token
\* it found, or an empty token file where there was none
\* (patch_windows_app.py:2117-2129, 2262-2271, 881-884).
THEOREM FailureRestores == Spec => FailedRunRestores
<1>1. ASSUME WInv, SoloInv, Next, NEW r \in Run,
             pc[r] # "failed", pc'[r] = "failed", run[r].alone
      PROVE  /\ dest' = run[r].before.dest
             /\ \/ token' = run[r].before.token
                \/ token' = Partial /\ run[r].before.token = NoToken
  <2>0. pc \in [Run -> Places]
    BY <1>1 DEF WInv, ProgressInv
  <2>1. StageFails(r) \/ Cleanup(r)
    <3>1. ASSUME NEW q \in Run, NEW place \in Places \ {"failed"}, GoTo(q, place)
          PROVE  FALSE
      BY <1>1, <2>0, <3>1 DEF GoTo
    <3>2. ASSUME NEW q \in Run, StageFails(q) \/ Cleanup(q) PROVE q = r
      BY <1>1, <2>0, <3>2 DEF StageFails, Cleanup, End, GoTo
    <3>3. ASSUME NEW q \in Run, NEW force \in BOOLEAN, NEW dry \in BOOLEAN,
                 NEW allow \in BOOLEAN, Begin(q, force, dry, allow)
          PROVE  FALSE
      <4>1. GoTo(q, "begun")
        BY <3>3 DEF Begin
      <4>2. QED
        BY <3>1, <4>1 DEF Places, Raised
    <3>4. ASSUME NEW q \in Run,
                 \/ Stage(q) \/ CreateToken(q) \/ KeepToken(q) \/ WriteToken(q)
                 \/ WriteTokenFails(q) \/ MoveOld(q) \/ InstallFails(q) \/ Publish(q)
                 \/ PublishFails(q) \/ SetAside(q) \/ RestoreOld(q)
                 \/ RollbackFails(q) \/ Interrupt(q) \/ InterruptPublished(q)
                 \/ CleanupFails(q) \/ Crash(q)
          PROVE  FALSE
      <4>1. \E place \in Places \ {"failed"} : GoTo(q, place)
        BY <3>4 DEF Stage, CreateToken, KeepToken, WriteToken, WriteTokenFails,
           MoveOld, InstallFails, Publish, PublishFails, SetAside, RestoreOld,
           RollbackFails, Interrupt, InterruptPublished, CleanupFails, Crash, End,
           Places, Over, Raised
      <4>2. QED
        BY <3>1, <4>1
    <3>5. ~LaunchRouter
      BY <1>1 DEF LaunchRouter
    <3>6. QED
      BY <1>1, <3>2, <3>3, <3>4, <3>5 DEF Next
  <2>2. Active(r) /\ Undisturbed(r)
    BY <1>1, <2>1 DEF SoloInv, StageFails, Cleanup, Active, Over, Raised
  <2>3. CASE StageFails(r)
    BY <2>2, <2>3 DEF StageFails, Undisturbed, pubVars, stateVars
  <2>4. CASE Cleanup(r)
    <3>1. pc[r] = "cleanup" /\ run[r].ends = "failed" /\ dest' = dest
      BY <1>1, <2>0, <2>4 DEF Cleanup, End, GoTo, pubVars
    <3>2. token' = IF run[r].persisted THEN NoToken ELSE token
      BY <2>4 DEF Cleanup, stateVars
    <3>3. QED
      BY <2>2, <3>1, <3>2 DEF Undisturbed, Kept
  <2>5. QED
    BY <2>1, <2>3, <2>4
<1>2. WInv /\ SoloInv /\ [Next]_vars =>
        [\A r \in Run : pc[r] # "failed" /\ pc'[r] = "failed" /\ run[r].alone =>
            /\ dest' = run[r].before.dest
            /\ \/ token' = run[r].before.token
               \/ token' = Partial /\ run[r].before.token = NoToken]_vars
  BY <1>1
<1>3. QED
  BY <1>2, WindowsInvariant, SoloRuns, PTL DEF Spec, FailedRunRestores

-----------------------------------------------------------------------------
(* Builds that can be relied on                                            *)

\* A settled build holds the token that is there, so that no run at work has made
\* one or will; and its manifest is right about its backup.
Relied(b) ==
  /\ token = b.token
  /\ \A r \in Run : Active(r) => ~run[r].fresh /\ ~run[r].persisted
  /\ b.by # Old => (b.backup <=> backups[b.by] # NoApp)

TrustInv ==
  /\ \A r \in Run : pc[r] = "writing" => run[r].fresh
  /\ \A b \in (Elsewhere \cup {dest}) \ {NoApp} : Settled(b) => Relied(b)

LEMMA InitTrust == Init => TrustInv
<1> SUFFICES ASSUME Init PROVE TrustInv
  OBVIOUS
<1>1. OldBuild.by = Old /\ OldBuild.token = Old
  BY DEF OldBuild, Build
<1>2. \A b \in (Elsewhere \cup {dest}) \ {NoApp} : b = OldBuild /\ dest = OldBuild
  BY DEF Init, Elsewhere
<1>3. \A r \in Run : ~Active(r) /\ pc[r] # "writing"
  BY DEF Init, Active
<1>4. dest = OldBuild => token = Old
  BY DEF Init
<1>5. QED
  BY <1>1, <1>2, <1>3, <1>4 DEF TrustInv, Relied

\* Builds there are, and the runs that made them.
LEMMA TrustedMaker ==
  ASSUME WInv, NEW b \in (Elsewhere \cup {dest}) \ {NoApp}
  PROVE  /\ b \in Builds /\ b.token \in Tokens
         /\ b.by # Old => b.by \in Run /\ pc[b.by] \in Past
<1>1. b \in Builds
  BY DEF WInv, PlacesInv, Elsewhere
<1>2. QED
  BY <1>1 DEF Builds, WInv, MadeInv

\* A step after which every build was there before, that keeps the token, the
\* maker's record and its backup, and in which no run comes to own a token.
LEMMA TrustStep ==
  ASSUME WInv, TrustInv,
         Elsewhere' \cup {dest'} \subseteq Elsewhere \cup {dest} \cup {NoApp},
         \A b \in (Elsewhere \cup {dest}) \ {NoApp} :
           Settled(b)' /\ Settled(b) =>
             /\ token' = token
             /\ \A r \in Run : Active(r)' => ~run'[r].fresh /\ ~run'[r].persisted,
         \A b \in (Elsewhere \cup {dest}) \ {NoApp} : Settled(b)' => Settled(b),
         \A r \in Run : pc[r] = "done" => backups'[r] = backups[r],
         \A r \in Run : pc'[r] = "writing" => run'[r].fresh
  PROVE  TrustInv'
<1>1. ASSUME NEW b \in (Elsewhere' \cup {dest'}) \ {NoApp}, Settled(b)' PROVE Relied(b)'
  <2>1. b \in (Elsewhere \cup {dest}) \ {NoApp}
    BY <1>1
  <2>2. Settled(b) /\ Relied(b)
    BY <1>1, <2>1 DEF TrustInv
  <2>3. b.by # Old => b.by \in Run /\ pc[b.by] \in Past
    BY <2>1, TrustedMaker
  <2>4. QED
    BY <1>1, <2>1, <2>2, <2>3 DEF Relied, Settled
<1>2. QED
  BY <1>1 DEF TrustInv

LEMMA TrustBegin ==
  ASSUME WInv, TrustInv, NEW r \in Run, NEW force \in BOOLEAN, NEW dry \in BOOLEAN,
         NEW allow \in BOOLEAN, Begin(r, force, dry, allow)
  PROVE  TrustInv'
<1> DEFINE others == {q \in Run : Active(q)}
           mine == [NotRun EXCEPT !.force = force, !.dry = dry, !.allow = allow,
                              !.token = PreparedToken(r), !.fresh = (token = NoToken),
                              !.alone = (others = {}),
                              !.before = [dest |-> dest, token |-> token]]
<1>1. /\ pc[r] = "idle" /\ pc' = [pc EXCEPT ![r] = "begun"]
      /\ UNCHANGED pubVars /\ token' = token
      /\ run' = [q \in Run |-> IF q = r THEN mine
                    ELSE IF q \in others THEN [run[q] EXCEPT !.alone = FALSE] ELSE run[q]]
      /\ pc \in [Run -> Places] /\ run \in [Run -> RunRecords]
  BY DEF Begin, GoTo, stateVars, WInv, ProgressInv
<1>2. (mine.fresh <=> token = NoToken) /\ mine.persisted = FALSE
  BY DEF NotRun, Raised
<1> HIDE DEF mine
<1>3. ASSUME NEW q \in Run, q # r
      PROVE  /\ pc'[q] = pc[q] /\ Active(q)' = Active(q)
             /\ run'[q].fresh = run[q].fresh /\ run'[q].persisted = run[q].persisted
             /\ ~Active(q) => run'[q] = run[q]
  BY <1>1, <1>3 DEF Active, RunRecords, Raised
<1>4. ASSUME NEW b \in (Elsewhere \cup {dest}) \ {NoApp} PROVE Settled(b)' <=> Settled(b)
  <2>1. b.by # Old => b.by \in Run /\ pc[b.by] \in Past
    BY TrustedMaker
  <2>2. QED
    BY <1>1, <1>3, <2>1 DEF Settled, Active, Past, Over, Raised
<1>5. ASSUME NEW b \in (Elsewhere \cup {dest}) \ {NoApp}, Settled(b)
      PROVE  \A q \in Run : Active(q)' => ~run'[q].fresh /\ ~run'[q].persisted
  <2>1. token \in Tokens /\ Relied(b)
    BY <1>5, TrustedMaker DEF TrustInv, Relied
  <2>2. run'[r] = mine /\ ~mine.fresh
    BY <1>1, <1>2, <2>1, TokenAssumption
  <2>3. QED
    BY <1>2, <1>3, <2>1, <2>2 DEF Relied
<1>6. \A q \in Run : pc'[q] = "writing" => run'[q].fresh
  BY <1>1, <1>3 DEF TrustInv
<1>7. UNCHANGED <<Elsewhere, dest, backups>>
  BY <1>1 DEF pubVars, Elsewhere
<1>8. QED
  BY <1>1, <1>4, <1>5, <1>6, <1>7, TrustStep

LEMMA TrustLaunch ==
  ASSUME WInv, TrustInv, LaunchRouter
  PROVE  TrustInv'
<1>1. /\ pc' = pc /\ run \in [Run -> RunRecords] /\ token = NoToken /\ UNCHANGED pubVars
      /\ run' = [q \in Run |-> IF Active(q) THEN [run[q] EXCEPT !.alone = FALSE]
                               ELSE run[q]]
  BY DEF LaunchRouter, WInv, ProgressInv
<1>2. \A q \in Run : /\ run'[q].fresh = run[q].fresh
                     /\ ~Active(q) => run'[q] = run[q]
  BY <1>1 DEF RunRecords, Raised
<1>3. ASSUME NEW b \in (Elsewhere \cup {dest}) \ {NoApp} PROVE ~Settled(b) /\ ~Settled(b)'
  <2>1. ~Settled(b)
    BY <1>1, TrustedMaker, TokenAssumption DEF TrustInv, Relied
  <2>2. b.by # Old => b.by \in Run /\ pc[b.by] \in Past
    BY TrustedMaker
  <2>3. QED
    BY <1>1, <1>2, <2>1, <2>2 DEF Settled, Active, Past, Over, Raised
<1>4. UNCHANGED <<Elsewhere, dest, backups>>
  BY <1>1 DEF pubVars, Elsewhere
<1>5. QED
  BY <1>1, <1>2, <1>3, <1>4, TrustStep DEF TrustInv

\* Every step of a run but the one that makes a build.
LEMMA TrustHandler ==
  ASSUME WInv, TrustInv, NEW r \in Run,
         \/ Stage(r) \/ StageFails(r) \/ CreateToken(r) \/ KeepToken(r)
         \/ WriteToken(r) \/ WriteTokenFails(r) \/ MoveOld(r) \/ InstallFails(r)
         \/ PublishFails(r) \/ SetAside(r) \/ RestoreOld(r)
         \/ RollbackFails(r) \/ Interrupt(r) \/ Cleanup(r) \/ CleanupFails(r) \/ Crash(r)
  PROVE  TrustInv'
<1>0. /\ pc \in [Run -> Places] /\ run \in [Run -> RunRecords] /\ Active(r)
      /\ pc[r] # "done"
  BY DEF WInv, ProgressInv, Stage, StageFails, CreateToken, KeepToken, WriteToken,
     WriteTokenFails, MoveOld, InstallFails, PublishFails, SetAside,
     RestoreOld, RollbackFails, Interrupt, Cleanup, CleanupFails, Crash, Active, Over,
     Raised
<1>1. \A q \in Run : q # r => pc'[q] = pc[q] /\ run'[q] = run[q]
  <2>1. \E p \in Places : pc' = [pc EXCEPT ![r] = p]
    BY <1>0 DEF Stage, StageFails, CreateToken, KeepToken, WriteToken,
       WriteTokenFails, MoveOld, InstallFails, PublishFails, SetAside,
       RestoreOld, RollbackFails, Interrupt, Cleanup, CleanupFails, Crash, GoTo, End,
       Places, Over, RunRecords, Raised
  <2>2. \/ run' = run
        \/ \E x : run' = [run EXCEPT ![r] = x]
    BY DEF Stage, StageFails, CreateToken, KeepToken, WriteToken,
       WriteTokenFails, MoveOld, InstallFails, PublishFails, SetAside,
       RestoreOld, RollbackFails, Interrupt, Cleanup, CleanupFails, Crash, End
  <2>3. QED
    BY <1>0, <2>1, <2>2
<1>2. /\ Elsewhere' \cup {dest'} \subseteq Elsewhere \cup {dest} \cup {NoApp}
      /\ \A q \in Run : q # r => backups'[q] = backups[q]
  <2>1. CASE UNCHANGED pubVars
    BY <2>1 DEF pubVars, Elsewhere
  <2>2. CASE ~UNCHANGED pubVars
    <3>1. MoveOld(r) \/ SetAside(r) \/ RestoreOld(r)
      BY <2>2 DEF Stage, StageFails, CreateToken, KeepToken, WriteToken,
         WriteTokenFails, InstallFails, PublishFails, RollbackFails, Interrupt, Cleanup,
         CleanupFails, Crash
    <3>2. /\ backups \in [Run -> Builds \cup {NoApp}]
          /\ aside \in [Run -> Builds \cup {NoApp}]
      BY DEF WInv, PlacesInv
    <3>3. \/ /\ backups' = [backups EXCEPT ![r] = dest] /\ dest' = NoApp /\ aside' = aside
          \/ /\ aside' = [aside EXCEPT ![r] = dest] /\ dest' = NoApp /\ backups' = backups
          \/ /\ backups' = [backups EXCEPT ![r] = NoApp] /\ dest' = backups[r]
             /\ aside' = aside
      BY <2>2, <3>1 DEF MoveOld, SetAside, RestoreOld
    <3>4. QED
      BY <3>2, <3>3 DEF Elsewhere
  <2>3. QED
    BY <2>1, <2>2
<1>3. ASSUME NEW b \in (Elsewhere \cup {dest}) \ {NoApp}, Settled(b)' PROVE Settled(b)
  <2>1. b.by # Old => b.by \in Run /\ pc[b.by] \in Past
    BY TrustedMaker
  <2>2. pc[r] \in Past => pc'[r] # "done"
    <3>1. run[r] \in RunRecords
      BY <1>0
    <3>2. pc[r] \in Past => pc[r] = "cleanup"
      BY <1>0 DEF Active, Past
    <3>3. QED
      BY <1>0, <3>1, <3>2 DEF Stage, StageFails, CreateToken, KeepToken, WriteToken,
         WriteTokenFails, MoveOld, InstallFails, PublishFails, SetAside, RestoreOld,
         RollbackFails, Interrupt, Cleanup, CleanupFails, Crash, GoTo, End, RunRecords,
         Raised
  <2>3. QED
    BY <1>0, <1>1, <1>3, <2>1, <2>2 DEF Settled
<1>4. /\ run'[r].fresh => run[r].fresh
      /\ run'[r].persisted => run[r].persisted \/ WriteToken(r)
  <2>1. CASE run' = run
    BY <2>1
  <2>2. CASE \E e \in Over : End(r, e)
    BY <1>0, <2>2 DEF End, NotRun, Raised
  <2>3. CASE Stage(r) /\ ~run[r].dry
    <3>1. run' = [run EXCEPT ![r].rootPre = root, ![r].planned = PlansBackup]
      BY <2>3 DEF Stage
    <3>2. QED
      BY <1>0, <3>1 DEF RunRecords, Raised
  <2>4. CASE WriteToken(r)
    BY <1>0, <2>4 DEF WriteToken, RunRecords, Raised
  <2>5. CASE \/ RollbackFails(r) \/ Interrupt(r)
             \/ run' = [run EXCEPT ![r].moved = TRUE]
    BY <1>0, <2>5 DEF RollbackFails, Interrupt, RunRecords, Raised
  <2>7. Cleanup(r) => \E e \in Over : End(r, e)
    BY <1>0 DEF Cleanup, RunRecords, Over
  <2>6. QED
    BY <2>1, <2>2, <2>3, <2>4, <2>5, <2>7 DEF Stage, StageFails, CreateToken, KeepToken,
       WriteTokenFails, MoveOld, InstallFails, PublishFails, SetAside, RestoreOld,
       CleanupFails, Crash, Over, Raised
<1>5. ASSUME NEW b \in (Elsewhere \cup {dest}) \ {NoApp}, Settled(b)
      PROVE  /\ token' = token
             /\ \A q \in Run : Active(q)' => ~run'[q].fresh /\ ~run'[q].persisted
  <2>1. Relied(b)
    BY <1>5 DEF TrustInv
  <2>2. ~run[r].fresh /\ ~run[r].persisted
    BY <1>0, <2>1 DEF Relied
  <2>3. ~WriteToken(r) /\ ~CreateToken(r) /\ ~(Interrupt(r) /\ pc[r] = "writing")
    BY <2>2 DEF TrustInv, WriteToken, CreateToken
  <2>4. token' = token
    BY <2>2, <2>3 DEF Stage, StageFails, KeepToken, WriteTokenFails, MoveOld,
       InstallFails, PublishFails, SetAside, RestoreOld, RollbackFails, Interrupt, Cleanup,
       CleanupFails, Crash, stateVars
  <2>5. \A q \in Run : q # r => Active(q)' = Active(q)
    BY <1>1 DEF Active
  <2>6. QED
    BY <1>1, <1>4, <2>1, <2>2, <2>3, <2>4, <2>5 DEF Relied
<1>6. ASSUME NEW q \in Run, pc'[q] = "writing" PROVE run'[q].fresh
  <2>1. CASE q # r
    BY <1>1, <1>6, <2>1 DEF TrustInv
  <2>2. CASE q = r
    <3>0. run[r].ends \in Raised
      BY <1>0 DEF RunRecords
    <3>1. CreateToken(r)
      BY <1>0, <1>6, <2>2, <3>0 DEF Raised, Stage, StageFails, KeepToken, WriteToken,
         WriteTokenFails, MoveOld, InstallFails, PublishFails, SetAside,
         RestoreOld, RollbackFails, Interrupt, Cleanup, CleanupFails, Crash, GoTo, End
    <3>2. QED
      BY <2>2, <3>1 DEF CreateToken
  <2>3. QED
    BY <2>1, <2>2
<1>7. \A q \in Run : pc[q] = "done" => backups'[q] = backups[q]
  BY <1>0, <1>2
<1>8. QED
  BY <1>2, <1>3, <1>5, <1>6, <1>7, TrustStep

\* A run that was alone publishes a build that can be relied on, and ends the
\* last activity there was.
LEMMA TrustPublish ==
  ASSUME WInv, SoloInv, TrustInv, NEW r \in Run, Publish(r)
  PROVE  TrustInv'
<1> DEFINE new == Build(r, run[r].token, run[r].planned, run[r].allow)
<1>0. /\ pc \in [Run -> Places] /\ run \in [Run -> RunRecords]
      /\ pc[r] = "publishing" /\ pc' = [pc EXCEPT ![r] = "done"]
      /\ run' = [run EXCEPT ![r] = [NotRun EXCEPT !.alone = run[r].alone]]
      /\ token' = token /\ aside' = aside /\ backups' = backups
      /\ dest = NoApp /\ dest' = new /\ Active(r)
  BY DEF WInv, ProgressInv, Publish, End, GoTo, stateVars, Active, Over, Raised
<1>1. new.by = r /\ new.token = run[r].token /\ new.backup = run[r].planned
  BY DEF Build
<1> HIDE DEF new
<1>2. /\ \A q \in Run : q # r => pc'[q] = pc[q] /\ run'[q] = run[q]
      /\ pc'[r] = "done" /\ run'[r].alone = run[r].alone
  BY <1>0 DEF NotRun, Raised
<1>3. \A q \in Run : Active(q)' => q # r /\ Active(q)
  BY <1>2 DEF Active, Over, Raised
<1>4. ASSUME NEW b \in (Elsewhere' \cup {dest'}) \ {NoApp}, Settled(b)' PROVE Relied(b)'
  <2>1. CASE b = new
    <3>1. run[r].alone
      BY <1>1, <1>2, <1>4, <2>1, RunAssumption DEF Settled
    <3>2. /\ Undisturbed(r)
          /\ \A q \in Run : Active(q) => q = r
      BY <1>0, <3>1 DEF SoloInv
    <3>3. \A q \in Run : ~Active(q)'
      BY <1>3, <3>2
    <3>4. token = run[r].token /\ (run[r].planned <=> backups[r] # NoApp)
      BY <1>0, <3>2 DEF Undisturbed
    <3>5. QED
      BY <1>0, <1>1, <2>1, <3>3, <3>4 DEF Relied
  <2>2. CASE b # new
    <3>1. b \in (Elsewhere \cup {dest}) \ {NoApp}
      BY <1>0, <2>2 DEF Elsewhere
    <3>2. b.by # Old => b.by \in Run /\ pc[b.by] \in Past
      BY <3>1, TrustedMaker
    <3>3. Settled(b)
      BY <1>0, <1>2, <1>4, <3>2 DEF Settled, Past, Over, Raised
    <3>4. Relied(b)
      BY <3>1, <3>3 DEF TrustInv
    <3>5. QED
      BY <1>0, <1>2, <1>3, <3>4 DEF Relied
  <2>3. QED
    BY <2>1, <2>2
<1>5. \A q \in Run : pc'[q] = "writing" => run'[q].fresh
  BY <1>2 DEF TrustInv
<1>6. QED
  BY <1>4, <1>5 DEF TrustInv

\* The application of a run that is interrupted just after the rename is not
\* settled, and never will be.
LEMMA TrustInterrupt ==
  ASSUME WInv, TrustInv, NEW r \in Run, InterruptPublished(r)
  PROVE  TrustInv'
<1> DEFINE new == Build(r, run[r].token, run[r].planned, run[r].allow)
           x == [run[r] EXCEPT !.ends = "interrupted"]
<1>0. /\ pc \in [Run -> Places] /\ run \in [Run -> RunRecords]
      /\ pc[r] = "publishing" /\ pc' = [pc EXCEPT ![r] = "cleanup"]
      /\ run' = [run EXCEPT ![r] = x]
      /\ token' = token /\ aside' = aside /\ backups' = backups
      /\ dest' = new /\ Active(r)
  BY DEF WInv, ProgressInv, InterruptPublished, GoTo, stateVars, Active, Over, Raised
<1>1. new.by = r
  BY DEF Build
<1>2. x.fresh = run[r].fresh /\ x.persisted = run[r].persisted
  BY <1>0 DEF RunRecords
<1> HIDE DEF new, x
<1>3. /\ \A q \in Run : q # r => pc'[q] = pc[q] /\ run'[q] = run[q]
      /\ pc'[r] = "cleanup" /\ run'[r] = x
  BY <1>0
<1>4. ASSUME NEW b \in (Elsewhere' \cup {dest'}) \ {NoApp}, Settled(b)' PROVE Relied(b)'
  <2>1. b # new
    BY <1>1, <1>3, <1>4, RunAssumption DEF Settled
  <2>2. b \in (Elsewhere \cup {dest}) \ {NoApp}
    BY <1>0, <2>1 DEF Elsewhere
  <2>3. b.by # Old => b.by \in Run /\ pc[b.by] \in Past
    BY <2>2, TrustedMaker
  <2>4. Settled(b)
    BY <1>0, <1>3, <1>4, <2>3 DEF Settled
  <2>5. Relied(b)
    BY <2>2, <2>4 DEF TrustInv
  <2>6. QED
    BY <1>0, <1>2, <1>3, <2>5 DEF Relied, Active
<1>5. \A q \in Run : pc'[q] = "writing" => run'[q].fresh
  BY <1>3 DEF TrustInv
<1>6. QED
  BY <1>4, <1>5 DEF TrustInv

LEMMA NextTrust == WInv /\ SoloInv /\ TrustInv /\ [Next]_vars => TrustInv'
<1>1. ASSUME WInv, SoloInv, TrustInv, Next PROVE TrustInv'
  BY <1>1, TrustBegin, TrustLaunch, TrustHandler, TrustPublish, TrustInterrupt DEF Next
<1>2. ASSUME WInv, TrustInv, UNCHANGED vars PROVE TrustInv'
  BY <1>2 DEF TrustInv, Settled, Relied, Elsewhere, Active, vars, pubVars, stateVars
<1>3. QED
  BY <1>1, <1>2

\* The token of a build that met nobody stays, and its backup with it
\* (persist_control_token, plan_backup_path).
THEOREM TrustHolds == Spec => []TrustInv
  BY InitTrust, NextTrust, WindowsInvariant, SoloRuns, PTL DEF Spec

\* The token a settled application was built with is the one its router reads,
\* whatever other runs and routers do later (patch_windows_app.py:871-890).
THEOREM TokensMatch == Spec => []TokenMatches
<1>1. TrustInv => TokenMatches
  BY DEF TrustInv, Settled, Relied, TokenMatches
<1>2. QED
  BY <1>1, TrustHolds, PTL

\* The manifest of a settled application names a backup exactly when one was
\* made (patch_windows_app.py:2053-2056, 2106-2114, 2235); that of one whose run
\* met another may be stale.
THEOREM ManifestIsRight == Spec => []ManifestNamesBackup
<1>1. TrustInv => ManifestNamesBackup
  BY DEF TrustInv, Settled, Relied, ManifestNamesBackup
<1>2. QED
  BY <1>1, TrustHolds, PTL

-----------------------------------------------------------------------------
(* Which edits a patch makes                                               *)

\* What the passes replace in the reviewed release.
Replaced(passes) == UNION {passes[i].swap \cup passes[i].first : i \in DOMAIN passes}

\* A patch that is not refused makes every edit of its passes, somewhere at
\* least: what the release lacks for one of them makes the pass refuse.
LEMMA AcceptedEdits ==
  ASSUME NEW passes, NEW d, Accepts(passes, d)
  PROVE  Edits(passes, d) \cup Firsts(passes, d) = Replaced(passes)
<1>1. ASSUME NEW i \in DOMAIN passes
      PROVE  EditsOf(passes[i], d) \cup FirstsOf(passes[i], d)
               = passes[i].swap \cup passes[i].first
  BY DEF Accepts, Refuses, EditsOf, FirstsOf
<1>2. QED
  BY <1>1 DEF Edits, Firsts, Replaced

\* Of the reviewed release nothing is edited at its first occurrence only.
LEMMA ReviewedFirsts ==
  ASSUME NEW passes, NEW d, ~d.more
  PROVE  Firsts(passes, d) = {}
BY DEF Firsts, FirstsOf

IsPasses(p) == \E S : p \in Seq(S)

LEMMA Joined ==
  ASSUME NEW p, NEW q, IsPasses(p), IsPasses(q)
  PROVE  IsPasses(p \o q) /\ Replaced(p \o q) = Replaced(p) \cup Replaced(q)
<1>0. PICK A, B : p \in Seq(A) /\ q \in Seq(B)
  BY DEF IsPasses
<1> DEFINE S == A \cup B
<1>1. p \in Seq(S) /\ q \in Seq(S)
  BY <1>0
<1>2. /\ p \o q \in Seq(S) /\ Len(p \o q) = Len(p) + Len(q)
      /\ Len(p) \in Nat /\ Len(q) \in Nat
      /\ DOMAIN p = 1..Len(p) /\ DOMAIN q = 1..Len(q)
      /\ DOMAIN (p \o q) = 1..(Len(p) + Len(q))
      /\ \A i \in DOMAIN (p \o q) : (p \o q)[i] = IF i <= Len(p) THEN p[i] ELSE q[i - Len(p)]
  BY <1>1
<1> DEFINE r == p \o q
<1> HIDE DEF r, S
<1>3. ASSUME NEW i \in DOMAIN p PROVE i \in DOMAIN r /\ r[i] = p[i]
  BY <1>2 DEF r
<1>4. ASSUME NEW i \in DOMAIN q
      PROVE  i + Len(p) \in DOMAIN r /\ r[i + Len(p)] = q[i]
  BY <1>2 DEF r
<1>5. ASSUME NEW i \in DOMAIN r
      PROVE  \/ i \in DOMAIN p /\ r[i] = p[i]
             \/ i - Len(p) \in DOMAIN q /\ r[i] = q[i - Len(p)]
  BY <1>2 DEF r
<1>6. Replaced(p) \subseteq Replaced(r)
  BY <1>3 DEF Replaced
<1>7. Replaced(q) \subseteq Replaced(r)
  BY <1>4 DEF Replaced
<1>8. Replaced(r) \subseteq Replaced(p) \cup Replaced(q)
  BY <1>5 DEF Replaced
<1>9. QED
  BY <1>2, <1>6, <1>7, <1>8 DEF r, IsPasses


LEMMA Literal ==
  /\ \A a : IsPasses(<<a>>)
  /\ \A a, b : IsPasses(<<a, b>>)
  /\ \A a, b, c : IsPasses(<<a, b, c>>)
  /\ \A a, b, c, d : IsPasses(<<a, b, c, d>>)
  /\ \A a, b, c, d, e : IsPasses(<<a, b, c, d, e>>)
  /\ \A a, b, c, d, e, f : IsPasses(<<a, b, c, d, e, f>>)
  /\ \A a, b, c, d, e, f, g : IsPasses(<<a, b, c, d, e, f, g>>)
  /\ \A a, b, c, d, e, f, g, h : IsPasses(<<a, b, c, d, e, f, g, h>>)
<1>1. ASSUME NEW a PROVE <<a>> \in Seq({a})
  OBVIOUS
<1>2. ASSUME NEW a, NEW b PROVE <<a, b>> \in Seq({a, b})
  OBVIOUS
<1>3. ASSUME NEW a, NEW b, NEW c PROVE <<a, b, c>> \in Seq({a, b, c})
  OBVIOUS
<1>4. ASSUME NEW a, NEW b, NEW c, NEW d PROVE <<a, b, c, d>> \in Seq({a, b, c, d})
  OBVIOUS
<1>5. ASSUME NEW a, NEW b, NEW c, NEW d, NEW e
      PROVE  <<a, b, c, d, e>> \in Seq({a, b, c, d, e})
  OBVIOUS
<1>6. ASSUME NEW a, NEW b, NEW c, NEW d, NEW e, NEW f
      PROVE  <<a, b, c, d, e, f>> \in Seq({a, b, c, d, e, f})
  OBVIOUS
<1>7. ASSUME NEW a, NEW b, NEW c, NEW d, NEW e, NEW f, NEW g
      PROVE  <<a, b, c, d, e, f, g>> \in Seq({a, b, c, d, e, f, g})
  OBVIOUS
<1>8. ASSUME NEW a, NEW b, NEW c, NEW d, NEW e, NEW f, NEW g, NEW h
      PROVE  <<a, b, c, d, e, f, g, h>> \in Seq({a, b, c, d, e, f, g, h})
  OBVIOUS
<1>9. QED
  BY <1>1, <1>2, <1>3, <1>4, <1>5, <1>6, <1>7, <1>8 DEF IsPasses

LEMMA FromPass ==
  ASSUME NEW passes, NEW i \in DOMAIN passes
  PROVE  passes[i].swap \subseteq Replaced(passes) /\ passes[i].first \subseteq Replaced(passes)
BY DEF Replaced

LEMMA CommonEdits ==
  /\ Csp.swap = {"csp"} /\ Avatars.swap = {"avatar-stack"}
  /\ Plugins.swap = {"plugin-scope"}
  /\ Thread.swap = {"thread-component", "thread-section"}
BY DEF Csp, Plugins, Thread, Avatars, On

\* Every adapter replaces what routing needs, in whichever bundles it is.
LEMMA Edits26820 ==
  IsPasses(Renderer26820) /\ Routing \subseteq Replaced(Renderer26820)
<1>1. Initial26820.swap = MenuEdits \cup ResetModal \cup ResetHooks \cup Requests
                            \cup DepletionMessages
  BY DEF On, Initial26820
<1>2. IsPasses(Renderer26820)
  BY Literal DEF Renderer26820
<1>3. \A x \in {Csp, Initial26820, Avatars, Plugins, Thread} :
         x.swap \subseteq Replaced(Renderer26820)
  BY DEF Renderer26820, Replaced
<1>4. QED
  BY <1>1, <1>2, <1>3, CommonEdits DEF Routing, MenuEdits

LEMMA Edits26901 ==
  IsPasses(Renderer26901) /\ Routing \subseteq Replaced(Renderer26901)
<1>1. IsPasses(Renderer26901)
  BY Literal DEF Renderer26901
<1>2. /\ DOMAIN Renderer26901 = 1..6
      /\ Renderer26901[1] = Csp /\ Renderer26901[4] = Avatars
      /\ Renderer26901[5] = Plugins /\ Renderer26901[6] = Thread
      /\ MenuEdits \cup ResetModal \subseteq Renderer26901[2].swap
      /\ Renderer26901[3].swap = ResetHooks \cup Requests
  BY DEF Renderer26901, On
<1>3. \A i \in 1..6 : Renderer26901[i].swap \subseteq Replaced(Renderer26901)
  BY <1>2, FromPass
<1>4. QED
  BY <1>1, <1>2, <1>3, CommonEdits DEF Routing, MenuEdits


LEMMA Edits26903 ==
  ASSUME NEW v
  PROVE  IsPasses(Renderer26903(v)) /\ Routing \subseteq Replaced(Renderer26903(v))
<1> DEFINE R == Renderer26903(v)
<1>1. IsPasses(R)
  BY Literal DEF Renderer26903
<1>2. /\ DOMAIN R = 1..6
      /\ R[1] = Csp /\ R[5] = Plugins /\ R[6] = Thread
  BY DEF Renderer26903
<1>3. MenuEdits \cup ResetModal \subseteq R[2].swap
  BY DEF Renderer26903, On
<1>4. R[3].swap = ResetHooks \cup Requests
  BY DEF Renderer26903, On
<1>5. "avatar-stack" \in R[4].swap
  BY DEF Renderer26903, On, Avatars
<1> HIDE DEF R
<1>6. \A i \in 1..6 : R[i].swap \subseteq Replaced(R)
  BY <1>2, FromPass
<1>7. {"csp", "plugin-scope", "thread-component", "thread-section", "avatar-stack"}
        \subseteq Replaced(R)
  BY <1>2, <1>3, <1>4, <1>5, <1>6, CommonEdits
<1>8. {"menu-component", "usage-slot"} \cup ResetModal \cup ResetHooks \cup Requests
        \subseteq Replaced(R)
  BY <1>3, <1>4, <1>5, <1>6 DEF MenuEdits
<1>9. QED
  BY <1>1, <1>7, <1>8 DEF Routing, R

LEMMA Edits26915 ==
  IsPasses(Renderer26915) /\ Routing \subseteq Replaced(Renderer26915)
<1> DEFINE R == Renderer26915
<1>1. IsPasses(R)
  BY Literal DEF Renderer26915
<1>2. /\ DOMAIN R = 1..6
      /\ R[1] = Csp /\ R[4] = Avatars /\ R[5] = Plugins /\ R[6] = Thread
  BY DEF Renderer26915
<1>3. MenuEdits \cup ResetModal \cup ResetHooks \cup Requests \subseteq R[2].swap
  BY DEF Renderer26915, On
<1> HIDE DEF R
<1>4. \A i \in 1..6 : R[i].swap \subseteq Replaced(R)
  BY <1>2, FromPass
<1>5. {"csp", "plugin-scope", "thread-component", "thread-section", "avatar-stack"}
        \subseteq Replaced(R)
  BY <1>2, <1>3, <1>4, CommonEdits
<1>6. {"menu-component", "usage-slot"} \cup ResetModal \cup ResetHooks \cup Requests
        \subseteq Replaced(R)
  BY <1>3, <1>4 DEF MenuEdits
<1>7. QED
  BY <1>1, <1>5, <1>6 DEF Routing, R

LEMMA Edits26917 ==
  IsPasses(Renderer26917) /\ Routing \subseteq Replaced(Renderer26917)
<1> DEFINE R == Renderer26917
<1>1. IsPasses(R)
  BY Literal DEF Renderer26917
<1>2. /\ DOMAIN R = 1..6
      /\ R[1] = Csp /\ R[4] = Avatars /\ R[5] = Plugins /\ R[6] = Thread
  BY DEF Renderer26917
<1>3. MenuEdits \cup ResetModal \cup ResetHooks \cup Requests \subseteq R[2].swap
  BY DEF Renderer26917, On
<1> HIDE DEF R
<1>4. \A i \in 1..6 : R[i].swap \subseteq Replaced(R)
  BY <1>2, FromPass
<1>5. {"csp", "plugin-scope", "thread-component", "thread-section", "avatar-stack"}
        \subseteq Replaced(R)
  BY <1>2, <1>3, <1>4, CommonEdits
<1>6. {"menu-component", "usage-slot"} \cup ResetModal \cup ResetHooks \cup Requests
        \subseteq Replaced(R)
  BY <1>3, <1>4 DEF MenuEdits
<1>7. QED
  BY <1>1, <1>5, <1>6 DEF Routing, R

LEMMA Edits26930 ==
  IsPasses(Renderer26930) /\ Routing \subseteq Replaced(Renderer26930)
<1> DEFINE R == Renderer26930
<1>1. IsPasses(R)
  BY Literal DEF Renderer26930
<1>2. /\ DOMAIN R = 1..8
      /\ R[6] = Plugins /\ R[7] = Thread /\ R[8] = Csp
  BY DEF Renderer26930
<1>3. {"menu-component", "usage-slot"} \subseteq R[1].swap
  BY DEF Renderer26930, On
<1>4. ResetHooks \cup {"profile-data"} \subseteq R[2].swap
  BY DEF Renderer26930, On
<1>5. Requests \subseteq R[2].swap \cup R[3].swap
  BY DEF Renderer26930, On, Requests
<1>6. ResetModal \subseteq R[4].swap
  BY DEF Renderer26930, On
<1>7. "avatar-stack" \in R[5].swap
  BY DEF Renderer26930, On, Avatars
<1> HIDE DEF R
<1>8. \A i \in 1..8 : R[i].swap \subseteq Replaced(R)
  BY <1>2, FromPass
<1>9. {"csp", "plugin-scope", "thread-component", "thread-section", "avatar-stack"}
        \subseteq Replaced(R)
  BY <1>2, <1>3, <1>4, <1>5, <1>6, <1>7, <1>8, CommonEdits
<1>10. {"menu-component", "usage-slot"} \cup ResetModal \cup ResetHooks \cup Requests
        \subseteq Replaced(R)
  BY <1>3, <1>4, <1>5, <1>6, <1>7, <1>8 DEF MenuEdits
<1>11. QED
  BY <1>1, <1>9, <1>10 DEF Routing, R


LEMMA Edits26924 ==
  IsPasses(Renderer26924) /\ Routing \subseteq Replaced(Renderer26924)
<1> DEFINE M == <<Csp, Menu26924>>
<1>1. /\ IsPasses(M) /\ IsPasses(Eager26924) /\ IsPasses(Surfaces26924)
  BY Literal DEF Eager26924, Surfaces26924
<1>2. {"csp", "menu-component", "usage-slot"} \subseteq Replaced(M)
  <2>1. DOMAIN M = 1..2 /\ M[1] = Csp /\ M[2] = Menu26924
    OBVIOUS
  <2>2. Menu26924.swap = {"menu-component", "usage-slot"}
    BY DEF Menu26924, On
  <2> HIDE DEF M
  <2>3. M[1].swap \cup M[2].swap \subseteq Replaced(M)
    BY <2>1, FromPass
  <2>4. QED
    BY <2>1, <2>2, <2>3, CommonEdits
<1>3. ResetModal \cup ResetHooks \cup Requests \subseteq Replaced(Eager26924)
  <2>1. DOMAIN Eager26924 = 1..3
    BY DEF Eager26924
  <2>2. Eager26924[1].swap = ResetHooks \cup {"profile-data"}
    BY DEF Eager26924, On
  <2>3. Eager26924[2].swap = {"request-scope"}
    BY DEF Eager26924, On
  <2>4. Eager26924[3].swap = ResetModal
    BY DEF Eager26924, On
  <2>5. \A i \in 1..3 : Eager26924[i].swap \subseteq Replaced(Eager26924)
    BY <2>1, FromPass
  <2>6. QED
    BY <2>2, <2>3, <2>4, <2>5 DEF Requests
<1>4. {"plugin-scope", "avatar-stack", "thread-component", "thread-section"}
        \subseteq Replaced(Surfaces26924)
  <2>1. DOMAIN Surfaces26924 = 1..4 /\ Surfaces26924[4] = Thread
    BY DEF Surfaces26924
  <2>2. "avatar-stack" \in Surfaces26924[2].swap /\ "plugin-scope" \in Surfaces26924[3].swap
    BY DEF Surfaces26924, Avatars, Plugins, On
  <2>3. \A i \in 1..4 : Surfaces26924[i].swap \subseteq Replaced(Surfaces26924)
    BY <2>1, FromPass
  <2>4. QED
    BY <2>1, <2>2, <2>3, CommonEdits
<1> HIDE DEF M
<1>5. /\ IsPasses(M \o Eager26924)
      /\ Replaced(M \o Eager26924) = Replaced(M) \cup Replaced(Eager26924)
  BY <1>1, Joined
<1>6. Renderer26924 = (M \o Eager26924) \o Surfaces26924
  BY DEF Renderer26924, M
<1>7. /\ IsPasses(Renderer26924)
      /\ Replaced(Renderer26924) =
           Replaced(M) \cup Replaced(Eager26924) \cup Replaced(Surfaces26924)
  BY <1>1, <1>5, <1>6, Joined
<1>8. QED
  BY <1>2, <1>3, <1>4, <1>7 DEF Routing

LEMMA RendererEdits ==
  \A v \in WindowsVersions : IsPasses(Renderer(v)) /\ Routing \subseteq Replaced(Renderer(v))
BY Edits26820, Edits26901, Edits26903, Edits26915, Edits26917, Edits26924, Edits26930 DEF Renderer, WindowsVersions

LEMMA BootstrapEdits ==
  ASSUME NEW v
  PROVE  LET edits == Replaced(Bootstrap(v))
         IN /\ IsPasses(Bootstrap(v))
            /\ {"app-name", "app-id"} \subseteq edits
            /\ UpdaterOff(edits)
<1> DEFINE B == Bootstrap(v)
<1>1. IsPasses(B) /\ DOMAIN B = 1..1
  BY Literal DEF Bootstrap
<1>2. "app-name" \in B[1].first
  BY DEF Bootstrap, On
<1>3. "app-id" \in B[1].swap \cup B[1].first
  BY DEF Bootstrap, On
<1>4. \/ {"updater-policy", "updater-recovery"} \subseteq B[1].swap
      \/ "updater-startup" \in B[1].first
  <2>1. CASE Latest(v)
    BY <2>1 DEF Bootstrap, On
  <2>2. CASE ~Latest(v) /\ Inlined(v)
    BY <2>2 DEF Bootstrap, On
  <2>3. CASE ~Latest(v) /\ ~Inlined(v)
    BY <2>3 DEF Bootstrap, On
  <2>4. QED
    BY <2>1, <2>2, <2>3
<1> HIDE DEF B
<1>5. B[1].swap \cup B[1].first \subseteq Replaced(B)
  BY <1>1, FromPass
<1>6. QED
  BY <1>1, <1>2, <1>3, <1>4, <1>5 DEF B, UpdaterOff

LEMMA RuntimeEdits ==
  ASSUME NEW v
  PROVE  /\ IsPasses(RuntimePaths(v))
         /\ {"runtime-cache", "log-root", "worker-log"} \subseteq Replaced(RuntimePaths(v))
<1> DEFINE L == LogPaths(v)
           O == << [On(IF Latest(v) THEN "application-network-startup" ELSE "src")
                      EXCEPT !.swap = {"runtime-cache"}] >>
<1>1. RuntimePaths(v) = O \o L
  BY DEF RuntimePaths
<1>2. IsPasses(O) /\ IsPasses(L)
  BY Literal DEF LogPaths
<1>3. DOMAIN O = 1..1 /\ O[1].swap = {"runtime-cache"}
  BY DEF On
<1>4. DOMAIN L = 1..2
  BY DEF LogPaths
<1>5. L[1].swap = {"log-root"}
  BY DEF LogPaths, On
<1>6. L[2].swap = {"worker-log"}
  BY DEF LogPaths, On
<1> HIDE DEF L, O
<1>7. "runtime-cache" \in Replaced(O)
  BY <1>3, FromPass
<1>8. {"log-root", "worker-log"} \subseteq Replaced(L)
  BY <1>4, <1>5, <1>6, FromPass
<1>9. QED
  BY <1>1, <1>2, <1>7, <1>8, Joined

LEMMA MainEdits ==
  ASSUME NEW v
  PROVE  /\ IsPasses(NativeMessaging(v)) /\ IsPasses(AppshotsGate(v))
         /\ IsPasses(IntegrationIsolation(v)) /\ IsPasses(AppshotsContract)
         /\ {"registry-delete", "registry-add", "manifest-read", "state-paths", "global-state"}
              \subseteq Replaced(NativeMessaging(v))
         /\ "feature-gate" \in Replaced(AppshotsGate(v))
<1> DEFINE N == NativeMessaging(v)
           G == AppshotsGate(v)
<1>1. IsPasses(N) /\ IsPasses(G) /\ IsPasses(IntegrationIsolation(v)) /\ IsPasses(AppshotsContract)
  BY Literal DEF NativeMessaging, AppshotsGate, IntegrationIsolation, AppshotsContract
<1>2. /\ DOMAIN N = 1..1
      /\ N[1].swap = {"registry-delete", "registry-add", "manifest-read", "state-paths",
                      "global-state"}
  BY DEF NativeMessaging, On
<1>3. DOMAIN G = 1..1 /\ "feature-gate" \in G[1].swap
  BY DEF AppshotsGate, On
<1> HIDE DEF N, G
<1>4. N[1].swap \subseteq Replaced(N) /\ G[1].swap \subseteq Replaced(G)
  BY <1>2, <1>3, FromPass
<1>5. QED
  BY <1>1, <1>2, <1>3, <1>4 DEF N, G

\* Whatever the release: no edit the application must have is left out of it.
LEMMA WindowsEdits ==
  ASSUME NEW v \in WindowsVersions
  PROVE  /\ Routing \cup WindowsIsolation \subseteq Replaced(WindowsPasses(v))
         /\ UpdaterOff(Replaced(WindowsPasses(v)))
<1> DEFINE p1 == IntegrationIsolation(v)
           p2 == p1 \o Bootstrap(v)
           p3 == p2 \o RuntimePaths(v)
           p4 == p3 \o NativeMessaging(v)
           p5 == p4 \o AppshotsGate(v)
           p6 == p5 \o AppshotsContract
           p7 == p6 \o Renderer(v)
<1>1. IsPasses(p1)
  BY MainEdits
<1>2. IsPasses(p2) /\ Replaced(Bootstrap(v)) \subseteq Replaced(p2)
  BY <1>1, BootstrapEdits, Joined
<1>3. IsPasses(p3) /\ Replaced(p2) \cup Replaced(RuntimePaths(v)) \subseteq Replaced(p3)
  BY <1>2, RuntimeEdits, Joined
<1>4. IsPasses(p4) /\ Replaced(p3) \cup Replaced(NativeMessaging(v)) \subseteq Replaced(p4)
  BY <1>3, MainEdits, Joined
<1>5. IsPasses(p5) /\ Replaced(p4) \cup Replaced(AppshotsGate(v)) \subseteq Replaced(p5)
  BY <1>4, MainEdits, Joined
<1>6. IsPasses(p6) /\ Replaced(p5) \subseteq Replaced(p6)
  BY <1>5, MainEdits, Joined
<1>7. Replaced(p6) \cup Replaced(Renderer(v)) \subseteq Replaced(p7)
  BY <1>6, RendererEdits, Joined
<1>8. p7 = WindowsPasses(v)
  BY DEF WindowsPasses
<1> HIDE DEF p2, p3, p4, p5, p6, p7
<1>9. Routing \subseteq Replaced(p7)
  BY <1>7, RendererEdits
<1>10. WindowsIsolation \subseteq Replaced(p7)
  <2>1. {"app-name", "app-id"} \subseteq Replaced(p7)
    BY <1>3, <1>4, <1>5, <1>6, <1>7, <1>2, BootstrapEdits
  <2>2. {"runtime-cache", "log-root", "worker-log"} \subseteq Replaced(p7)
    BY <1>3, <1>4, <1>5, <1>6, <1>7, RuntimeEdits
  <2>3. {"registry-delete", "registry-add", "manifest-read", "state-paths", "global-state",
         "feature-gate"} \subseteq Replaced(p7)
    BY <1>4, <1>5, <1>6, <1>7, MainEdits
  <2>4. QED
    BY <2>1, <2>2, <2>3 DEF WindowsIsolation
<1>11. UpdaterOff(Replaced(p7))
  <2>1. Replaced(Bootstrap(v)) \subseteq Replaced(p7)
    BY <1>2, <1>3, <1>4, <1>5, <1>6, <1>7
  <2>2. UpdaterOff(Replaced(Bootstrap(v)))
    BY BootstrapEdits
  <2>3. QED
    BY <2>1, <2>2 DEF UpdaterOff
<1>12. QED
  BY <1>8, <1>9, <1>10, <1>11

-----------------------------------------------------------------------------
(* What is published                                                       *)

\* A copy that was staged, of a source that was compared or allowed, is whole.
LEMMA StagedIsWhole ==
  ASSUME NEW s \in Sources, NEW b, ~StagingRefuses(s), b.allow \/ Approved(s)
  PROVE  Whole(s, b)
<1> DEFINE v == s.version
           c1 == WithArchive(s, Copied(s))
           c2 == WithLauncher(c1)
           copy == WithIntegrity(s, c2)
<1>1. /\ v \in WindowsVersions /\ s.altered \subseteq Parts
      /\ KeptRuntime(v) /\ s.altered \cap {"chatgpt", "chrome"} = {} => ~s.bound
  BY SourceAssumption
<1>2. Accepts(WindowsPasses(v), s.drift) /\ ~RebindRefuses(s)
  BY DEF StagingRefuses
<1> DEFINE edits == Edits(WindowsPasses(v), s.drift)
           firsts == Firsts(WindowsPasses(v), s.drift)
<1>3. Lacks(edits \cup firsts, WindowsIsolation) = {}
  <2>1. edits \cup firsts = Replaced(WindowsPasses(v))
    BY <1>2, AcceptedEdits
  <2>2. /\ Routing \cup WindowsIsolation \subseteq Replaced(WindowsPasses(v))
        /\ UpdaterOff(Replaced(WindowsPasses(v)))
    BY <1>1, WindowsEdits
  <2>3. QED
    BY <2>1, <2>2 DEF Lacks
<1>4. /\ c1.archive = "patched" /\ c1.edits = edits /\ c1.firsts = firsts
      /\ c1.demands = IF s.bound THEN "official" ELSE "any"
  BY DEF WithArchive, Copied
<1>5. /\ c2.archive = "patched" /\ c2.edits = edits /\ c2.firsts = firsts
      /\ c2.demands = c1.demands /\ c2.desktop = "launcher" /\ c2.codex = "mux"
  BY DEF WithArchive, Copied, WithLauncher
<1>6. /\ copy.archive = "patched" /\ copy.edits = edits /\ copy.firsts = firsts
      /\ copy.desktop = "launcher" /\ copy.codex = "mux"
  BY DEF WithArchive, Copied, WithLauncher, WithIntegrity
<1>7. copy.demands = IF IsSplitRenderer(v) /\ ~KeepsSigned(s) THEN "patched" ELSE c1.demands
  BY DEF WithArchive, Copied, WithLauncher, WithIntegrity
<1>8. IsSplitRenderer(v) => copy.demands \in {"any", copy.archive}
  <2>1. CASE IsSplitRenderer(v) /\ ~KeepsSigned(s)
    BY <1>6, <1>7, <2>1
  <2>2. CASE IsSplitRenderer(v) /\ KeepsSigned(s)
    <3>1. ~s.bound
      BY <1>1, <1>2, <2>2 DEF KeepsSigned, RebindRefuses
    <3>2. QED
      BY <1>4, <1>7, <2>2, <3>1
  <2>3. QED
    BY <2>1, <2>2
<1>9. \/ b.allow
      \/ firsts = {} /\ s.drift = NoDrift /\ s.altered \subseteq Unreviewed(v)
  <2> SUFFICES ASSUME Approved(s)
               PROVE  firsts = {} /\ s.drift = NoDrift /\ s.altered \subseteq Unreviewed(v)
    OBVIOUS
  <2>0. firsts = {}
    <3>1. ~s.drift.more
      BY DEF Approved, NoDrift, Drift
    <3>2. QED
      BY <3>1, ReviewedFirsts
  <2>1. s.drift = NoDrift /\ s.altered \cap Recorded(v) = {}
    BY DEF Approved
  <2>2. CASE Latest(v)
    BY <1>1, <2>0, <2>1, <2>2 DEF Recorded, Unreviewed
  <2>3. CASE ~Latest(v)
    <3>1. s.altered \subseteq {"chrome", "signer"}
      BY <1>1, <2>1, <2>3 DEF Recorded, Parts
    <3>2. KeptRuntime(v) => "chrome" \notin s.altered
      BY <1>1, <1>2, <3>1 DEF RebindRefuses, KeepsSigned, KeptRuntime, IsSplitRenderer
    <3>3. QED
      BY <2>0, <2>1, <2>3, <3>1, <3>2 DEF Unreviewed
  <2>4. QED
    BY <2>2, <2>3
<1>10. copy = StagedCopy(s)
  BY DEF StagedCopy
<1> HIDE DEF copy, edits, firsts
<1>11. QED
  BY <1>3, <1>6, <1>8, <1>9, <1>10 DEF Whole

\* What is allowed to be published: a copy that was staged, of a source that
\* was compared with a reviewed release or allowed by the user.
Permitted(allow) == ~StagingRefuses(source) /\ (allow \/ Approved(source))

CheckedInv ==
  /\ source \in Sources
  /\ \A r \in Run :
       /\ Active(r) => run[r].allow \/ Approved(source)
       /\ pc[r] \in {"staged", "writing", "moving", "publishing"} => ~StagingRefuses(source)
  /\ \A b \in Elsewhere \cup {dest} : b # NoApp /\ b.by # Old => Permitted(b.allow)

LEMMA InitChecked == Init => CheckedInv
BY DEF Init, CheckedInv, Elsewhere, Active, OldBuild, Build

\* No step makes an application but the rename into place.
LEMMA StepMakes ==
  ASSUME WInv, [Next]_vars, NEW b \in Elsewhere' \cup {dest'}
  PROVE  \/ b \in Elsewhere \cup {dest, NoApp}
         \/ \E r \in Run : /\ pc[r] = "publishing"
                           /\ b = Build(r, run[r].token, run[r].planned, run[r].allow)
<1>0. /\ backups \in [Run -> Builds \cup {NoApp}] /\ aside \in [Run -> Builds \cup {NoApp}]
  BY DEF WInv, PlacesInv
<1>1. b = dest' \/ \E q \in Run : b = backups'[q] \/ b = aside'[q]
  BY DEF Elsewhere
<1>2. CASE UNCHANGED pubVars
  BY <1>2 DEF pubVars, Elsewhere
<1>3. ASSUME NEW r \in Run, MoveOld(r) \/ SetAside(r), dest # NoApp
      PROVE  b \in Elsewhere \cup {dest, NoApp}
  <2>1. /\ dest' = NoApp
        /\ \A q \in Run : backups'[q] \in {backups[q], dest} /\ aside'[q] \in {aside[q], dest}
    BY <1>0, <1>3 DEF MoveOld, SetAside
  <2>2. QED
    BY <1>1, <2>1 DEF Elsewhere
<1>4. ASSUME NEW r \in Run, RestoreOld(r), ~UNCHANGED pubVars
      PROVE  b \in Elsewhere \cup {dest, NoApp}
  <2>1. /\ dest' = backups[r] /\ aside' = aside
        /\ \A q \in Run : backups'[q] \in {backups[q], NoApp}
    BY <1>0, <1>4 DEF RestoreOld
  <2>2. QED
    BY <1>1, <2>1 DEF Elsewhere
<1>5. ASSUME NEW r \in Run, Publish(r) \/ InterruptPublished(r)
      PROVE  \/ b \in Elsewhere \cup {dest, NoApp}
             \/ /\ pc[r] = "publishing"
                /\ b = Build(r, run[r].token, run[r].planned, run[r].allow)
  BY <1>1, <1>5 DEF Publish, InterruptPublished, Elsewhere
<1>6. \/ UNCHANGED pubVars
      \/ \E r \in Run : \/ (MoveOld(r) \/ SetAside(r)) /\ dest # NoApp
                        \/ RestoreOld(r) /\ ~UNCHANGED pubVars
                        \/ Publish(r) \/ InterruptPublished(r)
  <2>1. ASSUME NEW r \in Run, MoveOld(r) \/ SetAside(r)
        PROVE  dest # NoApp \/ UNCHANGED pubVars
    BY <2>1 DEF MoveOld, SetAside
  <2>2. QED
    BY <2>1 DEF Next, Begin, Stage, StageFails, CreateToken, KeepToken, WriteToken,
       WriteTokenFails, InstallFails, PublishFails, RollbackFails, Interrupt, Cleanup,
       CleanupFails, Crash, LaunchRouter, vars
<1>7. QED
  BY <1>2, <1>3, <1>4, <1>5, <1>6

\* Where a run comes from, and that it keeps what it was allowed.
LEMMA StepAllows ==
  ASSUME WInv, [Next]_vars, NEW r \in Run, Active(r)'
  PROVE  \/ Active(r) /\ run'[r].allow = run[r].allow
         \/ pc'[r] = "begun" /\ (run'[r].allow \/ Approved(source))
<1>0. run \in [Run -> RunRecords] /\ pc \in [Run -> Places]
  BY DEF WInv, ProgressInv
<1>1. ASSUME NEW q \in Run, NEW force \in BOOLEAN, NEW dry \in BOOLEAN,
             NEW allow \in BOOLEAN, Begin(q, force, dry, allow)
      PROVE  \/ Active(r) /\ run'[r].allow = run[r].allow
             \/ pc'[r] = "begun" /\ (run'[r].allow \/ Approved(source))
  <2> DEFINE others == {p \in Run : Active(p)}
             mine == [NotRun EXCEPT !.force = force, !.dry = dry, !.allow = allow,
                                !.token = PreparedToken(q), !.fresh = (token = NoToken),
                                !.alone = (others = {}),
                                !.before = [dest |-> dest, token |-> token]]
  <2>1. /\ pc' = [pc EXCEPT ![q] = "begun"] /\ (Approved(source) \/ allow)
        /\ run' = [p \in Run |-> IF p = q THEN mine
                      ELSE IF p \in others THEN [run[p] EXCEPT !.alone = FALSE] ELSE run[p]]
    BY <1>1 DEF Begin, GoTo
  <2>2. mine.allow = allow
    BY DEF NotRun, Raised
  <2> HIDE DEF mine
  <2>3. CASE r = q
    BY <1>0, <2>1, <2>2, <2>3
  <2>4. CASE r # q
    <3>1. Active(r)
      BY <1>0, <2>1, <2>4 DEF Active
    <3>2. run'[r].allow = run[r].allow
      BY <1>0, <2>1, <2>4 DEF RunRecords, Raised
    <3>3. QED
      BY <3>1, <3>2
  <2>5. QED
    BY <2>3, <2>4
<1>2. ASSUME NEW q \in Run,
             \/ Stage(q) \/ StageFails(q) \/ CreateToken(q) \/ KeepToken(q)
             \/ WriteToken(q) \/ WriteTokenFails(q) \/ MoveOld(q) \/ InstallFails(q)
             \/ Publish(q) \/ PublishFails(q) \/ SetAside(q) \/ RestoreOld(q)
             \/ RollbackFails(q) \/ Interrupt(q) \/ InterruptPublished(q)
             \/ Cleanup(q) \/ CleanupFails(q) \/ Crash(q)
      PROVE  Active(r) /\ run'[r].allow = run[r].allow
  <2>0. run[q].ends \in Raised
    BY <1>0 DEF RunRecords
  <2>1. /\ Active(q)
        /\ \E place \in Places : pc' = [pc EXCEPT ![q] = place]
    BY <1>2, <2>0 DEF Stage, StageFails, CreateToken, KeepToken, WriteToken, WriteTokenFails,
       MoveOld, InstallFails, Publish, PublishFails, SetAside, RestoreOld, RollbackFails,
       Interrupt, InterruptPublished, Cleanup, CleanupFails, Crash, GoTo, End, Active,
       Over, Places, Raised
  <2>2. \/ \E e \in Over : End(q, e)
        \/ run' = run
        \/ \E x \in BOOLEAN, y \in BOOLEAN :
              run' = [run EXCEPT ![q] = [run[q] EXCEPT !.rootPre = x, !.planned = y]]
        \/ run' = [run EXCEPT ![q] = [run[q] EXCEPT !.persisted = TRUE]]
        \/ run' = [run EXCEPT ![q] = [run[q] EXCEPT !.moved = TRUE]]
        \/ \E e \in Raised : run' = [run EXCEPT ![q] = [run[q] EXCEPT !.ends = e]]
    <3>1. CASE Stage(q)
      <4>1. root \in BOOLEAN /\ PlansBackup \in BOOLEAN
        BY DEF WInv, ProgressInv, PlansBackup
      <4>2. QED
        BY <3>1, <4>1 DEF Stage, Over, Raised
    <3>2. CASE StageFails(q) \/ Publish(q) \/ Cleanup(q) \/ CleanupFails(q) \/ Crash(q)
      BY <2>0, <3>2 DEF StageFails, Publish, Cleanup, CleanupFails, Crash, Over, Raised
    <3>3. CASE \/ CreateToken(q) \/ KeepToken(q) \/ InstallFails(q) \/ PublishFails(q)
               \/ SetAside(q) \/ RestoreOld(q) \/ WriteTokenFails(q)
      BY <3>3 DEF CreateToken, KeepToken, WriteTokenFails, InstallFails, PublishFails,
         SetAside, RestoreOld
    <3>4. CASE \/ WriteToken(q) \/ MoveOld(q) \/ RollbackFails(q)
               \/ Interrupt(q) \/ InterruptPublished(q)
      BY <3>4 DEF WriteToken, MoveOld, RollbackFails, Interrupt, InterruptPublished, Raised
    <3>5. QED
      BY <1>2, <3>1, <3>2, <3>3, <3>4
  <2>3. CASE r # q
    BY <1>0, <2>1, <2>2, <2>3 DEF Active, End
  <2>4. CASE r = q
    <3>1. ~\E e \in Over : End(q, e)
      BY <1>0, <2>4 DEF End, GoTo, Active
    <3>2. run[q] \in RunRecords
      BY <1>0
    <3>3. \A x \in BOOLEAN, y \in BOOLEAN :
            /\ [run[q] EXCEPT !.rootPre = x, !.planned = y].allow = run[q].allow
            /\ [run[q] EXCEPT !.persisted = x].allow = run[q].allow
            /\ [run[q] EXCEPT !.moved = x].allow = run[q].allow
            /\ \A e \in Raised : [run[q] EXCEPT !.ends = e].allow = run[q].allow
      BY <3>2 DEF RunRecords, Raised
    <3>4. \/ run'[q] = run[q]
          \/ \E x \in BOOLEAN, y \in BOOLEAN :
                \/ run'[q] = [run[q] EXCEPT !.rootPre = x, !.planned = y]
                \/ run'[q] = [run[q] EXCEPT !.persisted = x]
                \/ run'[q] = [run[q] EXCEPT !.moved = x]
                \/ \E e \in Raised : run'[q] = [run[q] EXCEPT !.ends = e]
      BY <1>0, <2>2, <3>1
    <3>5. QED
      BY <2>1, <2>4, <3>3, <3>4
  <2>5. QED
    BY <2>3, <2>4
<1>3. ASSUME LaunchRouter
      PROVE  Active(r) /\ run'[r].allow = run[r].allow
  BY <1>0, <1>3 DEF LaunchRouter, Active, RunRecords, Raised
<1>4. CASE UNCHANGED vars
  BY <1>4 DEF vars, Active
<1>5. QED
  BY <1>1, <1>2, <1>3, <1>4 DEF Next

LEMMA NextChecked == WInv /\ CheckedInv /\ [Next]_vars => CheckedInv'
<1> SUFFICES ASSUME WInv, CheckedInv, [Next]_vars PROVE CheckedInv'
  OBVIOUS
<1>1. source' = source
  BY DEF Next, Begin, Stage, StageFails, CreateToken, KeepToken, WriteToken, WriteTokenFails,
     MoveOld, InstallFails, Publish, PublishFails, SetAside, RestoreOld, RollbackFails,
     Interrupt, InterruptPublished, Cleanup, CleanupFails, Crash, LaunchRouter, vars
<1>2. ASSUME NEW r \in Run, Active(r)' PROVE run'[r].allow \/ Approved(source)
  BY <1>2, StepAllows DEF CheckedInv
<1>3. ASSUME NEW r \in Run, pc'[r] \in {"staged", "writing", "moving", "publishing"}
      PROVE  ~StagingRefuses(source)
  <2>0. pc \in [Run -> Places]
    BY DEF WInv, ProgressInv
  <2>1. ASSUME NEW q \in Run,
               \/ Stage(q) \/ StageFails(q) \/ CreateToken(q) \/ KeepToken(q)
               \/ WriteToken(q) \/ WriteTokenFails(q) \/ MoveOld(q) \/ InstallFails(q)
               \/ Publish(q) \/ PublishFails(q) \/ SetAside(q) \/ RestoreOld(q)
               \/ RollbackFails(q) \/ Interrupt(q) \/ InterruptPublished(q)
               \/ Cleanup(q) \/ CleanupFails(q) \/ Crash(q)
        PROVE  pc[r] \in {"staged", "writing", "moving", "publishing"} \/ Stage(r)
    <3>1. CASE Stage(q)
      BY <1>3, <2>0, <3>1 DEF Stage, GoTo, End
    <3>2. CASE CreateToken(q) \/ KeepToken(q) \/ WriteToken(q) \/ MoveOld(q)
      BY <1>3, <2>0, <3>2 DEF CreateToken, KeepToken, WriteToken, MoveOld, GoTo
    <3>3. CASE \/ WriteTokenFails(q) \/ InstallFails(q) \/ PublishFails(q)
               \/ SetAside(q) \/ RestoreOld(q) \/ RollbackFails(q)
               \/ Interrupt(q) \/ InterruptPublished(q)
      <4>1. \E place \in {"cleanup", "rollback", "restoring"} :
              pc' = [pc EXCEPT ![q] = place]
        BY <3>3 DEF WriteTokenFails, InstallFails, PublishFails, SetAside, RestoreOld,
           RollbackFails, Interrupt, InterruptPublished, GoTo
      <4>2. QED
        BY <1>3, <2>0, <4>1
    <3>4. CASE StageFails(q) \/ Publish(q) \/ Cleanup(q) \/ CleanupFails(q) \/ Crash(q)
      <4>1. \E e \in Over : pc' = [pc EXCEPT ![q] = e]
        <5>1. run[q].ends \in Raised
          BY DEF WInv, ProgressInv, RunRecords
        <5>2. QED
          BY <3>4, <5>1 DEF StageFails, Publish, Cleanup, CleanupFails, Crash, End, GoTo,
             Over, Raised
      <4>2. QED
        BY <1>3, <2>0, <4>1 DEF Over, Raised
    <3>5. QED
      BY <2>1, <3>1, <3>2, <3>3, <3>4
  <2>2. ASSUME NEW q \in Run, \E force, dry, allow \in BOOLEAN : Begin(q, force, dry, allow)
        PROVE  pc[r] \in {"staged", "writing", "moving", "publishing"}
    BY <1>3, <2>0, <2>2 DEF Begin, GoTo
  <2>3. ASSUME LaunchRouter \/ UNCHANGED vars
        PROVE  pc[r] \in {"staged", "writing", "moving", "publishing"}
    BY <1>3, <2>3 DEF LaunchRouter, vars
  <2>4. pc[r] \in {"staged", "writing", "moving", "publishing"} \/ Stage(r)
    BY <2>1, <2>2, <2>3 DEF Next
  <2>5. QED
    BY <2>4 DEF CheckedInv, Stage
<1>4. ASSUME NEW b \in Elsewhere' \cup {dest'}, b # NoApp, b.by # Old
      PROVE  Permitted(b.allow)
  <2>1. CASE b \in Elsewhere \cup {dest, NoApp}
    BY <1>4, <2>1 DEF CheckedInv
  <2>2. ASSUME NEW r \in Run, pc[r] = "publishing",
               b = Build(r, run[r].token, run[r].planned, run[r].allow)
        PROVE  Permitted(b.allow)
    <3>1. b.allow = run[r].allow
      BY <2>2 DEF Build
    <3>2. Active(r)
      BY <2>2 DEF Active, Over, Raised
    <3>3. QED
      BY <2>2, <3>1, <3>2 DEF CheckedInv, Permitted
  <2>3. QED
    BY <2>1, <2>2, StepMakes
<1>5. QED
  BY <1>1, <1>2, <1>3, <1>4 DEF CheckedInv, Permitted

\* Every application that a run published is of a source that was checked.
THEOREM SourcesAreChecked == Spec => []CheckedInv
BY InitChecked, NextChecked, WindowsInvariant, PTL DEF Spec

\* Whatever a run has published has every edit at its first occurrence at
\* least, of any release and from any source, wherever it is now; an original
\* remains beside an edit only if the user allowed an untested source
\* (patch_extracted_asar, rebind_desktop_integrity, validate_approved_source).
THEOREM PublishedAreWhole == Spec => []PublishedIsWhole
<1>1. CheckedInv => PublishedIsWhole
  BY StagedIsWhole DEF CheckedInv, Permitted, PublishedIsWhole
<1>2. QED
  BY <1>1, SourcesAreChecked, PTL
=============================================================================
