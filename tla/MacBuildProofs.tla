--------------------------- MODULE MacBuildProofs ----------------------------
(***************************************************************************)
(* However many runs of the macOS patcher interleave, fail and die, there  *)
(* is one token, no application and no helper is overwritten or lost, and  *)
(* a publication that fails with nobody else at work is undone.  What a    *)
(* run publishes is whole, for any team and from any source.               *)
(***************************************************************************)
EXTENDS MacBuild, TLAPS

Early  == {"idle", "token", "writing", "ready", "staging", "staged"}
Tokens == Run \cup {Old}

\* The steps of a run after its beginning.
Step(r) ==
  \/ CreateToken(r) \/ WriteToken(r) \/ CheckTeam(r) \/ Stage(r) \/ StagingFails(r)
  \/ Look(r) \/ Register(r) \/ Crash(r)
  \/ \E i \in Item : \/ Move(r, i) \/ Publish(r, i) \/ RenameFails(r, i)
                     \/ SetAside(r, i) \/ Restore(r, i) \/ UndoFails(r, i)

\* A run that knows the token knows the one there is; one that writes it is
\* alone in that.
TokenInv ==
  /\ \A b \in Made : b.token = token
  /\ \A r \in Run :
       /\ Active(r) /\ Phase(r) \notin {"token", "writing"} =>
            run[r].token = token /\ token \in Tokens
       /\ Phase(r) = "writing" => token = Partial
  /\ \A r, q \in Run : Phase(r) = "writing" /\ Phase(q) = "writing" => q = r

MInv == MTypeOK /\ TokenInv

-----------------------------------------------------------------------------
(* The shape of the state                                                  *)

LEMMA Located ==
  ASSUME MTypeOK, NEW r \in Run, NEW p \in Phases, NEW i \in Item, GoTo(r, p, i)
  PROVE  /\ pc' \in [Run -> Phases \X Item] /\ pc'[r] = <<p, i>>
         /\ \A q \in Run : q # r => pc'[q] = pc[q]
  BY DEF MTypeOK, GoTo

LEMMA NoRecord == NotRun \in RunRecords
<1>1. [i \in Item |-> NoApp] \in [Item -> Builds \cup {NoApp}]
  OBVIOUS
<1>2. QED
  BY <1>1, TeamAssumption DEF NotRun, RunRecords

LEMMA MetRecord ==
  ASSUME NEW x \in RunRecords
  PROVE  [x EXCEPT !.alone = FALSE] \in RunRecords /\ [x EXCEPT !.alone = FALSE].token = x.token
  BY DEF RunRecords

\* Where a step of a run leads, and that it is about this run alone.
LEMMA StepIsMine ==
  ASSUME MTypeOK, NEW r \in Run, Step(r)
  PROVE  /\ pc' \in [Run -> Phases \X Item] /\ run' \in [Run -> RunRecords]
         /\ \A q \in Run : q # r => pc'[q] = pc[q] /\ run'[q] = run[q]
         /\ Active(r)
<1>0. /\ run \in [Run -> RunRecords] /\ pc \in [Run -> Phases \X Item]
      /\ run[r] \in RunRecords
      /\ pc[r][1] \in Phases /\ pc[r] = <<Phase(r), pc[r][2]>>
  BY DEF MTypeOK, Phase
<1>1. \E p \in Phases, i \in Item : GoTo(r, p, i)
  <2>1. ASSUME NEW e \in Over, End(r, e) PROVE GoTo(r, e, "app")
    BY <2>1 DEF End
  <2>2. Over \subseteq Phases /\ {"app", "helper"} = Item
    BY DEF Phases, Item
  <2>3. ASSUME NEW i \in Item, NEW next \in Phases, Onward(r, i, next)
        PROVE  GoTo(r, Phase(r), "helper") \/ GoTo(r, next, "app")
    BY <2>3 DEF Onward
  <2>4. QED
    BY <1>0, <2>1, <2>2, <2>3 DEF Step, CreateToken, WriteToken, CheckTeam, Stage,
       StagingFails, Look, Register, Crash, Move, Publish, RenameFails, SetAside,
       Restore, UndoFails, Phases, Over, Phase
<1>2. \/ run' = run
      \/ \E x \in RunRecords : run' = [run EXCEPT ![r] = x]
  <2>1. CASE WriteToken(r)
    <3>1. [run[r] EXCEPT !.token = r] \in RunRecords
      BY <1>0 DEF RunRecords
    <3>2. QED
      BY <2>1, <3>1 DEF WriteToken
  <2>2. CASE Look(r)
    <3>1. [run[r] EXCEPT !.had = {i \in Item : installed[i] # NoApp}] \in RunRecords
      BY <1>0 DEF RunRecords
    <3>2. QED
      BY <2>2, <3>1 DEF Look
  <2>3. ASSUME NEW i \in Item, RenameFails(r, i)
        PROVE  \E x \in RunRecords : run' = [run EXCEPT ![r] = x]
    <3>1. Phase(r) \in {"move", "publish"}
      BY <2>3 DEF RenameFails, Phase
    <3>2. [run[r] EXCEPT !.raised = Phase(r)] \in RunRecords
      BY <1>0, <3>1 DEF RunRecords
    <3>3. QED
      BY <2>3, <3>2 DEF RenameFails
  <2>4. CASE \E e \in Over : End(r, e)
    BY <2>4, NoRecord DEF End
  <2>5. QED
    BY <2>1, <2>2, <2>3, <2>4 DEF Step, CreateToken, CheckTeam, Stage, StagingFails,
       Register, Crash, Move, Publish, SetAside, Restore, UndoFails, Over
<1>3. Active(r)
  BY <1>0 DEF Step, CreateToken, WriteToken, CheckTeam, Stage, StagingFails, Look,
     Register, Crash, Move, Publish, RenameFails, SetAside, Restore, UndoFails,
     Active, Over, Phase
<1>4. QED
  BY <1>0, <1>1, <1>2, <1>3, Located

\* The four renames.
Moved(r, i) ==
  \/ /\ Move(r, i) /\ installed[i] # NoApp
     /\ installed' = [installed EXCEPT ![i] = NoApp]
     /\ backups' = [backups EXCEPT ![r][i] = installed[i]]
     /\ aside' = aside
  \/ /\ Publish(r, i) /\ installed[i] = NoApp
     /\ installed' = [installed EXCEPT ![i] =
                        Build(r, run[r].team, run[r].token, run[r].allow)]
     /\ backups' = backups /\ aside' = aside
  \/ /\ SetAside(r, i) /\ installed[i] # NoApp
     /\ installed' = [installed EXCEPT ![i] = NoApp]
     /\ aside' = [aside EXCEPT ![r][i] = installed[i]]
     /\ backups' = backups
  \/ /\ Restore(r, i) /\ backups[r][i] # NoApp /\ installed[i] = NoApp
     /\ installed' = [installed EXCEPT ![i] = backups[r][i]]
     /\ backups' = [backups EXCEPT ![r][i] = NoApp]
     /\ aside' = aside

\* A step of a run moves nothing, or one thing.
LEMMA StepMoves ==
  ASSUME MTypeOK, NEW r \in Run, Step(r)
  PROVE  UNCHANGED pubVars \/ \E i \in Item : Moved(r, i)
<1>1. ASSUME NEW i \in Item, Move(r, i) \/ Publish(r, i) \/ SetAside(r, i) \/ Restore(r, i),
             ~UNCHANGED pubVars
      PROVE  Moved(r, i)
  BY <1>1 DEF Move, Publish, SetAside, Restore, Moved
<1>2. QED
  BY <1>1 DEF Step, CreateToken, WriteToken, CheckTeam, Stage, StagingFails, Look,
     Register, Crash, RenameFails, UndoFails

LEMMA Placed ==
  ASSUME NEW S, NEW f \in [Run -> [Item -> S]], NEW r \in Run, NEW i \in Item, NEW x \in S
  PROVE  [f EXCEPT ![r][i] = x] \in [Run -> [Item -> S]]
  OBVIOUS

LEMMA StepTypes ==
  ASSUME MInv, NEW r \in Run, Step(r)
  PROVE  MTypeOK'
<1>0. /\ installed \in [Item -> Builds \cup {NoApp}]
      /\ backups \in [Run -> [Item -> Builds \cup {NoApp}]]
      /\ aside \in [Run -> [Item -> Builds \cup {NoApp}]]
      /\ token \in Tokens \cup {NoToken, Partial}
      /\ run[r] \in RunRecords
  BY DEF MInv, MTypeOK, Tokens
<1>1. /\ installed' \in [Item -> Builds \cup {NoApp}]
      /\ backups' \in [Run -> [Item -> Builds \cup {NoApp}]]
      /\ aside' \in [Run -> [Item -> Builds \cup {NoApp}]]
  <2>1. CASE UNCHANGED pubVars
    BY <1>0, <2>1 DEF pubVars
  <2>2. ASSUME NEW i \in Item, Publish(r, i)
        PROVE  Build(r, run[r].team, run[r].token, run[r].allow) \in Builds
    <3>1. Active(r) /\ Phase(r) \notin {"token", "writing"}
      BY <2>2 DEF Publish, Active, Phase, Over
    <3>2. run[r].token \in Tokens
      BY <3>1 DEF MInv, TokenInv
    <3>3. run[r].team \in Teams /\ run[r].allow \in BOOLEAN
      BY <1>0 DEF RunRecords
    <3>4. QED
      BY <3>2, <3>3 DEF Build, Builds, Tokens
  <2>3. CASE ~UNCHANGED pubVars
    <3>1. PICK i \in Item : ~UNCHANGED pubVars /\ Moved(r, i)
      BY <2>3, StepMoves DEF MInv
    <3>2. installed[i] \in Builds \cup {NoApp} /\ backups[r][i] \in Builds \cup {NoApp}
      BY <1>0
    <3>3. installed' \in [Item -> Builds \cup {NoApp}]
      <4>1. \E x \in Builds \cup {NoApp} : installed' = [installed EXCEPT ![i] = x]
        BY <2>2, <3>1, <3>2 DEF Moved
      <4>2. QED
        BY <1>0, <4>1
    <3>4. backups' \in [Run -> [Item -> Builds \cup {NoApp}]]
      <4>1. \/ backups' = backups
            \/ \E x \in Builds \cup {NoApp} : backups' = [backups EXCEPT ![r][i] = x]
        BY <3>1, <3>2 DEF Moved
      <4>2. ASSUME NEW x \in Builds \cup {NoApp}
            PROVE  [backups EXCEPT ![r][i] = x] \in [Run -> [Item -> Builds \cup {NoApp}]]
        BY <1>0, Placed
      <4>3. QED
        BY <1>0, <4>1, <4>2
    <3>5. aside' \in [Run -> [Item -> Builds \cup {NoApp}]]
      <4>1. \/ aside' = aside
            \/ \E x \in Builds \cup {NoApp} : aside' = [aside EXCEPT ![r][i] = x]
        BY <3>1, <3>2 DEF Moved
      <4>2. ASSUME NEW x \in Builds \cup {NoApp}
            PROVE  [aside EXCEPT ![r][i] = x] \in [Run -> [Item -> Builds \cup {NoApp}]]
        BY <1>0, Placed
      <4>3. QED
        BY <1>0, <4>1, <4>2
    <3>6. QED
      BY <3>3, <3>4, <3>5
  <2>4. QED
    BY <2>1, <2>3
<1>2. token' \in Tokens \cup {NoToken, Partial}
  BY <1>0 DEF Step, CreateToken, WriteToken, CheckTeam, Stage, StagingFails, Look,
     Register, Crash, Move, Publish, RenameFails, SetAside, Restore, UndoFails, Tokens
<1>3. pc' \in [Run -> Phases \X Item] /\ run' \in [Run -> RunRecords]
  BY StepIsMine DEF MInv
<1>4. QED
  BY <1>1, <1>2, <1>3 DEF MTypeOK, Tokens

\* No step makes an application but Publish, which gives it the run's token.
LEMMA StepMakes ==
  ASSUME MInv, NEW r \in Run, Step(r), NEW b \in Made'
  PROVE  \/ b \in Made
         \/ \E i \in Item : /\ Publish(r, i) /\ b.token = run[r].token
                            /\ b = Build(r, run[r].team, run[r].token, run[r].allow)
<1>0. /\ installed \in [Item -> Builds \cup {NoApp}]
      /\ backups \in [Run -> [Item -> Builds \cup {NoApp}]]
      /\ aside \in [Run -> [Item -> Builds \cup {NoApp}]]
  BY DEF MInv, MTypeOK
<1>1. ASSUME NEW i \in Item PROVE installed[i] \in Made \cup {NoApp}
  BY <1>1 DEF Made
<1>2. ASSUME NEW i \in Item, NEW q \in Run
      PROVE  backups[q][i] \in Made \cup {NoApp} /\ aside[q][i] \in Made \cup {NoApp}
  BY <1>2 DEF Made, Kept
<1>3. CASE UNCHANGED pubVars
  BY <1>3 DEF pubVars, Made, Kept
<1>4. CASE \E i \in Item : Moved(r, i)
  <2>1. PICK i \in Item : Moved(r, i)
    BY <1>4
  <2>2. b # NoApp /\ \E j \in Item : \/ b = installed'[j]
                                     \/ \E q \in Run : b = backups'[q][j] \/ b = aside'[q][j]
    BY DEF Made, Kept
  <2>3. CASE Publish(r, i)
    <3>1. /\ installed' = [installed EXCEPT ![i] =
                               Build(r, run[r].team, run[r].token, run[r].allow)]
          /\ backups' = backups /\ aside' = aside
      BY <2>3, <1>0 DEF Publish
    <3>2. Build(r, run[r].team, run[r].token, run[r].allow).token = run[r].token
      BY DEF Build
    <3>3. CASE b = Build(r, run[r].team, run[r].token, run[r].allow)
      BY <2>3, <3>2, <3>3
    <3>4. CASE b # Build(r, run[r].team, run[r].token, run[r].allow)
      <4>1. \E j \in Item : \/ b = installed[j]
                            \/ \E q \in Run : b = backups[q][j] \/ b = aside[q][j]
        BY <1>0, <2>2, <3>1, <3>4
      <4>2. QED
        BY <1>1, <1>2, <2>2, <4>1
    <3>5. QED
      BY <3>3, <3>4
  <2>4. CASE ~Publish(r, i)
    <3>1. \E j \in Item : \/ b = installed[j]
                          \/ \E q \in Run : b = backups[q][j] \/ b = aside[q][j]
      BY <1>0, <2>1, <2>2, <2>4 DEF Moved
    <3>2. QED
      BY <1>1, <1>2, <2>2, <3>1
  <2>5. QED
    BY <2>3, <2>4
<1>5. QED
  BY <1>3, <1>4, StepMoves DEF MInv

-----------------------------------------------------------------------------
(* The token                                                               *)

LEMMA InitMInv == Init => MInv
<1> SUFFICES ASSUME Init PROVE MInv
  OBVIOUS
<1>1. \A team \in Teams : /\ Build(Old, team, Old, FALSE) \in Builds
                          /\ Build(Old, team, Old, FALSE).token = Old
  BY DEF Build, Builds
<1>2. MTypeOK
  BY <1>1, NoRecord DEF Init, MTypeOK, Phases, Over, Item
<1>3. \A r \in Run : Phase(r) = "idle" /\ ~Active(r)
  BY DEF Init, Phase, Active
<1>4. \A b \in Made : b.token = token
  BY <1>1 DEF Init, Made, Kept
<1>5. QED
  BY <1>2, <1>3, <1>4 DEF MInv, TokenInv

LEMMA BeginKeeps ==
  ASSUME MInv, NEW r \in Run, NEW force \in BOOLEAN, NEW allow \in BOOLEAN,
         NEW allowTeam \in BOOLEAN, NEW team \in Teams,
         Begin(r, force, allow, allowTeam, team)
  PROVE  /\ MInv'
         /\ Phase(r) = "idle" /\ pc'[r][1] \in {"token", "ready"}
         /\ \A q \in Run : q # r => pc'[q] = pc[q]
<1> DEFINE others == {q \in Run : Active(q)}
           mine == [NotRun EXCEPT !.allow = allow, !.allowTeam = allowTeam, !.team = team,
                              !.token = token, !.alone = (others = {}),
                              !.before = installed]
           place == IF token = NoToken THEN "token" ELSE "ready"
<1>1. /\ Phase(r) = "idle" /\ GoTo(r, place, "app") /\ token # Partial
      /\ UNCHANGED <<pubVars, token>>
      /\ run' = [q \in Run |-> IF q = r THEN mine
                    ELSE IF q \in others THEN [run[q] EXCEPT !.alone = FALSE] ELSE run[q]]
  BY DEF Begin
<1>2. /\ pc' \in [Run -> Phases \X Item] /\ pc'[r] = <<place, "app">>
      /\ \A q \in Run : q # r => pc'[q] = pc[q]
  <2>1. place \in Phases /\ "app" \in Item
    BY DEF Phases, Item
  <2>2. QED
    BY <1>1, <2>1, Located DEF MInv
<1>3. mine \in RunRecords /\ mine.token = token
  <2>1. /\ token \in Run \cup {Old, NoToken}
        /\ installed \in [Item -> Builds \cup {NoApp}]
    BY <1>1 DEF MInv, MTypeOK
  <2>2. QED
    BY <2>1, NoRecord DEF RunRecords
<1> HIDE DEF mine
<1>4. ASSUME NEW q \in Run, q # r
      PROVE  run'[q] \in RunRecords /\ run'[q].token = run[q].token
  <2>1. run[q] \in RunRecords
    BY DEF MInv, MTypeOK
  <2>2. run'[q] = run[q] \/ run'[q] = [run[q] EXCEPT !.alone = FALSE]
    BY <1>1, <1>4
  <2>3. QED
    BY <2>1, <2>2, MetRecord
<1>5. MTypeOK'
  <2>1. run' \in [Run -> RunRecords]
    BY <1>1, <1>3, <1>4
  <2>2. QED
    BY <1>1, <1>2, <2>1 DEF MInv, MTypeOK, pubVars
<1>6. Made' = Made /\ token' = token /\ run'[r].token = token
  BY <1>1, <1>3 DEF Made, Kept, pubVars
<1>7. \A q \in Run : q # r => Phase(q)' = Phase(q) /\ Active(q)' = Active(q)
  BY <1>2 DEF Phase, Active
<1>8. Phase(r)' = place /\ (place = "ready" => token \in Tokens)
  BY <1>1, <1>2 DEF Phase, MInv, MTypeOK, Tokens
<1>9. TokenInv'
  BY <1>4, <1>6, <1>7, <1>8 DEF MInv, TokenInv
<1>10. QED
  BY <1>1, <1>2, <1>5, <1>9 DEF MInv

LEMMA StepKeeps ==
  ASSUME MInv, NEW r \in Run, Step(r)
  PROVE  MInv'
<1>0. /\ pc \in [Run -> Phases \X Item] /\ run \in [Run -> RunRecords]
      /\ token \in Tokens \cup {NoToken, Partial}
      /\ \A q \in Run : q # r => /\ Phase(q)' = Phase(q) /\ Active(q)' = Active(q)
                                 /\ run'[q] = run[q]
  BY StepIsMine DEF MInv, MTypeOK, Tokens, Phase, Active
<1>1. MTypeOK'
  BY StepTypes
<1>2. \A b \in Made : b.token \in Tokens
  BY DEF Made, Kept, MInv, MTypeOK, Builds, Tokens
<1>3. CASE CreateToken(r)
  <2>1. /\ token = NoToken /\ token' = Partial /\ run' = run
        /\ Phase(r)' = "writing" /\ Made' = Made
    BY <1>0, <1>3 DEF CreateToken, GoTo, Phase, Made, Kept, pubVars
  <2>2. Made = {}
    BY <1>2, <2>1, TokenAssumption DEF MInv, TokenInv, Tokens
  <2>3. \A q \in Run : q # r => /\ Phase(q) # "writing"
                                /\ Active(q) => Phase(q) = "token"
    BY <2>1, TokenAssumption DEF MInv, TokenInv, Tokens
  <2>4. TokenInv'
    BY <1>0, <2>1, <2>2, <2>3 DEF TokenInv
  <2>5. QED
    BY <1>1, <2>4 DEF MInv
<1>4. CASE WriteToken(r)
  <2>1. /\ token = Partial /\ token' = r /\ run'[r].token = r
        /\ Phase(r) = "writing" /\ Phase(r)' = "ready" /\ Made' = Made
    BY <1>0, <1>4 DEF WriteToken, GoTo, Phase, Made, Kept, pubVars, MInv, TokenInv,
       RunRecords
  <2>2. Made = {}
    BY <1>2, <2>1, TokenAssumption DEF MInv, TokenInv, Tokens
  <2>3. \A q \in Run : q # r => /\ Phase(q) # "writing"
                                /\ Active(q) => Phase(q) = "token"
    BY <2>1, TokenAssumption DEF MInv, TokenInv, Tokens
  <2>4. TokenInv'
    BY <1>0, <2>1, <2>2, <2>3 DEF TokenInv, Tokens
  <2>5. QED
    BY <1>1, <2>4 DEF MInv
<1>5. CASE ~CreateToken(r) /\ ~WriteToken(r)
  <2>1. token' = token
    BY <1>5 DEF Step, CheckTeam, Stage, StagingFails, Look, Register, Crash, Move,
       Publish, RenameFails, SetAside, Restore, UndoFails
  <2>2. \/ ~Active(r)'
        \/ /\ Phase(r) \notin {"token", "writing"} /\ Active(r)
           /\ Phase(r)' \notin {"token", "writing"}
           /\ run'[r].token = run[r].token
    <3>1. ASSUME NEW e \in Over, End(r, e) PROVE ~Active(r)'
      BY <1>0, <3>1 DEF End, GoTo, Active, Phase, MInv, MTypeOK
    <3>2. ASSUME NEW i \in Item, NEW next \in Phases \ {"token", "writing"},
                 Onward(r, i, next), Phase(r) \notin {"token", "writing"}
          PROVE  Phase(r)' \notin {"token", "writing"}
      BY <1>0, <3>2 DEF Onward, GoTo, Phase
    <3>3. CASE \E e \in Over : End(r, e)
      BY <3>1, <3>3
    <3>4. CASE CheckTeam(r) \/ Stage(r)
      BY <1>0, <3>4 DEF CheckTeam, Stage, GoTo, Phase, Active, Over
    <3>5. CASE Look(r)
      BY <1>0, <3>5 DEF Look, GoTo, Phase, Active, Over, RunRecords
    <3>6. CASE \E i \in Item : RenameFails(r, i)
      BY <1>0, <3>6 DEF RenameFails, GoTo, Phase, Active, Over, RunRecords
    <3>7. CASE \E i \in Item : \/ Move(r, i) \/ Publish(r, i) \/ SetAside(r, i)
      <4>1. run' = run /\ Phase(r) \in {"move", "publish", "aside"}
        BY <3>7 DEF Move, Publish, SetAside, Phase
      <4>2. Phase(r)' \notin {"token", "writing"}
        BY <3>2, <3>7, <4>1 DEF Move, Publish, SetAside, Phases, Over
      <4>3. QED
        BY <4>1, <4>2 DEF Active, Over
    <3>8. CASE \E i \in Item : Restore(r, i)
      BY <1>0, <3>1, <3>8 DEF Restore, GoTo, Phase, Active, Over
    <3>9. QED
      BY <1>5, <3>3, <3>4, <3>5, <3>6, <3>7, <3>8 DEF Step, StagingFails, Register,
         Crash, UndoFails, Over
  <2>3. \A i \in Item : Publish(r, i) => run[r].token = token
    BY DEF Publish, MInv, TokenInv, Active, Phase, Over
  <2>4. ASSUME NEW b \in Made' PROVE b.token = token
    <3>1. b \in Made \/ \E i \in Item : Publish(r, i) /\ b.token = run[r].token
      BY StepMakes
    <3>2. QED
      BY <2>3, <3>1 DEF MInv, TokenInv
  <2>5. \A q \in Run : Phase(q)' = "writing" => Phase(q) = "writing"
    BY <1>0, <2>2 DEF Active, Over
  <2>6. TokenInv'
    <3>1. ASSUME NEW q \in Run, Active(q)', Phase(q)' \notin {"token", "writing"}
          PROVE  run'[q].token = token' /\ token' \in Tokens
      BY <1>0, <2>1, <2>2, <3>1 DEF MInv, TokenInv
    <3>2. QED
      BY <2>1, <2>4, <2>5, <3>1 DEF MInv, TokenInv
  <2>7. QED
    BY <1>1, <2>6 DEF MInv
<1>6. QED
  BY <1>3, <1>4, <1>5

LEMMA NextMInv == MInv /\ [Next]_vars => MInv'
<1>1. ASSUME MInv, Next PROVE MInv'
  <2>1. ASSUME NEW r \in Run, Step(r) PROVE MInv'
    BY <1>1, <2>1, StepKeeps
  <2>2. QED
    BY <1>1, <2>1, BeginKeeps DEF Next, Step
<1>2. ASSUME MInv, UNCHANGED vars PROVE MInv'
  BY <1>2 DEF MInv, MTypeOK, TokenInv, Made, Kept, Active, Phase, vars, pubVars
<1>3. QED
  BY <1>1, <1>2

\* The state is well formed, and a run that knows a token knows the one there
\* is (load_or_create_token, patch_app.py:644).
THEOREM MacInvariant == Spec => []MInv
  BY InitMInv, NextMInv, PTL DEF Spec

\* The type invariant, for any runs, teams and sources (patch_app, patch_app.py:1131).
THEOREM PairTypes == Spec => []MTypeOK
<1>1. MInv => MTypeOK
  BY DEF MInv
<1>2. QED
  BY <1>1, MacInvariant, PTL

\* Every application there is was built with the token its router reads
\* (load_or_create_token, patch_app.py:644).
THEOREM TokenIsOne == Spec => []OneToken
<1>1. MInv => OneToken
  BY DEF MInv, TokenInv, OneToken
<1>2. QED
  BY <1>1, MacInvariant, PTL

-----------------------------------------------------------------------------
(* The four renames                                                        *)

\* Run r has not come to move item i, to set it aside; it may have built it.
NotMoved(r, i) ==
  Phase(r) \in Early \/ pc[r] = <<"move", "app">> \/ pc[r] = <<"move", i>>
NotAside(r, i) ==
  \/ Phase(r) \in Early \cup {"move", "publish", "published"}
  \/ pc[r] = <<"aside", "app">> \/ pc[r] = <<"aside", i>>
Built(r, i) ==
  \/ Phase(r) \in {"published", "aside", "restore"} \cup Over
  \/ i = "app" /\ pc[r] = <<"publish", "helper">>

\* Of one item: what has not been moved has no backup, what was built was
\* built by a run that came so far, and each thing is in one place.
ItemInv(i) ==
  /\ \A r \in Run :
       /\ NotMoved(r, i) => backups[r][i] = NoApp
       /\ NotAside(r, i) => aside[r][i] = NoApp
  /\ \A b \in (Kept(i) \cup {installed[i]}) \ {NoApp} :
       b.by # Old => b.by \in Run /\ Built(b.by, i)
  /\ \A r \in Run :
       installed[i] # NoApp => backups[r][i] # installed[i] /\ aside[r][i] # installed[i]
  /\ \A r, q \in Run :
       /\ backups[r][i] # NoApp => aside[q][i] # backups[r][i]
       /\ backups[r][i] # NoApp /\ backups[q][i] = backups[r][i] => q = r
       /\ aside[r][i] # NoApp /\ aside[q][i] = aside[r][i] => q = r

RenameInv == \A i \in Item : ItemInv(i)

\* Publication's steps, for one item.
Withdraws(i) ==
  installed[i] # NoApp /\ installed'[i] = NoApp /\ Kept(i)' = Kept(i) \cup {installed[i]}
Publishes(i) ==
  installed[i] = NoApp /\ installed'[i] \in Builds \ Kept(i) /\ Kept(i)' = Kept(i)
Restores(i) ==
  /\ installed[i] = NoApp
  /\ \E a \in Kept(i) : installed'[i] = a /\ Kept(i)' = Kept(i) \ {a}
Same(i) == installed'[i] = installed[i] /\ Kept(i)' = Kept(i)
Allowed(i) == Withdraws(i) \/ Publishes(i) \/ Restores(i) \/ Same(i)

\* A run only goes onward.
LEMMA Onwards ==
  ASSUME MTypeOK, NEW r \in Run, NEW i \in Item, Step(r)
  PROVE  /\ NotMoved(r, i)' => NotMoved(r, i)
         /\ NotAside(r, i)' => NotAside(r, i)
         /\ Built(r, i) => Built(r, i)'
<1>0. /\ pc \in [Run -> Phases \X Item] /\ pc' \in [Run -> Phases \X Item]
      /\ pc[r] = <<Phase(r), pc[r][2]>> /\ pc[r][2] \in Item
  BY StepIsMine DEF MTypeOK, Phase
<1>1. ASSUME NEW p \in Phases, NEW j \in Item, GoTo(r, p, j)
      PROVE  pc'[r] = <<p, j>> /\ Phase(r)' = p
  BY <1>1, Located DEF Phase
<1>2. CASE \E e \in Over : End(r, e)
  <2>1. Phase(r)' \in Over /\ pc'[r] = <<Phase(r)', "app">>
    BY <1>1, <1>2 DEF End, Phases, Item
  <2>2. QED
    BY <2>1 DEF NotMoved, NotAside, Built, Over, Early
<1>3. CASE CreateToken(r) \/ WriteToken(r) \/ CheckTeam(r) \/ Stage(r)
  <2>1. /\ Phase(r) \in Early \ {"idle"}
        /\ \E p \in Early : GoTo(r, p, "app")
    BY <1>3 DEF CreateToken, WriteToken, CheckTeam, Stage, Early
  <2>2. Phase(r)' \in Early
    BY <1>1, <2>1 DEF Phases, Early, Item
  <2>3. QED
    BY <1>0, <2>1, <2>2 DEF NotMoved, NotAside, Built, Over, Early
<1>4. CASE Look(r)
  BY <1>0, <1>4 DEF Look, GoTo, Phase, NotMoved, NotAside, Built, Over, Early
<1>5. ASSUME NEW j \in Item, RenameFails(r, j) PROVE Phase(r)' = "aside" /\ pc'[r] = <<"aside", "app">>
  BY <1>1, <1>5 DEF RenameFails, Phases, Item
<1>6. CASE \E j \in Item : RenameFails(r, j)
  <2>1. Phase(r) \in {"move", "publish"}
    BY <1>6 DEF RenameFails, Phase
  <2>2. QED
    BY <1>0, <1>5, <1>6, <2>1 DEF NotMoved, NotAside, Built, Over, Early
<1>7. ASSUME NEW j \in Item, NEW next \in Phases, Onward(r, j, next)
      PROVE  \/ j = "app" /\ pc'[r] = <<Phase(r), "helper">> /\ Phase(r)' = Phase(r)
             \/ j = "helper" /\ pc'[r] = <<next, "app">> /\ Phase(r)' = next
  <2>1. Phase(r) \in Phases /\ {"app", "helper"} = Item
    BY <1>0 DEF Item, Phase
  <2>2. CASE j = "app"
    BY <1>1, <1>7, <2>1, <2>2 DEF Onward
  <2>3. CASE j = "helper"
    BY <1>1, <1>7, <2>1, <2>3 DEF Onward
  <2>4. QED
    BY <2>1, <2>2, <2>3
<1>8. CASE \E j \in Item : Move(r, j)
  <2>1. PICK j \in Item : Move(r, j)
    BY <1>8
  <2>2. pc[r] = <<"move", j>> /\ Phase(r) = "move" /\ Onward(r, j, "publish")
    BY <2>1 DEF Move, Phase
  <2>3. QED
    BY <1>7, <2>2 DEF NotMoved, NotAside, Built, Over, Early, Phases
<1>9. CASE \E j \in Item : Publish(r, j)
  <2>1. PICK j \in Item : Publish(r, j)
    BY <1>9
  <2>2. pc[r] = <<"publish", j>> /\ Phase(r) = "publish" /\ Onward(r, j, "published")
    BY <2>1 DEF Publish, Phase
  <2>3. QED
    BY <1>7, <2>2 DEF NotMoved, NotAside, Built, Over, Early, Phases
<1>10. CASE \E j \in Item : SetAside(r, j)
  <2>1. PICK j \in Item : SetAside(r, j)
    BY <1>10
  <2>2. pc[r] = <<"aside", j>> /\ Phase(r) = "aside" /\ Onward(r, j, "restore")
    BY <2>1 DEF SetAside, Phase
  <2>3. QED
    BY <1>7, <2>2 DEF NotMoved, NotAside, Built, Over, Early, Phases
<1>11. CASE \E j \in Item : Restore(r, j)
  <2>1. Phase(r) = "restore"
    BY <1>11 DEF Restore, Phase
  <2>2. \/ GoTo(r, "restore", "helper")
        \/ \E e \in Over : End(r, e)
    BY <1>11 DEF Restore, Over
  <2>3. CASE GoTo(r, "restore", "helper")
    <3>1. pc'[r] = <<"restore", "helper">> /\ Phase(r)' = "restore"
      BY <1>1, <2>3 DEF Phases, Item
    <3>2. QED
      BY <2>1, <3>1 DEF NotMoved, NotAside, Built, Over, Early
  <2>4. QED
    BY <1>2, <2>2, <2>3
<1>12. QED
  BY <1>2, <1>3, <1>4, <1>6, <1>8, <1>9, <1>10, <1>11 DEF Step, StagingFails, Register,
     Crash, UndoFails, Over

\* The phase that moves an item, sets it aside or builds it comes once.
LEMMA Once ==
  ASSUME MTypeOK, NEW r \in Run, NEW i \in Item
  PROVE  /\ Move(r, i) => NotMoved(r, i) /\ ~NotMoved(r, i)'
         /\ SetAside(r, i) => NotAside(r, i) /\ ~NotAside(r, i)'
         /\ Publish(r, i) => ~Built(r, i) /\ Built(r, i)'
<1>1. ASSUME NEW p \in Phases, NEW j \in Item, GoTo(r, p, j)
      PROVE  pc'[r] = <<p, j>> /\ Phase(r)' = p
  BY <1>1, Located DEF Phase
<1>2. ASSUME NEW p \in Phases, Phase(r) = p, NEW next \in Phases, Onward(r, i, next)
      PROVE  \/ i = "app" /\ pc'[r] = <<p, "helper">> /\ Phase(r)' = p
             \/ i = "helper" /\ pc'[r] = <<next, "app">> /\ Phase(r)' = next
  <2>1. {"app", "helper"} = Item
    BY DEF Item
  <2>2. CASE i = "app"
    BY <1>1, <1>2, <2>1, <2>2 DEF Onward
  <2>3. CASE i = "helper"
    BY <1>1, <1>2, <2>1, <2>3 DEF Onward
  <2>4. QED
    BY <2>1, <2>2, <2>3
<1>3. ASSUME Move(r, i) PROVE NotMoved(r, i) /\ ~NotMoved(r, i)'
  <2>1. pc[r] = <<"move", i>> /\ Phase(r) = "move" /\ Onward(r, i, "publish")
    BY <1>3 DEF Move, Phase
  <2>2. QED
    BY <1>2, <2>1 DEF NotMoved, Early, Phases
<1>4. ASSUME SetAside(r, i) PROVE NotAside(r, i) /\ ~NotAside(r, i)'
  <2>1. pc[r] = <<"aside", i>> /\ Phase(r) = "aside" /\ Onward(r, i, "restore")
    BY <1>4 DEF SetAside, Phase
  <2>2. QED
    BY <1>2, <2>1 DEF NotAside, Early, Phases
<1>5. ASSUME Publish(r, i) PROVE ~Built(r, i) /\ Built(r, i)'
  <2>1. pc[r] = <<"publish", i>> /\ Phase(r) = "publish" /\ Onward(r, i, "published")
    BY <1>5 DEF Publish, Phase
  <2>2. QED
    BY <1>2, <2>1 DEF Built, Over, Phases
<1>6. QED
  BY <1>3, <1>4, <1>5

\* What stays where it is, for one item and for all.
StaysAt(j) ==
  /\ installed'[j] = installed[j]
  /\ \A q \in Run : backups'[q][j] = backups[q][j] /\ aside'[q][j] = aside[q][j]

LEMMA StaysSame ==
  ASSUME NEW j \in Item, StaysAt(j)
  PROVE  Same(j)
  BY DEF StaysAt, Same, Kept

\* Every run is where it was, or further.
Advances ==
  \A q \in Run, i \in Item : /\ NotMoved(q, i)' => NotMoved(q, i)
                             /\ NotAside(q, i)' => NotAside(q, i)
                             /\ Built(q, i) => Built(q, i)'

LEMMA StepAdvances ==
  ASSUME MInv, NEW r \in Run, Step(r)
  PROVE  Advances
<1>1. ASSUME NEW q \in Run, NEW i \in Item, q # r
      PROVE  /\ NotMoved(q, i)' => NotMoved(q, i)
             /\ NotAside(q, i)' => NotAside(q, i)
             /\ Built(q, i) => Built(q, i)'
  <2>1. pc'[q] = pc[q]
    BY <1>1, StepIsMine DEF MInv
  <2>2. QED
    BY <2>1 DEF NotMoved, NotAside, Built, Phase
<1>2. QED
  BY <1>1, Onwards DEF MInv, Advances

LEMMA StaysKeeps ==
  ASSUME Advances, NEW j \in Item, ItemInv(j), StaysAt(j)
  PROVE  ItemInv(j)' /\ Allowed(j)
<1>1. Same(j)
  BY StaysSame
<1>2. \A r \in Run : /\ NotMoved(r, j)' => backups'[r][j] = NoApp
                     /\ NotAside(r, j)' => aside'[r][j] = NoApp
  BY DEF Advances, ItemInv, StaysAt
<1>3. \A b \in (Kept(j)' \cup {installed'[j]}) \ {NoApp} :
        b.by # Old => b.by \in Run /\ Built(b.by, j)'
  BY <1>1 DEF Advances, ItemInv, Same
<1>4. QED
  BY <1>1, <1>2, <1>3 DEF ItemInv, StaysAt, Allowed

LEMMA MoveItem ==
  ASSUME MInv, Advances, NEW r \in Run, NEW i \in Item, ItemInv(i),
         Move(r, i), installed[i] # NoApp,
         installed' = [installed EXCEPT ![i] = NoApp],
         backups' = [backups EXCEPT ![r][i] = installed[i]],
         aside' = aside
  PROVE  ItemInv(i)' /\ Allowed(i)
<1>1. NotMoved(r, i) /\ ~NotMoved(r, i)' /\ backups[r][i] = NoApp
  BY Once DEF MInv, ItemInv
<1>2. /\ installed'[i] = NoApp /\ backups'[r][i] = installed[i]
      /\ \A q \in Run : q # r => backups'[q][i] = backups[q][i]
      /\ \A q \in Run : aside'[q][i] = aside[q][i]
  BY DEF MInv, MTypeOK
<1>3. Kept(i)' = Kept(i) \cup {installed[i]}
  BY <1>1, <1>2 DEF Kept
<1>4. \A q \in Run : /\ NotMoved(q, i)' => backups'[q][i] = NoApp
                     /\ NotAside(q, i)' => aside'[q][i] = NoApp
  BY <1>1, <1>2 DEF ItemInv, Advances
<1>5. \A b \in (Kept(i)' \cup {installed'[i]}) \ {NoApp} :
        b.by # Old => b.by \in Run /\ Built(b.by, i)'
  BY <1>2, <1>3 DEF ItemInv, Advances
<1>6. QED
  BY <1>2, <1>3, <1>4, <1>5 DEF ItemInv, Allowed, Withdraws

LEMMA SetAsideItem ==
  ASSUME MInv, Advances, NEW r \in Run, NEW i \in Item, ItemInv(i),
         SetAside(r, i), installed[i] # NoApp,
         installed' = [installed EXCEPT ![i] = NoApp],
         aside' = [aside EXCEPT ![r][i] = installed[i]],
         backups' = backups
  PROVE  ItemInv(i)' /\ Allowed(i)
<1>1. NotAside(r, i) /\ ~NotAside(r, i)' /\ aside[r][i] = NoApp
  BY Once DEF MInv, ItemInv
<1>2. /\ installed'[i] = NoApp /\ aside'[r][i] = installed[i]
      /\ \A q \in Run : q # r => aside'[q][i] = aside[q][i]
      /\ \A q \in Run : backups'[q][i] = backups[q][i]
  BY DEF MInv, MTypeOK
<1>3. Kept(i)' = Kept(i) \cup {installed[i]}
  BY <1>1, <1>2 DEF Kept
<1>4. \A q \in Run : /\ NotMoved(q, i)' => backups'[q][i] = NoApp
                     /\ NotAside(q, i)' => aside'[q][i] = NoApp
  BY <1>1, <1>2 DEF ItemInv, Advances
<1>5. \A b \in (Kept(i)' \cup {installed'[i]}) \ {NoApp} :
        b.by # Old => b.by \in Run /\ Built(b.by, i)'
  BY <1>2, <1>3 DEF ItemInv, Advances
<1>6. QED
  BY <1>2, <1>3, <1>4, <1>5 DEF ItemInv, Allowed, Withdraws

LEMMA RestoreItem ==
  ASSUME MInv, Advances, NEW r \in Run, NEW i \in Item, ItemInv(i),
         Restore(r, i), backups[r][i] # NoApp, installed[i] = NoApp,
         installed' = [installed EXCEPT ![i] = backups[r][i]],
         backups' = [backups EXCEPT ![r][i] = NoApp],
         aside' = aside
  PROVE  ItemInv(i)' /\ Allowed(i)
<1>1. /\ installed'[i] = backups[r][i] /\ backups'[r][i] = NoApp
      /\ \A q \in Run : q # r => backups'[q][i] = backups[q][i]
      /\ \A q \in Run : aside'[q][i] = aside[q][i]
  BY DEF MInv, MTypeOK
<1>2. backups[r][i] \in Kept(i)
  BY DEF Kept
<1>3. Kept(i)' = Kept(i) \ {backups[r][i]}
  <2>1. /\ \A q \in Run : backups[q][i] = backups[r][i] => q = r
        /\ \A q \in Run : aside[q][i] # backups[r][i]
    BY DEF ItemInv
  <2>2. QED
    BY <1>1, <2>1 DEF Kept
<1>4. \A q \in Run : /\ NotMoved(q, i)' => backups'[q][i] = NoApp
                     /\ NotAside(q, i)' => aside'[q][i] = NoApp
  BY <1>1 DEF ItemInv, Advances
<1>5. \A b \in (Kept(i)' \cup {installed'[i]}) \ {NoApp} :
        b.by # Old => b.by \in Run /\ Built(b.by, i)'
  BY <1>1, <1>2, <1>3 DEF ItemInv, Advances
<1>6. QED
  BY <1>1, <1>2, <1>3, <1>4, <1>5 DEF ItemInv, Allowed, Restores

LEMMA PublishItem ==
  ASSUME MInv, MTypeOK', Advances, NEW r \in Run, NEW i \in Item, ItemInv(i),
         Publish(r, i), installed[i] = NoApp,
         installed' = [installed EXCEPT ![i] =
                        Build(r, run[r].team, run[r].token, run[r].allow)],
         backups' = backups, aside' = aside
  PROVE  ItemInv(i)' /\ Allowed(i)
<1> DEFINE new == Build(r, run[r].team, run[r].token, run[r].allow)
<1>1. installed'[i] = new /\ new.by = r
  BY DEF MInv, MTypeOK, Build
<1>2. new \in Builds
  <2>1. installed'[i] \in Builds \cup {NoApp}
    BY DEF MTypeOK
  <2>2. run[r].token \in Tokens
    BY DEF MInv, TokenInv, Publish, Active, Phase, Over
  <2>3. run[r] \in RunRecords
    BY DEF MInv, MTypeOK
  <2>4. QED
    BY <2>2, <2>3 DEF Build, Builds, Tokens, RunRecords
<1> HIDE DEF new
<1>3. ~Built(r, i) /\ Built(r, i)'
  BY Once DEF MInv
<1>4. new \notin Kept(i)
  BY <1>1, <1>2, <1>3, RunAssumption, AppAssumption DEF ItemInv
<1>5. Kept(i)' = Kept(i)
  BY DEF Kept
<1>6. \A b \in (Kept(i)' \cup {installed'[i]}) \ {NoApp} :
        b.by # Old => b.by \in Run /\ Built(b.by, i)'
  BY <1>1, <1>3, <1>5 DEF ItemInv, Advances
<1>7. \A q \in Run : backups'[q][i] # new /\ aside'[q][i] # new
  BY <1>2, <1>4, AppAssumption DEF Kept
<1>8. \A q \in Run : /\ NotMoved(q, i)' => backups'[q][i] = NoApp
                     /\ NotAside(q, i)' => aside'[q][i] = NoApp
  BY DEF ItemInv, Advances
<1>9. QED
  BY <1>1, <1>2, <1>4, <1>5, <1>6, <1>7, <1>8 DEF ItemInv, Allowed, Publishes

LEMMA StepRenames ==
  ASSUME MInv, RenameInv, NEW r \in Run, Step(r)
  PROVE  RenameInv' /\ \A i \in Item : Allowed(i)
<1>1. Advances /\ MTypeOK' /\ \A i \in Item : ItemInv(i)
  BY StepAdvances, StepTypes DEF RenameInv
<1>2. CASE UNCHANGED pubVars
  <2>1. \A j \in Item : StaysAt(j)
    BY <1>2 DEF StaysAt, pubVars
  <2>2. \A j \in Item : ItemInv(j)' /\ Allowed(j)
    BY <1>1, <2>1, StaysKeeps
  <2>3. QED
    BY <2>2 DEF RenameInv
<1>3. CASE \E i \in Item : Moved(r, i)
  <2>1. PICK i \in Item : Moved(r, i)
    BY <1>3
  <2>2. ASSUME NEW j \in Item, j # i PROVE StaysAt(j)
    BY <2>1, <2>2 DEF Moved, StaysAt, MInv, MTypeOK
  <2>3. ItemInv(i)' /\ Allowed(i)
    BY <1>1, <2>1, MoveItem, SetAsideItem, RestoreItem, PublishItem DEF Moved
  <2>4. \A j \in Item : ItemInv(j)' /\ Allowed(j)
    BY <1>1, <2>2, <2>3, StaysKeeps
  <2>5. QED
    BY <2>4 DEF RenameInv
<1>4. QED
  BY <1>2, <1>3, StepMoves DEF MInv

LEMMA BeginRenames ==
  ASSUME MInv, RenameInv, NEW r \in Run, NEW force \in BOOLEAN, NEW allow \in BOOLEAN,
         NEW allowTeam \in BOOLEAN, NEW team \in Teams,
         Begin(r, force, allow, allowTeam, team)
  PROVE  RenameInv' /\ \A i \in Item : Allowed(i)
<1>0. UNCHANGED pubVars
  BY DEF Begin
<1>1. /\ Phase(r) = "idle" /\ pc'[r][1] \in {"token", "ready"}
      /\ \A q \in Run : q # r => pc'[q] = pc[q]
  BY BeginKeeps
<1>2. /\ pc[r] = <<"idle", pc[r][2]>>
      /\ Phase(r)' \in {"token", "ready"}
  BY <1>1 DEF MInv, MTypeOK, Phase
<1>3. Advances
  BY <1>1, <1>2 DEF Advances, NotMoved, NotAside, Built, Phase, Early, Over
<1>4. \A j \in Item : StaysAt(j)
  BY <1>0 DEF StaysAt, pubVars
<1>5. \A j \in Item : ItemInv(j)' /\ Allowed(j)
  BY <1>3, <1>4, StaysKeeps DEF RenameInv
<1>6. QED
  BY <1>5 DEF RenameInv

LEMMA NextRenames ==
  ASSUME MInv, RenameInv, [Next]_vars
  PROVE  RenameInv' /\ \A i \in Item : Allowed(i)
<1>1. ASSUME NEW r \in Run, Step(r) PROVE RenameInv' /\ \A i \in Item : Allowed(i)
  BY <1>1, StepRenames
<1>2. CASE UNCHANGED vars
  BY <1>2 DEF RenameInv, ItemInv, Allowed, Same, Kept, NotMoved, NotAside, Built, Phase, vars, pubVars
<1>3. QED
  BY <1>1, <1>2, BeginRenames DEF Next, Step

LEMMA InitRenames == Init => RenameInv
<1> SUFFICES ASSUME Init PROVE RenameInv
  OBVIOUS
<1>1. \A team \in Teams : Build(Old, team, Old, FALSE).by = Old
  BY DEF Build
<1>2. /\ \A i \in Item : Kept(i) = {} /\ (installed[i] # NoApp => installed[i].by = Old)
      /\ \A r \in Run, i \in Item : backups[r][i] = NoApp /\ aside[r][i] = NoApp
  BY <1>1 DEF Init, Kept
<1>3. QED
  BY <1>2 DEF RenameInv, ItemInv

\* What was built and moved is in one place (patch_app, patch_app.py:1131).
THEOREM RenamesHold == Spec => []RenameInv
  BY InitRenames, NextRenames, MacInvariant, PTL DEF Spec

\* No run overwrites or loses an application or a helper, whichever renames
\* raise and whoever else is at work (patch_app, patch_app.py:1131).
THEOREM NoPairIsLost == Spec => PublicationSpec
<1>1. MInv /\ RenameInv /\ [Next]_vars =>
        /\ [AppPromise!Next]_<<installed["app"], Kept("app")>>
        /\ [HelperPromise!Next]_<<installed["helper"], Kept("helper")>>
  <2> SUFFICES ASSUME MInv, RenameInv, [Next]_vars
               PROVE  /\ [AppPromise!Next]_<<installed["app"], Kept("app")>>
                      /\ [HelperPromise!Next]_<<installed["helper"], Kept("helper")>>
    OBVIOUS
  <2>1. Allowed("app") /\ Allowed("helper")
    BY NextRenames DEF Item
  <2>2. [AppPromise!Next]_<<installed["app"], Kept("app")>>
    <3>1. installed["app"]' = installed'["app"]
      OBVIOUS
    <3>2. QED
      BY <2>1, <3>1 DEF Allowed, Withdraws, Publishes, Restores, Same, AppPromise!Next,
       AppPromise!Withdraw, AppPromise!Publish, AppPromise!Restore
  <2>3. [HelperPromise!Next]_<<installed["helper"], Kept("helper")>>
    <3>1. installed["helper"]' = installed'["helper"]
      OBVIOUS
    <3>2. QED
      BY <2>1, <3>1 DEF Allowed, Withdraws, Publishes, Restores, Same, HelperPromise!Next,
       HelperPromise!Withdraw, HelperPromise!Publish, HelperPromise!Restore
  <2>4. QED
    BY <2>2, <2>3
<1>2. Init => AppPromise!Init /\ HelperPromise!Init
  <2> SUFFICES ASSUME Init PROVE AppPromise!Init /\ HelperPromise!Init
    OBVIOUS
  <2>1. Kept("app") = {} /\ Kept("helper") = {}
    BY DEF Init, Kept, Item
  <2>2. installed \in [Item -> Builds \cup {NoApp}]
    BY InitMInv DEF MInv, MTypeOK
  <2>3. QED
    BY <2>1, <2>2 DEF Item, AppPromise!Init, HelperPromise!Init
<1>3. QED
  BY <1>1, <1>2, MacInvariant, RenamesHold, PTL
     DEF Spec, PublicationSpec, AppPromise!Spec, HelperPromise!Spec

-----------------------------------------------------------------------------
(* Runs that meet nobody                                                   *)

\* What a run that is alone knows: the pair it found, and how far it has been
\* taken apart since.
Undisturbed(r) ==
  /\ Phase(r) \notin {"aside", "restore"} => run[r].raised = "none"
  /\ Phase(r) \in Early => installed = run[r].before
  /\ Phase(r) = "move" => run[r].had = {i \in Item : run[r].before[i] # NoApp}
  /\ pc[r] = <<"move", "app">> => installed = run[r].before
  /\ pc[r] = <<"move", "helper">> =>
       /\ installed["app"] = NoApp /\ installed["helper"] = run[r].before["helper"]
       /\ backups[r]["app"] = run[r].before["app"]
  /\ Phase(r) = "publish" => installed["helper"] = NoApp /\ backups[r] = run[r].before
  /\ pc[r] = <<"publish", "app">> => installed["app"] = NoApp
  /\ Phase(r) \in {"aside", "restore"} /\ run[r].raised = "publish" =>
       /\ installed["helper"] = NoApp
       /\ pc[r] # <<"restore", "helper">> => backups[r] = run[r].before
       /\ pc[r] \in {<<"aside", "helper">>, <<"restore", "app">>} => installed["app"] = NoApp
       /\ pc[r] = <<"restore", "helper">> =>
            /\ installed["app"] = run[r].before["app"]
            /\ backups[r]["helper"] = run[r].before["helper"]

SoloInv ==
  /\ \A r, q \in Run : Active(r) /\ run[r].alone /\ Active(q) => q = r
  /\ \A r \in Run : Active(r) /\ run[r].alone => Undisturbed(r)

LEMMA InitSolo == Init => SoloInv
  BY DEF Init, SoloInv, Active, Phase

\* A run keeps what it noted at its beginning until it ends.
LEMMA RecordKept ==
  ASSUME MInv, NEW r \in Run, Step(r)
  PROVE  \/ \E e \in Over : End(r, e)
         \/ /\ run'[r].alone = run[r].alone /\ run'[r].before = run[r].before
            /\ Look(r) \/ run'[r].had = run[r].had
            /\ (\E i \in Item : RenameFails(r, i)) \/ run'[r].raised = run[r].raised
<1>0. run \in [Run -> RunRecords] /\ run[r] \in RunRecords
  BY DEF MInv, MTypeOK
<1>1. CASE WriteToken(r)
  BY <1>0, <1>1 DEF WriteToken, RunRecords
<1>2. CASE Look(r)
  BY <1>0, <1>2 DEF Look, RunRecords
<1>3. CASE \E i \in Item : RenameFails(r, i)
  BY <1>0, <1>3 DEF RenameFails, RunRecords
<1>4. CASE run' = run
  BY <1>4
<1>5. QED
  BY <1>1, <1>2, <1>3, <1>4 DEF Step, CreateToken, CheckTeam, Stage, StagingFails,
     Register, Crash, Move, Publish, SetAside, Restore, UndoFails, Over

\* Where the steps of a run lead.
LEMMA Leads ==
  ASSUME MTypeOK, NEW r \in Run, NEW i \in Item
  PROVE  /\ \A p \in Phases, j \in Item : GoTo(r, p, j) => pc'[r] = <<p, j>> /\ Phase(r)' = p
         /\ \A next \in Phases : Onward(r, i, next) =>
              \/ i = "app" /\ pc'[r] = <<Phase(r), "helper">> /\ Phase(r)' = Phase(r)
              \/ i = "helper" /\ pc'[r] = <<next, "app">> /\ Phase(r)' = next
<1>1. ASSUME NEW p \in Phases, NEW j \in Item, GoTo(r, p, j)
      PROVE  pc'[r] = <<p, j>> /\ Phase(r)' = p
  BY <1>1, Located DEF Phase
<1>2. ASSUME NEW next \in Phases, Onward(r, i, next)
      PROVE  \/ i = "app" /\ pc'[r] = <<Phase(r), "helper">> /\ Phase(r)' = Phase(r)
             \/ i = "helper" /\ pc'[r] = <<next, "app">> /\ Phase(r)' = next
  <2>1. Phase(r) \in Phases /\ {"app", "helper"} = Item
    BY DEF Item, Phase, MTypeOK
  <2>2. CASE i = "app"
    BY <1>1, <1>2, <2>1, <2>2 DEF Onward
  <2>3. CASE i = "helper"
    BY <1>1, <1>2, <2>1, <2>3 DEF Onward
  <2>4. QED
    BY <2>1, <2>2, <2>3
<1>3. QED
  BY <1>1, <1>2

LEMMA EarlyKeeps ==
  ASSUME MInv, NEW r \in Run, Undisturbed(r), Active(r)',
         \/ CreateToken(r) \/ WriteToken(r) \/ CheckTeam(r) \/ Stage(r) \/ Look(r)
  PROVE  Undisturbed(r)'
<1>0. /\ run[r] \in RunRecords /\ run \in [Run -> RunRecords]
      /\ pc \in [Run -> Phases \X Item] /\ pc[r] = <<Phase(r), pc[r][2]>>
      /\ pc' \in [Run -> Phases \X Item]
      /\ pc'[r] = <<Phase(r)', pc'[r][2]>>
  BY StepIsMine DEF MInv, MTypeOK, Phase, Step
<1>1. /\ UNCHANGED pubVars /\ Phase(r) \in Early
      /\ \/ Phase(r)' \in Early /\ ~Look(r)
         \/ Look(r) /\ pc'[r] = <<"move", "app">>
  BY <1>0 DEF CreateToken, WriteToken, CheckTeam, Stage, Look, GoTo, Phase, Early
<1>2. /\ run'[r].before = run[r].before /\ run'[r].raised = run[r].raised
  BY <1>0 DEF CreateToken, WriteToken, CheckTeam, Stage, Look, RunRecords
<1>3. installed = run[r].before /\ run[r].raised = "none"
  BY <1>1 DEF Undisturbed, Early
<1>4. CASE Phase(r)' \in Early /\ ~Look(r)
  BY <1>0, <1>1, <1>2, <1>3, <1>4 DEF Undisturbed, Early, pubVars
<1>5. CASE Look(r) /\ pc'[r] = <<"move", "app">>
  <2>1. run'[r].had = {i \in Item : installed[i] # NoApp}
    BY <1>0, <1>5 DEF Look, RunRecords
  <2>2. Phase(r)' = "move"
    BY <1>0, <1>5
  <2>3. QED
    BY <1>1, <1>2, <1>3, <1>5, <2>1, <2>2 DEF Undisturbed, Early, pubVars
<1>6. QED
  BY <1>1, <1>4, <1>5

LEMMA MoveIsUndisturbed ==
  ASSUME MInv, RenameInv, NEW r \in Run, NEW i \in Item, Undisturbed(r), Move(r, i)
  PROVE  Undisturbed(r)'
<1>0. /\ run[r] \in RunRecords /\ run' = run
      /\ installed \in [Item -> Builds \cup {NoApp}]
      /\ backups \in [Run -> [Item -> Builds \cup {NoApp}]]
      /\ run[r].before \in [Item -> Builds \cup {NoApp}]
  BY DEF MInv, MTypeOK, Move, RunRecords
<1>1. pc[r] = <<"move", i>> /\ Phase(r) = "move"
  BY DEF Move, Phase
<1>2. /\ run[r].had = {j \in Item : run[r].before[j] # NoApp}
      /\ run[r].raised = "none"
      /\ backups[r][i] = NoApp
  BY <1>1 DEF Undisturbed, RenameInv, ItemInv, NotMoved
<1>3. installed[i] = run[r].before[i]
  BY <1>1 DEF Undisturbed, Item
<1>4. /\ installed'[i] = NoApp /\ backups'[r][i] = run[r].before[i]
      /\ \A j \in Item : j # i => /\ installed'[j] = installed[j]
                                  /\ backups'[r][j] = backups[r][j]
  <2>1. CASE i \in run[r].had
    BY <1>0, <1>3, <2>1 DEF Move
  <2>2. CASE i \notin run[r].had
    BY <1>0, <1>2, <1>3, <2>2 DEF Move, pubVars
  <2>3. QED
    BY <2>1, <2>2
<1>5. CASE i = "app"
  <2>1. pc'[r] = <<"move", "helper">> /\ Phase(r)' = "move"
    BY <1>1, <1>5, Leads DEF Move, MInv, Phases, Item
  <2>2. installed["helper"] = run[r].before["helper"]
    BY <1>1, <1>5 DEF Undisturbed
  <2>3. QED
    BY <1>0, <1>2, <1>4, <1>5, <2>1, <2>2 DEF Undisturbed, Early, Item
<1>6. CASE i = "helper"
  <2>1. pc'[r] = <<"publish", "app">> /\ Phase(r)' = "publish"
    BY <1>1, <1>6, Leads DEF Move, MInv, Phases, Item
  <2>2. installed["app"] = NoApp /\ backups[r]["app"] = run[r].before["app"]
    BY <1>1, <1>6 DEF Undisturbed
  <2>3. backups'[r] \in [Item -> Builds \cup {NoApp}]
    <3>1. Step(r)
      BY DEF Step
    <3>2. QED
      BY <3>1, StepTypes DEF MTypeOK
  <2>4. backups'[r] = run[r].before
    <3>1. \A j \in Item : backups'[r][j] = run[r].before[j]
      BY <1>4, <1>6, <2>2 DEF Item
    <3>2. QED
      BY <1>0, <2>3, <3>1
  <2>5. QED
    BY <1>0, <1>2, <1>4, <1>6, <2>1, <2>2, <2>4 DEF Undisturbed, Early, Item
<1>7. QED
  BY <1>5, <1>6 DEF Item

LEMMA PublishIsUndisturbed ==
  ASSUME MInv, NEW r \in Run, NEW i \in Item, Undisturbed(r), Publish(r, i)
  PROVE  Undisturbed(r)'
<1>0. /\ run' = run /\ backups' = backups
      /\ \A j \in Item : j # i => installed'[j] = installed[j]
  BY DEF MInv, MTypeOK, Publish
<1>1. pc[r] = <<"publish", i>> /\ Phase(r) = "publish"
  BY DEF Publish, Phase
<1>2. CASE i = "app"
  <2>1. pc'[r] = <<"publish", "helper">> /\ Phase(r)' = "publish"
    BY <1>1, <1>2, Leads DEF Publish, MInv, Phases, Item
  <2>2. QED
    BY <1>0, <1>1, <1>2, <2>1 DEF Undisturbed, Early, Item
<1>3. CASE i = "helper"
  <2>1. pc'[r] = <<"published", "app">> /\ Phase(r)' = "published"
    BY <1>1, <1>3, Leads DEF Publish, MInv, Phases, Item
  <2>2. QED
    BY <1>0, <1>1, <2>1 DEF Undisturbed, Early
<1>4. QED
  BY <1>2, <1>3 DEF Item

LEMMA FailureIsUndisturbed ==
  ASSUME MInv, NEW r \in Run, NEW i \in Item, Undisturbed(r), RenameFails(r, i)
  PROVE  Undisturbed(r)'
<1>0. /\ run[r] \in RunRecords /\ run \in [Run -> RunRecords] /\ UNCHANGED pubVars
      /\ run' = [run EXCEPT ![r].raised = Phase(r)]
  BY DEF MInv, MTypeOK, RenameFails
<1>1. run'[r].before = run[r].before /\ run'[r].raised = Phase(r)
  BY <1>0 DEF RunRecords
<1>2. pc'[r] = <<"aside", "app">> /\ Phase(r)' = "aside"
  BY Leads DEF RenameFails, MInv, Phases, Item
<1>3. QED
  BY <1>0, <1>1, <1>2 DEF Undisturbed, Early, pubVars

LEMMA SetAsideIsUndisturbed ==
  ASSUME MInv, NEW r \in Run, NEW i \in Item, Undisturbed(r), SetAside(r, i)
  PROVE  Undisturbed(r)'
<1>0. /\ run' = run /\ backups' = backups /\ installed'[i] = NoApp
      /\ \A j \in Item : j # i => installed'[j] = installed[j]
  BY DEF MInv, MTypeOK, SetAside, pubVars
<1>1. pc[r] = <<"aside", i>> /\ Phase(r) = "aside"
  BY DEF SetAside, Phase
<1>2. CASE i = "app"
  <2>1. pc'[r] = <<"aside", "helper">> /\ Phase(r)' = "aside"
    BY <1>1, <1>2, Leads DEF SetAside, MInv, Phases, Item
  <2>2. QED
    BY <1>0, <1>1, <1>2, <2>1 DEF Undisturbed, Early, Item
<1>3. CASE i = "helper"
  <2>1. pc'[r] = <<"restore", "app">> /\ Phase(r)' = "restore"
    BY <1>1, <1>3, Leads DEF SetAside, MInv, Phases, Item
  <2>2. QED
    BY <1>0, <1>1, <1>3, <2>1 DEF Undisturbed, Early, Item
<1>4. QED
  BY <1>2, <1>3 DEF Item

LEMMA RestoreIsUndisturbed ==
  ASSUME MInv, NEW r \in Run, Undisturbed(r), Restore(r, "app")
  PROVE  Undisturbed(r)'
<1>0. /\ run' = run /\ "app" \in Item /\ "helper" \in Item
      /\ installed'["app"] = IF backups[r]["app"] = NoApp THEN installed["app"]
                             ELSE backups[r]["app"]
      /\ installed'["helper"] = installed["helper"]
      /\ backups'[r]["helper"] = backups[r]["helper"]
  BY DEF MInv, MTypeOK, Restore, pubVars, Item
<1>1. pc[r] = <<"restore", "app">> /\ Phase(r) = "restore"
  BY DEF Restore, Phase
<1>2. pc'[r] = <<"restore", "helper">> /\ Phase(r)' = "restore"
  BY <1>0, Leads DEF Restore, MInv, Phases
<1>3. run[r].raised = "publish" =>
        /\ installed["helper"] = NoApp /\ backups[r] = run[r].before
        /\ installed["app"] = NoApp
  BY <1>1 DEF Undisturbed
<1>4. QED
  BY <1>0, <1>2, <1>3 DEF Undisturbed, Early

\* A step of an active run concerns no other run that is alone.
LEMMA StepSolo ==
  ASSUME MInv, RenameInv, SoloInv, NEW r \in Run, Step(r)
  PROVE  SoloInv'
<1>0. /\ Active(r)
      /\ \A q \in Run : q # r => /\ pc'[q] = pc[q] /\ run'[q] = run[q]
                                 /\ Active(q)' = Active(q)
  BY StepIsMine DEF MInv, Active, Phase
<1>1. ASSUME \E e \in Over : End(r, e) PROVE ~Active(r)'
  BY <1>1, Leads DEF End, Active, MInv, Phases, Item
<1>2. ASSUME Active(r)', run'[r].alone PROVE run[r].alone /\ Undisturbed(r)'
  <2>1. run[r].alone /\ Undisturbed(r)
    BY <1>0, <1>1, <1>2, RecordKept DEF SoloInv
  <2>2. ASSUME NEW i \in Item, Restore(r, i) PROVE Undisturbed(r)'
    <3>1. i = "app"
      BY <1>1, <1>2, <2>2 DEF Restore, Over, Item
    <3>2. QED
      BY <2>1, <2>2, <3>1, RestoreIsUndisturbed
  <2>3. ~\E e \in Over : End(r, e)
    BY <1>1, <1>2
  <2>4. QED
    BY <1>2, <2>1, <2>2, <2>3, EarlyKeeps, MoveIsUndisturbed, PublishIsUndisturbed,
       FailureIsUndisturbed, SetAsideIsUndisturbed
       DEF Step, StagingFails, Register, Crash, UndoFails, Over
<1>3. ASSUME NEW q \in Run, Active(q)', run'[q].alone, q # r PROVE FALSE
  BY <1>0, <1>3 DEF SoloInv
<1>4. ASSUME NEW p \in Run, NEW q \in Run, Active(p)', run'[p].alone, Active(q)'
      PROVE  q = p
  <2>1. p = r /\ run[r].alone
    BY <1>2, <1>3, <1>4
  <2>2. q # r => Active(q)
    BY <1>0, <1>4
  <2>3. QED
    BY <1>0, <2>1, <2>2 DEF SoloInv
<1>5. QED
  BY <1>2, <1>3, <1>4 DEF SoloInv

LEMMA BeginSolo ==
  ASSUME MInv, SoloInv, NEW r \in Run, NEW force \in BOOLEAN, NEW allow \in BOOLEAN,
         NEW allowTeam \in BOOLEAN, NEW team \in Teams,
         Begin(r, force, allow, allowTeam, team)
  PROVE  SoloInv'
<1> DEFINE others == {q \in Run : Active(q)}
           mine == [NotRun EXCEPT !.allow = allow, !.allowTeam = allowTeam, !.team = team,
                              !.token = token, !.alone = (others = {}),
                              !.before = installed]
<1>1. /\ run' = [q \in Run |-> IF q = r THEN mine
                    ELSE IF q \in others THEN [run[q] EXCEPT !.alone = FALSE] ELSE run[q]]
      /\ UNCHANGED pubVars /\ run \in [Run -> RunRecords]
  BY DEF Begin, MInv, MTypeOK
<1>2. /\ pc'[r][1] \in {"token", "ready"} /\ Phase(r)' = pc'[r][1]
      /\ \A q \in Run : q # r => pc'[q] = pc[q]
  BY BeginKeeps DEF Phase
<1>3. mine.alone = (others = {}) /\ mine.before = installed /\ mine.raised = "none"
  BY DEF NotRun
<1> HIDE DEF mine
<1>4. ASSUME NEW q \in Run, q # r, Active(q) PROVE run'[q].alone = FALSE
  BY <1>1, <1>4 DEF RunRecords
<1>5. ASSUME NEW q \in Run, q # r PROVE Active(q)' = Active(q)
  BY <1>2, <1>5 DEF Active, Phase
<1>6. run'[r] = mine
  BY <1>1
<1>7. Undisturbed(r)'
  BY <1>1, <1>2, <1>3, <1>6 DEF Undisturbed, Early, pubVars
<1>8. run'[r].alone => \A q \in Run : q # r => ~Active(q)'
  BY <1>3, <1>5, <1>6
<1>9. QED
  BY <1>4, <1>5, <1>7, <1>8 DEF SoloInv

LEMMA NextSolo == MInv /\ RenameInv /\ SoloInv /\ [Next]_vars => SoloInv'
<1>1. ASSUME MInv, RenameInv, SoloInv, Next PROVE SoloInv'
  BY <1>1, StepSolo, BeginSolo DEF Next, Step
<1>2. ASSUME SoloInv, UNCHANGED vars PROVE SoloInv'
  BY <1>2 DEF SoloInv, Undisturbed, Active, Phase, vars, pubVars
<1>3. QED
  BY <1>1, <1>2

\* A run that is alone finds the pair as it left it (patch_app, patch_app.py:1131).
THEOREM SoloRuns == Spec => []SoloInv
  BY InitSolo, NextSolo, MacInvariant, RenamesHold, PTL DEF Spec

\* A publication that raised and was undone leaves the pair the run found, if
\* nobody met the run (except OSError, patch_app.py:1301).
THEOREM PublicationUndone == Spec => PublicationIsUndone
<1>1. ASSUME MInv, SoloInv, Next, NEW r \in Run,
             Phase(r) # "failed", pc'[r][1] = "failed", run[r].alone,
             run[r].raised = "publish"
      PROVE  installed' = run[r].before
  <2>1. Step(r)
    <3>1. ASSUME NEW q \in Run, q # r, Step(q) PROVE FALSE
      BY <1>1, <3>1, StepIsMine DEF MInv, Phase
    <3>2. ASSUME NEW q \in Run, NEW force \in BOOLEAN, NEW allow \in BOOLEAN,
                 NEW allowTeam \in BOOLEAN, NEW team \in Teams,
                 Begin(q, force, allow, allowTeam, team)
          PROVE  FALSE
      <4>1. pc'[q][1] \in {"token", "ready"} /\ \A p \in Run : p # q => pc'[p] = pc[p]
        BY <1>1, <3>2, BeginKeeps
      <4>2. QED
        BY <1>1, <4>1 DEF Phase
    <3>3. QED
      BY <1>1, <3>1, <3>2 DEF Next, Step
  <2>2. Active(r) /\ Undisturbed(r)
    BY <1>1, <2>1, StepIsMine DEF MInv, SoloInv
  <2>3. Phase(r) \in {"aside", "restore"}
    BY <1>1, <2>2 DEF Undisturbed
  <2>4. Restore(r, "helper")
    <3>1. ASSUME NEW p \in Phases, NEW i \in Item, GoTo(r, p, i) PROVE p = "failed"
      <4>1. Phase(r)' = p
        BY <1>1, <3>1, Leads DEF MInv
      <4>2. QED
        BY <1>1, <4>1 DEF Phase
    <3>2. ASSUME NEW e \in Over, End(r, e) PROVE e = "failed"
      BY <3>1, <3>2 DEF End, Phases, Item
    <3>3. \E i \in Item : SetAside(r, i) \/ Restore(r, i)
      BY <2>1, <2>3, <3>2 DEF Step, CreateToken, WriteToken, CheckTeam, Stage,
         StagingFails, Look, Register, Crash, Move, Publish, RenameFails, UndoFails,
         Phase, Over
    <3>4. ASSUME NEW i \in Item, SetAside(r, i) PROVE FALSE
      <4>1. \/ Phase(r)' = "aside" \/ Phase(r)' = "restore"
        BY <1>1, <3>4, Leads DEF SetAside, MInv, Phases, Phase
      <4>2. QED
        BY <1>1, <4>1 DEF Phase
    <3>5. ~Restore(r, "app")
      BY <3>1 DEF Restore, Phases, Item
    <3>6. QED
      BY <3>3, <3>4, <3>5 DEF Item
  <2>5. /\ pc[r] = <<"restore", "helper">> /\ Phase(r) = "restore" /\ "helper" \in Item
        /\ installed' = IF backups[r]["helper"] = NoApp THEN installed
                        ELSE [installed EXCEPT !["helper"] = backups[r]["helper"]]
    BY <2>4 DEF Restore, pubVars, Phase, Item
  <2>6. /\ installed["helper"] = NoApp /\ installed["app"] = run[r].before["app"]
        /\ backups[r]["helper"] = run[r].before["helper"]
    BY <1>1, <2>2, <2>5 DEF Undisturbed
  <2>7. /\ installed' \in [Item -> Builds \cup {NoApp}]
        /\ installed \in [Item -> Builds \cup {NoApp}]
        /\ run[r].before \in [Item -> Builds \cup {NoApp}]
    <3>1. MTypeOK' /\ run[r] \in RunRecords
      BY <1>1, <2>1, StepTypes DEF MInv, MTypeOK
    <3>2. QED
      BY <1>1, <3>1 DEF MInv, MTypeOK, RunRecords
  <2>8. \A j \in Item : installed'[j] = run[r].before[j]
    BY <2>5, <2>6, <2>7 DEF Item
  <2>9. QED
    BY <2>7, <2>8
<1>2. MInv /\ SoloInv /\ [Next]_vars =>
        [\A r \in Run :
           /\ Phase(r) # "failed" /\ pc'[r][1] = "failed"
           /\ run[r].alone /\ run[r].raised = "publish"
           => installed' = run[r].before]_vars
  BY <1>1
<1>3. QED
  BY <1>2, MacInvariant, SoloRuns, PTL DEF Spec, PublicationIsUndone

-----------------------------------------------------------------------------
(* Which edits a patch makes                                               *)

\* What the passes replace in the reviewed release.
Replaced(passes) == UNION {passes[i].swap \cup passes[i].first : i \in DOMAIN passes}

\* A patch that is not refused makes every edit of its passes, somewhere at
\* least: what the release lacks for one of them makes the pass refuse.
LEMMA AcceptedEdits ==
  ASSUME NEW passes, NEW d, Accepts(passes, d)
  PROVE  Edits(passes, d) \cup Firsts(passes, d) = Replaced(passes)
<1>1. ASSUME NEW i \in DOMAIN passes
      PROVE  EditsOf(passes[i], d) \cup FirstsOf(passes[i], d)
               = passes[i].swap \cup passes[i].first
  BY DEF Accepts, Refuses, EditsOf, FirstsOf
<1>2. QED
  BY <1>1 DEF Edits, Firsts, Replaced

\* Of the reviewed release nothing is edited at its first occurrence only.
LEMMA ReviewedFirsts ==
  ASSUME NEW passes, NEW d, ~d.more
  PROVE  Firsts(passes, d) = {}
BY DEF Firsts, FirstsOf

IsPasses(p) == \E S : p \in Seq(S)

LEMMA Joined ==
  ASSUME NEW p, NEW q, IsPasses(p), IsPasses(q)
  PROVE  IsPasses(p \o q) /\ Replaced(p \o q) = Replaced(p) \cup Replaced(q)
<1>0. PICK A, B : p \in Seq(A) /\ q \in Seq(B)
  BY DEF IsPasses
<1> DEFINE S == A \cup B
<1>1. p \in Seq(S) /\ q \in Seq(S)
  BY <1>0
<1>2. /\ p \o q \in Seq(S) /\ Len(p \o q) = Len(p) + Len(q)
      /\ Len(p) \in Nat /\ Len(q) \in Nat
      /\ DOMAIN p = 1..Len(p) /\ DOMAIN q = 1..Len(q)
      /\ DOMAIN (p \o q) = 1..(Len(p) + Len(q))
      /\ \A i \in DOMAIN (p \o q) : (p \o q)[i] = IF i <= Len(p) THEN p[i] ELSE q[i - Len(p)]
  BY <1>1
<1> DEFINE r == p \o q
<1> HIDE DEF r, S
<1>3. ASSUME NEW i \in DOMAIN p PROVE i \in DOMAIN r /\ r[i] = p[i]
  BY <1>2 DEF r
<1>4. ASSUME NEW i \in DOMAIN q
      PROVE  i + Len(p) \in DOMAIN r /\ r[i + Len(p)] = q[i]
  BY <1>2 DEF r
<1>5. ASSUME NEW i \in DOMAIN r
      PROVE  \/ i \in DOMAIN p /\ r[i] = p[i]
             \/ i - Len(p) \in DOMAIN q /\ r[i] = q[i - Len(p)]
  BY <1>2 DEF r
<1>6. Replaced(p) \subseteq Replaced(r)
  BY <1>3 DEF Replaced
<1>7. Replaced(q) \subseteq Replaced(r)
  BY <1>4 DEF Replaced
<1>8. Replaced(r) \subseteq Replaced(p) \cup Replaced(q)
  BY <1>5 DEF Replaced
<1>9. QED
  BY <1>2, <1>6, <1>7, <1>8 DEF r, IsPasses


LEMMA Literal ==
  /\ \A a : IsPasses(<<a>>)
  /\ \A a, b : IsPasses(<<a, b>>)
  /\ \A a, b, c : IsPasses(<<a, b, c>>)
  /\ \A a, b, c, d : IsPasses(<<a, b, c, d>>)
  /\ \A a, b, c, d, e : IsPasses(<<a, b, c, d, e>>)
  /\ \A a, b, c, d, e, f : IsPasses(<<a, b, c, d, e, f>>)
  /\ \A a, b, c, d, e, f, g : IsPasses(<<a, b, c, d, e, f, g>>)
  /\ \A a, b, c, d, e, f, g, h : IsPasses(<<a, b, c, d, e, f, g, h>>)
<1>1. ASSUME NEW a PROVE <<a>> \in Seq({a})
  OBVIOUS
<1>2. ASSUME NEW a, NEW b PROVE <<a, b>> \in Seq({a, b})
  OBVIOUS
<1>3. ASSUME NEW a, NEW b, NEW c PROVE <<a, b, c>> \in Seq({a, b, c})
  OBVIOUS
<1>4. ASSUME NEW a, NEW b, NEW c, NEW d PROVE <<a, b, c, d>> \in Seq({a, b, c, d})
  OBVIOUS
<1>5. ASSUME NEW a, NEW b, NEW c, NEW d, NEW e
      PROVE  <<a, b, c, d, e>> \in Seq({a, b, c, d, e})
  OBVIOUS
<1>6. ASSUME NEW a, NEW b, NEW c, NEW d, NEW e, NEW f
      PROVE  <<a, b, c, d, e, f>> \in Seq({a, b, c, d, e, f})
  OBVIOUS
<1>7. ASSUME NEW a, NEW b, NEW c, NEW d, NEW e, NEW f, NEW g
      PROVE  <<a, b, c, d, e, f, g>> \in Seq({a, b, c, d, e, f, g})
  OBVIOUS
<1>8. ASSUME NEW a, NEW b, NEW c, NEW d, NEW e, NEW f, NEW g, NEW h
      PROVE  <<a, b, c, d, e, f, g, h>> \in Seq({a, b, c, d, e, f, g, h})
  OBVIOUS
<1>9. QED
  BY <1>1, <1>2, <1>3, <1>4, <1>5, <1>6, <1>7, <1>8 DEF IsPasses

LEMMA FromPass ==
  ASSUME NEW passes, NEW i \in DOMAIN passes
  PROVE  passes[i].swap \subseteq Replaced(passes) /\ passes[i].first \subseteq Replaced(passes)
BY DEF Replaced


LEMMA AcceptsBoth ==
  ASSUME NEW p, NEW q, NEW d, IsPasses(p), IsPasses(q), Accepts(p \o q, d)
  PROVE  Accepts(p, d) /\ Accepts(q, d)
<1>1. PICK A, B : p \in Seq(A) /\ q \in Seq(B)
  BY DEF IsPasses
<1> DEFINE S == A \cup B
           both == p \o q
<1>2. p \in Seq(S) /\ q \in Seq(S)
  BY <1>1
<1>3. /\ Len(p) \in Nat /\ Len(q) \in Nat
      /\ DOMAIN p = 1..Len(p) /\ DOMAIN q = 1..Len(q)
      /\ DOMAIN both = 1..(Len(p) + Len(q))
      /\ \A i \in DOMAIN both : both[i] = IF i <= Len(p) THEN p[i] ELSE q[i - Len(p)]
  BY <1>2
<1>4. \A i \in DOMAIN both : ~Refuses(both[i], d)
  BY DEF Accepts
<1> HIDE DEF both, S
<1>5. ASSUME NEW i \in DOMAIN p PROVE i \in DOMAIN both /\ both[i] = p[i]
  BY <1>3
<1>6. ASSUME NEW i \in DOMAIN q
      PROVE  i + Len(p) \in DOMAIN both /\ both[i + Len(p)] = q[i]
  BY <1>3
<1>7. QED
  BY <1>4, <1>5, <1>6 DEF Accepts

\* No pass of two lists visits a bundle that neither of them visits.
LEMMA BothApart ==
  ASSUME NEW p, NEW q, NEW bundle, IsPasses(p), IsPasses(q),
         \A i \in DOMAIN p : p[i].bundle # bundle,
         \A i \in DOMAIN q : q[i].bundle # bundle
  PROVE  \A i \in DOMAIN (p \o q) : (p \o q)[i].bundle # bundle
<1>1. PICK A, B : p \in Seq(A) /\ q \in Seq(B)
  BY DEF IsPasses
<1> DEFINE S == A \cup B
<1>2. p \in Seq(S) /\ q \in Seq(S)
  BY <1>1
<1>3. /\ Len(p) \in Nat /\ Len(q) \in Nat
      /\ DOMAIN p = 1..Len(p) /\ DOMAIN q = 1..Len(q)
      /\ DOMAIN (p \o q) = 1..(Len(p) + Len(q))
      /\ \A i \in DOMAIN (p \o q) : (p \o q)[i] = IF i <= Len(p) THEN p[i] ELSE q[i - Len(p)]
  BY <1>2
<1>4. ASSUME NEW i \in DOMAIN (p \o q)
      PROVE  \/ i \in DOMAIN p /\ (p \o q)[i] = p[i]
             \/ i - Len(p) \in DOMAIN q /\ (p \o q)[i] = q[i - Len(p)]
  BY <1>3
<1>5. QED
  BY <1>4

LEMMA HelperEdits ==
  ASSUME NEW team
  PROVE  /\ IsPasses(HelperPasses(team))
         /\ \A d : Accepts(HelperPasses(team), d) =>
                    HelperPasses(team)[1].swap \subseteq Edits(HelperPasses(team), d)
<1>1. IsPasses(HelperPasses(team)) /\ DOMAIN HelperPasses(team) = 1..1
  BY Literal DEF HelperPasses
<1>2. HelperPasses(team)[1].first = {} /\ HelperPasses(team)[1].files = "one"
  BY DEF HelperPasses, On
<1>3. ASSUME NEW d, Accepts(HelperPasses(team), d)
      PROVE  HelperPasses(team)[1].swap \subseteq Edits(HelperPasses(team), d)
  <2>1. ~Refuses(HelperPasses(team)[1], d)
    BY <1>1, <1>3 DEF Accepts
  <2>2. HelperPasses(team)[1].swap \subseteq EditsOf(HelperPasses(team)[1], d)
    BY <1>2, <2>1 DEF Refuses, EditsOf
  <2>3. QED
    BY <1>1, <2>2 DEF Edits
<1>4. QED
  BY <1>1, <1>3

LEMMA ProfileEdits ==
  /\ IsPasses(ComputerUseIdentity) /\ IsPasses(DesktopProfile)
  /\ "cua-identity" \in Replaced(ComputerUseIdentity)
  /\ {"user-data-path", "updater-startup", "managed-service", "cua-instruction"}
       \subseteq Replaced(DesktopProfile)
<1>1. IsPasses(ComputerUseIdentity) /\ IsPasses(DesktopProfile)
  BY Literal DEF ComputerUseIdentity, DesktopProfile
<1>2. /\ DOMAIN ComputerUseIdentity = 1..1
      /\ "cua-identity" \in ComputerUseIdentity[1].swap
  <2>1. DOMAIN ComputerUseIdentity = 1..1
    BY DEF ComputerUseIdentity
  <2>2. "cua-identity" \in ComputerUseIdentity[1].swap
    BY DEF ComputerUseIdentity, On
  <2>3. QED
    BY <2>1, <2>2
<1>3. DOMAIN DesktopProfile = 1..2
  BY DEF DesktopProfile
<1>4. DesktopProfile[1].first = {"user-data-path", "updater-startup"}
  BY DEF DesktopProfile, On
<1>5. "managed-service" \in DesktopProfile[2].first
  BY DEF DesktopProfile, On
<1>6. "cua-instruction" \in DesktopProfile[2].swap
  BY DEF DesktopProfile, On
<1>7. "cua-identity" \in Replaced(ComputerUseIdentity)
  BY <1>2, FromPass
<1>8. \A i \in 1..2 : /\ DesktopProfile[i].swap \subseteq Replaced(DesktopProfile)
                      /\ DesktopProfile[i].first \subseteq Replaced(DesktopProfile)
  BY <1>3, FromPass
<1>9. QED
  BY <1>1, <1>4, <1>5, <1>6, <1>7, <1>8

LEMMA RendererEdits ==
  IsPasses(MacRenderer) /\ Routing \subseteq Replaced(MacRenderer)
<1>1. IsPasses(MacRenderer) /\ DOMAIN MacRenderer = 1..5
  BY Literal DEF MacRenderer
<1>2. MacRenderer[1].first = {"csp"}
  BY DEF MacRenderer, MacCsp, Csp, On
<1>3. MenuEdits \cup ResetModal \cup ResetHooks \cup Requests \subseteq MacRenderer[2].swap
  BY DEF MacRenderer, MacInitial, Initial26820, On
<1>4. "avatar-stack" \in MacRenderer[3].swap
  BY DEF MacRenderer, MacProfile, Avatars, On
<1>5. "plugin-scope" \in MacRenderer[4].swap
  BY DEF MacRenderer, Plugins, On
<1>6. {"thread-component", "thread-section"} \subseteq MacRenderer[5].swap
  BY DEF MacRenderer, Thread, On
<1>7. \A i \in 1..5 : /\ MacRenderer[i].swap \subseteq Replaced(MacRenderer)
                      /\ MacRenderer[i].first \subseteq Replaced(MacRenderer)
  BY <1>1, FromPass
<1>8. {"csp", "avatar-stack", "plugin-scope", "thread-component", "thread-section"}
        \subseteq Replaced(MacRenderer)
  BY <1>2, <1>4, <1>5, <1>6, <1>7
<1>9. {"menu-component", "usage-slot"} \cup ResetModal \cup ResetHooks \cup Requests
        \subseteq Replaced(MacRenderer)
  BY <1>3, <1>7 DEF MenuEdits
<1>10. QED
  BY <1>1, <1>8, <1>9 DEF Routing

\* No edit the application must have is left out.
LEMMA MacEdits ==
  /\ IsPasses(MacPasses)
  /\ Routing \cup MacIsolation \subseteq Replaced(MacPasses)
  /\ UpdaterOff(Replaced(MacPasses))
<1> DEFINE early == ComputerUseIdentity \o DesktopProfile
<1>1. /\ IsPasses(early)
      /\ Replaced(early) = Replaced(ComputerUseIdentity) \cup Replaced(DesktopProfile)
  BY ProfileEdits, Joined
<1>2. MacPasses = early \o MacRenderer
  BY DEF MacPasses
<1> HIDE DEF early
<1>3. /\ IsPasses(MacPasses)
      /\ Replaced(MacPasses) = Replaced(early) \cup Replaced(MacRenderer)
  BY <1>1, <1>2, RendererEdits, Joined
<1>4. QED
  BY <1>1, <1>3, ProfileEdits, RendererEdits DEF MacIsolation, UpdaterOff

\* A helper that differs leaves the archive as it is.
LEMMA MacFirsts ==
  ASSUME NEW d, d.bundle = "cua"
  PROVE  Firsts(MacPasses, d) = {}
<1>1. \A i \in DOMAIN ComputerUseIdentity : ComputerUseIdentity[i].bundle # "cua"
  <2>1. DOMAIN ComputerUseIdentity = 1..1
    BY DEF ComputerUseIdentity
  <2>2. ComputerUseIdentity[1].bundle = "asar"
    BY DEF ComputerUseIdentity, On
  <2>3. QED
    BY <2>1, <2>2
<1>2. \A i \in DOMAIN DesktopProfile : DesktopProfile[i].bundle # "cua"
  <2>1. DOMAIN DesktopProfile = 1..2
    BY DEF DesktopProfile
  <2>2. DesktopProfile[1].bundle = "bootstrap"
    BY DEF DesktopProfile, On
  <2>3. DesktopProfile[2].bundle = "main"
    BY DEF DesktopProfile, On
  <2>4. QED
    BY <2>1, <2>2, <2>3
<1>3. \A i \in DOMAIN MacRenderer : MacRenderer[i].bundle # "cua"
  <2>1. DOMAIN MacRenderer = 1..5
    BY DEF MacRenderer
  <2>2. MacRenderer[1].bundle = "index.html"
    BY DEF MacRenderer, MacCsp, Csp, On
  <2>3. MacRenderer[2].bundle = "app-initial"
    BY DEF MacRenderer, MacInitial, Initial26820, On
  <2>4. MacRenderer[3].bundle = "profile"
    BY DEF MacRenderer, MacProfile, Avatars, On
  <2>5. MacRenderer[4].bundle = "plugins-settings"
    BY DEF MacRenderer, Plugins, On
  <2>6. MacRenderer[5].bundle = "local-conversation-thread"
    BY DEF MacRenderer, Thread, On
  <2>7. QED
    BY <2>1, <2>2, <2>3, <2>4, <2>5, <2>6
<1>4. IsPasses(ComputerUseIdentity \o DesktopProfile)
  BY ProfileEdits, Joined
<1>5. \A i \in DOMAIN MacPasses : MacPasses[i].bundle # "cua"
  <2> DEFINE early == ComputerUseIdentity \o DesktopProfile
  <2>1. \A i \in DOMAIN early : early[i].bundle # "cua"
    BY <1>1, <1>2, ProfileEdits, BothApart
  <2>2. MacPasses = early \o MacRenderer /\ IsPasses(early) /\ IsPasses(MacRenderer)
    BY <1>4, RendererEdits DEF MacPasses
  <2> HIDE DEF early
  <2>3. QED
    BY <1>3, <2>1, <2>2, BothApart
<1>6. QED
  BY <1>5 DEF Firsts, FirstsOf

-----------------------------------------------------------------------------
(* What is published                                                       *)

\* A copy that was staged, of a source that was compared or allowed, is whole.
LEMMA StagedIsWhole ==
  ASSUME NEW s \in Sources, NEW b, ~StagingRefuses(s, b.team), b.allow \/ Approved(s)
  PROVE  Whole(s, b)
<1> DEFINE team == b.team
           copy == StagedCopy(s, team)
           helper == Edits(HelperPasses(team), s.drift)
           edits == Edits(MacPasses, s.drift)
           firsts == Firsts(MacPasses, s.drift)
<1>1. Accepts(MacPasses, s.drift) /\ Accepts(HelperPasses(team), s.drift)
  BY MacEdits, HelperEdits, AcceptsBoth DEF StagingRefuses
<1>2. Lacks(edits \cup firsts, MacIsolation) = {}
  <2>1. edits \cup firsts = Replaced(MacPasses)
    BY <1>1, AcceptedEdits
  <2>2. QED
    BY <2>1, MacEdits DEF Lacks
<1>3. HelperPasses(team)[1].swap \subseteq helper
  BY <1>1, HelperEdits
<1>4. /\ copy.archive = "patched" /\ copy.demands = "patched" /\ copy.codex = "mux"
      /\ copy.helper = helper /\ copy.edits = edits /\ copy.firsts = firsts
      /\ copy.sealed = {<<"patched", "patched", "mux", helper>>}
  <2> DEFINE c1 == WithArchive(s, Copied)
             c2 == WithPlist(WithRouter(c1))
             c3 == WithHelper(s, team, c2)
  <2>1. /\ c1.archive = "patched" /\ c1.edits = edits /\ c1.firsts = firsts
        /\ DOMAIN c1 = {"archive", "demands", "codex", "helper", "edits", "firsts", "sealed"}
    <3>1. c1 = [Copied EXCEPT !.archive = "patched", !.edits = edits, !.firsts = firsts]
      BY DEF WithArchive
    <3> HIDE DEF edits, firsts, c1
    <3>2. QED
      BY <3>1 DEF Copied
  <2> HIDE DEF c1, edits, firsts
  <2>2. /\ c2.archive = "patched" /\ c2.edits = edits /\ c2.firsts = firsts
        /\ c2.demands = "patched" /\ c2.codex = "mux"
        /\ DOMAIN c2 = {"archive", "demands", "codex", "helper", "edits", "firsts", "sealed"}
    BY <2>1 DEF WithPlist, WithRouter
  <2> HIDE DEF c2, helper
  <2>3. c3 = [c2 EXCEPT !.helper = helper]
    BY DEF WithHelper, helper
  <2> HIDE DEF c3
  <2>4. /\ c3.archive = "patched" /\ c3.edits = edits /\ c3.firsts = firsts
        /\ c3.demands = "patched" /\ c3.codex = "mux" /\ c3.helper = helper
        /\ DOMAIN c3 = {"archive", "demands", "codex", "helper", "edits", "firsts", "sealed"}
    BY <2>2, <2>3
  <2>5. copy = [c3 EXCEPT !.sealed = {Contents(c3)}]
    BY DEF StagedCopy, Signed, c1, c2, c3
  <2> HIDE DEF copy
  <2>6. Contents(c3) = <<"patched", "patched", "mux", helper>>
    BY <2>4 DEF Contents
  <2>7. QED
    BY <2>4, <2>5, <2>6
<1>5. b.allow \/ s.drift = NoDrift \/ s.drift.bundle = "cua"
  BY SourceAssumption DEF Approved
<1>6. Contents(copy) = <<"patched", "patched", "mux", helper>>
  BY <1>4 DEF Contents
<1>7. b.allow \/ firsts = {}
  <2>1. ASSUME s.drift.bundle = "cua" PROVE firsts = {}
    BY <2>1, MacFirsts
  <2>2. ASSUME s.drift = NoDrift PROVE firsts = {}
    BY <2>2, ReviewedFirsts DEF NoDrift, Drift
  <2>3. QED
    BY <1>5, <2>1, <2>2
<1> HIDE DEF helper, edits, firsts
<1>8. QED
  BY <1>2, <1>3, <1>4, <1>5, <1>6, <1>7 DEF Whole

-----------------------------------------------------------------------------
(* What the sources were checked for                                       *)

\* A run that goes on past its beginning was allowed its source, one that has
\* a copy found every anchor in it, and so has whatever was published.
Permitted(team, allow) == ~StagingRefuses(source, team) /\ (allow \/ Approved(source))

CheckedInv ==
  /\ source \in Sources
  /\ \A r \in Run :
       /\ Active(r) => run[r].allow \/ Approved(source)
       /\ Phase(r) \in {"staged", "move", "publish"} => ~StagingRefuses(source, run[r].team)
  /\ \A b \in Made : b.by # Old => Permitted(b.team, b.allow)

LEMMA InitChecked == Init => CheckedInv
<1> SUFFICES ASSUME Init PROVE CheckedInv
  OBVIOUS
<1>1. source \in Sources /\ \A r \in Run : Phase(r) = "idle" /\ ~Active(r)
  BY DEF Init, Phase, Active
<1>2. \A b \in Made : b.by = Old
  BY DEF Init, Made, Kept, Build
<1>3. QED
  BY <1>1, <1>2 DEF CheckedInv

\* A run keeps what it was allowed and the team it signs for until it ends.
LEMMA StepAllows ==
  ASSUME MInv, NEW r \in Run, Step(r)
  PROVE  \/ ~Active(r)'
         \/ run'[r].allow = run[r].allow /\ run'[r].team = run[r].team
<1>0. run \in [Run -> RunRecords] /\ run[r] \in RunRecords
  BY DEF MInv, MTypeOK
<1>1. CASE WriteToken(r)
  BY <1>0, <1>1 DEF WriteToken, RunRecords
<1>2. CASE Look(r)
  BY <1>0, <1>2 DEF Look, RunRecords
<1>3. CASE \E i \in Item : RenameFails(r, i)
  BY <1>0, <1>3 DEF RenameFails, RunRecords
<1>4. CASE run' = run
  BY <1>4
<1>5. ASSUME NEW e \in Over, End(r, e) PROVE ~Active(r)'
  <2>1. MTypeOK /\ "app" \in Item /\ e \in Phases /\ GoTo(r, e, "app")
    BY <1>5 DEF MInv, Item, Phases, End
  <2>2. Phase(r)' = e
    BY <2>1, Leads
  <2>3. QED
    BY <2>2 DEF Active
<1>6. QED
  BY <1>1, <1>2, <1>3, <1>4, <1>5 DEF Step, CreateToken, CheckTeam, Stage, StagingFails,
     Register, Crash, Move, Publish, SetAside, Restore, UndoFails, Over

\* A run has a copy only by staging it.
LEMMA StepStages ==
  ASSUME MInv, NEW r \in Run, Step(r), Phase(r)' \in {"staged", "move", "publish"}
  PROVE  Phase(r) \in {"staged", "move", "publish"} \/ Stage(r)
<1>0. MTypeOK /\ "app" \in Item
  BY DEF MInv, Item
<1>1. ASSUME NEW e \in Over, End(r, e) PROVE FALSE
  BY <1>0, <1>1, Located DEF End, Phase, Phases, Over
<1>2. ASSUME NEW i \in Item, SetAside(r, i) PROVE FALSE
  <2>1. Phase(r) = "aside" /\ Onward(r, i, "restore")
    BY <1>2 DEF SetAside, Phase
  <2>2. Phase(r)' \in {"aside", "restore"}
    BY <1>0, <2>1, Leads DEF Phases
  <2>3. QED
    BY <2>2
<1>3. ASSUME NEW i \in Item, RenameFails(r, i) PROVE FALSE
  BY <1>0, <1>3, Leads DEF RenameFails, Phases
<1>4. ASSUME NEW i \in Item, Restore(r, i) PROVE FALSE
  <2>1. ~GoTo(r, "restore", "helper")
    BY <1>0, Leads DEF Phases, Item
  <2>2. QED
    BY <1>1, <1>4, <2>1 DEF Restore, Over
<1>5. ASSUME CreateToken(r) \/ WriteToken(r) \/ CheckTeam(r) PROVE FALSE
  BY <1>0, <1>5, Leads DEF CreateToken, WriteToken, CheckTeam, Phases
<1>6. QED
  BY <1>1, <1>2, <1>3, <1>4, <1>5 DEF Step, StagingFails, Look, Register, Crash, Move,
     Publish, UndoFails, Over, Phase

LEMMA StepChecks ==
  ASSUME MInv, CheckedInv, NEW r \in Run, Step(r)
  PROVE  CheckedInv'
<1>0. /\ \A q \in Run : q # r => /\ Phase(q)' = Phase(q) /\ Active(q)' = Active(q)
                                 /\ run'[q] = run[q]
      /\ Active(r)
  BY StepIsMine DEF MInv, Phase, Active
<1>1. source' = source
  BY DEF Step, CreateToken, WriteToken, CheckTeam, Stage, StagingFails, Look, Register,
     Crash, Move, Publish, RenameFails, SetAside, Restore, UndoFails
<1>2. Active(r)' => run'[r].allow \/ Approved(source)
  BY <1>0, StepAllows DEF CheckedInv
<1>3. ASSUME Phase(r)' \in {"staged", "move", "publish"}
      PROVE  ~StagingRefuses(source, run'[r].team)
  <2>1. Active(r)'
    BY <1>3 DEF Active, Over
  <2>2. run'[r].team = run[r].team
    BY <2>1, StepAllows
  <2>3. CASE Stage(r)
    BY <2>2, <2>3 DEF Stage
  <2>4. CASE Phase(r) \in {"staged", "move", "publish"}
    BY <2>2, <2>4 DEF CheckedInv
  <2>5. QED
    BY <1>3, <2>3, <2>4, StepStages
<1>4. ASSUME NEW b \in Made', b.by # Old PROVE Permitted(b.team, b.allow)
  <2>1. CASE b \in Made
    BY <1>4, <2>1 DEF CheckedInv
  <2>2. ASSUME NEW i \in Item, Publish(r, i),
               b = Build(r, run[r].team, run[r].token, run[r].allow)
        PROVE  Permitted(b.team, b.allow)
    <3>1. b.allow = run[r].allow /\ b.team = run[r].team
      BY <2>2 DEF Build
    <3>2. Phase(r) = "publish"
      BY <2>2 DEF Publish, Phase
    <3>3. QED
      BY <1>0, <3>1, <3>2 DEF CheckedInv, Permitted
  <2>3. QED
    BY <2>1, <2>2, StepMakes
<1>5. QED
  BY <1>0, <1>1, <1>2, <1>3, <1>4 DEF CheckedInv, Permitted

LEMMA BeginChecks ==
  ASSUME MInv, CheckedInv, NEW r \in Run, NEW force \in BOOLEAN, NEW allow \in BOOLEAN,
         NEW allowTeam \in BOOLEAN, NEW team \in Teams,
         Begin(r, force, allow, allowTeam, team)
  PROVE  CheckedInv'
<1> DEFINE others == {q \in Run : Active(q)}
           mine == [NotRun EXCEPT !.allow = allow, !.allowTeam = allowTeam, !.team = team,
                              !.token = token, !.alone = (others = {}),
                              !.before = installed]
<1>1. /\ run' = [q \in Run |-> IF q = r THEN mine
                    ELSE IF q \in others THEN [run[q] EXCEPT !.alone = FALSE] ELSE run[q]]
      /\ UNCHANGED <<source, pubVars>> /\ run \in [Run -> RunRecords]
      /\ Approved(source) \/ allow
  BY DEF Begin, MInv, MTypeOK
<1>2. /\ Phase(r)' \in {"token", "ready"}
      /\ \A q \in Run : q # r => Phase(q)' = Phase(q) /\ Active(q)' = Active(q)
  BY BeginKeeps DEF Phase, Active
<1>3. mine.allow = allow
  BY DEF NotRun
<1> HIDE DEF mine
<1>4. ASSUME NEW q \in Run, q # r
      PROVE  run'[q].allow = run[q].allow /\ run'[q].team = run[q].team
  <2>1. run[q] \in RunRecords
    BY <1>1
  <2>2. run'[q] = run[q] \/ run'[q] = [run[q] EXCEPT !.alone = FALSE]
    BY <1>1, <1>4
  <2>3. QED
    BY <2>1, <2>2 DEF RunRecords
<1>5. run'[r].allow \/ Approved(source)
  BY <1>1, <1>3
<1>6. Made' = Made /\ source' = source
  BY <1>1 DEF Made, Kept, pubVars
<1>7. QED
  BY <1>2, <1>4, <1>5, <1>6 DEF CheckedInv, Permitted

LEMMA NextChecked == MInv /\ CheckedInv /\ [Next]_vars => CheckedInv'
<1>1. ASSUME MInv, CheckedInv, Next PROVE CheckedInv'
  BY <1>1, StepChecks, BeginChecks DEF Next, Step
<1>2. ASSUME CheckedInv, UNCHANGED vars PROVE CheckedInv'
  BY <1>2 DEF CheckedInv, Permitted, Made, Kept, Active, Phase, vars, pubVars
<1>3. QED
  BY <1>1, <1>2

\* Whatever a run published is of a source whose every anchor it found, and
\* which was the approved one unless the run allowed another.
THEOREM PairSourcesAreChecked == Spec => []CheckedInv
  BY InitChecked, NextChecked, MacInvariant, PTL DEF Spec

\* Whatever a run has published is a whole application with its helper, for
\* any team and from any source (patch_app, sign_independent_app).
THEOREM PairsAreWhole == Spec => []PairIsWhole
<1>1. CheckedInv => PairIsWhole
  BY StagedIsWhole DEF CheckedInv, Permitted, PairIsWhole
<1>2. QED
  BY <1>1, PairSourcesAreChecked, PTL
=============================================================================
