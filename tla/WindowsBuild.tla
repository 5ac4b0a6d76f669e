---------------------------- MODULE WindowsBuild -----------------------------
(***************************************************************************)
(* scripts/patch_windows_app.py: a patched copy of the official desktop is *)
(* assembled beside its destination and published by renaming directories. *)
(* Runs of the patcher share the destination and the state root with the   *)
(* control token; each may fail or be killed between any two of its steps. *)
(*                                                                         *)
(*   idle -> begun -> staged -> (writing ->) moving -> publishing -> done  *)
(*   with rollback -> restoring -> cleanup -> failed, damaged, interrupted *)
(*                                                                         *)
(* Staging happens in a directory of the run's own, so it is one step.     *)
(* The source is not replaced while runs are under way.                    *)
(***************************************************************************)
EXTENDS AppEdits

CONSTANTS
  Run,        \* invocations of the patcher
  Sources,    \* official applications the runs may be given
  Old,        \* stands for whoever made the build that is already installed
  Router,     \* stands for a starting router, which also makes a token
  NoApp,      \* nothing at the destination
  NoToken,    \* no token file
  Partial     \* the file between its creation and the write

ASSUME RunAssumption == Old \notin Run /\ Router \notin Run

\* Tokens are named after who generated them.
Maker   == Run \cup {Old}
Tokens  == Run \cup {Old, Router}
ASSUME TokenAssumption == NoToken \notin Tokens \cup {Partial} /\ Partial \notin Tokens

VARIABLES
  source,   \* the official application
  dest,     \* what is installed, or NoApp
  backups,  \* for each run, what it moved to its backup directory
  aside,    \* for each run, what it moved to a .failed- directory
  token,    \* state_root/control-token
  root,     \* the state root exists
  pc,
  run       \* what each run decided and remembers

pubVars   == <<dest, backups, aside>>
stateVars == <<token, root>>
vars == <<source, pubVars, stateVars, pc, run>>

\* "failed", "damaged" and "interrupted" are the same to the code: a run that
\* raised.  It is damaged when undoing its work failed as well.
Raised == {"failed", "damaged", "interrupted"}
Over   == {"done", "crashed"} \cup Raised
Places == {"idle", "begun", "staged", "writing", "moving", "publishing",
           "rollback", "restoring", "cleanup"} \cup Over
Active(r) == pc[r] \notin {"idle"} \cup Over

(***************************************************************************)
(* The official application.                                               *)
(***************************************************************************)
\* Parts whose hash is recorded for a reviewed release.  The newer records
\* hold the runtime library and the signer too.
Parts == {"codex", "chatgpt", "launcher", "account", "cua", "chrome", "signer"}
Recorded(v) == IF Latest(v) THEN Parts ELSE Parts \ {"chrome", "signer"}

\* Releases whose signed desktop is kept byte for byte; the others that are
\* split carry the archive's hash, and their fuses make the desktop check it.
KeptRuntime(v) == v \in {"26.903", "26.903u", "26.908", "26.911", "26.915", "26.917"}
Bound(v) == IsSplitRenderer(v) /\ ~KeptRuntime(v)

\* bound: ChatGPT.exe carries the hash of this archive and the fuses are on;
\* layout: the files, formats, signatures and the Computer Use contract are
\* as required.
Source(v, d, altered, bound, layout) ==
  [version |-> v, drift |-> d, altered |-> altered, bound |-> bound, layout |-> layout]
Reviewed(v) == Source(v, NoDrift, {}, Bound(v), TRUE)

\* The hash is in ChatGPT.exe and the fuses are in chrome.dll.  With the
\* reviewed ones, the releases whose desktop is kept have no hash in it.
ASSUME SourceAssumption ==
  \A s \in Sources :
    /\ s.version \in WindowsVersions /\ s.altered \subseteq Parts
    /\ KeptRuntime(s.version) /\ s.altered \cap {"chatgpt", "chrome"} = {} => ~s.bound

\* validate_approved_source: a changed archive has another hash.
Approved(s) == s.drift = NoDrift /\ s.altered \cap Recorded(s.version) = {}

\* rebind_desktop_integrity and windows_asar_integrity.patch_desktop_integrity.
KeepsSigned(s) == KeptRuntime(s.version) /\ "chatgpt" \notin s.altered
RebindRefuses(s) == /\ IsSplitRenderer(s.version)
                    /\ IF KeepsSigned(s) THEN "chrome" \in s.altered ELSE ~s.bound

(***************************************************************************)
(* The staged copy: which archive it holds, which archive its desktop      *)
(* demands, and what it runs as ChatGPT.exe and codex.exe.                 *)
(***************************************************************************)
Copied(s) == [archive |-> "official", demands |-> IF s.bound THEN "official" ELSE "any",
              desktop |-> "official", codex |-> "official", edits |-> {}, firsts |-> {}]

\* repack_asar, install_repacked_asar
WithArchive(s, copy) ==
  [copy EXCEPT !.archive = "patched",
               !.edits = Edits(WindowsPasses(s.version), s.drift),
               !.firsts = Firsts(WindowsPasses(s.version), s.drift)]

\* swap_executables
WithLauncher(copy) == [copy EXCEPT !.desktop = "launcher", !.codex = "mux"]

\* verify_desktop_integrity: the runtime differs in the hash only, and the
\* hash is that of the archive beside it.
WithIntegrity(s, copy) ==
  IF IsSplitRenderer(s.version) /\ ~KeepsSigned(s)
  THEN [copy EXCEPT !.demands = copy.archive] ELSE copy

\* patch_app from the copy to the manifest
StagedCopy(s) == WithIntegrity(s, WithLauncher(WithArchive(s, Copied(s))))
StagingRefuses(s) == ~Accepts(WindowsPasses(s.version), s.drift) \/ RebindRefuses(s)

\* An installed build: who made it, the token its renderer holds, the backup
\* its manifest names, and whether an untested source was allowed.
Build(by, tok, backup, allow) ==
  [by |-> by, token |-> tok, backup |-> backup, allow |-> allow]
OldBuild == Build(Old, Old, FALSE, FALSE)
Builds == [by : Maker, token : Tokens, backup : BOOLEAN, allow : BOOLEAN]
Elsewhere == {backups[r] : r \in Run} \cup {aside[r] : r \in Run}

ASSUME AppAssumption == NoApp \notin Builds

NotRun == [force |-> FALSE, dry |-> FALSE, allow |-> FALSE, token |-> NoToken,
           fresh |-> FALSE, planned |-> FALSE, rootPre |-> FALSE,
           persisted |-> FALSE, moved |-> FALSE, alone |-> FALSE, ends |-> "failed",
           before |-> [dest |-> NoApp, token |-> NoToken]]

Init == /\ source \in Sources
        /\ dest \in {NoApp, OldBuild}
        /\ backups = [r \in Run |-> NoApp]
        /\ aside = [r \in Run |-> NoApp]
        /\ token \in {NoToken, Old}
        /\ dest = OldBuild => token = Old
        /\ root = (token = Old)
        /\ pc = [r \in Run |-> "idle"]
        /\ run = [r \in Run |-> NotRun]

(***************************************************************************)
(* One run.                                                                *)
(***************************************************************************)
GoTo(r, place) == pc' = [pc EXCEPT ![r] = place]

\* What a run that is over leaves in its record is only whether it was alone.
End(r, place) ==
  /\ GoTo(r, place)
  /\ run' = [run EXCEPT ![r] = [NotRun EXCEPT !.alone = run[r].alone]]

\* prepare_control_token: the token that is there, or a new one; a file that
\* holds no token makes the run refuse.
TokenIsUsable == token # Partial
PreparedToken(r) == IF token = NoToken THEN r ELSE token

\* patch_app up to the staging directory.  An instance is alone as long as no
\* other run and no starting router overlaps it.
Begin(r, force, dry, allow) ==
  /\ pc[r] = "idle"
  /\ source.layout
  /\ Approved(source) \/ allow
  /\ dest = NoApp \/ force
  /\ TokenIsUsable
  /\ LET others == {q \in Run : Active(q)}
     IN run' = [q \in Run |->
          IF q = r
          THEN [NotRun EXCEPT !.force = force, !.dry = dry, !.allow = allow,
                              !.token = PreparedToken(r), !.fresh = (token = NoToken),
                              !.alone = (others = {}),
                              !.before = [dest |-> dest, token |-> token]]
          ELSE IF q \in others THEN [run[q] EXCEPT !.alone = FALSE] ELSE run[q]]
  /\ GoTo(r, "begun")
  /\ UNCHANGED <<source, pubVars, stateVars>>

\* plan_backup_path: the manifest is written before anything is moved.
PlansNothing == FALSE
PlansBackup == dest # NoApp

\* The whole of the staging, from state_root_preexisted to the manifest.  A
\* dry run ends here.
Stage(r) ==
  /\ pc[r] = "begun"
  /\ ~StagingRefuses(source)
  /\ IF run[r].dry
     THEN End(r, "done")
     ELSE /\ run' = [run EXCEPT ![r].rootPre = root, ![r].planned = PlansBackup]
          /\ GoTo(r, "staged")
  /\ UNCHANGED <<source, pubVars, stateVars>>

\* An anchor, the archive tool, a copy or a verification failed, or the run was
\* interrupted.
StageFails(r) ==
  /\ pc[r] = "begun"
  /\ End(r, "failed")
  /\ UNCHANGED <<source, pubVars, stateVars>>

\* if token_is_new: persist_control_token, up to the exclusive creation
CreateToken(r) ==
  /\ pc[r] = "staged"
  /\ run[r].fresh
  /\ root' = TRUE
  /\ IF token = NoToken THEN token' = Partial /\ GoTo(r, "writing")
     ELSE /\ UNCHANGED token
          /\ GoTo(r, IF token = run[r].token THEN "moving" ELSE "cleanup")
  /\ UNCHANGED <<source, pubVars, run>>

KeepToken(r) ==
  /\ pc[r] = "staged"
  /\ ~run[r].fresh
  /\ GoTo(r, "moving")
  /\ UNCHANGED <<source, pubVars, stateVars, run>>

WriteToken(r) ==
  /\ pc[r] = "writing"
  /\ token' = run[r].token
  /\ run' = [run EXCEPT ![r].persisted = TRUE]
  /\ GoTo(r, "moving")
  /\ UNCHANGED <<source, pubVars, root>>

\* write, flush or fsync raises: the file stays, and it is not the run's to
\* remove because persist_control_token did not return.
WriteTokenFails(r) ==
  /\ pc[r] = "writing"
  /\ GoTo(r, "cleanup")
  /\ UNCHANGED <<source, pubVars, stateVars, run>>

\* atomic_install up to the renaming of what is installed
MoveOld(r) ==
  /\ pc[r] = "moving"
  /\ dest = NoApp \/ run[r].force
  /\ IF dest = NoApp THEN UNCHANGED <<pubVars, run>>
     ELSE /\ backups' = [backups EXCEPT ![r] = dest]
          /\ dest' = NoApp
          /\ run' = [run EXCEPT ![r].moved = TRUE]
          /\ UNCHANGED aside
  /\ GoTo(r, "publishing")
  /\ UNCHANGED <<source, stateVars>>

\* The token file cannot be created; an application appeared without --force;
\* or what is installed cannot be renamed, as when it is running.
InstallFails(r) ==
  /\ \/ pc[r] = "staged" /\ run[r].fresh
     \/ pc[r] = "moving" /\ dest # NoApp
  /\ GoTo(r, "cleanup")
  /\ UNCHANGED <<source, pubVars, stateVars, run>>

\* A copy over what is there, in place of a rename.
PublishOver(r) ==
  /\ pc[r] = "publishing"
  /\ dest' = Build(r, run[r].token, run[r].planned, run[r].allow)
  /\ End(r, "done")
  /\ UNCHANGED <<source, backups, aside, stateVars>>

Publish(r) ==
  /\ pc[r] = "publishing"
  /\ dest = NoApp
  /\ dest' = Build(r, run[r].token, run[r].planned, run[r].allow)
  /\ End(r, "done")
  /\ UNCHANGED <<source, backups, aside, stateVars>>

\* The rename raises; it always does when another run was faster.
PublishFails(r) ==
  /\ pc[r] = "publishing"
  /\ GoTo(r, "rollback")
  /\ UNCHANGED <<source, pubVars, stateVars, run>>

\* except OSError: whatever is at the destination is moved aside ...
SetAside(r) ==
  /\ pc[r] = "rollback"
  /\ IF dest = NoApp THEN UNCHANGED pubVars
     ELSE aside' = [aside EXCEPT ![r] = dest] /\ dest' = NoApp /\ UNCHANGED backups
  /\ GoTo(r, "restoring")
  /\ UNCHANGED <<source, stateVars, run>>

\* The handler ends after it has moved the new application aside.
RestoreNothing(r) ==
  /\ pc[r] = "restoring"
  /\ GoTo(r, "cleanup")
  /\ UNCHANGED <<source, pubVars, stateVars, run>>

\* ... and the backup comes back.
RestoreOld(r) ==
  /\ pc[r] = "restoring"
  /\ IF run[r].moved
     THEN /\ dest = NoApp
          /\ dest' = backups[r]
          /\ backups' = [backups EXCEPT ![r] = NoApp]
          /\ UNCHANGED aside
     ELSE UNCHANGED pubVars
  /\ GoTo(r, "cleanup")
  /\ UNCHANGED <<source, stateVars, run>>

RollbackFails(r) ==
  /\ \/ pc[r] = "rollback" /\ dest # NoApp
     \/ pc[r] = "restoring" /\ run[r].moved
  /\ run' = [run EXCEPT ![r].ends = "damaged"]
  /\ GoTo(r, "cleanup")
  /\ UNCHANGED <<source, pubVars, stateVars>>

\* An interrupt is no OSError, so nothing is moved aside or brought back.  In
\* the write of the token it comes before the run knows that the file is its.
Interrupt(r) ==
  /\ pc[r] \in {"staged", "writing", "moving", "publishing", "rollback", "restoring"}
  /\ IF pc[r] = "writing" THEN token' \in {token, run[r].token} ELSE UNCHANGED token
  /\ run' = [run EXCEPT ![r].ends = "interrupted"]
  /\ GoTo(r, "cleanup")
  /\ UNCHANGED <<source, pubVars, root>>

\* The same just after the rename into place: the application stays.
InterruptPublished(r) ==
  /\ pc[r] = "publishing"
  /\ dest = NoApp
  /\ dest' = Build(r, run[r].token, run[r].planned, run[r].allow)
  /\ run' = [run EXCEPT ![r].ends = "interrupted"]
  /\ GoTo(r, "cleanup")
  /\ UNCHANGED <<source, backups, aside, stateVars>>

\* The token goes whoever made it.
CleanupAlways(r) ==
  /\ pc[r] = "cleanup"
  /\ token' = NoToken /\ root' = run[r].rootPre
  /\ End(r, run[r].ends)
  /\ UNCHANGED <<source, pubVars>>

\* except BaseException: the token goes if this run made it, and the state
\* root with it if it was not there and is empty again.
Cleanup(r) ==
  /\ pc[r] = "cleanup"
  /\ IF run[r].persisted
     THEN token' = NoToken /\ root' = run[r].rootPre
     ELSE UNCHANGED stateVars
  /\ End(r, run[r].ends)
  /\ UNCHANGED <<source, pubVars>>

\* The token cannot be removed, the state root is not empty, or an interrupt
\* comes between.
CleanupFails(r) ==
  /\ pc[r] = "cleanup"
  /\ run[r].persisted
  /\ token' \in {token, NoToken}
  /\ End(r, "damaged")
  /\ UNCHANGED <<source, pubVars, root>>

\* The process is killed or the machine stops; the staging directory stays.
Crash(r) ==
  /\ Active(r)
  /\ End(r, "crashed")
  /\ UNCHANGED <<source, pubVars, stateVars>>

\* The installed application starts the router, which makes a token when
\* there is none (loadOrCreateToken).
LaunchRouter ==
  /\ dest # NoApp
  /\ token = NoToken
  /\ token' = Router
  /\ root' = TRUE
  /\ run' = [r \in Run |-> IF Active(r) THEN [run[r] EXCEPT !.alone = FALSE] ELSE run[r]]
  /\ UNCHANGED <<source, pubVars, pc>>

Next ==
  \/ \E r \in Run, force, dry, allow \in BOOLEAN : Begin(r, force, dry, allow)
  \/ \E r \in Run :
       \/ Stage(r) \/ StageFails(r)
       \/ CreateToken(r) \/ KeepToken(r) \/ WriteToken(r) \/ WriteTokenFails(r)
       \/ MoveOld(r) \/ InstallFails(r)
       \/ Publish(r) \/ PublishFails(r)
       \/ SetAside(r) \/ RestoreOld(r) \/ RollbackFails(r)
       \/ Interrupt(r) \/ InterruptPublished(r)
       \/ Cleanup(r) \/ CleanupFails(r)
       \/ Crash(r)
  \/ LaunchRouter

Spec == Init /\ [][Next]_vars

(***************************************************************************)
(* Properties.                                                             *)
(***************************************************************************)
RunRecords == [force : BOOLEAN, dry : BOOLEAN, allow : BOOLEAN,
               token : Tokens \cup {NoToken}, fresh : BOOLEAN, planned : BOOLEAN,
               rootPre : BOOLEAN, persisted : BOOLEAN, moved : BOOLEAN,
               alone : BOOLEAN, ends : Raised,
               before : [dest : Builds \cup {NoApp},
                         token : Tokens \cup {NoToken, Partial}]]

\* The shape of the state.
BTypeOK ==
  /\ dest \in Builds \cup {NoApp}
  /\ backups \in [Run -> Builds \cup {NoApp}]
  /\ aside \in [Run -> Builds \cup {NoApp}]
  /\ token \in Tokens \cup {NoToken, Partial}
  /\ root \in BOOLEAN
  /\ pc \in [Run -> Places]
  /\ run \in [Run -> RunRecords]

\* Parts of the source a run without --allow-untested-source has not compared
\* with the reviewed release.
Unreviewed(v) == IF Latest(v) THEN {}
                 ELSE IF KeptRuntime(v) THEN {"signer"} ELSE {"signer", "chrome"}

Whole(s, b) ==
  LET copy == StagedCopy(s)
  IN /\ Lacks(copy.edits \cup copy.firsts, WindowsIsolation) = {}
     /\ IsSplitRenderer(s.version) => copy.demands \in {"any", copy.archive}
     /\ copy.desktop = "launcher" /\ copy.codex = "mux"
     /\ \/ b.allow
        \/ /\ copy.firsts = {}
           /\ s.drift = NoDrift /\ s.altered \subseteq Unreviewed(s.version)

\* Whatever a run has published, wherever it is now, has every edit of the
\* router's interface and of the isolation, and the updater's start or its
\* policy and recovery taken out, at the first occurrence at least; in
\* whichever release, and however the source differs from the reviewed one.
\* An official original remains beside an edit only where the user allowed an
\* untested source (patch_windows_app.py:1020, 1028, 1056, 1254), and what was
\* not compared with a reviewed release was not compared for that reason.  The
\* desktop of a split renderer accepts the archive beside it; that of an
\* earlier release is not looked at (patch_windows_app.py:2228-2231).
PublishedIsWhole ==
  \A b \in Elsewhere \cup {dest} : b # NoApp /\ b.by # Old => Whole(source, b)

\* A run that ends with an error, with nobody else at work, leaves the
\* application it found, and the token it found or, if there was none and the
\* writing of the new one failed (patch_windows_app.py:881-884), the file it
\* had created.  Not so a run whose undoing fails too ("damaged"), nor one that
\* is interrupted, which may leave the old application in the backup (2117; see
\* Interrupt) (patch_app and atomic_install,
\* tests/windows/test_patch_windows_app.py:470-487).
FailedRunRestores ==
  [][\A r \in Run :
       pc[r] # "failed" /\ pc'[r] = "failed" /\ run[r].alone =>
         /\ dest' = run[r].before.dest
         /\ \/ token' = run[r].before.token
            \/ token' = Partial /\ run[r].before.token = NoToken]_vars

\* An application whose run came to its end and met no other run or router.
Settled(b) == b.by # Old => pc[b.by] = "done" /\ run[b.by].alone

\* The control token a settled application was built with is the one its
\* router reads; nothing done later takes it away (patch_windows_app.py:2261-2269).
TokenMatches == dest # NoApp /\ Settled(dest) => token = dest.token

\* The manifest of a settled application names a backup exactly when one was
\* made.  The backup is planned before anything is moved: where another run
\* comes between, the manifest may be stale, whatever its comment says of that
\* window (patch_windows_app.py:2053-2056, 2106-2114, 2235).
ManifestNamesBackup ==
  dest # NoApp /\ dest.by # Old /\ Settled(dest) =>
    (dest.backup <=> backups[dest.by] # NoApp)

\* Publication, with what was moved away at both places it can go.
Promise == INSTANCE Publication WITH
             App <- Builds, Nothing <- NoApp, current <- dest,
             kept <- Elsewhere \ {NoApp}

\* No run overwrites or loses an application, however the runs interleave,
\* fail and die.
PublicationSpec == Promise!Spec
=============================================================================
