------------------------------ MODULE MacBuild -------------------------------
(***************************************************************************)
(* scripts/patch_app.py: an independently signed copy of the desktop and   *)
(* the Computer Use helper beside it are built together and published by   *)
(* four renames.  The control token is made before anything can refuse,    *)
(* and is kept whatever happens.                                           *)
(*                                                                         *)
(*   idle -> (token -> writing ->) ready -> staging -> staged              *)
(*        -> move -> publish -> published -> done                          *)
(*   move, publish -> aside -> restore -> failed                           *)
(*                                                                         *)
(* The phases from move to restore visit the application, then the helper. *)
(***************************************************************************)
EXTENDS AppEdits

CONSTANTS
  Run,        \* invocations of the patcher
  Sources,    \* official applications
  Teams,      \* signing teams a run may find
  Adhoc,      \* the team of an ad-hoc signature
  Old,        \* stands for whoever made what is already installed
  NoApp, NoToken,
  Partial     \* the token file between its creation and the write

ASSUME RunAssumption == Old \notin Run
ASSUME TokenAssumption ==
  {NoToken, Partial} \cap (Run \cup {Old}) = {} /\ NoToken # Partial
ASSUME TeamAssumption == Adhoc \in Teams

Item == {"app", "helper"}

VARIABLES
  source,
  installed,  \* the application and the helper, or NoApp
  backups,    \* for each run, what it moved to its backup directory
  aside,      \* for each run, what it moved to failed-install
  token,
  pc,         \* a phase and the item it is at
  run

pubVars == <<installed, backups, aside>>
vars == <<source, pubVars, token, pc, run>>

Over   == {"done", "unregistered", "failed", "damaged", "crashed"}
Phases == {"idle", "token", "writing", "ready", "staging", "staged",
           "move", "publish", "published", "aside", "restore"} \cup Over
Phase(r)  == pc[r][1]
Active(r) == Phase(r) \notin {"idle"} \cup Over

(***************************************************************************)
(* The copy that is staged.                                                *)
(***************************************************************************)
Source(d, layout) == [drift |-> d, layout |-> layout]
Reviewed == Source(NoDrift, TRUE)

\* Whatever differs from the reviewed release differs somewhere.
ASSUME SourceAssumption == \A s \in Sources : s.drift.bundle = "none" => s.drift = NoDrift

\* patch_computer_use_identity: each of these is counted in the helper's
\* package, which no recorded hash covers; without a team the callers it
\* trusts stay as they are.
HelperPasses(team) ==
  << [On("cua") EXCEPT !.swap = {"cua-references"} \cup
        IF team = Adhoc THEN {}
        ELSE {"internal-check", "internal-constant", "distribution-check",
              "distribution-constant", "production-id"}] >>

\* The approved hash is that of the archive alone.
Approved(s) == s.drift.bundle \in {"none", "cua"}
StagingRefuses(s, team) == ~Accepts(MacPasses \o HelperPasses(team), s.drift)

Copied == [archive |-> "official", demands |-> "official", codex |-> "official",
           helper |-> {}, edits |-> {}, firsts |-> {}, sealed |-> {}]

\* patch_asar_computer_use_identity, patch_desktop_profile, patch_renderer,
\* and the archive they are packed into
WithArchive(s, copy) ==
  [copy EXCEPT !.archive = "patched",
               !.edits = Edits(MacPasses, s.drift), !.firsts = Firsts(MacPasses, s.drift)]
\* codex becomes codex.real, and the router codex
WithRouter(copy) == [copy EXCEPT !.codex = "mux"]
\* patch_info_plist: the hash of the archive that is installed
WithPlist(copy) == [copy EXCEPT !.demands = copy.archive]
\* patch_computer_use_identity
WithHelper(s, team, copy) == [copy EXCEPT !.helper = Edits(HelperPasses(team), s.drift)]
\* sign_independent_app: a signature covers what is there when it is made
Contents(copy) == <<copy.archive, copy.demands, copy.codex, copy.helper>>
Signed(copy) == [copy EXCEPT !.sealed = {Contents(copy)}]

\* The hash taken before the archive is replaced.
StagedHashFirst(s, team) ==
  Signed(WithHelper(s, team, WithRouter(WithArchive(s, WithPlist(Copied)))))

StagedCopy(s, team) ==
  Signed(WithHelper(s, team, WithPlist(WithRouter(WithArchive(s, Copied)))))

\* What is installed: who made it and for which team, the token its renderer
\* holds, and whether an untested source was allowed.
Build(by, team, tok, allow) == [by |-> by, team |-> team, token |-> tok, allow |-> allow]
Builds == [by : Run \cup {Old}, team : Teams, token : Run \cup {Old}, allow : BOOLEAN]

ASSUME AppAssumption == NoApp \notin Builds

NotRun == [allow |-> FALSE, allowTeam |-> FALSE, team |-> Adhoc, token |-> NoToken,
           had |-> {}, alone |-> FALSE, raised |-> "none",
           before |-> [i \in Item |-> NoApp]]

Init == /\ source \in Sources
        /\ \E team \in Teams :
             installed \in [Item -> {NoApp, Build(Old, team, Old, FALSE)}]
        /\ backups = [r \in Run |-> [i \in Item |-> NoApp]]
        /\ aside = [r \in Run |-> [i \in Item |-> NoApp]]
        /\ token \in {NoToken, Old}
        /\ (\E i \in Item : installed[i] # NoApp) => token = Old
        /\ pc = [r \in Run |-> <<"idle", "app">>]
        /\ run = [r \in Run |-> NotRun]

(***************************************************************************)
(* One run.                                                                *)
(***************************************************************************)
GoTo(r, phase, i) == pc' = [pc EXCEPT ![r] = <<phase, i>>]
End(r, phase) == GoTo(r, phase, "app") /\ run' = [run EXCEPT ![r] = NotRun]

\* A phase visits the application, then the helper.
Onward(r, i, next) ==
  IF i = "app" THEN GoTo(r, Phase(r), "helper") ELSE GoTo(r, next, "app")

\* patch_app up to the question whether there is a token; without --force
\* there must be no application, a helper does not matter.
Begin(r, force, allow, allowTeam, team) ==
  /\ Phase(r) = "idle"
  /\ source.layout
  /\ installed["app"] = NoApp \/ force
  /\ Approved(source) \/ allow
  /\ token # Partial
  /\ LET others == {q \in Run : Active(q)}
     IN run' = [q \in Run |->
          IF q = r
          THEN [NotRun EXCEPT !.allow = allow, !.allowTeam = allowTeam, !.team = team,
                              !.token = token, !.alone = (others = {}),
                              !.before = installed]
          ELSE IF q \in others THEN [run[q] EXCEPT !.alone = FALSE] ELSE run[q]]
  /\ GoTo(r, IF token = NoToken THEN "token" ELSE "ready", "app")
  /\ UNCHANGED <<source, pubVars, token>>

\* The creation truncates a file that has appeared.
CreateTokenOver(r) ==
  /\ Phase(r) = "token"
  /\ token' = Partial
  /\ GoTo(r, "writing", "app")
  /\ UNCHANGED <<source, pubVars, run>>

\* load_or_create_token: the exclusive creation, then the write
CreateToken(r) ==
  /\ Phase(r) = "token"
  /\ token = NoToken
  /\ token' = Partial
  /\ GoTo(r, "writing", "app")
  /\ UNCHANGED <<source, pubVars, run>>

WriteToken(r) ==
  /\ Phase(r) = "writing"
  /\ token' = r
  /\ run' = [run EXCEPT ![r].token = r]
  /\ GoTo(r, "ready", "app")
  /\ UNCHANGED <<source, pubVars>>

\* An application signed by another team is replaced only on request.
CheckTeam(r) ==
  /\ Phase(r) = "ready"
  /\ installed["app"] # NoApp =>
       installed["app"].team = run[r].team \/ run[r].allowTeam
  /\ GoTo(r, "staging", "app")
  /\ UNCHANGED <<source, pubVars, token, run>>

\* From the staging directory to the third verification of a signature
Stage(r) ==
  /\ Phase(r) = "staging"
  /\ ~StagingRefuses(source, run[r].team)
  /\ GoTo(r, "staged", "app")
  /\ UNCHANGED <<source, pubVars, token, run>>

\* A token someone else has just created, no identity, another team, a
\* component that runs, an anchor, a tool, or a backup directory of the same
\* second.
StagingFails(r) ==
  /\ Phase(r) \in {"token", "writing", "ready", "staging", "staged"}
  /\ End(r, "failed")
  /\ UNCHANGED <<source, pubVars, token>>

\* had_app, had_helper and the backup directory
Look(r) ==
  /\ Phase(r) = "staged"
  /\ run' = [run EXCEPT ![r].had = {i \in Item : installed[i] # NoApp}]
  /\ GoTo(r, "move", "app")
  /\ UNCHANGED <<source, pubVars, token>>

Move(r, i) ==
  /\ pc[r] = <<"move", i>>
  /\ IF i \in run[r].had
     THEN /\ installed[i] # NoApp
          /\ backups' = [backups EXCEPT ![r][i] = installed[i]]
          /\ installed' = [installed EXCEPT ![i] = NoApp]
          /\ UNCHANGED aside
     ELSE UNCHANGED pubVars
  /\ Onward(r, i, "publish")
  /\ UNCHANGED <<source, token, run>>

\* A copy over what is there, in place of a rename.
PublishOver(r, i) ==
  /\ pc[r] = <<"publish", i>>
  /\ installed' = [installed EXCEPT ![i] =
                     Build(r, run[r].team, run[r].token, run[r].allow)]
  /\ Onward(r, i, "published")
  /\ UNCHANGED <<source, backups, aside, token, run>>

Publish(r, i) ==
  /\ pc[r] = <<"publish", i>>
  /\ installed[i] = NoApp
  /\ installed' = [installed EXCEPT ![i] =
                     Build(r, run[r].team, run[r].token, run[r].allow)]
  /\ Onward(r, i, "published")
  /\ UNCHANGED <<source, backups, aside, token, run>>

\* One of the four renames raises.
RenameFails(r, i) ==
  /\ \/ pc[r] = <<"move", i>> /\ i \in run[r].had
     \/ pc[r] = <<"publish", i>>
  /\ run' = [run EXCEPT ![r].raised = Phase(r)]
  /\ GoTo(r, "aside", "app")
  /\ UNCHANGED <<source, pubVars, token>>

\* except OSError: what is installed goes to failed-install ...
SetAside(r, i) ==
  /\ pc[r] = <<"aside", i>>
  /\ IF installed[i] = NoApp THEN UNCHANGED pubVars
     ELSE /\ aside' = [aside EXCEPT ![r][i] = installed[i]]
          /\ installed' = [installed EXCEPT ![i] = NoApp]
          /\ UNCHANGED backups
  /\ Onward(r, i, "restore")
  /\ UNCHANGED <<source, token, run>>

\* The handler forgets the helper.
RestoreAppOnly(r, i) ==
  /\ pc[r] = <<"restore", i>>
  /\ IF i = "app" /\ backups[r][i] # NoApp
     THEN /\ installed[i] = NoApp
          /\ installed' = [installed EXCEPT ![i] = backups[r][i]]
          /\ backups' = [backups EXCEPT ![r][i] = NoApp]
          /\ UNCHANGED aside
     ELSE UNCHANGED pubVars
  /\ IF i = "app" THEN GoTo(r, "restore", "helper") /\ UNCHANGED run
     ELSE End(r, "failed")
  /\ UNCHANGED <<source, token>>

\* ... and what is in the backup comes back.
Restore(r, i) ==
  /\ pc[r] = <<"restore", i>>
  /\ IF backups[r][i] = NoApp THEN UNCHANGED pubVars
     ELSE /\ installed[i] = NoApp
          /\ installed' = [installed EXCEPT ![i] = backups[r][i]]
          /\ backups' = [backups EXCEPT ![r][i] = NoApp]
          /\ UNCHANGED aside
  /\ IF i = "app" THEN GoTo(r, "restore", "helper") /\ UNCHANGED run
     ELSE End(r, "failed")
  /\ UNCHANGED <<source, token>>

UndoFails(r, i) ==
  /\ \/ pc[r] = <<"aside", i>> /\ installed[i] # NoApp
     \/ pc[r] = <<"restore", i>> /\ backups[r][i] # NoApp
  /\ End(r, "damaged")
  /\ UNCHANGED <<source, pubVars, token>>

\* The registration with Launch Services and the retired cached helper come
\* after the handler: a failure is reported and the new pair stays.
Register(r) ==
  /\ Phase(r) = "published"
  /\ \E outcome \in {"done", "unregistered"} : End(r, outcome)
  /\ UNCHANGED <<source, pubVars, token>>

\* The process is killed, or interrupted: the handler is for OSError only.
Crash(r) ==
  /\ Active(r)
  /\ End(r, "crashed")
  /\ UNCHANGED <<source, pubVars, token>>

Next ==
  \E r \in Run :
    \/ \E force, allow, allowTeam \in BOOLEAN, team \in Teams :
         Begin(r, force, allow, allowTeam, team)
    \/ CreateToken(r) \/ WriteToken(r) \/ CheckTeam(r)
    \/ Stage(r) \/ StagingFails(r) \/ Look(r)
    \/ \E i \in Item : \/ Move(r, i) \/ Publish(r, i) \/ RenameFails(r, i)
                       \/ SetAside(r, i) \/ Restore(r, i) \/ UndoFails(r, i)
    \/ Register(r)
    \/ Crash(r)

Spec == Init /\ [][Next]_vars

(***************************************************************************)
(* Properties.                                                             *)
(***************************************************************************)
RunRecords == [allow : BOOLEAN, allowTeam : BOOLEAN, team : Teams,
               token : Run \cup {Old, NoToken}, had : SUBSET Item, alone : BOOLEAN,
               raised : {"none", "move", "publish"},
               before : [Item -> Builds \cup {NoApp}]]

\* The shape of the state.
MTypeOK ==
  /\ installed \in [Item -> Builds \cup {NoApp}]
  /\ backups \in [Run -> [Item -> Builds \cup {NoApp}]]
  /\ aside \in [Run -> [Item -> Builds \cup {NoApp}]]
  /\ token \in Run \cup {Old, NoToken, Partial}
  /\ pc \in [Run -> Phases \X Item]
  /\ run \in [Run -> RunRecords]

Kept(i) == ({backups[r][i] : r \in Run} \cup {aside[r][i] : r \in Run}) \ {NoApp}
Made == (UNION {Kept(i) \cup {installed[i]} : i \in Item}) \ {NoApp}

Whole(s, b) ==
  LET copy == StagedCopy(s, b.team)
  IN /\ Lacks(copy.edits \cup copy.firsts, MacIsolation) = {}
     /\ b.allow \/ copy.firsts = {}
     /\ copy.demands = copy.archive /\ copy.codex = "mux"
     /\ copy.sealed = {Contents(copy)}
     /\ HelperPasses(b.team)[1].swap \subseteq copy.helper
     /\ b.allow \/ s.drift = NoDrift \/ s.drift.bundle = "cua"

\* Whatever a run has published is a whole application with its helper: every
\* edit and the start of the updater taken out, at the first occurrence at
\* least; the plist's hash that of the archive, the router as codex, the helper
\* under its own identity and trusting the run's team, and the signature over
\* all of it (patch_app, sign_independent_app), however the official
\* application differs from the reviewed one.  An official original remains
\* beside an edit only where the user allowed an untested source
\* (patch_app.py:718-724, 1030, 1039, 1056).
PairIsWhole == \A b \in Made : b.by # Old => Whole(source, b)

\* The token is made once, before the first build, and never replaced: every
\* application there is, installed or moved away, was built with the one its
\* router reads (load_or_create_token), whichever runs met, failed or died.
OneToken == \A b \in Made : b.token = token

\* When a new application or helper cannot be moved into place and the undoing
\* succeeds, the installed pair is the one the run found (except OSError,
\* SPECIFICATION.md:430), unless another run met it.
PublicationIsUndone ==
  [][\A r \in Run :
       /\ Phase(r) # "failed" /\ pc'[r][1] = "failed"
       /\ run[r].alone /\ run[r].raised = "publish"
       => installed' = run[r].before]_vars

AppPromise == INSTANCE Publication WITH
  App <- Builds, Nothing <- NoApp, current <- installed["app"], kept <- Kept("app")
HelperPromise == INSTANCE Publication WITH
  App <- Builds, Nothing <- NoApp, current <- installed["helper"], kept <- Kept("helper")

\* No run overwrites or loses an application or a helper.
PublicationSpec == AppPromise!Spec /\ HelperPromise!Spec
=============================================================================
