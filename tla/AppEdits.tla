------------------------------ MODULE AppEdits -------------------------------
(***************************************************************************)
(* What the patchers change in the desktop's ASAR: the Windows patcher     *)
(* scripts/patch_windows_app.py with one renderer adapter per release      *)
(* (scripts/windows_renderer_*.py, scripts/windows_native_26930.py), and   *)
(* the macOS patcher scripts/patch_app.py.                                 *)
(*                                                                         *)
(* A patcher walks the bundles in order.  Of each it asks which files      *)
(* match, counts its anchors and replaces some of them; what it does not   *)
(* find as expected makes it refuse.  A pass below is one such visit, an   *)
(* anchor is named after the edit that replaces it, and the text of        *)
(* anchors and replacements is left out.                                   *)
(***************************************************************************)
EXTENDS Naturals, Sequences, SequencesExt

\* The releases the code tells apart.  "26.820" stands for every release
\* whose renderer is not split, "26.903u" for build 26.903.71938; a split
\* renderer of any other release is treated as 26.901.
WindowsVersions == {"26.820", "26.901", "26.903", "26.903u", "26.908",
                    "26.911", "26.915", "26.917", "26.924", "26.930"}

IsSplitRenderer(v) == v # "26.820"
Inlined(v)  == v \in {"26.915", "26.917"}   \* logger inlined, updater policy in bootstrap
Latest(v)   == v \in {"26.924", "26.930"}   \* one Appshots gate, startup await kept

(***************************************************************************)
(* Passes.  files: "one" matching file exactly, a "named" file, or the     *)
(* "first" of the matching ones.  once, some, never: anchors that stay and *)
(* must be there exactly once, at least once, not at all.  swap: anchors   *)
(* replaced, which must be there exactly once.  first: anchors whose first *)
(* occurrence is replaced, however many follow.                            *)
(***************************************************************************)
On(bundle) == [bundle |-> bundle, files |-> "one", once |-> {}, some |-> {},
               never |-> {}, swap |-> {}, first |-> {}]

\* A release differs from the reviewed one in one place: a bundle's file or
\* an anchor of a bundle is missing, or is there more often than reviewed.
Drift(bundle, anchor, more) == [bundle |-> bundle, anchor |-> anchor, more |-> more]
NoDrift == Drift("none", "none", FALSE)

\* The comparison turned into "more than once".
RefusesRepeated(pass, d) ==
  /\ d.bundle = pass.bundle
  /\ d.more
  /\ d.anchor \in {"file"} \cup pass.once \cup pass.swap \cup pass.never

Refuses(pass, d) ==
  /\ d.bundle = pass.bundle
  /\ \/ d.anchor = "file" /\ (d.more => pass.files = "one")
     \/ d.anchor \in pass.once \cup pass.swap
     \/ d.anchor \in pass.some \cup pass.first /\ ~d.more
     \/ d.anchor \in pass.never /\ d.more

\* patch_windows_bootstrap and windows_native_26930.patch_updater, patch_app_id
Bootstrap(v) ==
  LET kept    == {"user-data-env", "user-data-path"}
      policy  == {"updater-policy", "updater-recovery"}
      updater == IF Latest(v)
                 THEN [swap |-> policy, once |-> {"updater-startup"}, first |-> {}]
                 ELSE IF Inlined(v)
                 THEN [swap |-> policy \cup {"updater-startup"}, once |-> {}, first |-> {}]
                 ELSE [swap |-> {}, once |-> {}, first |-> {"updater-startup"}]
      exactId == Latest(v) \/ Inlined(v)
  IN << [On("bootstrap") EXCEPT
           !.once = kept \cup updater.once,
           !.swap = updater.swap \cup IF exactId THEN {"app-id"} ELSE {},
           !.first = updater.first \cup {"app-name"} \cup IF exactId THEN {} ELSE {"app-id"}] >>

\* The log root moved from the file logger into bootstrap; worker has its own.
LogPaths(v) ==
  LET worker == [On("worker") EXCEPT !.files = "named", !.swap = {"worker-log"}]
  IN IF Inlined(v) \/ Latest(v)
     THEN << [On("bootstrap") EXCEPT !.swap = {"log-root"}], worker >>
     ELSE << [On("file-based-logger") EXCEPT !.files = "first", !.swap = {"log-root"}],
             worker >>

\* patch_windows_runtime_paths and windows_native_26930.patch_runtime_paths
RuntimePaths(v) ==
  LET owner == IF Latest(v) THEN "application-network-startup" ELSE "src"
  IN << [On(owner) EXCEPT !.swap = {"runtime-cache"}] >> \o LogPaths(v)

\* patch_windows_native_messaging_isolation and its 26.930 form
NativeMessaging(v) ==
  << [On(IF v = "26.930" THEN "bootstrap" ELSE "src") EXCEPT
        !.swap = {"registry-delete", "registry-add", "manifest-read",
                  "state-paths", "global-state"}] >>

\* verify_windows_integration_isolation: no file may register the Explorer
\* verb itself, and one file must skip the protocol registration.
IntegrationIsolation(v) ==
  << [On("any") EXCEPT !.files = "first", !.never = {"explorer-verb"}],
     [On(IF Inlined(v) \/ Latest(v) THEN "bootstrap" ELSE "window-all-closed") EXCEPT
        !.some = {"protocol-skip"}] >>

\* patch_windows_appshots_gate, windows_native_26930.patch_appshots_gate
AppshotsGate(v) ==
  << [On("main") EXCEPT !.swap = {"feature-gate"} \cup
                                 IF Latest(v) THEN {} ELSE {"bridge-gate"}] >>

\* verify_windows_appshots_contract reads back what the gate left: the number
\* of opt-ins is exact, so none may have been there before, and nothing may
\* enable the capability unconditionally.
AppshotsContract == << [On("main") EXCEPT !.never = {"opt-in", "unconditional"}] >>

(***************************************************************************)
(* Renderer adapters.                                                      *)
(***************************************************************************)
Csp     == [On("index.html") EXCEPT !.files = "named", !.swap = {"csp"}]
Plugins == [On("plugins-settings") EXCEPT !.swap = {"plugin-scope"}]
Thread  == [On("local-conversation-thread") EXCEPT
              !.swap = {"thread-component", "thread-section"}]
Avatars == [On("profile") EXCEPT !.swap = {"avatar-stack"}]

DepletionMessages == {"out-of-usage", "used-all", "usage-limit"}
MenuEdits  == {"menu-component", "usage-slot", "menu-open", "menu-open-panel"}
ResetModal == {"reset-state", "usage-windows", "reset-selector"}
ResetHooks == {"reset-query", "reset-mutation"}
Requests   == {"request-scope", "profile-data"}

\* 26.820: the menu, the reset modal and the requests are all in app-initial.
Initial26820 ==
  [On("app-initial") EXCEPT
     !.never = {"injected-menu"},
     !.swap = MenuEdits \cup ResetModal \cup ResetHooks \cup Requests
                \cup DepletionMessages]

Renderer26820 == <<Csp, Initial26820, Avatars, Plugins, Thread>>

\* 26.901: the menu and the modal moved to app-primary, without the modal's
\* compiled cache.
Renderer26901 ==
  << Csp,
     [On("app-primary") EXCEPT !.swap = MenuEdits \cup ResetModal \cup {"modal-cache"}
                                          \cup DepletionMessages],
     [On("app-initial") EXCEPT !.swap = ResetHooks \cup Requests],
     Avatars, Plugins, Thread >>

\* account_menu_item_alias and usage_modal_opener_alias: the native bindings
\* the menu is built from, found in one place or not at all.
NativeBindings == {"menu-item", "modal-opener"}

\* 26.903 with its builds, 26.908 and 26.911
Renderer26903(v) ==
  LET modern == v \in {"26.908", "26.911"}
  IN << Csp,
        [On("app-primary") EXCEPT
           !.once = NativeBindings \cup IF modern THEN {"icon-init", "modal-init"} ELSE {},
           !.swap = MenuEdits \cup ResetModal \cup {"modal-cache"} \cup DepletionMessages],
        [On("app-initial") EXCEPT !.swap = ResetHooks \cup Requests],
        [Avatars EXCEPT !.swap = @ \cup IF modern THEN {"profile-query"} ELSE {}],
        Plugins, Thread >>

\* 26.915: back in app-initial; the messages stay in app-primary.
Renderer26915 ==
  << Csp,
     [On("app-initial") EXCEPT
        !.once = NativeBindings \cup {"icon-init", "modal-init"},
        !.swap = MenuEdits \cup ResetModal \cup {"modal-cache"} \cup ResetHooks
                   \cup Requests],
     [On("app-primary") EXCEPT !.swap = DepletionMessages],
     Avatars, Plugins, Thread >>

Renderer26917 ==
  << Csp,
     [On("app-initial") EXCEPT
        !.once = NativeBindings \cup {"icon-init", "modal-init", "image-resolver",
                                      "modal-open-function", "menu-function"},
        !.swap = MenuEdits \cup ResetModal \cup {"modal-cache"} \cup ResetHooks
                   \cup Requests],
     [On("app-primary") EXCEPT !.swap = DepletionMessages],
     Avatars, Plugins, Thread >>

\* 26.924: a lazy menu bundle, so the request APIs go into app-initial, which
\* is loaded first.
Menu26924 == [On("profile-dropdown-items") EXCEPT !.once = NativeBindings,
                !.swap = {"menu-component", "usage-slot"}]
Eager26924 ==
  << [On("app-initial") EXCEPT !.swap = ResetHooks \cup {"profile-data"},
        !.some = {"source-map"}],
     [On("app-shared") EXCEPT !.swap = {"request-scope"}],
     [On("modal-impl") EXCEPT !.swap = ResetModal] >>
Surfaces26924 ==
  << [On("banner") EXCEPT !.swap = DepletionMessages],
     [Avatars EXCEPT !.never = {"menu-dependency"}],
     [Plugins EXCEPT !.never = {"menu-dependency"}],
     Thread >>
Renderer26924 == <<Csp, Menu26924>> \o Eager26924 \o Surfaces26924

\* 26.930: nothing is written before every bundle was examined; the
\* depletion messages keep the native wording.
Renderer26930 ==
  << [On("profile-dropdown-items") EXCEPT !.once = {"menu-item"}, !.some = {"modal-opener"},
        !.swap = {"menu-component", "usage-slot", "sidebar-slot"}],
     [On("app-initial") EXCEPT !.some = {"query-client-import"},
        !.swap = ResetHooks \cup {"profile-data"}],
     [On("app-shared") EXCEPT !.some = {"query-client-export"}, !.swap = {"request-scope"}],
     [On("modal-impl") EXCEPT !.swap = ResetModal \cup {"checkout-guard", "plan-guard"}],
     [Avatars EXCEPT !.swap = @ \cup {"profile-activity", "profile-stats"}],
     Plugins, Thread, Csp >>

\* patch_windows_renderer: the adapter of the release
Renderer(v) ==
  CASE v = "26.820" -> Renderer26820
    [] v = "26.901" -> Renderer26901
    [] v \in {"26.903", "26.903u", "26.908", "26.911"} -> Renderer26903(v)
    [] v = "26.915" -> Renderer26915
    [] v = "26.917" -> Renderer26917
    [] v = "26.924" -> Renderer26924
    [] v = "26.930" -> Renderer26930

\* patch_extracted_asar
WindowsPasses(v) ==
  IntegrationIsolation(v) \o Bootstrap(v) \o RuntimePaths(v) \o NativeMessaging(v)
    \o AppshotsGate(v) \o AppshotsContract \o Renderer(v)

(***************************************************************************)
(* macOS, one release.                                                     *)
(***************************************************************************)
\* patch_asar_computer_use_identity: 17 references in all, no more, no fewer
ComputerUseIdentity == << [On("asar") EXCEPT !.files = "named", !.swap = {"cua-identity"}] >>

\* patch_desktop_profile
DesktopProfile ==
  << [On("bootstrap") EXCEPT !.first = {"user-data-path", "updater-startup"}],
     [On("main") EXCEPT !.first = {"managed-service"}, !.swap = {"cua-instruction"}] >>

\* patch_renderer
MacCsp     == [Csp EXCEPT !.swap = {}, !.first = {"csp"}]
MacInitial == [Initial26820 EXCEPT !.once = {"plugin-rpc-mappings"}]
MacProfile == [Avatars EXCEPT !.swap = @ \cup {"profile-name", "profile-identity"}]

MacRenderer == <<MacCsp, MacInitial, MacProfile, Plugins, Thread>>

\* What patch_app applies to the extracted archive, in order
MacPasses == ComputerUseIdentity \o DesktopProfile \o MacRenderer

(***************************************************************************)
(* The result of a patch.                                                  *)
(***************************************************************************)
Accepts(passes, d) == \A i \in DOMAIN passes : ~Refuses(passes[i], d)

\* The edits a pass makes wherever the release has the anchor ...
EditsOf(pass, d) ==
  (pass.swap \cup pass.first) \
    IF d.bundle # pass.bundle THEN {}
    ELSE IF d.anchor = "file" THEN pass.swap \cup pass.first ELSE {d.anchor}

\* ... and those it makes in the first file, or at the first occurrence, only:
\* what repeats it stays official, and no count tells.
FirstsOf(pass, d) ==
  IF d.bundle # pass.bundle \/ ~d.more THEN {}
  ELSE IF d.anchor = "file" THEN pass.swap \cup pass.first ELSE pass.first \cap {d.anchor}

Edits(passes, d)  == UNION {EditsOf(passes[i], d) : i \in DOMAIN passes}
Firsts(passes, d) == UNION {FirstsOf(passes[i], d) : i \in DOMAIN passes}

\* What the application must have whichever release it was made from: the
\* router's interface, and isolation from the official application.
Routing == {"csp", "menu-component", "usage-slot", "plugin-scope", "avatar-stack",
            "thread-component", "thread-section"}
             \cup Requests \cup ResetModal \cup ResetHooks
WindowsIsolation == {"app-name", "app-id", "runtime-cache", "log-root", "worker-log",
                     "registry-delete", "registry-add", "manifest-read",
                     "state-paths", "global-state", "feature-gate"}
MacIsolation == {"user-data-path", "managed-service", "cua-identity", "cua-instruction"}

\* The updater is off when its policy is and nothing recovers it, or when it
\* is never started.
UpdaterOff(edits) == \/ {"updater-policy", "updater-recovery"} \subseteq edits
                     \/ "updater-startup" \in edits

Lacks(edits, isolation) ==
  ((Routing \cup isolation) \ edits) \cup IF UpdaterOff(edits) THEN {} ELSE {"updater"}

\* Every place where a release can differ from the reviewed one.
DriftsOf(passes) ==
  UNION { LET p == passes[i] IN
          {Drift(p.bundle, "file", FALSE)}
            \cup (IF p.files = "named" THEN {} ELSE {Drift(p.bundle, "file", TRUE)})
            \cup {Drift(p.bundle, a, m) : a \in p.once \cup p.some \cup p.swap \cup p.first,
                                          m \in BOOLEAN}
            \cup {Drift(p.bundle, a, TRUE) : a \in p.never}
        : i \in DOMAIN passes }
=============================================================================
