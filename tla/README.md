# Verification of the Codex Subscription Router

TLA+ models of the router (`src/`), of the programs that patch the desktop
application so that it uses the router, and of the tools that release the sources;
the TLC runs that check them and the theorems TLAPS proves about them. Line numbers
refer to the files under `src/`.

## 1. The system

The Codex desktop application talks to one *app-server* over a pipe of JSON
messages. The router, `codex-mux` (Go), takes the place of that app-server and
runs one real app-server process, a *child*, for each ChatGPT subscription, an
*account*, each with its own home directory. It decides which account answers
a request, moves conversations between accounts when one is exhausted, and, with
*request spending* on, which account pays for each inference, apart from where
the conversation lives.

```
 desktop app --JSON lines--> Multiplexer --JSON lines--> child of each account
      |                        |   |  ^                       |
      | HTTP inference         |   |  | control HTTP API       | HTTP inference
      +----------> spend Gateway   |  +--- account menu        v
                     |   ^         v                     spend Gateway
                     v   |       Store: state.json, routing-mode.json,
                  spend Policy   account directories
```

| Component | State it keeps | Operations | Hard because |
|---|---|---|---|
| Spend policy (`internal/spend/policy.go`) | mode and revision, load per account, sequence | `Set`, `Reserve`, release | many agents reserve and release while the mode changes |
| Spend gateway (`internal/spend/gateway.go`, `voice.go`, `internal/mux/spending.go`) | candidate cache and its mutex, recent records, one goroutine per request | serve inference, serve voice call, refresh, credentials | the mode, account and credentials are read at three moments; a transport may fail after the body left; one child that hangs holds the refresh all wait for |
| Request routing (`internal/mux/mux.go`, `thread_list.go`) | external routes, thread locks, the owners of threads | `thread/start`, `turn/start`, `thread/list`, others; failover; expiry; Close | timeouts race late answers, retries race other turns, a list writes owners without a lock, shutdown races all |
| Child supervision (`mux.go`, `accounts.go`, `internal/backend`) | `children`, operation locks, failures and circuit, the client's handshake | start, monitor, restart, enable, disable, delete, login, Close | everyone wants the one child of an account; a handshake in progress meets late children |
| Persistent store (`internal/state`, `internal/securefs`) | accounts, owners, mode, in memory and in two files; directories | add, update, remove, set owner, set mode, open | process killed between files; a failing step is undone; older routers |
| Account administration (`accounts.go`, `routing_mode.go`) | `spendingMutationMu` | the control API's changes | store, policy and children change together or are rolled back |
| Thread spending evidence (`thread_spending.go`) | last observation of each thread | accept, read | requests of a thread end in another order than they began |
| Windows patcher (`scripts/patch_windows_app.py`, `windows_renderer_*.py`, `windows_asar_integrity.py`) | the installed application, its backups, the control token | build a patched copy of one of ten releases; rebind its integrity; publish it | an anchor moves in one release; runs meet, die, fail or are interrupted between the token, the manifest and three renames |
| macOS patcher (`scripts/patch_app.py`) | application and helper, backups, token | build and sign both; publish them by four renames; undo | the order of edits, hash and signature; a failure between the renames of a pair |
| Source release (`scripts/release`) | evidence and the output directory | evidence, build, verify | each step is a program of its own, run over a tree that may move |
| Server requests, login flow, profiles, control server, managed configuration | | | section 6 |
| Launcher, native host, extension, menu, installer, probes | | | separate programs; section 6 |

How they interact: the desktop's reader goroutine calls the multiplexer, which
writes to children and answers from goroutines of its own; children write back
through their read loops; the menu calls the control API, which calls the
administration; the store is called by everybody under its own mutex; the
gateway calls back into the multiplexer for candidates and credentials. A patcher
runs before all this: it makes the application whose pipe the router answers and the
control token both sides read; it shares with the router only that token and the
directories.

What makes each component correct:

* *Policy*: load is exact; a decision is attributable to one instruction;
  decisions are ordered; the choice does not depend on the order of candidates.
* *Gateway*: an explicitly chosen account pays or nobody does; the payer was
  enabled after the decision; "not sent" is true; what was sent is in the
  history; no load is left behind; every request is answered as long as no child
  hangs for good.
* *Routing*: one answer per request, and none is retried after it; no account is
  asked twice; a turn goes where its history is; owners have the history; every
  request is answered as long as no child hangs for good.
* *Supervision*: at most one child serves an account; a listed child is watched;
  the chain of restarts does not break; a serving child was initialized; no
  child stays for a disabled account.
* *Store*: the files agree with each other after any crash; memory agrees with
  them; no owner is lost; the saved mode names an account that can pay.
* *Patchers*: what is published is whole or nothing is published; no application is
  overwritten or lost; a failure leaves what was there; the token an application
  was built with is the one its router reads.
* *Source release*: what the verifier accepts is one build of one commit that
  evidence was made for.

## 2. Modules

| Module | Models | State and actions |
|---|---|---|
| `SpendPolicy` | `policy.go` | `mode`, `revision`, `sequence`, `inflight` are the fields of `Policy`; `Set`, `Reserve`, `Release` are its critical sections. |
| `SpendGateway` | `gateway.go`, `voice.go`, `mux/spending.go` | EXTENDS `SpendPolicy`. `pc` is where each handler goroutine is; a handler's step is what it does between two points at which others can be seen to act: waiting for `spendCacheMu`, refreshing, reserving, reading credentials, the round trip, the body, the record, the release; a voice call releases before it records (`voice.go:88`, `108`). `hung` are the accounts whose child reads its pipe no more. |
| `MuxRoutes` | requests in `mux.go`, the owners a `thread/list` writes (`thread_list.go`) | one goroutine per request (`pc`), `route` is `externalRoutes`, `lock` is `threadLocks`, `work` and `inbound` are what children hold and have written; a list is at `lpc` and has concluded the owners `chosen`; `hung` as above. |
| `ChildSupervisor` | children in `mux.go`, `accounts.go`, `child.go` | one task per control call and per monitor; `lock` is `childOperationLock`; `proc` is the process. |
| `RouterStore` | `internal/state`, the administration calls | memory, the two files, the directories; `pc` and `op` are where the holder of `Store.mu` is; `admin` is `spendingMutationMu`. |
| `AppEdits` | the edits of the ten Windows releases and of macOS | no state. A *pass* is one function of the patcher over one bundle of the archive: the anchors it counts, the ones it replaces when they are there once, and the ones of which it replaces the first occurrence without counting, so that others stay. A *drift* is how a source differs from the reviewed one: a file or an anchor of one bundle missing, or there more often. `Accepts`, `Edits` and `Firsts` say which drifts are refused, which edits the others get everywhere and which only at the first occurrence. |
| `Publication` | | the abstract specification of a place an application is installed in: withdraw, publish, restore; never from one application to another |
| `WindowsBuild` | `patch_windows_app.py` and its adapters | EXTENDS `AppEdits`. `StagedCopy` is the copy after all passes; `pc` is where each run is: begun, staged, token, writing, moving, publishing, rollback, restoring, cleanup; `dest`, `backups`, `aside` are the places an application may be. A run ends done, failed, damaged (its undoing failed too), interrupted or crashed. A router that starts and makes the token is `LaunchRouter`. |
| `MacBuild` | `patch_app.py` | EXTENDS `AppEdits`. `StagedCopy` is the chain of edits, plist hash, helper and signature; the phases move, publish, aside, restore visit the application, then the helper. |
| `SourceRelease` | `release_artifacts.py` and the three programs of `scripts/release` that call it | `tree` is the working tree, `dir` the output directory by file, `evidence` the evidence file, `attested` the commits evidence was made for, `build` what each builder has read; the verifier is the operator `Verifies`. |
| `SpendPolicyProofs`, `SpendGatewayProofs`, `MuxRoutesProofs`, `ChildSupervisorProofs`, `RouterStoreProofs`, `WindowsBuildProofs`, `MacBuildProofs`, `SourceReleaseProofs` | | theorems, section 5 |
| `MC...` | | instances for TLC |

Each module also contains a few definitions that are a plausible mistake in an operation
(headed "Fault", or set beside the definition they would replace), with the same
parameters as the definition it would replace. No specification uses them; each shows
that some property would notice.

Abstractions, by module:

* `SpendPolicy`: quota and urgency are small integers ranked as the code ranks
  them; the age of a snapshot is a number against `MaxAge`.
* `SpendGateway`: a refresh observes all accounts at one instant; the validation of
  the HTTP request and its headers is left out (it ends before any state is
  touched); what can happen while an accepted body is read is one outcome,
  "ended". Time is the age of the cache. A refresh is stuck while one of the accounts
  it asks has a child that hangs: its write ends under no deadline (`child.go:121-138`)
  and the snapshot waits for all its workers. `Flaky` are the accounts whose child may
  hang, and `MaxChanges` bounds what the mode, the accounts and the children do together.
* `MuxRoutes`: identities of pending requests are unique, as the client's are; which
  account a choice prefers is open (any eligible one), so that every property holds for
  any ranking; a timeout may fire at any moment after the registration of its route,
  which includes the instants the clock would allow. A turn names a thread the client
  knows, so one whose owner a response, a notification or a list has recorded
  (`mux.go:651`, `mux.go:673`, `thread_list.go:89`). `Flaky` are the accounts whose
  child may crash or hang. A list asks the children in one step and writes in a later
  one; which of the accounts that list a thread the merge prefers is open, but that it
  keeps the owner it knows when that one lists the thread is not. `Copies` are accounts
  that have a thread beside its owner, `Partial` lets a list miss an account.
* `ChildSupervisor`: delays and the circuit's sixty seconds end at some time;
  names of processes that nothing refers to any more are used again. Accounts
  share only the client's handshake and Close, so that the instance has one
  account, the names make room for three processes of it. The signal that
  cancels the context without Close is in `MuxRoutes`. A failed initialize of the
  client takes the child off the list and closes it in one step (`mux.go:340-341`);
  it ends that child's watch, which `SupervisionPersists` allows. `ServingIsInitialized`
  is about both messages having been sent, not about their order.
* `RouterStore`: a file is replaced or it is not (`securefs/atomic.go`); the flush
  of the directory that may fail after the replacement on Unix does nothing on
  Windows and is left out. A quarantined directory that could not be deleted is
  not followed. Labels and `config.toml` are left out; a rename of an account is
  an update that leaves its status.
* `AppEdits`, `WindowsBuild`, `MacBuild`: the text of an anchor and of what replaces it
  is a name. A source differs from the reviewed one in one place; what the code
  compares, counts or finds first decides what becomes of it. Copying, packing and
  signing are one step, `Stage`, which may fail at any point, because nobody else
  sees the staging directory; each rename, the creation of the token and its write
  are steps of their own. On Windows an interrupt may come at each of them; it passes the
  handlers of `OSError` by.
* `SourceRelease`: a file is what it was made from, and `Partial` when it was not
  written to its end; the scanners are the question whether a commit's files are
  allowed. Evidence is made for whatever commit is checked out: the program runs no
  gate, and leaves it to the order of the workflow's jobs that they passed
  (`release_artifacts.py:297-303`).

## 3. Runs

| Run | Question | Bounds, and why they are enough |
|---|---|---|
| `gateway` | who pays, what is reported and recorded, what is left behind; if no child hangs for ever, every request is answered or streams | 2 accounts that score alike (chosen and other), 2 requests of which one is a voice call, one change of the mode, of an account or of a child that hangs, at any moment (`MaxChanges` 1, shared), a cache that lives one tick, snapshots of none, one or both accounts, fresh or too old, a recent list of one |
| `routes_failover` | two turns of one thread through preventive and reactive failover; if no child hangs for ever both are answered | 3 accounts, so that a retry can fail and go on; the child of one fallback crashes or hangs once |
| `routes_shutdown` | with and without spending apart from history: a turn, a resume and a new thread against a signal, the end of input and Close, or against a list | 2 accounts, the threads owned by the one that does not answer for the others, which may have copies; one request of each kind, no crash but the closing of the children. The list runs with spending, where no step may move history, and before a shutdown (`ListsAlone`), which has no business with it; lists among turns that fail over are in the theorems only, which are about any `List` |
| `routes_resumed_twice` | finding, below | no crash needed |
| `children_supervised` | one child, watched, initialized, its chain unbroken | 1 account, 1 control call of any kind, the client's handshake, Close, any number of exits and failed starts; `FailureLimit` 1 so that the circuit opens; 3 process names: the child, its successor and one that still exits |
| `children_restarted` | every scheduled restart gets its turn | `FailureLimit` 2, so that the circuit opens after a counted failure too |
| `children_hidden` | finding, below | |
| `store_durable` | files, memory, mode and owners across failures | 3 accounts, 2 threads, 3 failures or crashes: a removal whose rename fails, whose rollback fails, and a crash after it |
| `store_selector` | finding, below | 2 accounts and nothing that fails but the child of the new one |
| `windows_build` | is what is published whole, and can anything be lost | ten releases, each as reviewed and with every single drift its own passes can meet, every preserved part changed, and with another `ChatGPT.exe` or `chrome.dll` the archive's hash bound or not; over 26.930 two runs and a starting router meet at every step, interrupts and crashes included, the others are patched by one run (`OneReleaseShared`): what a run does to the places does not depend on the release |
| `macos_build` | the same of the application and its helper | the reviewed release and every single drift of both bundles, a signing team and ad-hoc; two runs over the reviewed release, one over the others (`OneReleaseShared`) |
| `source_release` | what the verifier accepts | two builders, one directory, four commits (two of one version with different dependencies, two of another version of which one has refused files), two changes among edits and check-outs of the tree, damages and removals |

Deadlock checking is off in every run: requests, administrative calls, processes and
runs of the patchers are finite in number and the models stop when they are used up.

### Findings

* `routes_resumed_twice` (`mux.go:740`): two turns of a thread that were already
  sent when their account reports its limit move the thread twice. The retry
  waits for the thread but does not read its owner again, as `routeTurnStart`
  does.
* `children_hidden` (`mux.go:999`): a monitor or a delayed restart reads its account
  from the store and then waits for the account's lock. A call that disables or
  deletes the account in between finishes, and the restart starts a child for
  the copy it has.
* `store_selector` (`accounts.go:158`): AddAccount disables an account whose child does
  not start, and with it the saved mode that names the account, without
  `spendingMutationMu` and without telling the policy. If the account was chosen
  meanwhile, the menu shows Auto (`README.md:226` says it shows the saved mode) while
  the gateway follows the account, and refuses every request once it is disabled.

Met while modelling, and not shown by a run:

* AddAccount has no limit (`store.go:189-255`), Open accepts 64 accounts
  (`validation.go:155`). With one more, the router does not start again.
* A child that no longer reads its pipe holds up the write of the refresh that asks it
  (`child.go:121-138`), which no timeout ends, and with the refresh `spendCacheMu`:
  the requests of every account wait, although `spending.go:93` says "A failed account
  must not poison Auto". A request forwarded to it holds its thread's lock, and one that
  is no turn blocks the reader of the application's stream (`mux.go:292`). Hence the
  condition in both properties `RequestsAreAnswered`, and without it both are false.
* A `thread/list` saves the owners it concluded without a thread's lock
  (`thread_list.go:89`). One that was merged before a failover and is saved after it puts
  the old owner back, although `docs/WINDOWS-PARITY.md:179` wants a known owner never
  silently overwritten. In the same way a `thread/resume` that the old owner answers
  after a failover names it again (`mux.go:804`). The account has the thread, but not the
  turn that was moved. `MovedTurnGoesToOwner` is about threads that saw turns only;
  `OwnerHasHistory` and `TurnsFollowHistory` are about all.
* An interrupt between the two renames on Windows is no `OSError`
  (`patch_windows_app.py:2117`): the installed application stays in the backup directory
  and its place empty, although `docs/WINDOWS-PARITY.md:88` says that an interrupted build
  leaves the existing router usable. Just after the second rename the new application
  stays, and the handler (2261) takes its token away. `Interrupt`, `InterruptPublished` and
  `Cleanup` are those paths; `FailedRunRestores` is about runs that end with an error, and
  for all others `PublicationSpec` shows that nothing is lost.
* The manifest of a Windows build names a backup that was planned before anything moved
  (2235). A run that finds the place empty by then (2106-2114), or full, publishes a stale
  one, although the comment at 2056 sees "no post-publish window with stale rollback
  data". `ManifestNamesBackup` is about runs that met nobody.
* The updater's start is replaced at its first occurrence without counting
  (`patch_windows_app.py:1020`, `patch_app.py:1039`; 1028, 1056 and 1254 of the former are
  the same for other anchors). A source that has it twice and is allowed untested is
  published with the second start in it, against `docs/WINDOWS-PARITY.md:257` and
  `patch_app.py:1034`. `PublishedIsWhole` and `PairIsWhole` therefore say that each edit was
  made *at the first occurrence at least*, and everywhere unless the user allowed an
  untested source.
* The macOS handler (`patch_app.py:1304`) moves whatever is installed to
  `failed-install`, also when the rename *to the backup* was the one that failed:
  then the old application ends there and nothing brings it back, although
  `docs/spec/SPECIFICATION.md:430` promises the old pair. `PublicationIsUndone` is
  about the renames into place, where the promise holds.
* A release built with `--allow-dirty`, or from a tree that moves between
  `release_artifacts.py:380` and the reading of the dependency lists, lists the
  dependencies of the working tree beside the archive of the commit, and the
  verifier accepts it. `AcceptedIsOneBuild` has the case as its exception.
* The desktop of a Windows release that is not one of the split ones (26.820) is never
  rebound (`patch_windows_app.py:2228-2231`), whatever hash it demands: of those
  `PublishedIsWhole` says nothing about the desktop. `TESTED_SOURCE_BUILDS` has the hashes
  of the desktop's runtime library and signer for 26.924 and 26.930 only; `Unreviewed` names
  what the older releases do not compare.

Two properties state an exception the code has: a `Send` that fails after its route
expired answers a second time (`AnsweredOnce`, `mux.go:475`), and a `Send` its timeout has
overtaken still goes out (`AnsweredIsLeftAlone`).

## 4. Fairness

* `SpendGateway!Fairness` (weak, per handler): Go schedules every goroutine that can
  run; a refresh is under a timeout (`spending.go:82`), the round trip ends with the
  client's context at the latest. Nothing is assumed of the body of an answer,
  which may stream for ever; that is why the property says "answered or is
  streaming". Nothing is assumed of a child that hangs either: while it does, no step
  that writes to it is enabled (`Stuck`, `Payer(r) \notin hung`), the timeout of the
  refresh included, and the property has `<>[](hung = {})` as its condition.
* `MuxRoutes!Fairness` (weak, per request): each goroutine proceeds unless it writes to
  a child that hangs (`Awaits`), a thread lock that is free is taken, the expiry loop
  runs while the context does. Nothing is assumed of the children: they need not
  answer, and a hung one need not recover; the property has the same condition.
* `ChildSupervisor!FairSpec`: tasks proceed, a closing process exits (it is killed,
  `child.go:171-206`); strong fairness for taking the operation lock, because Go's
  mutexes hand over to a waiter that has waited for a millisecond. Nothing is
  assumed of starts, which may fail for ever, or of the circuit: with time
  abstracted two chains of one account may open it for each other for ever, so
  the property says that a restart gets its turn, not that it succeeds.

## 5. Proofs

Checked by TLAPS for all values of the constants that satisfy the named
assumptions (`StoreAssumption`, `CandidateAssumption`, `RunAssumption`,
`TokenAssumption`, `AppAssumption`, ...), which say that names are distinct and bounds
are numbers; the two called `SourceAssumption` say more, and are explained with
their modules below.

* `SpendPolicyProofs`. `IInv` is the type invariant, exact load, and two facts that
  make it inductive: no ticket is from the future (`TicketsArePast`) and a
  revision identifies its mode. Exact load rests on lemmas about the cardinality
  of the set of open tickets of an account when one is added or closed. From it:
  `TypeCorrect`, `LoadIsExact`, `RevisionIsInstruction`, `DecisionsOrdered`;
  `ChoiceIsUnique` needs that the ranking ends with the identity.
* `SpendGatewayProofs`. A lemma (`PolicySteps`) carries the policy's invariant over: the
  gateway changes the policy's variables only by the policy's own actions. `GInv` adds
  what a handler at each place has done (`PlaceInv`), which snapshot it works from
  (`SnapshotInv`) and what it was promised when it arrived (`PledgeInv`). From it:
  `ExplicitAccount`, `OutcomeIsHonest`, `LoadReturns`. `ShapeInv` adds the types of
  cache, accounts and records (`GatewayTypes`). Three more invariants rest on these:
  `BackedInv` (a request with credentials was backed by an enabled account, so
  `PayerWasEnabled`), `RecordedInv` (what was sent is on the recent list once its
  handler has observed the end, which a voice call does after its release, so
  `SentIsRecorded`) and `CoverInv` (a snapshot taken under Auto, in the cache or in a
  handler's hands, lists every account that may not be left out, so `AutoConsidersAll`:
  the hard step is that a shared refresh was begun for the same mode).
* `MuxRoutesProofs`. `Agrees` relates the place of a request, its route, its answers and
  what is under way: nothing is with a child before the message is sent, and while a
  route waits at most one answer is outstanding. That last part is what makes it
  inductive: a second answer would find the route of the retry. A lemma (`SparedAgrees`)
  carries it over steps of other requests. From it: `TypesHold`, `AnsweredAtMostOnce`,
  `WorkIsAwaited`, `NoRetryAfterAnswer` (an answered request is at its `Send` or done).
  With `HInv` (in spending mode everything under way concerns an account that has the
  thread, whoever a list says its owner is): `HistoryIsKept`. Failover has three
  invariants more. `FInv` (`Fresh`): the accounts a request was sent to are the excluded
  ones and at most the one it is with, so that the next is none of them; from it
  `TriedOnce`. `HistoryInv`: every answer that teaches an owner comes from an account
  with the history (`Teaches`), and a turn past its check is headed for one (`Follows`);
  history only grows. From it `OwnersHaveHistory`, `TurnsGoToHistory`. `MovedInv`: a
  turn that moves its thread holds the thread's lock until it has been forwarded
  (`Holds`), so that no other turn moves the thread in between; from it
  `ThreadsMoveWithTurns`, which is about threads that no list and no resume has named.
* `ChildSupervisorProofs`. `SInv`: a task holds its account's lock exactly while it is at
  work there (`Placed`), until Close is over a process that serves is the one on the
  list (`Serves`), and nobody starts a child where one is listed. From it: `SupervisorTypes`,
  `OneServes`. With the watch of every listed child (`WInv`): `ExitsAreNoticed`, and
  `ChainsGoOn`, an action property: whichever step ends a task of the chain leaves a
  child that is listed or was just given a monitor, an account that is not enabled,
  or a router that is closing.
  `GInv` follows the client's handshake: a listed child is being told, or has been
  told what the client has said so far (`Told`, `Greets`), also when it was launched
  between the two messages; from it `ServersAreInitialized`.
* `RouterStoreProofs`. `IInv` says that owners are exactly what was learned of the
  accounts listed, in memory and on disk (`Files`), where the two agree
  (`Together`), what the holder of `Store.mu` has established at each step
  (`Holder`: a removal has noted exactly the threads it takes away, and keeps its
  directory until it is committed), and which accounts a call may still disable
  (`Callers`). One lemma per action. From it: `FilesStayValid`,
  `ModeStaysEnabled`, `NoDanglingPreference`, `MemoryAgrees`, `OwnersStay`.
* `WindowsBuildProofs`. `WInv` says where applications may be (`PlacesInv`), what the
  place of a run says about what it moved (`ProgressInv`), that a run's build exists
  only when the run is past its publication (`MadeInv`: an interrupt may still come) and
  that each build is in one place (`OneplaceInv`): without the last two a publication
  could repeat what was kept, and a restore could leave a copy behind. From it:
  `BuildTypes` and `NothingIsLost`, the refinement of `Publication`. `SoloInv` says what
  a run that meets nobody knows (`Undisturbed`), from which `FailureRestores`; like the
  property it leaves out runs whose undoing fails or that are interrupted. `TrustInv`
  says that a build whose run came to its end and met nobody (`Settled`) can be relied
  on for ever: no run at work owns the token. From it: `TokensMatch`, `ManifestIsRight`.
  `PublishedAreWhole` has two halves. `CheckedInv` (`SourcesAreChecked`): a run at work
  was allowed its source, one with a staged copy found every anchor in it, and what it
  published carries both facts. And the lemma `StagedIsWhole`: the staged copy of such a
  source is whole. That rests on `AcceptedEdits` (when passes accept a drift, the edits
  made everywhere and the ones made at a first occurrence are all they have,
  `Replaced`), on `ReviewedFirsts` (of a reviewed source none is made at a first
  occurrence only) and on `WindowsEdits` (the passes of each of the ten releases have
  every edit routing and isolation need, with the anchors of the release). It holds of
  any drift, not of one place at a time. `SourceAssumption` says what a source may be: a
  known release, and with the reviewed desktop and runtime library the releases that
  keep their desktop signed have no hash in it, which is a fact about those ten files.
* `MacBuildProofs`. `MInv` is the type invariant with `TokenInv`: a run past the
  question for the token knows the one there is, and at most one run writes it.
  From it: `PairTypes`, `TokenIsOne`. `RenameInv` is, per item, the counterpart of
  `WInv` (`NotMoved`, `NotAside` and `Built` say how far a run is with an item, and only
  go onward). From it: `NoPairIsLost`, which refines `Publication` once for the
  application and once for the helper. `Undisturbed` follows the pair through the
  phases of a run that meets nobody; from it `PublicationUndone`. `CheckedInv` and
  `StagedIsWhole` are the counterparts of the Windows ones, with the signing team as
  one more thing a run keeps, and with the first occurrences told apart in the same
  way; from them `PairsAreWhole`. `SourceAssumption` says that a
  source that differs from the reviewed one differs somewhere: a drift that is in no
  bundle is no drift.
* `SourceReleaseProofs`. `RInv` says what a builder knows at each place (`Builds`: evidence
  was made for its commit, the files it composed are a release of that commit), what a
  directory holds whoever wrote there (`Kept`: above all, that a manifest is the last
  file of a build that was finished) and that where one builder alone wrote there is
  its build so far and nothing else (`Alone`). Lemmas on the six files say that a release
  can be recovered from its manifest. From it: `AcceptedHasItsEvidence`,
  `AcceptedIsABuild`, `FinishedStaysAccepted`. `ReleaseAssumption` says that no builder is
  called "damage", which stands for whoever damages a file.

Every invariant and action property that a passing run checks is a theorem. Only
model-checked are the liveness properties (`RequestsAreAnswered` of the gateway and of
the routes, `RestartIsAttempted`): liveness under fairness is out of reach of TLAPS. The
three findings are counterexamples of TLC.

## 6. Not modelled, and why

The order of the models was what a user loses if a part fails: money, conversations,
processes, state, the installed application, the release.

* *Thread spending evidence* (`thread_spending.go`): the order its records rely on is
  proved (`DecisionsOrdered`); its sidecar files and their restarts are independent of
  the routes.
* *Server requests and approvals*, *child transport*: tables of identities of pending
  requests, each under one mutex, with the life of a process that `ChildSupervisor`
  has. `MuxRoutes` takes identities as unique.
* *Login flow*: the login happens in the child; the start of a login is a call of
  `ChildSupervisor`, the one pending login and its notifications are not modelled.
* *Thread list*: only the owners it writes are modelled; its paging, sorting and answer
  keep no state. *Profiles, usage*: figures that nothing here reads.
* *Control server, managed configuration*: decoding in front of the calls that are
  modelled, and the merging of a text file.
* *Windows launcher, Chrome native host and extension, account menu*: separate programs
  that call the operating system or draw.
* *Installation lifecycle* (PowerShell): wraps the publication that `WindowsBuild`
  models; its rollback script relies on the manifest, `ManifestNamesBackup`.
* *Release metadata checks* (`check_release.py`, the gates of the workflow): one pass over
  a checkout that changes nothing.
* *Capability and compatibility tools* (`probe_auxiliary_app_server.py`,
  `qualify_windows_capabilities.py`, `repair_provider_compatibility.py`): short
  sequential scripts that report or rewrite one file.
* In the modelled parts: why a child's pipe is full (that it is, is `hung`), the flush of
  a directory that fails after a rename on Unix, the text of edits and configuration.

If the project is continued: the composition of `RouterStore` and `SpendGateway`
around AddAccount, to see whom a request is charged to while the policy and the saved
mode differ (`store_selector`); runs of the disagreements under "Met while modelling"; the
evidence files over the restarts of the store, with the order of its records proved through a
restart; an abstract specification of supervision (an account that should be served
is served or about to be) that `ChildSupervisor` implements.
