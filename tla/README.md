# Lisette, modelled in TLA+

Lisette is a language that compiles to Go. This directory holds TLA+ models of the
parts of its toolchain that keep state across steps, processes or threads, the TLC
runs that check them, and TLAPS proofs of what matters most. Line numbers are those
of the repository this directory lies beside; paths are below `crates/` unless they
start elsewhere.

## 1. The system

| Component | State it keeps | Operations | Interacts with |
|---|---|---|---|
| Incremental analysis (`semantics/src/analyze.rs`) | per session: store, `module_hashes`, `cached_modules`, `compiled_modules` | one loop over the modules in dependency order, checks, lints, saving | module graph, module cache, locator |
| Module cache (`semantics/src/cache`) | `target/cache/*.cache` | `try_load_cache`, `save_module_cache` | every command and the language server |
| Build pipeline (`cli/src/pipeline.rs`, `handlers/{build,run,check}.rs`, `go_cli.rs`, `fs.rs`) | `target/**/*.go` | compile, write, prune, `go run` | cache, emitter, target lock |
| Target and mutation locks (`cli/src/lock.rs`) | two flocks | blocking, and fail-fast | all commands, the language server |
| Module graph (`semantics/src/module_graph`) | edges, order, cycles | visit of folders, Kahn's sort, search for cycles | loader, analysis |
| Language server (`lsp/src`) | documents, overlays, snapshots, pending timers | notifications, requests, debounce timers | analysis, target lock |
| Manifest, `lis add`, `lis sync` (`deps/src/project_manifest.rs`, `cli/src/handlers`) | `lisette.toml`, typedef cache | resolve, trim, write | both locks, bindgen |
| Typedef locator, bindgen session (`deps/src/typedef_locator.rs`, `cli/src/workspace.rs`) | typedef cache | find, generate | analysis |
| Emitter (`emit`) | none across calls | Go text of the modules that were inferred | analysis result |
| Type checker, pattern analysis, lints (`semantics/src/checker`, `passes`) | facts of one session | inference, usefulness of match arms, reference graph | analysis |
| Lexer, parser, formatter, diagnostics, stdlib typedefs | none | pure functions | all |
| Playground (`playground/src`, at the root) | the page: text, markers, tabs, buttons, runs under way | load, edit, format, check, run, share | the compiler in wasm, the Go Playground |
| Bindgen (Go), prelude runtime (Go), editor integrations | outside the compiler | | |

A command (`lis build`, `run`, `check`) reads the manifest, waits for the target lock,
reads the sources through a loader, analyses them, and, for `build` and `run`, writes
Go files. The language server does the same, in process, for every document it is
asked about, with open buffers in place of files. They meet in the files under
`target/`, and so does every earlier session that was killed on its way.

### Hard behaviours, and what makes each component correct

* **Cache.** An entry is kept across edits, compiler upgrades, sessions with errors,
  sessions of the language server with text that never reaches a file, and crashes.
  It is correct if it cannot be seen: same definitions, same verdict, same Go files,
  same warnings as without it.
* **target/.** Two sessions at once; `lis run`, whose program runs long after the
  build; a session killed between saving the cache and writing Go files. Correct if
  there is one writer, and if what it leaves is a build of what it read.
* **Module graph.** Any import graph, missing modules, hash maps iterated in any
  order. Correct if imports come before importers, if exactly the acyclic part is
  ordered, and if cycles are found.
* **Language server.** Up to four handlers polled by one task, timers on other
  threads, analyses that outlive the text they were made from. Correct if a stale
  result is neither shown nor stored as current, no timer is lost, and the last text
  is diagnosed in the end.
* **lis add and lis sync.** Read, lock, walk a graph whose versions move, write entry by
  entry. Correct if one command writes at a time, if the walk ends with what Go selected,
  if the manifest then declares all that the added module needs, and if nothing that the
  user declared is taken back.
* **Playground.** One thread, but answers of the network, a timer and the user in any
  order, and a key that starts a run although the button is disabled. Correct if the
  diagnostics are those of the text, if buttons and indicator tell of the runs, and if
  the tabs belong together.

`PROJECT.json` lists these hazards at the lines where they bite.

## 2. Modules

| Module | Models |
|---|---|
| `Program` | a program as a compilation sees it: folder contents, imports, what inference, the lints and the emitter compute from them |
| `CleanCompile` | the abstract specification: analysis without a cache, a lock or a disk |
| `BuildCache` | sessions of several processes over the cache, the Go files and the target lock, with the user's edits and crashes |
| `BuildCacheProofs` | TLAPS proofs about `BuildCache` |
| `ModuleGraph` | `build_module_graph`, `topological_sort`, `find_cycles`, one turn of a loop per step |
| `ModuleGraphProofs` | TLAPS proofs about `ModuleGraph`: the graph and the sort |
| `ModuleGraphSearchProofs` | TLAPS proofs about its search for cycles, and its types |
| `LspServer` | the shared state of the language server, its handlers and timers |
| `LspServerProofs` | TLAPS proofs about `LspServer` |
| `AddSync` | `[dependencies.go]` of `lisette.toml` under `lis add`, `lis sync` and the user |
| `AddSyncProofs` | TLAPS proofs about `AddSync`: the locks, and direct dependencies |
| `AddSyncGraphProofs` | its types, and the graph `lis add` writes from |
| `AddSyncTableProofs` | what `lis add` and `lis sync` leave in the manifest |
| `Playground` | the page of the playground, its handlers, its timer and its requests |
| `PlaygroundProofs` | TLAPS proofs about `Playground` |
| `MC*` | instances for TLC |

`CleanCompile`, `BuildCache` and `ModuleGraph` extend `Program`. `BuildCache` is shown
to implement `CleanCompile` (`INSTANCE ... WITH`). `BuildCache` does not run the graph
construction step by step: it uses its result, `Ordered` and `Missing`, which
`ModuleGraph`'s `OrdersTheAcyclic` ties to the algorithm.

### BuildCache and the code

| Variable | In the code |
|---|---|
| `src`, `typedef`, `manifest`, `installed` | `src/`, the typedef a third-party import resolves to, whether `lisette.toml` parses, the `lis` executable |
| `cache`, `out`, `lock` | `target/cache`, `target/**/*.go`, `target/.lisette/.lis-target.lock` |
| `pc`, `job`, `comp`, `locator`, `program`, `lints` | a process: where it is, its command, its compiler, its `TypedefLocator`, what its loader returned, `run_lints` |
| `hash`, `iface`, `hits`, `compiled`, `toWrite` | `module_hashes`, the store's definitions, `cached_modules`, `compiled_modules`, the output files |

| Action | Code |
|---|---|
| `Start` | `prepare_project_build`, `run_analysis` up to `for_project` |
| `AcquireTargetLock` | `acquire_target_lock` |
| `StartBindgenFails` | `for_project` fails: the language server goes on without the lock, but with project root and cache |
| `ReadSources` | reading `main.lis`, the siblings, the modules; the syntax return of `compile`; the overlays of the language server |
| `AnalyzeModule` | one turn of the loop of `analyze`: hash, hit or miss, registration |
| `Diagnose` | inference errors, passes, the verdict |
| `SaveModuleCache` | one turn of the saving loop |
| `Emit`, `WriteGoFile`, `Prune`, `GoRun` | `Emitter::emit` and the rest of `compile`, `write_go_outputs`, `prune_orphan_go_files`, `run_with_invocation_cwd` |
| `Finish`, `Crash` | the process ends, normally or not; the system drops its flock |

A folder's content is a record: its file names, its imports, its private methods, the
methods it requires of its imports, and whether it has a warning, an error, a syntax
error or an emission error. A hash is the record of what is hashed, so there are no
collisions. Inference is a function of a source and of the definitions of its imports
(`Definitions`), which makes the definitions of a module a tree of everything below
it: two sessions agree on a module exactly if they agree on all it depends on.
Inferring is one step with registering; the code infers all modules after the loop,
but a module's public definitions come from registration and inference only adds to
its own errors. `main.lis` always exists. The language server reads the manifest twice, for
the locator (`Start`) and in `for_project`, which fails if it does not parse by then, or
for reasons of its own where an instance has `SetupFails` (`StartBindgenFails`).

What the Go files of a build are compared with (`OutputsFresh`) is computed without the
session's interfaces: `CleanDefinitions` infers every module from the sources and the
typedefs that the session read, as if there had never been a cache, and `GoCode` is the
code of these definitions.

### ModuleGraph and the code

The variables are the locals of the three functions. A `HashSet` that is iterated is
a set of which any element is taken. `to_visit` is a set: a module pushed twice is
skipped the second time. The missing modules are in `notFound`; in the code they are
in `order` but not in `edges`, and so they are here.

### LspServer and the code

A timer is a task on any thread: each of its accesses to the shared state is a step, the
check of the version (`Check`) and the sending after it (`SendDiagnostics`) are two. Handlers
are polled by one task, the one that runs `Server::serve`, up to four at a time (`Handlers`),
so a handler's step reaches from one await that suspends it to the next. What suspends it is
the loader's lock when a timer has it: then the next message is taken, and its handler goes
up to the lock in turn. The lock is fair, so that the handlers in `waiting` go on in their
order (`Enqueue`, `Leave`), and none begins while another can go on (`Yields`). A didClose can
thus remove a document that a didChange before it has yet to insert. A handler that publishes
compares the versions and hands the message to the client's channel in one step: the channel
takes it before it suspends anybody.

A client gives a document it opens the version 1 or the one after its last; VS Code does the
first. The server sees only the number; `opening` counts the openings and is a history
variable, there for the properties. A text is the number of the edit that made it, and an
analysis is the texts it was made from. `Garbled` texts fail in the lexer (no snapshot is
made), `Unparsed` ones in the parser (a snapshot, but not a last valid one). One
simplification: the two insertions at the end of `run_analysis_cached` are one step. The wait
for the target flock blocks the thread and so adds no interleaving, only time.

### AddSync and the code

| Variable | In the code |
|---|---|
| `manifest` | `[dependencies.go]`: a version, and a `via` list unless the entry is direct |
| `mutator`, `holder` | who holds `.lis-mutate.lock`, tried once, and `.lis-target.lock`, waited for |
| `proc[p].read` | `ctx.manifest`, parsed before the locks (`add.rs:419`, `sync.rs:31`) |
| `proc[p].gomod` | `target/go.mod` as `go list -m` sees it |
| `.versions`, `.edges`, `.expanded`, `.queue` | `GraphResult` and the queue of the loop |
| `.walked`, `.scanned`, `.todo` | modules with a typedef, imports of `src/`, writes left |

| Action | Code |
|---|---|
| `Start`, `AcquireMutationLock`, `AcquireTargetLock` | `setup_project`, `sync` up to the locks |
| `Fetch` | `write_go_mod`, `go_get` |
| `ReconcileModule`, `ReconcileDrift` | the two loops of `reconcile_module_graph` |
| `WalkImport`, `EndWalk` | one import in `walk_typedef_cache`, of a module that Go knows; its typedef may fail; the walk may end early, since any step of it may be skipped with a warning |
| `ExpandModule`, `ExpandDrift` | the two loops of `expand_unwalked_modules` |
| `Declare`, `Write`, `BeginCleanup` | `apply_graph_to_manifest`: each `upsert_go_dep` and `remove_go_dep` is a step |
| `Scan` | `scan_source_imports` |
| `BeginTrim`, `BeginResolve` | `trim_dead_via_parents`, `resolve_empty_via`, which parse the manifest again |
| `Quit`, `Finish` | an error or a kill anywhere; the end |

The Go tool is external. Its rule, that the selected version of a module is the highest
one required of it so far, and that fetching or listing a module makes its requirements
known, is `Join` and `Requires`. Asked for a version below the selected one, `go get` takes
the selected one back, together with what needs it (`AfterGet`); the comment that
"MVS only moves upward" (`add.rs:533`) is about the other case. A package stands for its
module, and the packages of a module are never listed as its own requirements (`Listed`).
`clean` and `sure` are history variables: nobody else has changed the manifest since this
command read it and no module was skipped; Go took no version back, and told all drift.
The typedef files are not modelled.

That `lis add` reads before it locks is not a lost update by itself, since each write
parses the file again; it is a plan made from an old table. `DirectStaysDirect` says
exactly what that may cost: an entry made direct after the command parsed the manifest
may become a transitive again, and nothing else.

### Playground and the code

All handlers run on one thread, and a call of the compiler, although it is awaited, is
over before the next event is served. So a click on Format or Check, and the timer, are
one step each; a run is three: to the request of `formatGoSource`, to that of
`executeGoSource`, and to its end. `markers`, `panel` and `goPane` hold the text that what
they show was made from. `runs` has each run of the page at its await; `lost` is a run
whose `response.json()` was rejected, after which nothing enables the buttons. `overlapped`
is a history variable. `window.__lisette_setBridge` is left out: nothing calls it.

Sharing writes the source to the address, which a reload reads back; a link to the empty
text, or one with a payload of more than 100,000 characters, opens the welcome program
instead (`Unopenable`).

## 3. Runs

| Run | Checks | Shows |
|---|---|---|
| `build_cache_mixed` | `TypeOK`, `TargetLockHeld`, `CacheSound`, `NoHiddenErrors`, `RunUndisturbed`, `ImplementsCleanCompile` | the cache cannot be seen in definitions and verdicts, under any mix of `run`, `check` and language server sessions, one crash, unsaved buffers |
| `build_cache_build` | `OutputsFresh`, `NoHiddenWarnings` | builds and runs leave what a compilation from scratch writes, and hide no warning behind the cache, under edits, upgrades, deleted modules, and a typedef that only the entry imports |
| `build_cache_unlocked` | `ImplementsCleanCompile` | also beside a language server that analyses without the lock no session can see the cache |
| `build_cache_check_first` | `OutputsFresh`, violated | a `lis check` between two builds makes the second keep the Go files of the first |
| `build_cache_typedefs` | `CacheSound`, violated | a changed third-party typedef does not invalidate |
| `build_cache_methods` | `RequiredMethodsEmitted`, violated | a private method needed for an interface by a cached module is dropped from the Go code |
| `module_graph` | `TypeOK`, `InDegreeExact`, `ImportsComeFirst`, `OrdersTheAcyclic`, `CyclesExact`, `Termination` | the graph construction on every graph of three modules below an entry |
| `lsp_server` | `TypeOK`, `ServesOwnText`, `TimersTracked`, `StaleDiscarded`, `Settles` | caches, timers and the check of the version, for a document with overlapping handlers and any version numbers |
| `lsp_stale` | `ServesCurrentTexts`, violated | an analysis in flight undoes the clearing of the snapshots |
| `add_sync` | `TypeOK`, `OneMutation`, `GraphExact`, `AddDeclares`, `SyncRemovesOrphans`, `DirectStaysDirect`, `CommandsEnd` | the locks, the graph, the manifest after each command, and the end of every command |
| `add_sync_orphans` | `NoOrphansLeft`, violated | deleting an entry and running `lis sync` leaves an orphan |
| `playground` | `TypeOK`, `MarkersFresh`, `ButtonsGuardRuns`, `PanesAgree`, `RunningIsTrue`, `EditsAreChecked`, `RunsEnd` | the page tells the truth about its text and its runs, and comes to rest |

The violated runs each stand for a disagreement between the code and what its
documentation, comments or tests say; `PROJECT.json` quotes both. The passing properties
beside them are what is left of the promise, and name the exception: `OutputsFresh` holds for
builds alone, `NoHiddenWarnings` for commands alone, `TargetLockHeld` and `RunUndisturbed`
for a language server that takes the lock, `ServesOwnText` and `StaleDiscarded` except what comes from an analysis that
began before the document was closed and opened again, `Settles` unless there is such an
analysis or a timer overtaken between check and message, `SyncRemovesOrphans` for what was an
orphan when `lis sync` began.

### Bounds

* `build_cache_mixed`: modules a, b, c in a chain, two processes (symmetric), three
  sessions, one crash, one compiler, one typedef. A session of the language server may
  read any contents, so edits are not needed on top. Three sessions are enough for an
  entry to be written, partly replaced by a session that sees another program, and hit
  by a third; a chain of three is the shortest in which a module is invalidated
  although neither it nor its import changed. b may lose the method a needs, c may
  change, come to import a (a cycle), or come not to emit.
* `build_cache_build`: modules a and b, three sessions, two edits at any point of a
  session, two compilers, a manifest that may break, and two typedefs of a package that the
  entry, which is never cached, imports. No `check`, no language server, no crash, no private
  method behind an interface and no cached module above a typedef that changes, since each of
  these breaks `OutputsFresh`, as the other runs show (a crash between saving the cache
  and writing the Go files has the same effect as a check; with the sources of
  `build_cache_typedefs` a changed typedef leaves the old Go files).
* `build_cache_unlocked`: modules a and b in a chain, b with a third-party import; three
  sessions of `check` and the language server by two processes, whose buffers may hold any
  contents, a manifest that may break and a bindgen setup that may fail. One process that
  holds the lock and one that does not are enough for every interleaving of their reads and
  writes of the cache.
* The violated runs have the smallest instance that shows the violation.
* `module_graph`: three modules are enough for a cycle of three, two cycles that share
  a module, a self-import, and a cycle beside a missing module.
* `lsp_server`: one document, two edits, one close, two saves or requests, four handlers at a
  time. Documents meet only in `snapshots.clear()`, in the loader, and in the order of
  notifications; the first two only remove snapshots and delay, and what they break is the
  subject of `lsp_stale`, which has two documents; the theorems take any number. Two edits are
  two generations of timers, enough for one to be aborted, or to end, at every point of the
  other, and enough for a version to be current again after a close.
* `add_sync`: three modules of two versions, one world per start: a chain, with a manifest
  that an earlier `lis add` left and whose head's newer version needs nothing (entries to
  clean up); a triangle, in which a module met late raises one met before, which then no
  longer needs what it needed (an edge goes); a circle, whose
  members raise one another. Two commands by two processes are a race; one after the other
  they are a command killed between two writes, and the one that follows. One surprise is
  an edit of the manifest at any point, or a module that Go does not list once.
* `playground`: four texts (clean, badly laid out, with an error, empty), two runs, two
  edits, one share, one reload. Two runs are enough to overlap in every order of their
  answers, and to follow one another; the theorems take any number.

Deadlock is checked for `add_sync`, where `lis run` always comes and goes, and not
elsewhere: every bounded instance stops when its bounds are used up.

### Fairness

`ModuleGraph` is one thread in loops: weak fairness of `Next`. `LspServer` assumes that
the runtime polls a task that is ready (weak fairness of the handlers' task and of each
timer); it assumes nothing of the client, and nothing of `Drop`. That an analysis ends
depends on the target flock, which a `lis run` may hold for long. `BuildCache` has no
liveness property and no fairness. `AddSync` assumes that a command that is not killed
takes its next step, that the holder of the target lock gives it back (a `lis run` ends),
and strong fairness of the wait for it: a flock that is free again and again is had in
the end. It assumes nothing of `Quit`, `Edit` or `Start`. The failures of the Go tool are
bounded, so they pass: with a module whose new version could never be listed,
`reconcile_module_graph` would not end (`add.rs:558`, see the hazards). `Playground`
assumes that the browser runs a timer that is due (the user pauses for a second) and
answers or fails each request; it assumes nothing of the user or of the clipboard.

## 4. Proofs

`BuildCacheProofs`, for any modules, sources, processes, and bounds:

* `Types`: `Spec => []TypeOK`, by `TypeInv`, which adds that a session that has not
  read its sources knows nothing, and that one that has read them has a program.
* `TargetLockExclusive`: `Spec => []TargetLockHeld`, assuming `ServerTakesLock` (the language
  server does not run, or the manifest is never broken and the bindgen setup never fails;
  section 6 says why). The invariant is inductive with the types.
* `NobodyDisturbsARun`: `Spec => RunUndisturbed`, from the previous one.
* `CacheIsSound`: `Spec => []CacheSound`, assuming `FixedTypedefs` (third-party
  typedefs do not change, or only the entry imports them; `build_cache_typedefs` shows why) and `InjectiveCacheFile`
  (different modules have different cache files). `CacheSound` is not inductive: the
  interface of a hit comes from an entry that an earlier session wrote. The inductive
  invariant `CacheInv` says that an entry holds the definitions its own keys stand for,
  that a module's hash digests its source and the final hashes of its imports, and that
  its interface is the tree its hash stands for. A hit compares the keys, so it takes
  the tree that inference would give. The proof uses neither the lock nor the verdict:
  the cache is sound even when two sessions write it at once.
* `NothingIsHidden`: `Spec => []NoHiddenErrors`, under the same two assumptions. Sound
  interfaces are not enough: a hit is never checked again, so what lies in the cache must
  have been free of errors when it was saved. `VerdictInv` says so: an entry is without
  errors, what a session took from the cache is without errors, what it still has to
  save was inferred by itself, and the verdict of an accepted session stands until it
  ends. It holds because interfaces are saved only when no module has an error.
* `CacheIsInvisible`: `Spec => ImplementsCleanCompile`, under the same two assumptions:
  `Init` maps to the initial states of `CleanCompile`, `ReadSources` to `Begin`,
  `AnalyzeModule` to `Infer` (by `CacheInv`), `Diagnose` to `Conclude` (by
  `VerdictInv`), `Finish` and `Crash` to `End`, and every other step to a stutter
  (`StepClean`). `SameProgram` shows that the instance computes definitions and errors as
  `BuildCache` does. `ProgramAssumption` (no program is the value `None`) lets the
  observer tell a session that has read its sources from one that has not.

* `BuildsAreFresh`: `Spec => []OutputsFresh`, under five assumptions, the five ways in which
  stale Go files can stay: `OnlyBuilds` (nothing but builds and runs, all with or all without
  `--debug`; `build_cache_check_first` shows why), `NoCrashes`, `PlainSources` (no private
  method behind an interface, see `build_cache_methods`, and nothing that fails in emission,
  after its entry was saved), `FixedTypedefs` and `InjectiveCacheFile`. Compilers, the manifest
  and the sources may change at any point. A hit asks only whether the Go files exist, so they
  must be right whenever there is an entry. `FreshInv` says so: the Go files of a module are
  those of its entry, unless a session that has inferred the module is between saving and
  pruning (`EntriesVouch`); and while a session proceeds the entries of what it has analysed
  are its own or gone (`EntriesMatch`). The lock makes that session the only one, so that
  when it has pruned, what it inferred was just written, and what it took from the cache is
  vouched for. This is about the definitions that the session has; that they are those of
  a compilation from scratch is `Agrees`, an invariant too: whatever map of definitions gives
  each module the tree of its source and of the map's trees of its imports, the session
  agrees with it where it knows a definition (`AnalyzeAgrees`, from `CacheInv`). When an
  analysis is over the session's own definitions are such a map, so there is one and
  `CleanDefinitions` is it (`KnownIsClean`, `CleanDefinitionsAreClean`).

* `WarningsAreShown`: `Spec => []NoHiddenWarnings`, assuming `OnlyCommands` (no language
  server) and `PlainSources`. `LintInv` says that every session lints, and that neither an
  entry nor what a session took from one has a warning; it needs no lock, and survives kills.

`PlaygroundProofs`, for any texts, any compiler, any number of runs, edits and reloads:

* `Types`: `Spec => []TypeOK`.
* `NoStaleMarkers`: `Spec => []MarkersFresh`, by `MarkersInv`, which adds that a page that is
  not ready has neither timer nor markers (so that the last step of loading cannot reveal
  old ones) and that without a compiler there are no markers (so that the timer, which
  then leaves them alone, leaves none).
* `ButtonsTellOfRuns` and `ResultsBelongToTheirCode`: `Spec => []ButtonsGuardRuns` and
  `Spec => []PanesAgree`, by `RunsInv`. Neither is inductive: an answer that comes from an
  earlier run would enable the buttons or show its result. `OnlyLast` says that a run that
  began alone is the only one under way, and `Sent` that its code stays in the Go tab while
  it executes.
* `RunningIsNeverLeft`: `Spec => []RunningIsTrue`, inductive with the types, also for runs
  that overlap.

`AddSyncProofs`, for any modules, requirements, tables to start from, processes and number
of commands, edits and kills, by one inductive invariant `Inv`:

* `NobodyElseWrites`: `Spec => []OneMutation`. `Inv` adds that a command that waits for the
  target lock already holds the mutation lock. The proof needs that no process is called
  as the free lock or as `lis run` is (`ProcsAssumption`).
* `DirectDepsAreLeftAlone`: `Spec => DirectStaysDirect`. `Inv` adds that a direct entry has
  no parents (in the file, and in what commands have read and plan to write), and that in
  each stage of writes what is left to write for a module that was direct in the
  manifest it was planned from makes it direct again. `Write` is then the only step that
  can take a direct dependency away, and it does so only for one that was declared after
  the command parsed the file. The graph walk, whatever it computes, does not matter.

`AddSyncGraphProofs` describes each step as a relation between a command before and after it
(`Fetched`, `Requeued`, `Reconciled`, ...), and proves of these:

* `Types`: `Spec => []TypeOK`. `TypeInv` adds to each stage what it finds: an added module
  whose version is known, a write that is left only for a known module, and a version in it.
* `GraphIsExact`: `Spec => []GraphExact`. A recorded version lags behind the selected one until
  drift is looked for, and the edges are those of the version recorded (`Exact`); each edge
  leads to a module that is in the queue or was listed, first as long as modules are
  reconciled (`Spread`), and for the whole graph afterwards (`Closed`), if nothing was
  skipped. `ReconcileDrift` and `ExpandDrift` leave a stage only when nothing lags.

`AddSyncTableProofs`, about the commands that nobody disturbs (`clean`), by `TypeInv`,
`GraphInv` and, in turn:

* `SyncLeavesNoOrphanItRead`: `Spec => []SyncRemovesOrphans`, by `SyncInv`: the table is what
  the command read until its first write; then each entry is that of the table read without
  its dead parents, but for those still to be trimmed (`ParentsRead`); and then the orphans
  of that table are what is still to be removed or made direct (`OrphansLeft`).
* `AddLeavesItsGraph`: `Spec => []AddDeclares`, assuming `NoSelfStarts`: in the manifest to
  start with no module is its own parent. Lisette writes none (`SelfInv`, proved); only a
  user could, and the cleanup of `lis add` would then take the added module for a former
  transitive of its own, and undo its declaration. `AddInv` follows the graph through the
  writes: while entries are written, the modules of the graph that are done are as they
  should be, and afterwards there is a set
  with the added module in it, closed under what its members need, each recent enough and
  with a parent in the set, that neither cleanup nor trimming nor resolving touches.

`LspServerProofs`, for any documents of a project, edits, closes, requests, version numbers,
handlers that overlap and timers that overlap in any way, by one inductive invariant `Inv`
about each handler, document, snapshot and timer:

* `NoTimerIsLost`: `Spec => []TimersTracked`.
* `NoStaleSnapshot` and `NoStaleDiagnostics`: `Spec => []ServesOwnText` and
  `Spec => StaleDiscarded`, without an assumption on versions. Texts are ordered by opening
  and, in one opening, by version. `Inv` says that handlers insert the texts of a document in
  that order (`Sorted`), that whatever pair of opening and version a snapshot or an analysis
  holds is not after that of the document and before those still to be inserted (`Past`),
  and that an analysis whose pair is the document's has, at each of its steps, the
  document's text (`Awake`). A timer reads the version twice, before and after the look at
  the cache, and a close and an open may come between; either may be the one still current.
* `Types`: `Spec => []TypeOK`, by `TypesInv`. The bound on versions counts edits and openings
  (`CountsInv`); a change that waits for the loader has the number of an edit that has no
  timer yet (`ChangesInv`); an analysis finds, at each of its steps, what it reads there
  (`ReadyInv`).

`ModuleGraphProofs`, for any modules, sources and imports, with or without cycles:

* `CountersAreExact` and `ImportsAreAnalysedFirst`: `Spec => []InDegreeExact` and
  `Spec => []ImportsComeFirst`. `GraphInv` says that the graph is closed under imports when
  the visit is over, and that the set visited is finite (so that counting is). `SortInv`
  adds that the queue holds exactly the modules whose counter is zero, and that a sorted
  module has all its importers before it: the list is reversed at the end.
* `OrderIsWhatProgramSays`: `Spec => []OrdersTheAcyclic`. `VisitInv` says that the modules
  visited are those the entry reaches. `OrderInv` says that a module is sorted only if it is
  in `Ordered`. When the queue is empty, a module whose importers are all sorted is sorted
  itself, and `Ordered` is the least set with that property, which gives the converse.

`ModuleGraphSearchProofs`, for any import graph, with any number of cycles that share modules,
and any order in which starts and imports are taken:

* `Types`: `Spec => []TypeOK`.
* `CyclesAreExact`: `Spec => []CyclesExact`. That what is reported is a cycle follows from
  `StackInv`: the path of each entry of the stack is a path of imports to its module, without
  repetition. That no knot (the modules that share a cycle with some module) is missed needs
  more, since the search never enters a module twice and gives up a path there. `KnotInv` says
  of each knot that was entered and has no cycle reported: one of its modules, r, was entered
  first, all entries of the stack above some depth are paths through r, no module of the knot
  that was searched imports r, and whatever they import in the knot is searched or above that
  depth. So when the depth is reached again the modules searched are closed under imports
  within the knot, do not import r, and yet r is on a cycle (`NoWayOut`). What is left out of
  the sort because of a cycle is a start (`StartsInv`). As in the property, completeness is
  about graphs without missing modules.

Only model-checked: liveness (`Termination`, `Settles`, `CommandsEnd`, `EditsAreChecked`,
`RunsEnd`), which is out of the prover's reach and stays with TLC. Every invariant, every action
property and the refinement that a passing run checks are also theorems. Each inductive
invariant was checked by TLC on the instance of its run before it was proved.

## 5. Plan

Done: the core (`Program`, `CleanCompile`, `BuildCache` with its proofs), `ModuleGraph`,
`LspServer`, `AddSync` and `Playground` with their proofs. Next, in this order:

1. Proofs: the positive side of the violated runs, that is, what the code would have to compare
   or to order for `RequiredMethodsEmitted` and `ServesCurrentTexts`.
2. Pattern analysis (`passes/checks/pattern_analysis`): usefulness as recursive functions
   against a reference definition by enumeration of values.
3. Further instances of `BuildCache`: `exported_method_names`, two modules with one
   cache file.

## 6. Not modelled

The type system and inference itself, the text of Go files, the lints' conditions, the
formatter, the parser, diagnostics' wording, generated typedefs, the prelude and Go
stdlib caches of the user, the Go tools (`go mod tidy`, `go build`), the typedef files and
bindgen, the editor integrations: pure functions, data, or programs outside this code. `PROJECT.json` says
so component by component.

The toolchain is Rust and Go. Most of the repository's JavaScript is generated or vendored
(`docs/play`: Monaco's editor and its worker, and the wasm-bindgen glue) or data (the
tree-sitter grammar, the Monarch tokenizer and the themes of the playground). What keeps
state in it is the page itself, which `Playground` models, and the VS Code extension, which
starts and stops the language server.

Beyond the violated runs, these are known of the code and have no run of their own:

* With a `lisette.toml` that does not parse (`analysis.rs:111`), or a failed bindgen setup,
  the language server writes `target/cache` without the lock, also under a running
  `lis run`: with a `"broken"` manifest, or `SetupFails`, and `"lsp"` among the `Jobs`,
  `TargetLockHeld` and `RunUndisturbed` fail. `build_cache_unlocked` shows what holds.
* An analysis of the language server with the lints off (`analysis.rs:129`) saves modules with
  warnings, which a later `lis check` does not show: with `"lsp"` among the `Jobs`
  `NoHiddenWarnings` fails. So it does when the last use of a private method goes from
  another module.
* Between a timer's check of the version and its message (`document.rs:59-66`) a didChange or
  a didClose may come: the client is then sent diagnostics of an old text, or of a document
  that it has closed. The second also happens when a didChange that waits for the loader is
  overtaken by a didClose and inserts the document again. `StaleDiscarded` is about the check
  alone, and `Settles` excepts such timers.
* A client that begins with version 1 at each didOpen, as VS Code does, makes an old version
  current again: an analysis that began before the close passes the check and stores its
  snapshot. Without the words on `opening`, `StaleDiscarded` and `ServesOwnText` fail.
* A module that does not exist is counted among the sorted ones, so that it can hide an import
  cycle from the report (`kahn.rs:42`; the program is rejected all the same).
* `reconcile_module_graph` does not end if a module that was upgraded can never be listed.
