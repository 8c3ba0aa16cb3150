----------------------------- MODULE BuildCache -----------------------------
(***************************************************************************)
(* The incremental build of a Lisette project: semantics::analyze and its  *)
(* module cache (target/cache), the emission of Go files into target/, and *)
(* the target lock that serialises `lis build`, `lis run`, `lis check` and *)
(* the language server.  A session is one compilation by one process; the  *)
(* user edits sources, third-party typedefs and the compiler meanwhile,    *)
(* and a process may crash at any point.                                   *)
(*                                                                         *)
(* FNV hashes are modelled without collisions: the hash of some inputs is  *)
(* the record of these inputs.                                             *)
(***************************************************************************)
EXTENDS Program, Sequences

CONSTANTS
  Procs,        \* processes that compile the project
  Typedefs,     \* contents the typedef of GoDep may have
  Manifests,    \* states of lisette.toml: "valid", or also "broken"
  Compilers,    \* compiler builds (version and embedded stdlib)
  STDLIB_HASH,  \* the hash recorded for every go: dependency
  CacheFiles,   \* names of cache files
  CacheFile,    \* module |-> its cache file: the id with '/' replaced by '_'
  Jobs,         \* the kinds of session the processes start
  SetupFails,   \* whether BindgenSetup::for_project may fail
  MaxEdits, MaxSessions, MaxCrashes   \* bounds on user actions and crashes

ASSUME NamesAssumption ==
  /\ None \notin Procs \cup Typedefs
  /\ CacheFile \in [Modules -> CacheFiles]
ASSUME JobsAssumption ==
  /\ Jobs \subseteq {"build", "debug", "run", "check", "lsp"}
  /\ None \notin {"build", "debug", "run", "check", "lsp"}
  /\ Manifests \subseteq {"valid", "broken"}
  /\ SetupFails \in BOOLEAN
ASSUME EntryAssumption == \A s \in SourcesOf[Entry] : s.files # {}

VARIABLES
  src,        \* node |-> content on disk
  typedef,    \* content of the typedef GoDep resolves to
  manifest,   \* whether lisette.toml parses
  installed,  \* the installed compiler
  cache,      \* cache file |-> ModuleInterface, or None
  out,        \* node |-> file name |-> the Go code emitted for it, or None
  lock,       \* holder of target/.lisette/.lis-target.lock, or None
  pc, job,    \* where each process is, and what it runs
  comp,       \* the compiler the process runs
  locator,    \* the typedef its locator resolves GoDep to, or None
  program,    \* the program its loader returned
  lints,      \* whether it runs the lints (run_lints)
  hash,       \* module_hashes
  iface,      \* module |-> the interface registered in the store
  hits,       \* cached_modules
  compiled,   \* compiled_modules, later those still to be saved
  toWrite,    \* the Go files still to be written
  edits, sessions, crashes

user    == <<src, typedef, manifest, installed>>
disk    == <<cache, out>>
process == <<pc, job, comp, locator, program, lints, hash, iface, hits,
             compiled, toWrite>>
bounds  == <<edits, sessions, crashes>>
vars    == <<user, disk, lock, process, bounds>>

Snapshots ==
  {b \in [Nodes -> AllSources] : \A n \in Nodes : b[n] \in SourcesOf[n]}

ASSUME ProgramAssumption == None \notin Programs(Snapshots)

Emits(j) == j \in {"build", "debug", "run"}

-----------------------------------------------------------------------------
(* Hashes, interfaces and cache entries of the session of p.               *)

SourceOf(p, n) == Source(program[p], n)

Edges(p, n) == Resolved(program[p], n, locator[p])

(* Mutant: the hash of an import says nothing of the imports behind it. *)
DirectDependencyHashes(p, n) ==
  [d \in Edges(p, n) |->
     IF d = GoDep THEN STDLIB_HASH ELSE SourceOf(p, d)]

DependencyHashes(p, n) ==
  [d \in Edges(p, n) |-> IF d = GoDep THEN STDLIB_HASH
     ELSE IF d \in DOMAIN hash[p] THEN hash[p][d] ELSE None]

InferredIface(p, n) == Definitions(program[p], n, locator[p], iface[p])

CacheEntry(p, m) ==
  [compiler          |-> comp[p],
   source_hash       |-> SourceOf(p, m),
   dependency_hashes |-> DependencyHashes(p, m),
   definitions       |-> iface[p][m]]

(* Mutants of IsCacheValid: each forgets to compare one of the keys. *)
CacheValidWhateverCompiler(e, p, m) ==
  /\ e.source_hash = SourceOf(p, m)
  /\ e.dependency_hashes = DependencyHashes(p, m)
CacheValidWhateverDependencies(e, p, m) ==
  /\ e.compiler = comp[p]
  /\ e.source_hash = SourceOf(p, m)
CacheValidWhateverSource(e, p, m) ==
  /\ e.compiler = comp[p]
  /\ e.dependency_hashes = DependencyHashes(p, m)

IsCacheValid(e, p, m) ==
  /\ e.compiler = comp[p]
  /\ e.source_hash = SourceOf(p, m)
  /\ e.dependency_hashes = DependencyHashes(p, m)

(* all_go_outputs_exist: existence, not freshness. *)
AllGoOutputsExist(e, m) ==
  \A f \in e.source_hash.files : out[m][f] # None

CacheHit(p, m) ==
  LET e == cache[CacheFile[m]] IN
  /\ e # None
  /\ IsCacheValid(e, p, m)
  /\ Emits(job[p]) => AllGoOutputsExist(e, m)

-----------------------------------------------------------------------------
(* Diagnostics and emission.                                               *)

AllNodes(p) == Ordered(program[p]) \cup {Entry}

Inferred(p) == AllNodes(p) \ hits[p]

ReportsErrors(p, K) == AnalysisErrors(program[p], locator[p], iface[p], K)

(* The Go file of a node, when known are the definitions of the modules    *)
(* and the nodes of K have been inferred: an unused method is not emitted, *)
(* and --debug adds //line directives.                                     *)
GoCode(p, n, known, K) ==
  [definitions |-> DefinitionsOf(program[p], n, locator[p], known),
   compiler    |-> comp[p],
   debug       |-> job[p] = "debug",
   exported    |-> ExportedMethods(program[p], n),
   kept        |-> UsedMethods(program[p], n, K)]

-----------------------------------------------------------------------------
Init ==
  /\ src \in Snapshots
  /\ typedef \in Typedefs
  /\ manifest \in Manifests
  /\ installed \in Compilers
  /\ cache = [c \in CacheFiles |-> None]
  /\ out = [n \in Nodes |-> [f \in Files |-> None]]
  /\ lock = None
  /\ pc = [p \in Procs |-> "idle"]
  /\ job = [p \in Procs |-> None]
  /\ comp = [p \in Procs |-> None]
  /\ locator = [p \in Procs |-> None]
  /\ program = [p \in Procs |-> None]
  /\ lints = [p \in Procs |-> TRUE]
  /\ hash = [p \in Procs |-> EmptyMap]
  /\ iface = [p \in Procs |-> EmptyMap]
  /\ hits = [p \in Procs |-> {}]
  /\ compiled = [p \in Procs |-> <<>>]
  /\ toWrite = [p \in Procs |-> {}]
  /\ edits = 0 /\ sessions = 0 /\ crashes = 0

(* The user changes, creates or deletes the files of a folder. *)
Edit(n) ==
  /\ edits < MaxEdits
  /\ \E s \in SourcesOf[n] \ {src[n]} : src' = [src EXCEPT ![n] = s]
  /\ edits' = edits + 1
  /\ UNCHANGED <<typedef, manifest, installed, disk, lock, process, sessions,
                 crashes>>

(* `lis add` or `lis sync` moves GoDep to a version with another typedef. *)
ChangeTypedef ==
  /\ edits < MaxEdits
  /\ typedef' \in Typedefs \ {typedef}
  /\ edits' = edits + 1
  /\ UNCHANGED <<src, manifest, installed, disk, lock, process, sessions,
                 crashes>>

UpgradeCompiler ==
  /\ edits < MaxEdits
  /\ installed' \in Compilers \ {installed}
  /\ edits' = edits + 1
  /\ UNCHANGED <<src, typedef, manifest, disk, lock, process, sessions,
                 crashes>>

(* The user breaks lisette.toml, in the middle of editing it, or mends it. *)
EditManifest ==
  /\ edits < MaxEdits
  /\ manifest' \in Manifests \ {manifest}
  /\ edits' = edits + 1
  /\ UNCHANGED <<src, typedef, installed, disk, lock, process, sessions,
                 crashes>>

(* A command or an LSP analysis starts: it reads the manifest, hence the   *)
(* dependency versions, before it waits for the target lock.  With a       *)
(* manifest that does not parse a command fails at once; the language      *)
(* server goes on, without dependencies and without the target lock (it    *)
(* takes the lock in BindgenSetup::for_project, for the Go tool's sake).   *)
Start(p) ==
  /\ pc[p] = "idle"
  /\ sessions < MaxSessions
  /\ \E j \in Jobs :
       /\ job' = [job EXCEPT ![p] = j]
       /\ \/ /\ manifest = "valid"
             /\ pc' = [pc EXCEPT ![p] = "locking"]
             /\ locator' = [locator EXCEPT ![p] = typedef]
          \/ /\ manifest = "broken" /\ j = "lsp"
             /\ pc' = [pc EXCEPT ![p] = "reading"]
             /\ locator' = [locator EXCEPT ![p] = None]
  /\ comp' = [comp EXCEPT ![p] = installed]
  /\ sessions' = sessions + 1
  /\ UNCHANGED <<user, disk, lock, program, lints, hash, iface, hits, compiled,
                 toWrite, edits, crashes>>

(* Mutant: does not wait for the holder. *)
TakeTargetLock(p) ==
  /\ pc[p] = "locking"
  /\ lock' = p
  /\ pc' = [pc EXCEPT ![p] = "reading"]
  /\ UNCHANGED <<user, disk, job, comp, locator, program, lints, hash, iface,
                 hits, compiled, toWrite, bounds>>

AcquireTargetLock(p) ==
  /\ pc[p] = "locking"
  /\ lock = None
  /\ lock' = p
  /\ pc' = [pc EXCEPT ![p] = "reading"]
  /\ UNCHANGED <<user, disk, job, comp, locator, program, lints, hash, iface,
                 hits, compiled, toWrite, bounds>>

(* for_project fails for the language server: target/ or go.mod cannot be  *)
(* written, or lisette.toml, which it reads again, does not parse by now.  *)
(* The analysis goes on without the lock, with the typedefs that have been *)
(* generated before.                                                       *)
StartBindgenFails(p) ==
  /\ pc[p] = "locking" /\ job[p] = "lsp"
  /\ SetupFails \/ manifest = "broken"
  /\ locator' \in {locator, [locator EXCEPT ![p] = None]}
  /\ pc' = [pc EXCEPT ![p] = "reading"]
  /\ UNCHANGED <<user, disk, lock, job, comp, program, lints, hash, iface, hits,
                 compiled, toWrite, bounds>>

(* The loader reads every folder.  A command analyses src/ as the entry;   *)
(* the language server analyses the folder of the open document, and open  *)
(* buffers may hold any text.  A syntax error in main.lis ends a command;  *)
(* one in the open document turns off the lints, and what the parser could *)
(* recover of the document is analysed.                                    *)
ReadSources(p) ==
  /\ pc[p] = "reading"
  /\ IF job[p] = "lsp"
       THEN /\ \E r \in Nodes, b \in Snapshots :
                 /\ b[r].files # {}
                 /\ program' = [program EXCEPT ![p] = [root |-> r, snap |-> b]]
            /\ lints' \in {lints, [lints EXCEPT ![p] = FALSE]}
            /\ pc' = [pc EXCEPT ![p] = "analyzing"]
       ELSE /\ program' = [program EXCEPT ![p] = [root |-> Entry, snap |-> src]]
            /\ pc' = [pc EXCEPT ![p] = IF src[Entry].quality = "syntax"
                                         THEN "rejected" ELSE "analyzing"]
            /\ UNCHANGED lints
  /\ UNCHANGED <<user, disk, lock, job, comp, locator, hash, iface, hits,
                 compiled, toWrite, bounds>>

(* One turn of the loop over the topological order: dependencies first. *)
AnalyzeModule(p, m) ==
  LET c == CacheFile[m] IN
  /\ pc[p] = "analyzing"
  /\ m \in Ordered(program[p])
  /\ m \notin DOMAIN hash[p]
  /\ Imports(program[p], m) \cap Ordered(program[p]) \subseteq DOMAIN hash[p]
  /\ hash' = [hash EXCEPT ![p] =
       Put(@, m, Digest(SourceOf(p, m), DependencyHashes(p, m)))]
  /\ IF CacheHit(p, m)
       THEN /\ iface' = [iface EXCEPT ![p] = Put(@, m, cache[c].definitions)]
            /\ hits' = [hits EXCEPT ![p] = @ \cup {m}]
            /\ UNCHANGED <<cache, compiled>>
       ELSE /\ cache' = [cache EXCEPT ![c] = None]
            /\ iface' = [iface EXCEPT ![p] = Put(@, m, InferredIface(p, m))]
            /\ compiled' = [compiled EXCEPT ![p] = Append(@, m)]
            /\ UNCHANGED hits
  /\ UNCHANGED <<user, out, lock, pc, job, comp, locator, program, lints,
                 toWrite, bounds>>

Analyzed(p) == Ordered(program[p]) \subseteq DOMAIN hash[p]

(* Checks and lints; interfaces are saved if there is no error anywhere. *)
Diagnose(p) ==
  /\ pc[p] = "analyzing"
  /\ Analyzed(p)
  /\ pc' = [pc EXCEPT ![p] =
       IF ReportsErrors(p, Inferred(p)) THEN "rejected" ELSE "saving"]
  /\ UNCHANGED <<user, disk, lock, job, comp, locator, program, lints, hash,
                 iface, hits, compiled, toWrite, bounds>>

(* Mutant: the warnings of a module do not keep it out of the cache. *)
SaveWhateverWarnings(p) ==
  /\ pc[p] = "saving"
  /\ compiled[p] # <<>>
  /\ LET m == Head(compiled[p]) IN
       cache' = [cache EXCEPT ![CacheFile[m]] = CacheEntry(p, m)]
  /\ compiled' = [compiled EXCEPT ![p] = Tail(@)]
  /\ UNCHANGED <<user, out, lock, pc, job, comp, locator, program, lints, hash,
                 iface, hits, toWrite, bounds>>

(* save_module_cache, a temporary file renamed over the entry, for each    *)
(* module of which the lints, if they ran, found no warning.               *)
SaveModuleCache(p) ==
  /\ pc[p] = "saving"
  /\ compiled[p] # <<>>
  /\ LET m == Head(compiled[p]) IN
       cache' = IF lints[p] /\ HasWarnings(program[p], m, Inferred(p))
                THEN cache
                ELSE [cache EXCEPT ![CacheFile[m]] = CacheEntry(p, m)]
  /\ compiled' = [compiled EXCEPT ![p] = Tail(@)]
  /\ UNCHANGED <<user, out, lock, pc, job, comp, locator, program, lints, hash,
                 iface, hits, toWrite, bounds>>

(* Emitter::emit skips cached modules; an emission error drops everything. *)
Emit(p) ==
  /\ pc[p] = "saving"
  /\ compiled[p] = <<>>
  /\ \/ /\ ~Emits(job[p])
        /\ pc' = [pc EXCEPT ![p] = "checked"]
        /\ UNCHANGED toWrite
     \/ /\ Emits(job[p])
        /\ \E n \in Inferred(p) : SourceOf(p, n).quality = "emit_error"
        /\ pc' = [pc EXCEPT ![p] = "failed"]
        /\ UNCHANGED toWrite
     \/ /\ Emits(job[p])
        /\ \A n \in Inferred(p) : SourceOf(p, n).quality # "emit_error"
        /\ pc' = [pc EXCEPT ![p] = "writing"]
        /\ toWrite' = [toWrite EXCEPT ![p] =
             UNION {{n} \X SourceOf(p, n).files : n \in Inferred(p)}]
  /\ UNCHANGED <<user, disk, lock, job, comp, locator, program, lints, hash,
                 iface, hits, compiled, bounds>>

WriteGoFile(p, n, f) ==
  /\ pc[p] = "writing"
  /\ <<n, f>> \in toWrite[p]
  /\ out' = [out EXCEPT ![n][f] = GoCode(p, n, iface[p], Inferred(p))]
  /\ toWrite' = [toWrite EXCEPT ![p] = @ \ {<<n, f>>}]
  /\ UNCHANGED <<user, cache, lock, pc, job, comp, locator, program, lints,
                 hash, iface, hits, compiled, bounds>>

(* prune_orphan_go_files: only in the folders this build has written to. *)
Orphans(p) ==
  {x \in Nodes \X Files :
     /\ x[1] \in Inferred(p)
     /\ SourceOf(p, x[1]).files # {}
     /\ x[2] \notin SourceOf(p, x[1]).files}

Prune(p) ==
  /\ pc[p] = "writing"
  /\ toWrite[p] = {}
  /\ out' = [n \in Nodes |-> [f \in Files |->
               IF <<n, f>> \in Orphans(p) THEN None ELSE out[n][f]]]
  /\ pc' = [pc EXCEPT ![p] = "built"]
  /\ UNCHANGED <<user, cache, lock, job, comp, locator, program, lints, hash,
                 iface, hits, compiled, toWrite, bounds>>

(* Mutant: the lock is dropped before the program starts. *)
GoRunUnlocked(p) ==
  /\ pc[p] = "built"
  /\ job[p] = "run"
  /\ lock' = None
  /\ pc' = [pc EXCEPT ![p] = "running"]
  /\ UNCHANGED <<user, disk, job, comp, locator, program, lints, hash, iface,
                 hits, compiled, toWrite, bounds>>

(* `lis run` keeps the lock while the program it built runs. *)
GoRun(p) ==
  /\ pc[p] = "built"
  /\ job[p] = "run"
  /\ pc' = [pc EXCEPT ![p] = "running"]
  /\ UNCHANGED <<user, disk, lock, job, comp, locator, program, lints, hash,
                 iface, hits, compiled, toWrite, bounds>>

(* Mutant: module_hashes outlives the session. *)
ForgetInterfaces(p) ==
  /\ hash' = hash
  /\ iface' = [iface EXCEPT ![p] = EmptyMap]

ForgetModules(p) ==
  /\ hash' = [hash EXCEPT ![p] = EmptyMap]
  /\ iface' = [iface EXCEPT ![p] = EmptyMap]

(* The process ends; with it goes its lock, whatever ended it. *)
Leave(p) ==
  /\ lock' = IF lock = p THEN None ELSE lock
  /\ pc' = [pc EXCEPT ![p] = "idle"]
  /\ job' = [job EXCEPT ![p] = None]
  /\ comp' = [comp EXCEPT ![p] = None]
  /\ locator' = [locator EXCEPT ![p] = None]
  /\ program' = [program EXCEPT ![p] = None]
  /\ lints' = [lints EXCEPT ![p] = TRUE]
  /\ ForgetModules(p)
  /\ hits' = [hits EXCEPT ![p] = {}]
  /\ compiled' = [compiled EXCEPT ![p] = <<>>]
  /\ toWrite' = [toWrite EXCEPT ![p] = {}]
  /\ UNCHANGED <<user, disk, edits, sessions>>

Finish(p) ==
  /\ \/ pc[p] \in {"rejected", "failed", "checked", "running"}
     \/ pc[p] = "built" /\ job[p] # "run"
  /\ Leave(p)
  /\ UNCHANGED crashes

Crash(p) ==
  /\ crashes < MaxCrashes
  /\ pc[p] # "idle"
  /\ Leave(p)
  /\ crashes' = crashes + 1

Session(p) ==
  \/ Start(p)
  \/ AcquireTargetLock(p)
  \/ StartBindgenFails(p)
  \/ ReadSources(p)
  \/ \E m \in Modules : AnalyzeModule(p, m)
  \/ Diagnose(p)
  \/ SaveModuleCache(p)
  \/ Emit(p)
  \/ \E n \in Nodes, f \in Files : WriteGoFile(p, n, f)
  \/ Prune(p)
  \/ GoRun(p)
  \/ Finish(p)
  \/ Crash(p)

Next ==
  \/ \E n \in Nodes : Edit(n)
  \/ ChangeTypedef
  \/ UpgradeCompiler
  \/ EditManifest
  \/ \E p \in Procs : Session(p)

Spec == Init /\ [][Next]_vars

-----------------------------------------------------------------------------
(* Properties.                                                             *)

TypeOK ==
  /\ src \in Snapshots
  /\ typedef \in Typedefs
  /\ manifest \in Manifests
  /\ installed \in Compilers
  /\ DOMAIN cache = CacheFiles
  /\ DOMAIN out = Nodes /\ \A n \in Nodes : DOMAIN out[n] = Files
  /\ lock \in Procs \cup {None}
  /\ pc \in [Procs -> {"idle", "locking", "reading", "analyzing", "saving",
                       "writing", "built", "running", "checked", "rejected",
                       "failed"}]
  /\ job \in [Procs -> Jobs \cup {None}]
  /\ comp \in [Procs -> Compilers \cup {None}]
  /\ locator \in [Procs -> Typedefs \cup {None}]
  /\ program \in [Procs -> Programs(Snapshots) \cup {None}]
  /\ lints \in [Procs -> BOOLEAN]
  /\ DOMAIN hash = Procs /\ DOMAIN iface = Procs
  /\ \A p \in Procs : /\ DOMAIN hash[p] \subseteq Modules
                      /\ DOMAIN iface[p] = DOMAIN hash[p]
  /\ hits \in [Procs -> SUBSET Modules]
  /\ compiled \in [Procs -> Seq(Modules)]
  /\ toWrite \in [Procs -> SUBSET (Nodes \X Files)]

(* A process past the lock is the holder of the lock: target/ has at most  *)
(* one writer, whatever mix of commands, analyses and crashes is under way *)
(* (as long as lisette.toml parses and the server's setup succeeds).       *)
TargetLockHeld ==
  \A p \in Procs : pc[p] \notin {"idle", "locking"} => lock = p

(* run.rs: while `lis run` runs the program it built, nobody rewrites the  *)
(* caches or the Go files under target/.                                   *)
RunUndisturbed ==
  [][\A p \in Procs : pc[p] = "running" /\ pc'[p] = "running"
                        => UNCHANGED disk]_vars

(* Transitive invalidation: whatever mixture of hits and misses, sources   *)
(* edited and folders removed led here, the interface registered for a     *)
(* module is the one inference would give it from the contents this        *)
(* session read and from the interfaces registered for its imports.        *)
CacheSound ==
  \A p \in Procs : \A m \in DOMAIN hash[p] :
    iface[p][m] = InferredIface(p, m)

(* An analysis that reports no error would report none if it inferred      *)
(* every module from what it read and from the interfaces registered for   *)
(* the imports: a hit hides no error of a module whose imports changed.    *)
NoHiddenErrors ==
  \A p \in Procs :
    pc[p] \in {"saving", "checked", "writing", "built", "running"} =>
      ~AnalysisErrors(program[p], locator[p],
                      [m \in DOMAIN hash[p] |-> InferredIface(p, m)], AllNodes(p))

(* The cache cannot be seen: every session, of commands and of the         *)
(* language server alike, goes through the steps of an analysis without    *)
(* cache of the program it read, and reaches the same verdict.             *)
Status(p) ==
  CASE program[p] = None -> "none"
    [] pc[p] = "analyzing" -> "analyzing"
    [] pc[p] = "rejected" -> "rejected"
    [] OTHER -> "accepted"

Clean == INSTANCE CleanCompile WITH
  Sessions <- Procs,
  status   <- [p \in Procs |-> Status(p)],
  prog     <- program,
  resolved <- [p \in Procs |-> IF program[p] = None THEN None ELSE locator[p]],
  defs     <- iface

ImplementsCleanCompile == Clean!Spec

(* After a successful build the Go files of every module of the program    *)
(* are those a build from scratch would leave, of the same contents, the   *)
(* same typedefs and with the same compiler: the code of the definitions   *)
(* inferred without a cache, whatever interfaces this session registered.  *)
OutputsFresh ==
  \A p \in Procs : pc[p] = "built" =>
    LET clean == CleanDefinitions(program[p], locator[p]) IN
    \A n \in AllNodes(p), f \in Files :
      out[n][f] = IF f \in SourceOf(p, n).files
                    THEN GoCode(p, n, clean, AllNodes(p)) ELSE None

(* After a successful build the Go code of a module has the methods other  *)
(* modules rely on to satisfy an interface.                                *)
RequiredMethodsEmitted ==
  \A p \in Procs : pc[p] = "built" =>
    \A n \in Ordered(program[p]) : \A f \in SourceOf(p, n).files :
      UsedMethods(program[p], n, AllNodes(p)) \subseteq out[n][f].kept

(* A warning is shown by every build, run and check until it is fixed: a   *)
(* module taken from the cache has none, since it is not linted again.     *)
(* Sessions of the language server without lints break this.               *)
NoHiddenWarnings ==
  \A p \in Procs :
    pc[p] \in {"saving", "checked", "writing", "built", "running"} /\ lints[p] =>
      \A m \in hits[p] : ~HasWarnings(program[p], m, AllNodes(p))
=============================================================================
