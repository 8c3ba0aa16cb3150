-------------------------- MODULE BuildCacheProofs --------------------------
(***************************************************************************)
(* Proofs about BuildCache: its types, the exclusive use of target/, the   *)
(* soundness of the module cache, the errors it does not hide, the         *)
(* refinement of CleanCompile, the Go files a build leaves and the         *)
(* warnings that stay visible, for any modules, processes, sources and     *)
(* sessions.                                                               *)
(***************************************************************************)
EXTENDS BuildCache, TLAPS

-----------------------------------------------------------------------------
(* Types.                                                                  *)

(* Before it reads the sources a session has no program and knows nothing; *)
(* afterwards it has the program its loader returned.                      *)
Unread(p) == pc[p] \in {"idle", "locking", "reading"}

ProgramRead ==
  \A p \in Procs :
    IF Unread(p)
      THEN /\ program[p] = None
           /\ hash[p] = EmptyMap /\ iface[p] = EmptyMap
           /\ compiled[p] = <<>>
      ELSE program[p] \in Programs(Snapshots)

TypeInv == TypeOK /\ ProgramRead

(* What a session reads of a node is one of the contents a folder may have. *)
LEMMA SourceType ==
  ASSUME NEW g \in Programs(Snapshots), NEW n \in Nodes
  PROVE  Source(g, n) \in AllSources /\ Source(g, n).files \subseteq Files
<1>1. PICK k \in Nodes : Source(g, n) = g.snap[k]
  BY DEF Source, Programs
<1>2. g.snap[k] \in SourcesOf[k]
  BY DEF Programs, Snapshots
<1> QED BY <1>1, <1>2, SourceAssumption DEF AllSources

(* What the topological sort orders are modules: the entry is not one.     *)
LEMMA OrderedModules ==
  ASSUME NEW g PROVE Ordered(g) \subseteq Modules
  BY DEF Ordered, Reachable

(* Nothing has been read, and every variable has its type, at the start.   *)
LEMMA InitTypes == Init => TypeInv
  BY JobsAssumption, NamesAssumption
     DEF Init, TypeInv, TypeOK, ProgramRead, Unread, EmptyMap

(* The types are kept by every operation of the user and by every step of  *)
(* a session.                                                              *)
LEMMA StepTypes == TypeInv /\ [Next]_vars => TypeInv'
<1> SUFFICES ASSUME TypeOK, ProgramRead, [Next]_vars
             PROVE  TypeOK' /\ ProgramRead'
  BY DEF TypeInv
<1> USE DEF TypeOK, user, disk, process, bounds
<1>1. ASSUME NEW n \in Nodes, Edit(n) PROVE TypeOK' /\ ProgramRead'
  <2>1. PICK s \in SourcesOf[n] : src' = [src EXCEPT ![n] = s]
    BY <1>1 DEF Edit
  <2>2. src' \in Snapshots
    <3>1. \A k \in Nodes : src'[k] \in SourcesOf[k]
      BY <2>1 DEF Snapshots
    <3>2. \A k \in Nodes : src'[k] \in AllSources
      BY <3>1 DEF AllSources
    <3>3. src' = [k \in Nodes |-> src'[k]]
      BY <2>1 DEF Snapshots
    <3> HIDE DEF TypeOK
    <3>4. src' \in [Nodes -> AllSources]
      BY <3>2, <3>3
    <3> QED BY <3>1, <3>4 DEF Snapshots
  <2>3. UNCHANGED <<typedef, manifest, installed, disk, lock, process>>
    BY <1>1 DEF Edit
  <2>4. TypeOK'
    BY <2>2, <2>3
  <2>5. ProgramRead'
    BY <2>3 DEF ProgramRead, Unread
  <2> QED BY <2>4, <2>5
<1>2. CASE ChangeTypedef
  BY <1>2 DEF ChangeTypedef, ProgramRead, Unread
<1>3. CASE UpgradeCompiler
  BY <1>3 DEF UpgradeCompiler, ProgramRead, Unread
<1>4. CASE EditManifest
  BY <1>4 DEF EditManifest, ProgramRead, Unread
<1>5. ASSUME NEW p \in Procs, Session(p) PROVE TypeOK' /\ ProgramRead'
  <2>1. CASE Start(p)
    <3>1. PICK j \in Jobs, s \in {"locking", "reading"},
               go \in Typedefs \cup {None} :
            /\ job' = [job EXCEPT ![p] = j]
            /\ pc' = [pc EXCEPT ![p] = s]
            /\ locator' = [locator EXCEPT ![p] = go]
      BY <2>1 DEF Start
    <3>2. /\ pc[p] = "idle" /\ comp' = [comp EXCEPT ![p] = installed]
          /\ UNCHANGED <<user, disk, lock, program, lints, hash, iface, hits,
                         compiled, toWrite>>
      BY <2>1 DEF Start
    <3>3. TypeOK'
      BY <3>1, <3>2
    <3>4. ProgramRead'
      BY <3>1, <3>2 DEF ProgramRead, Unread
    <3> QED BY <3>3, <3>4
  <2>2. CASE AcquireTargetLock(p)
    BY <2>2 DEF AcquireTargetLock, ProgramRead, Unread
  <2>3. CASE StartBindgenFails(p)
    <3>1. PICK go \in Typedefs \cup {None} : locator' = [locator EXCEPT ![p] = go]
      <4>1. locator[p] \in Typedefs \cup {None}
            /\ locator = [locator EXCEPT ![p] = locator[p]]
        OBVIOUS
      <4> QED BY <2>3, <4>1 DEF StartBindgenFails
    <3>2. /\ pc[p] = "locking" /\ pc' = [pc EXCEPT ![p] = "reading"]
          /\ UNCHANGED <<user, disk, lock, job, comp, program, lints, hash, iface,
                         hits, compiled, toWrite>>
      BY <2>3 DEF StartBindgenFails
    <3>3. TypeOK'
      BY <3>1, <3>2
    <3>4. ProgramRead'
      BY <3>1, <3>2 DEF ProgramRead, Unread
    <3> QED BY <3>3, <3>4
  <2>4. CASE ReadSources(p)
    <3>1. PICK g \in Programs(Snapshots) : program' = [program EXCEPT ![p] = g]
      BY <2>4 DEF ReadSources, Programs, Nodes
    <3>2. PICK s \in {"rejected", "analyzing"} : pc' = [pc EXCEPT ![p] = s]
      BY <2>4 DEF ReadSources
    <3>3. UNCHANGED <<user, disk, lock, job, comp, locator, hash, iface, hits,
                      compiled, toWrite, bounds>>
      BY <2>4 DEF ReadSources
    <3>4. lints' \in [Procs -> BOOLEAN]
      BY <2>4 DEF ReadSources
    <3>5. TypeOK'
      BY <3>1, <3>2, <3>3, <3>4
    <3>6. ProgramRead'
      BY <3>1, <3>2, <3>3 DEF ProgramRead, Unread
    <3> QED BY <3>5, <3>6
  <2>5. ASSUME NEW m \in Modules, AnalyzeModule(p, m)
        PROVE TypeOK' /\ ProgramRead'
    <3>1. PICK h, i : /\ hash' = [hash EXCEPT ![p] = Put(@, m, h)]
                      /\ iface' = [iface EXCEPT ![p] = Put(@, m, i)]
      BY <2>5 DEF AnalyzeModule
    <3>2. /\ DOMAIN hash' = Procs /\ DOMAIN iface' = Procs
          /\ \A q \in Procs : /\ DOMAIN hash'[q] \subseteq Modules
                              /\ DOMAIN iface'[q] = DOMAIN hash'[q]
      BY <3>1 DEF Put
    <3>3. DOMAIN cache' = CacheFiles
      BY <2>5 DEF AnalyzeModule
    <3>4. hits' = hits \/ hits' = [hits EXCEPT ![p] = @ \cup {m}]
      BY <2>5 DEF AnalyzeModule
    <3>5. hits' \in [Procs -> SUBSET Modules]
      <4>1. hits \in [Procs -> SUBSET Modules]
        OBVIOUS
      <4>2. hits[p] \cup {m} \in SUBSET Modules
        BY <4>1
      <4> HIDE DEF TypeOK
      <4> QED BY <3>4, <4>1, <4>2
    <3>6. \/ compiled' = compiled
          \/ compiled' = [compiled EXCEPT ![p] = Append(@, m)]
      BY <2>5 DEF AnalyzeModule
    <3>7. compiled' \in [Procs -> Seq(Modules)]
      <4>1. compiled \in [Procs -> Seq(Modules)]
        OBVIOUS
      <4>2. Append(compiled[p], m) \in Seq(Modules)
        BY <4>1
      <4> HIDE DEF TypeOK
      <4> QED BY <3>6, <4>1, <4>2
    <3>8. UNCHANGED <<user, out, lock, pc, job, comp, locator, program,
                      lints, toWrite, bounds>>
      BY <2>5 DEF AnalyzeModule
    <3>9. TypeOK'
      BY <3>2, <3>3, <3>5, <3>7, <3>8
    <3>10. pc[p] = "analyzing"
      BY <2>5 DEF AnalyzeModule
    <3>11. ProgramRead'
      BY <3>1, <3>6, <3>8, <3>10 DEF ProgramRead, Unread
    <3> QED BY <3>9, <3>11
  <2>6. CASE Diagnose(p)
    <3>1. PICK s \in {"rejected", "saving"} : pc' = [pc EXCEPT ![p] = s]
      BY <2>6 DEF Diagnose
    <3> QED BY <2>6, <3>1 DEF Diagnose, ProgramRead, Unread
  <2>7. CASE SaveModuleCache(p)
    <3>1. compiled' \in [Procs -> Seq(Modules)]
      BY <2>7 DEF SaveModuleCache
    <3>2. DOMAIN cache' = CacheFiles
      BY <2>7 DEF SaveModuleCache
    <3>3. pc[p] = "saving" /\ compiled' = [compiled EXCEPT ![p] = Tail(@)]
      BY <2>7 DEF SaveModuleCache
    <3>4. UNCHANGED <<user, out, lock, pc, job, comp, locator, program, lints,
                      hash, iface, hits, toWrite, bounds>>
      BY <2>7 DEF SaveModuleCache
    <3>5. TypeOK'
      BY <3>1, <3>2, <3>4
    <3>6. ProgramRead'
      BY <3>3, <3>4 DEF ProgramRead, Unread
    <3> QED BY <3>5, <3>6
  <2>8. CASE Emit(p)
    <3>1. UNION {{n} \X SourceOf(p, n).files : n \in Inferred(p)}
            \in SUBSET (Nodes \X Files)
      <4>1. program[p] \in Programs(Snapshots)
        BY <2>8 DEF Emit, ProgramRead, Unread
      <4>2. Inferred(p) \subseteq Nodes
        BY OrderedModules DEF Inferred, AllNodes, Nodes
      <4>3. \A n \in Inferred(p) : SourceOf(p, n).files \subseteq Files
        BY <4>1, <4>2, SourceType DEF SourceOf
      <4> QED BY <4>2, <4>3
    <3>2. PICK s \in {"checked", "failed", "writing"} : pc' = [pc EXCEPT ![p] = s]
      BY <2>8 DEF Emit
    <3>3. toWrite' \in [Procs -> SUBSET (Nodes \X Files)]
      BY <2>8, <3>1 DEF Emit
    <3>4. pc[p] = "saving" /\ UNCHANGED <<user, disk, lock, job, comp, locator,
             program, lints, hash, iface, hits, compiled, bounds>>
      BY <2>8 DEF Emit
    <3>5. TypeOK'
      BY <3>2, <3>3, <3>4
    <3>6. ProgramRead'
      BY <3>2, <3>4 DEF ProgramRead, Unread
    <3> QED BY <3>5, <3>6
  <2>9. ASSUME NEW n \in Nodes, NEW f \in Files, WriteGoFile(p, n, f)
        PROVE TypeOK' /\ ProgramRead'
    BY <2>9 DEF WriteGoFile, ProgramRead, Unread
  <2>10. CASE Prune(p)
    BY <2>10 DEF Prune, ProgramRead, Unread
  <2>11. CASE GoRun(p)
    BY <2>11 DEF GoRun, ProgramRead, Unread
  <2>12. CASE Finish(p) \/ Crash(p)
    <3>1. Leave(p)
      BY <2>12 DEF Finish, Crash
    <3>2. TypeOK'
      <4>1. DOMAIN EmptyMap = {}
        BY DEF EmptyMap
      <4> QED BY <3>1, <4>1 DEF Leave, ForgetModules
    <3>3. ProgramRead'
      BY <3>1 DEF Leave, ForgetModules, ProgramRead, Unread
    <3> QED BY <3>2, <3>3
  <2> QED BY <1>5, <2>1, <2>2, <2>4, <2>5, <2>6, <2>7, <2>8, <2>9, <2>10,
             <2>11, <2>12, <2>3 DEF Session
<1>6. CASE UNCHANGED vars
  BY <1>6 DEF vars, ProgramRead, Unread
<1> QED BY <1>1, <1>2, <1>3, <1>5, <1>6, <1>4 DEF Next

(* Every variable keeps its type, whatever the users, the processes and    *)
(* the crashes do.                                                         *)
THEOREM Types == Spec => []TypeOK
<1>1. TypeInv => TypeOK
  BY DEF TypeInv
<1> QED BY <1>1, InitTypes, StepTypes, PTL DEF Spec

-----------------------------------------------------------------------------
(* The target lock.  The language server does without it when lisette.toml *)
(* does not parse or its setup for bindgen fails, so the results are about *)
(* a manifest that parses and a setup that succeeds, or commands alone.    *)

ServerTakesLock == "lsp" \in Jobs => "broken" \notin Manifests /\ ~SetupFails

(* At the start nobody is past the target lock.                            *)
LEMMA InitLock == Init => TargetLockHeld
  BY DEF Init, TargetLockHeld

(* A process gets past the target lock by taking it free, and nothing but  *)
(* its own end makes it lose the lock.                                     *)
LEMMA StepLock ==
  ASSUME ServerTakesLock
  PROVE  TypeOK /\ TargetLockHeld /\ [Next]_vars => TargetLockHeld'
<1> SUFFICES ASSUME TypeOK, TargetLockHeld, [Next]_vars
             PROVE  TargetLockHeld'
  OBVIOUS
<1>1. pc = [q \in Procs |-> pc[q]]
  BY DEF TypeOK
<1> USE DEF TargetLockHeld, user, disk, process, bounds
<1>2. CASE (\E n \in Nodes : Edit(n)) \/ ChangeTypedef \/ UpgradeCompiler
           \/ EditManifest
  BY <1>2 DEF Edit, ChangeTypedef, UpgradeCompiler, EditManifest
<1>3. ASSUME NEW p \in Procs, Session(p) PROVE TargetLockHeld'
  <2>1. CASE Start(p)
    <3>1. ~\E j \in Jobs : manifest = "broken" /\ j = "lsp"
      BY DEF TypeOK, ServerTakesLock
    <3> QED BY <1>1, <2>1, <3>1 DEF Start
  <2>2. ~StartBindgenFails(p)
    BY JobsAssumption DEF StartBindgenFails, TypeOK, ServerTakesLock
  <2>3. CASE AcquireTargetLock(p)
    BY <1>1, <2>3, NamesAssumption DEF AcquireTargetLock
  <2>4. ASSUME lock' = lock, pc[p] \notin {"idle", "locking"},
               \A q \in Procs \ {p} : pc'[q] = pc[q]
        PROVE  TargetLockHeld'
    BY <2>4
  <2>5. CASE ReadSources(p)
    BY <1>1, <2>4, <2>5 DEF ReadSources
  <2>6. ASSUME NEW m \in Modules, AnalyzeModule(p, m) PROVE TargetLockHeld'
    BY <2>4, <2>6 DEF AnalyzeModule
  <2>7. CASE Diagnose(p)
    BY <1>1, <2>4, <2>7 DEF Diagnose
  <2>8. CASE SaveModuleCache(p)
    BY <2>4, <2>8 DEF SaveModuleCache
  <2>9. CASE Emit(p)
    BY <1>1, <2>4, <2>9 DEF Emit
  <2>10. ASSUME NEW n \in Nodes, NEW f \in Files, WriteGoFile(p, n, f)
        PROVE TargetLockHeld'
    BY <2>4, <2>10 DEF WriteGoFile
  <2>11. CASE Prune(p) \/ GoRun(p)
    BY <1>1, <2>4, <2>11 DEF Prune, GoRun
  <2>12. CASE Finish(p) \/ Crash(p)
    BY <1>1, <2>12 DEF Finish, Crash, Leave, ForgetModules
  <2> QED BY <1>3, <2>1, <2>3, <2>5, <2>6, <2>7, <2>8, <2>9, <2>10, <2>11,
             <2>12, <2>2 DEF Session
<1>4. CASE UNCHANGED vars
  BY <1>4 DEF vars
<1> QED BY <1>2, <1>3, <1>4 DEF Next

(* At most one process is past the target lock, for any number of commands *)
(* and analyses, and across crashes.                                       *)
THEOREM TargetLockExclusive ==
  ASSUME ServerTakesLock PROVE Spec => []TargetLockHeld
<1>1. TypeInv => TypeOK
  BY DEF TypeInv
<1>2. TypeOK /\ TargetLockHeld /\ [Next]_vars => TargetLockHeld'
  BY StepLock
<1> QED BY <1>1, <1>2, InitTypes, StepTypes, InitLock, PTL DEF Spec

(* A process that writes to target/ holds the lock, so it is the one that  *)
(* runs its program, and that one does not write.                          *)
LEMMA StepUndisturbed ==
  TargetLockHeld /\ [Next]_vars =>
    [\A p \in Procs : pc[p] = "running" /\ pc'[p] = "running"
                        => UNCHANGED disk]_vars
<1> SUFFICES ASSUME TargetLockHeld, Next, NEW p \in Procs,
                    pc[p] = "running", pc'[p] = "running"
             PROVE  UNCHANGED disk
  BY DEF vars
<1> USE DEF disk
<1>1. CASE (\E n \in Nodes : Edit(n)) \/ ChangeTypedef \/ UpgradeCompiler
           \/ EditManifest
  BY <1>1 DEF Edit, ChangeTypedef, UpgradeCompiler, EditManifest
<1>2. ASSUME NEW q \in Procs, Session(q) PROVE UNCHANGED disk
  <2>1. pc[q] \notin {"analyzing", "saving", "writing"}
    BY DEF TargetLockHeld
  <2>2. \A m \in Modules : ~AnalyzeModule(q, m)
    BY <2>1 DEF AnalyzeModule
  <2>3. ~SaveModuleCache(q) /\ ~Prune(q)
    BY <2>1 DEF SaveModuleCache, Prune
  <2>4. \A n \in Nodes, f \in Files : ~WriteGoFile(q, n, f)
    BY <2>1 DEF WriteGoFile
  <2> QED BY <1>2, <2>2, <2>3, <2>4
         DEF Session, Start, AcquireTargetLock, StartBindgenFails, ReadSources,
             Diagnose, Emit, GoRun, Finish, Crash, Leave, ForgetModules
<1> QED BY <1>1, <1>2 DEF Next

(* While a process runs the program it built, nobody writes to target/.    *)
THEOREM NobodyDisturbsARun ==
  ASSUME ServerTakesLock PROVE Spec => RunUndisturbed
<1>1. Spec => []TargetLockHeld
  BY TargetLockExclusive
<1> QED BY <1>1, StepUndisturbed, PTL DEF Spec, RunUndisturbed

-----------------------------------------------------------------------------
(* Soundness of the module cache.  The assumptions are what the code needs *)
(* and does not check: the typedefs of third-party packages never change   *)
(* (the code hashes them all to STDLIB_HASH), or only the entry, which is  *)
(* never cached, imports them; and different modules have different cache  *)
(* files.                                                                  *)

FixedTypedefs ==
  \/ Typedefs = {STDLIB_HASH}
  \/ \A m \in Modules : \A s \in SourcesOf[m] : GoDep \notin s.imports
InjectiveCacheFile ==
  \A m, k \in Modules : CacheFile[m] = CacheFile[k] => m = k

(* A module's hash digests its source and the hashes of its imports, which *)
(* are all final, and its interface is the tree its hash stands for.       *)
HashesFaithful ==
  \A p \in Procs : \A m \in DOMAIN hash[p] :
    /\ m \in Ordered(program[p])
    /\ Imports(program[p], m) \cap Ordered(program[p]) \subseteq DOMAIN hash[p]
    /\ hash[p][m] = Digest(SourceOf(p, m), DependencyHashes(p, m))
    /\ iface[p][m] = [module |-> m, tree |-> hash[p][m]]

SavedAnalyzed ==
  \A p \in Procs : \A i \in 1 .. Len(compiled[p]) :
    compiled[p][i] \in DOMAIN hash[p]

(* A cache entry holds the definitions its own keys describe. *)
EntryFaithful(e, m) ==
  e.definitions =
    [module |-> m, tree |-> Digest(e.source_hash, e.dependency_hashes)]

CacheFaithful ==
  \A m \in Modules :
    cache[CacheFile[m]] # None => EntryFaithful(cache[CacheFile[m]], m)

CacheInv == HashesFaithful /\ SavedAnalyzed /\ CacheFaithful

(* An empty cache and sessions that know nothing are faithful.             *)
LEMMA InitCache == Init => CacheInv
  BY NamesAssumption
     DEF Init, CacheInv, HashesFaithful, SavedAnalyzed,
         CacheFaithful, EmptyMap

(* The definitions known of a module are what its hash stands for.         *)
LEMMA TreeIsHash ==
  ASSUME CacheInv, NEW p \in Procs, NEW d \in DOMAIN hash[p]
  PROVE  iface[p][d].tree = hash[p][d]
<1>1. iface[p][d] = [module |-> d, tree |-> hash[p][d]]
  BY DEF CacheInv, HashesFaithful
<1> QED BY <1>1

(* What the keys of a module stand for is what inference gives it.         *)
LEMMA InferredFromHashes ==
  ASSUME FixedTypedefs, TypeInv, CacheInv, NEW p \in Procs, ~Unread(p),
         NEW m \in Modules
  PROVE  InferredIface(p, m) =
           [module |-> m, tree |-> Digest(SourceOf(p, m), DependencyHashes(p, m))]
<1>1. GoDep \in Edges(p, m) => locator[p] = STDLIB_HASH
  <2>1. CASE Typedefs = {STDLIB_HASH}
    BY <2>1 DEF TypeInv, TypeOK, Edges, Resolved
  <2>2. CASE \A k \in Modules : \A s \in SourcesOf[k] : GoDep \notin s.imports
    <3>1. Source(program[p], m) \in SourcesOf[m]
      BY NodeAssumption
         DEF TypeInv, ProgramRead, Programs, Snapshots, Source, Nodes
    <3> QED BY <2>2, <3>1 DEF Edges, Resolved, Imports
  <2> QED BY <2>1, <2>2 DEF FixedTypedefs
<1>2. DOMAIN iface[p] = DOMAIN hash[p]
  BY DEF TypeInv, TypeOK
<1>3. \A d \in DOMAIN hash[p] : iface[p][d].tree = hash[p][d]
  BY TreeIsHash
<1> QED BY <1>1, <1>2, <1>3, NodeAssumption
       DEF InferredIface, Definitions, DependencyHashes, SourceOf, Edges, Resolved

(* A faithful cache and faithful sessions give sound interfaces.           *)
LEMMA CacheInvImpliesSound ==
  ASSUME FixedTypedefs, TypeInv, CacheInv PROVE CacheSound
<1> SUFFICES ASSUME NEW p \in Procs, NEW m \in DOMAIN hash[p]
             PROVE  iface[p][m] = InferredIface(p, m)
  BY DEF CacheSound
<1>1. m \in Modules /\ ~Unread(p)
  BY DEF TypeInv, TypeOK, ProgramRead, EmptyMap
<1> QED BY <1>1, InferredFromHashes DEF CacheInv, HashesFaithful

(* Hit or miss, the interface registered is the one inference gives.       *)
LEMMA RegistersInferred ==
  ASSUME FixedTypedefs, TypeInv, CacheInv, NEW p \in Procs, NEW m \in Modules,
         AnalyzeModule(p, m)
  PROVE  iface' = [iface EXCEPT ![p] = Put(@, m, InferredIface(p, m))]
<1>1. ~Unread(p)
  BY DEF AnalyzeModule, Unread
<1>2. CASE CacheHit(p, m)
  <2>1. cache[CacheFile[m]].definitions =
          [module |-> m, tree |-> Digest(SourceOf(p, m), DependencyHashes(p, m))]
    BY <1>2 DEF CacheHit, IsCacheValid, CacheInv, CacheFaithful, EntryFaithful
  <2>2. cache[CacheFile[m]].definitions = InferredIface(p, m)
    BY <1>1, <2>1, InferredFromHashes
  <2> QED BY <1>2, <2>2 DEF AnalyzeModule
<1>3. CASE ~CacheHit(p, m)
  BY <1>3 DEF AnalyzeModule
<1> QED BY <1>2, <1>3

(* A step that leaves what sessions know, or forgets it, keeps HashesFaithful. *)
LEMMA KeepHashes ==
  ASSUME HashesFaithful,
         \A p \in Procs :
           \/ hash'[p] = EmptyMap
           \/ /\ hash'[p] = hash[p] /\ iface'[p] = iface[p]
              /\ program'[p] = program[p] /\ locator'[p] = locator[p]
  PROVE  HashesFaithful'
<1> SUFFICES ASSUME NEW p \in Procs, NEW m \in DOMAIN hash'[p]
             PROVE /\ m \in Ordered(program'[p])
                   /\ Imports(program'[p], m) \cap Ordered(program'[p])
                        \subseteq DOMAIN hash'[p]
                   /\ hash'[p][m] = Digest(SourceOf(p, m), DependencyHashes(p, m))'
                   /\ iface'[p][m] = [module |-> m, tree |-> hash'[p][m]]
  BY DEF HashesFaithful
<1>1. hash'[p] # EmptyMap
  BY DEF EmptyMap
<1>2. /\ hash'[p] = hash[p] /\ iface'[p] = iface[p]
      /\ program'[p] = program[p] /\ locator'[p] = locator[p]
  BY <1>1
<1>3. /\ SourceOf(p, m)' = SourceOf(p, m)
      /\ DependencyHashes(p, m)' = DependencyHashes(p, m)
  BY <1>2 DEF SourceOf, DependencyHashes, Edges
<1> QED BY <1>2, <1>3 DEF HashesFaithful

(* The turn of the loop that analyses a module: a hit takes the interface  *)
(* the keys of the entry describe, a miss infers it.                       *)
LEMMA AnalyzeSound ==
  ASSUME FixedTypedefs, TypeInv, CacheInv, NEW p \in Procs, NEW m \in Modules,
         AnalyzeModule(p, m)
  PROVE  HashesFaithful'
<1> DEFINE h == Digest(SourceOf(p, m), DependencyHashes(p, m))
           i == [module |-> m, tree |-> h]
<1>1. /\ m \in Ordered(program[p]) /\ m \notin DOMAIN hash[p]
      /\ Imports(program[p], m) \cap Ordered(program[p]) \subseteq DOMAIN hash[p]
      /\ hash' = [hash EXCEPT ![p] = Put(@, m, h)]
      /\ program' = program /\ locator' = locator
  BY DEF AnalyzeModule
<1>2. iface' = [iface EXCEPT ![p] = Put(@, m, i)]
  BY RegistersInferred, InferredFromHashes DEF AnalyzeModule, Unread
<1>3. DOMAIN hash = Procs /\ DOMAIN iface = Procs
      /\ DOMAIN iface[p] = DOMAIN hash[p]
  BY DEF TypeInv, TypeOK
<1>4. /\ DOMAIN hash'[p] = DOMAIN hash[p] \cup {m}
      /\ \A k \in DOMAIN hash[p] : /\ hash'[p][k] = hash[p][k]
                                   /\ iface'[p][k] = iface[p][k]
      /\ hash'[p][m] = h /\ iface'[p][m] = i
  BY <1>1, <1>2, <1>3 DEF Put
<1>5. \A k \in DOMAIN hash'[p] :
        /\ k \in Ordered(program[p])
        /\ Imports(program[p], k) \cap Ordered(program[p]) \subseteq DOMAIN hash[p]
  BY <1>1, <1>4 DEF CacheInv, HashesFaithful
<1>6. \A k \in DOMAIN hash'[p] : SourceOf(p, k)' = SourceOf(p, k)
  BY <1>1 DEF SourceOf
<1>7. \A k \in DOMAIN hash'[p] : DependencyHashes(p, k)' = DependencyHashes(p, k)
  <2> SUFFICES ASSUME NEW k \in DOMAIN hash'[p]
               PROVE  DependencyHashes(p, k)' = DependencyHashes(p, k)
    OBVIOUS
  <2>1. m \notin Imports(program[p], k)
    BY <1>1, <1>5
  <2>2. \A d \in Imports(program[p], k) :
          /\ d \in DOMAIN hash'[p] <=> d \in DOMAIN hash[p]
          /\ d \in DOMAIN hash[p] => hash'[p][d] = hash[p][d]
    BY <1>4, <2>1
  <2>3. Edges(p, k)' = Edges(p, k) /\ Edges(p, k) \subseteq Imports(program[p], k)
    BY <1>1 DEF Edges, Resolved
  <2> QED BY <1>1, <2>2, <2>3 DEF DependencyHashes
<1>8. ASSUME NEW k \in DOMAIN hash'[p]
      PROVE  /\ hash'[p][k] = Digest(SourceOf(p, k), DependencyHashes(p, k))
             /\ iface'[p][k] = [module |-> k, tree |-> hash'[p][k]]
  <2>1. CASE k = m
    BY <1>4, <2>1
  <2>2. CASE k # m
    BY <1>4, <2>2 DEF CacheInv, HashesFaithful
  <2> QED BY <2>1, <2>2
<1>9. ASSUME NEW q \in Procs, q # p, NEW k \in DOMAIN hash'[q]
      PROVE  /\ k \in Ordered(program'[q])
             /\ Imports(program'[q], k) \cap Ordered(program'[q])
                  \subseteq DOMAIN hash'[q]
             /\ hash'[q][k] = Digest(SourceOf(q, k), DependencyHashes(q, k))'
             /\ iface'[q][k] = [module |-> k, tree |-> hash'[q][k]]
  <2>1. /\ hash'[q] = hash[q] /\ iface'[q] = iface[q]
        /\ program' = program /\ locator' = locator
    BY <1>1, <1>2, <1>3, <1>9
  <2>2. /\ SourceOf(q, k)' = SourceOf(q, k)
        /\ DependencyHashes(q, k)' = DependencyHashes(q, k)
    BY <2>1 DEF SourceOf, DependencyHashes, Edges
  <2> QED BY <2>1, <2>2 DEF CacheInv, HashesFaithful
<1> QED
  <2> SUFFICES ASSUME NEW q \in Procs, NEW k \in DOMAIN hash'[q]
      PROVE  /\ k \in Ordered(program'[q])
             /\ Imports(program'[q], k) \cap Ordered(program'[q])
                  \subseteq DOMAIN hash'[q]
             /\ hash'[q][k] = Digest(SourceOf(q, k), DependencyHashes(q, k))'
             /\ iface'[q][k] = [module |-> k, tree |-> hash'[q][k]]
    BY DEF HashesFaithful
  <2>1. CASE q = p
    BY <1>1, <1>4, <1>5, <1>6, <1>7, <1>8, <2>1
  <2> QED BY <1>9, <2>1

(* Saving writes what the keys of the new entry describe. *)
LEMMA SaveSound ==
  ASSUME InjectiveCacheFile, TypeInv, CacheInv, NEW p \in Procs,
         SaveModuleCache(p)
  PROVE  CacheFaithful'
<1> DEFINE m == Head(compiled[p])
<1>1. compiled[p] \in Seq(Modules) /\ compiled[p] # <<>>
  BY DEF TypeInv, TypeOK, SaveModuleCache
<1>2. m \in Modules /\ m = compiled[p][1] /\ 1 \in 1 .. Len(compiled[p])
  BY <1>1
<1>3. m \in DOMAIN hash[p]
  BY <1>2 DEF CacheInv, SavedAnalyzed
<1>4. iface[p][m] =
        [module |-> m, tree |-> Digest(SourceOf(p, m), DependencyHashes(p, m))]
  BY <1>3 DEF CacheInv, HashesFaithful
<1>5. EntryFaithful(CacheEntry(p, m), m)
  BY <1>4 DEF EntryFaithful, CacheEntry
<1>6. cache' = cache \/ cache' = [cache EXCEPT ![CacheFile[m]] = CacheEntry(p, m)]
  BY DEF SaveModuleCache
<1>7. DOMAIN cache = CacheFiles /\ \A k \in Modules : CacheFile[k] \in CacheFiles
  BY NamesAssumption DEF TypeInv, TypeOK
<1> SUFFICES ASSUME NEW k \in Modules, cache'[CacheFile[k]] # None
             PROVE  EntryFaithful(cache'[CacheFile[k]], k)
  BY DEF CacheFaithful, EntryFaithful
<1>8. CASE k = m /\ cache' # cache
  BY <1>5, <1>6, <1>7, <1>8
<1>9. CASE k # m \/ cache' = cache
  <2>1. cache'[CacheFile[k]] = cache[CacheFile[k]]
    BY <1>2, <1>6, <1>7, <1>9 DEF InjectiveCacheFile
  <2> QED BY <2>1 DEF CacheInv, CacheFaithful
<1> QED BY <1>8, <1>9

(* Every step keeps the cache, and what sessions know, faithful.           *)
LEMMA StepCache ==
  ASSUME FixedTypedefs, InjectiveCacheFile
  PROVE  TypeInv /\ CacheInv /\ [Next]_vars => CacheInv'
<1> SUFFICES ASSUME TypeInv, CacheInv, [Next]_vars PROVE CacheInv'
  OBVIOUS
<1> USE DEF user, disk, process, bounds
<1>1. ASSUME UNCHANGED <<cache, pc, locator, program, hash, iface, compiled>>
      PROVE  CacheInv'
  <2>1. HashesFaithful'
    BY <1>1, KeepHashes DEF CacheInv
  <2> QED BY <1>1, <2>1
         DEF CacheInv, SavedAnalyzed, CacheFaithful, EntryFaithful
<1>2. CASE (\E n \in Nodes : Edit(n)) \/ ChangeTypedef \/ UpgradeCompiler
           \/ EditManifest
  BY <1>1, <1>2 DEF Edit, ChangeTypedef, UpgradeCompiler, EditManifest
<1>3. ASSUME NEW p \in Procs, Session(p) PROVE CacheInv'
  <2>1. /\ pc = [q \in Procs |-> pc[q]] /\ locator = [q \in Procs |-> locator[q]]
        /\ program = [q \in Procs |-> program[q]]
        /\ DOMAIN hash = Procs /\ DOMAIN iface = Procs
        /\ compiled \in [Procs -> Seq(Modules)]
    BY DEF TypeInv, TypeOK
  <2>2. ASSUME pc[p] # "idle", \A q \in Procs \ {p} : pc'[q] = pc[q],
               UNCHANGED <<cache, locator, program, hash, iface, compiled>>
        PROVE  CacheInv'
    <3>1. HashesFaithful'
      BY <2>2, KeepHashes DEF CacheInv
    <3> QED BY <2>2, <3>1 DEF CacheInv, SavedAnalyzed, CacheFaithful, EntryFaithful
  <2>3. CASE Start(p)
    <3>1. hash[p] = EmptyMap
      BY <2>3 DEF Start, TypeInv, ProgramRead, Unread
    <3>2. \A q \in Procs \ {p} : locator'[q] = locator[q]
      BY <2>1, <2>3 DEF Start
    <3>3. UNCHANGED <<cache, program, hash, iface, compiled>>
      BY <2>3 DEF Start
    <3>4. HashesFaithful'
      BY <3>1, <3>2, <3>3, KeepHashes DEF CacheInv
    <3> QED BY <3>3, <3>4
           DEF Start, CacheInv, SavedAnalyzed, CacheFaithful, EntryFaithful
  <2>4. CASE AcquireTargetLock(p)
    BY <2>1, <2>2, <2>4 DEF AcquireTargetLock
  <2>5. CASE StartBindgenFails(p)
    <3>1. hash[p] = EmptyMap
      BY <2>5 DEF StartBindgenFails, TypeInv, ProgramRead, Unread
    <3>2. \A q \in Procs \ {p} : locator'[q] = locator[q]
      BY <2>1, <2>5 DEF StartBindgenFails
    <3>3. UNCHANGED <<cache, program, hash, iface, compiled>>
      BY <2>5 DEF StartBindgenFails
    <3>4. HashesFaithful'
      BY <3>1, <3>2, <3>3, KeepHashes DEF CacheInv
    <3> QED BY <3>3, <3>4 DEF CacheInv, SavedAnalyzed, CacheFaithful, EntryFaithful
  <2>6. CASE ReadSources(p)
    <3>1. hash[p] = EmptyMap
      BY <2>6 DEF ReadSources, TypeInv, ProgramRead, Unread
    <3>2. UNCHANGED <<cache, locator, hash, iface, compiled>>
      BY <2>6 DEF ReadSources
    <3>3. \A q \in Procs \ {p} : program'[q] = program[q]
      BY <2>1, <2>6 DEF ReadSources
    <3>4. HashesFaithful'
      BY <3>1, <3>2, <3>3, KeepHashes DEF CacheInv
    <3> QED BY <3>2, <3>4
           DEF CacheInv, SavedAnalyzed, CacheFaithful, EntryFaithful
  <2>7. ASSUME NEW m \in Modules, AnalyzeModule(p, m) PROVE CacheInv'
    <3>1. HashesFaithful'
      BY <2>7, AnalyzeSound
    <3>2. /\ \A q \in Procs : DOMAIN hash[q] \subseteq DOMAIN hash'[q]
          /\ m \in DOMAIN hash'[p]
      BY <2>1, <2>7 DEF AnalyzeModule, Put
    <3>3. \/ compiled' = compiled
          \/ compiled' = [compiled EXCEPT ![p] = Append(@, m)]
      BY <2>7 DEF AnalyzeModule
    <3>4. SavedAnalyzed'
      <4> SUFFICES ASSUME NEW q \in Procs, NEW i \in 1 .. Len(compiled'[q])
                   PROVE  compiled'[q][i] \in DOMAIN hash'[q]
        BY DEF SavedAnalyzed
      <4>1. CASE compiled'[q] = compiled[q]
        BY <3>2, <4>1 DEF CacheInv, SavedAnalyzed
      <4>2. CASE q = p /\ compiled'[p] = Append(compiled[p], m)
        <5>1. compiled[p] \in Seq(Modules)
          BY <2>1
        <5>2. \/ i \in 1 .. Len(compiled[p]) /\ compiled'[p][i] = compiled[p][i]
              \/ compiled'[p][i] = m
          BY <4>2, <5>1
        <5> QED BY <3>2, <4>2, <5>2 DEF CacheInv, SavedAnalyzed
      <4> QED BY <2>1, <3>3, <4>1, <4>2
    <3>5. cache' = cache \/ cache' = [cache EXCEPT ![CacheFile[m]] = None]
      BY <2>7 DEF AnalyzeModule
    <3>6. DOMAIN cache = CacheFiles /\ \A k \in Modules : CacheFile[k] \in CacheFiles
      BY NamesAssumption DEF TypeInv, TypeOK
    <3>7. CacheFaithful'
      <4> SUFFICES ASSUME NEW k \in Modules, cache'[CacheFile[k]] # None
                   PROVE  EntryFaithful(cache'[CacheFile[k]], k)
        BY DEF CacheFaithful, EntryFaithful
      <4>1. cache'[CacheFile[k]] = cache[CacheFile[k]]
        BY <3>5, <3>6
      <4> QED BY <4>1 DEF CacheInv, CacheFaithful
    <3> QED BY <3>1, <3>4, <3>7 DEF CacheInv
  <2>8. CASE Diagnose(p)
    BY <2>1, <2>2, <2>8 DEF Diagnose
  <2>9. CASE SaveModuleCache(p)
    <3>1. CacheFaithful'
      BY <2>9, SaveSound
    <3>2. HashesFaithful'
      BY <2>9, KeepHashes DEF SaveModuleCache, CacheInv
    <3>3. SavedAnalyzed'
      <4>1. /\ hash' = hash /\ compiled[p] # <<>>
            /\ compiled' = [compiled EXCEPT ![p] = Tail(@)]
        BY <2>9 DEF SaveModuleCache
      <4>2. \A i \in 1 .. Len(Tail(compiled[p])) :
              /\ i + 1 \in 1 .. Len(compiled[p])
              /\ Tail(compiled[p])[i] = compiled[p][i + 1]
        BY <2>1, <4>1
      <4> QED BY <2>1, <4>1, <4>2 DEF CacheInv, SavedAnalyzed
    <3> QED BY <3>1, <3>2, <3>3 DEF CacheInv
  <2>10. CASE Emit(p)
    BY <2>1, <2>2, <2>10 DEF Emit
  <2>11. ASSUME NEW n \in Nodes, NEW f \in Files, WriteGoFile(p, n, f)
         PROVE  CacheInv'
    BY <2>2, <2>11 DEF WriteGoFile
  <2>12. CASE Prune(p) \/ GoRun(p)
    BY <2>1, <2>2, <2>12 DEF Prune, GoRun
  <2>13. CASE Finish(p) \/ Crash(p)
    <3>1. Leave(p)
      BY <2>13 DEF Finish, Crash
    <3>2. \A q \in Procs \ {p} : /\ pc'[q] = pc[q] /\ locator'[q] = locator[q]
                                 /\ program'[q] = program[q]
                                 /\ hash'[q] = hash[q] /\ iface'[q] = iface[q]
                                 /\ compiled'[q] = compiled[q]
      BY <2>1, <3>1 DEF Leave, ForgetModules
    <3>3. /\ hash'[p] = EmptyMap /\ compiled'[p] = <<>> /\ pc'[p] = "idle"
          /\ cache' = cache
      BY <2>1, <3>1 DEF Leave, ForgetModules
    <3>4. HashesFaithful'
      BY <3>2, <3>3, KeepHashes DEF CacheInv
    <3> QED BY <3>2, <3>3, <3>4
           DEF CacheInv, SavedAnalyzed, CacheFaithful, EntryFaithful
  <2> QED BY <1>3, <2>3, <2>4, <2>6, <2>7, <2>8, <2>9, <2>10, <2>11, <2>12,
             <2>13, <2>5 DEF Session
<1>4. CASE UNCHANGED vars
  BY <1>1, <1>4 DEF vars
<1> QED BY <1>2, <1>3, <1>4 DEF Next

(* Transitive invalidation works: the interface registered for a module,   *)
(* from the cache or not, is the one inference would give it from what     *)
(* this session read, if the assumptions above hold.                       *)
THEOREM CacheIsSound ==
  ASSUME FixedTypedefs, InjectiveCacheFile PROVE Spec => []CacheSound
<1>1. TypeInv /\ CacheInv => CacheSound
  BY CacheInvImpliesSound
<1>2. TypeInv /\ CacheInv /\ [Next]_vars => CacheInv'
  BY StepCache
<1> QED BY <1>1, <1>2, InitTypes, StepTypes, InitCache, PTL DEF Spec

-----------------------------------------------------------------------------
(* The verdict.  Sound interfaces are not enough for it: a hit is not      *)
(* checked again, so what is in the cache must have been free of errors.   *)

Accepted(p) == pc[p] \in {"saving", "checked", "writing", "built", "running"}

(* Only interfaces of modules without errors are saved, hence taken.       *)
CacheClean ==
  \A c \in CacheFiles : cache[c] # None => ~HasErrors(cache[c].definitions.tree)

HitsClean ==
  \A p \in Procs : \A m \in hits[p] :
    m \in DOMAIN hash[p] /\ ~HasErrors(iface[p][m].tree)

(* What is still to be saved was inferred by this session.                 *)
SavedInferred ==
  \A p \in Procs : \A i \in 1 .. Len(compiled[p]) : compiled[p][i] \notin hits[p]

Judged ==
  \A p \in Procs :
    Accepted(p) => Analyzed(p) /\ ~ReportsErrors(p, Inferred(p))

VerdictInv == CacheClean /\ HitsClean /\ SavedInferred /\ Judged

(* Nothing is cached, taken or accepted at the start.                      *)
LEMMA InitVerdict == Init => VerdictInv
  BY DEF Init, VerdictInv, CacheClean, HitsClean, SavedInferred, Judged,
         Accepted

(* What a session is judged by.                                            *)
Grounds(p) == <<program[p], locator[p], hash[p], iface[p], hits[p]>>

(* The verdict on a session stands while its grounds do.                   *)
LEMMA KeepJudged ==
  ASSUME Judged,
         \A p \in Procs :
           Accepted(p)' => Accepted(p) /\ Grounds(p)' = Grounds(p)
  PROVE  Judged'
<1> SUFFICES ASSUME NEW p \in Procs, Accepted(p)'
             PROVE  Analyzed(p)' /\ ~ReportsErrors(p, Inferred(p))'
  BY DEF Judged
<1>1. /\ program'[p] = program[p] /\ locator'[p] = locator[p]
      /\ hash'[p] = hash[p] /\ iface'[p] = iface[p] /\ hits'[p] = hits[p]
  BY DEF Grounds
<1>2. Analyzed(p) /\ ~ReportsErrors(p, Inferred(p))
  BY DEF Judged
<1>3. Inferred(p)' = Inferred(p)
  BY <1>1 DEF Inferred, AllNodes
<1> QED BY <1>1, <1>2, <1>3 DEF Analyzed, ReportsErrors

(* A module saved by an accepted session has no error.                     *)
LEMMA SavedClean ==
  ASSUME TypeInv, CacheInv, VerdictInv, NEW p \in Procs, SaveModuleCache(p)
  PROVE  CacheClean'
<1> DEFINE m == Head(compiled[p])
<1>1. compiled[p] \in Seq(Modules) /\ compiled[p] # <<>> /\ pc[p] = "saving"
  BY DEF TypeInv, TypeOK, SaveModuleCache
<1>2. m \in Modules /\ m = compiled[p][1] /\ 1 \in 1 .. Len(compiled[p])
  BY <1>1
<1>3. m \in DOMAIN hash[p] /\ m \notin hits[p]
  BY <1>2 DEF CacheInv, SavedAnalyzed, VerdictInv, SavedInferred
<1>4. m \in Ordered(program[p])
  BY <1>3 DEF CacheInv, HashesFaithful
<1>5. m \in Inferred(p)
  BY <1>3, <1>4 DEF Inferred, AllNodes
<1>6. ~ReportsErrors(p, Inferred(p))
  BY <1>1 DEF VerdictInv, Judged, Accepted
<1>7. ~HasErrors(DefinitionsOf(program[p], m, locator[p], iface[p]).tree)
  BY <1>5, <1>6 DEF ReportsErrors, AnalysisErrors
<1>8. DefinitionsOf(program[p], m, locator[p], iface[p]) = iface[p][m]
  BY <1>2, NodeAssumption DEF DefinitionsOf
<1>9. ~HasErrors(CacheEntry(p, m).definitions.tree)
  BY <1>7, <1>8 DEF CacheEntry
<1>10. cache' = cache \/ cache' = [cache EXCEPT ![CacheFile[m]] = CacheEntry(p, m)]
  BY DEF SaveModuleCache
<1>11. DOMAIN cache = CacheFiles
  BY DEF TypeInv, TypeOK
<1> SUFFICES ASSUME NEW c \in CacheFiles, cache'[c] # None
             PROVE  ~HasErrors(cache'[c].definitions.tree)
  BY DEF CacheClean
<1>12. cache'[c] = cache[c] \/ cache'[c] = CacheEntry(p, m)
  BY <1>10, <1>11
<1> QED BY <1>9, <1>12 DEF VerdictInv, CacheClean

(* A hit takes a clean interface, and a module is either taken or saved.   *)
LEMMA AnalyzeClean ==
  ASSUME TypeInv, CacheInv, VerdictInv, NEW p \in Procs, NEW m \in Modules,
         AnalyzeModule(p, m)
  PROVE  CacheClean' /\ HitsClean' /\ SavedInferred'
<1> DEFINE c == CacheFile[m]
<1>1. /\ DOMAIN hash = Procs /\ DOMAIN iface = Procs /\ DOMAIN cache = CacheFiles
      /\ DOMAIN iface[p] = DOMAIN hash[p]
      /\ hits = [q \in Procs |-> hits[q]]
      /\ compiled \in [Procs -> Seq(Modules)]
  BY DEF TypeInv, TypeOK
<1>2. PICK h, i :
        /\ m \notin DOMAIN hash[p]
        /\ hash' = [hash EXCEPT ![p] = Put(@, m, h)]
        /\ iface' = [iface EXCEPT ![p] = Put(@, m, i)]
        /\ \/ /\ CacheHit(p, m) /\ i = cache[c].definitions
              /\ hits' = [hits EXCEPT ![p] = @ \cup {m}]
              /\ cache' = cache /\ compiled' = compiled
           \/ /\ cache' = [cache EXCEPT ![c] = None] /\ hits' = hits
              /\ compiled' = [compiled EXCEPT ![p] = Append(@, m)]
  BY DEF AnalyzeModule
<1>3. \A q \in Procs : \A k \in DOMAIN hash[q] :
        k \in DOMAIN hash'[q] /\ iface'[q][k] = iface[q][k]
  BY <1>1, <1>2 DEF Put, TypeInv, TypeOK
<1>4. m \in DOMAIN hash'[p] /\ iface'[p][m] = i
  BY <1>1, <1>2 DEF Put
<1>5. c \in CacheFiles
  BY NamesAssumption
<1>6. CacheClean'
  BY <1>1, <1>2 DEF VerdictInv, CacheClean
<1>7. CacheHit(p, m) => ~HasErrors(cache[c].definitions.tree)
  BY <1>5 DEF CacheHit, VerdictInv, CacheClean
<1>8. HitsClean'
  <2> SUFFICES ASSUME NEW q \in Procs, NEW k \in hits'[q]
               PROVE  k \in DOMAIN hash'[q] /\ ~HasErrors(iface'[q][k].tree)
    BY DEF HitsClean
  <2>1. CASE k \in hits[q]
    BY <1>3, <2>1 DEF VerdictInv, HitsClean
  <2>2. CASE k \notin hits[q]
    <3>1. q = p /\ k = m /\ CacheHit(p, m) /\ i = cache[c].definitions
      BY <1>1, <1>2, <2>2
    <3> QED BY <1>4, <1>7, <3>1
  <2> QED BY <2>1, <2>2
<1>9. SavedInferred'
  <2> SUFFICES ASSUME NEW q \in Procs, NEW j \in 1 .. Len(compiled'[q])
               PROVE  compiled'[q][j] \notin hits'[q]
    BY DEF SavedInferred
  <2>1. CASE cache' = cache /\ compiled' = compiled
             /\ hits' = [hits EXCEPT ![p] = @ \cup {m}]
    <3>1. compiled[q][j] \notin hits[q] /\ compiled[q][j] \in DOMAIN hash[q]
      BY <2>1 DEF VerdictInv, SavedInferred, CacheInv, SavedAnalyzed
    <3> QED BY <1>1, <1>2, <2>1, <3>1
  <2>2. CASE hits' = hits /\ compiled' = [compiled EXCEPT ![p] = Append(@, m)]
    <3>1. m \notin hits[p]
      BY <1>2 DEF VerdictInv, HitsClean
    <3>2. CASE q = p
      <4>1. compiled[p] \in Seq(Modules) /\ compiled'[p] = Append(compiled[p], m)
        BY <1>1, <2>2
      <4>2. \/ j \in 1 .. Len(compiled[p]) /\ compiled'[p][j] = compiled[p][j]
            \/ compiled'[p][j] = m
        BY <3>2, <4>1
      <4> QED BY <2>2, <3>1, <3>2, <4>2 DEF VerdictInv, SavedInferred
    <3>3. CASE q # p
      <4>1. compiled'[q] = compiled[q]
        BY <1>1, <2>2, <3>3
      <4> QED BY <2>2, <4>1 DEF VerdictInv, SavedInferred
    <3> QED BY <3>2, <3>3
  <2> QED BY <1>2, <2>1, <2>2
<1> QED BY <1>6, <1>8, <1>9

(* Every step keeps the cache clean and the verdicts on sessions true.     *)
LEMMA StepVerdict == TypeInv /\ CacheInv /\ VerdictInv /\ [Next]_vars => VerdictInv'
<1> SUFFICES ASSUME TypeInv, CacheInv, VerdictInv, [Next]_vars PROVE VerdictInv'
  OBVIOUS
<1> USE DEF user, disk, process, bounds
<1>1. ASSUME UNCHANGED <<cache, pc, locator, program, hash, iface, hits, compiled>>
      PROVE  VerdictInv'
  <2>1. Judged'
    BY <1>1, KeepJudged DEF VerdictInv, Accepted, Grounds
  <2> QED BY <1>1, <2>1 DEF VerdictInv, CacheClean, HitsClean, SavedInferred
<1>2. CASE (\E n \in Nodes : Edit(n)) \/ ChangeTypedef \/ UpgradeCompiler
           \/ EditManifest
  BY <1>1, <1>2 DEF Edit, ChangeTypedef, UpgradeCompiler, EditManifest
<1>3. ASSUME NEW p \in Procs, Session(p) PROVE VerdictInv'
  <2>1. /\ pc = [q \in Procs |-> pc[q]] /\ locator = [q \in Procs |-> locator[q]]
        /\ program = [q \in Procs |-> program[q]]
        /\ hits = [q \in Procs |-> hits[q]]
        /\ DOMAIN hash = Procs /\ DOMAIN iface = Procs
        /\ compiled \in [Procs -> Seq(Modules)]
    BY DEF TypeInv, TypeOK
  <2>2. ASSUME UNCHANGED <<cache, hash, iface, hits, compiled>>, Judged'
        PROVE  VerdictInv'
    BY <2>2 DEF VerdictInv, CacheClean, HitsClean, SavedInferred
  <2>3. ASSUME \A q \in Procs \ {p} : pc'[q] = pc[q] /\ Grounds(q)' = Grounds(q),
               Accepted(p)' => Accepted(p) /\ Grounds(p)' = Grounds(p)
        PROVE  Judged'
    BY <2>3, KeepJudged DEF VerdictInv, Accepted
  <2>4. CASE Start(p)
    <3>1. /\ UNCHANGED <<cache, program, hash, iface, hits, compiled>>
          /\ \A q \in Procs \ {p} : pc'[q] = pc[q] /\ locator'[q] = locator[q]
          /\ pc'[p] \in {"locking", "reading"}
      BY <2>1, <2>4 DEF Start
    <3>2. Judged'
      BY <2>3, <3>1 DEF Accepted, Grounds
    <3> QED BY <2>2, <3>1, <3>2
  <2>5. CASE AcquireTargetLock(p)
    <3>1. /\ UNCHANGED <<cache, program, locator, hash, iface, hits, compiled>>
          /\ \A q \in Procs \ {p} : pc'[q] = pc[q]
          /\ pc'[p] = "reading"
      BY <2>1, <2>5 DEF AcquireTargetLock
    <3>2. Judged'
      BY <2>3, <3>1 DEF Accepted, Grounds
    <3> QED BY <2>2, <3>1, <3>2
  <2>6. CASE StartBindgenFails(p)
    <3>1. /\ UNCHANGED <<cache, program, hash, iface, hits, compiled>>
          /\ \A q \in Procs \ {p} : pc'[q] = pc[q] /\ locator'[q] = locator[q]
          /\ pc'[p] = "reading"
      BY <2>1, <2>6 DEF StartBindgenFails
    <3>2. Judged'
      BY <2>3, <3>1 DEF Accepted, Grounds
    <3> QED BY <2>2, <3>1, <3>2
  <2>7. CASE ReadSources(p)
    <3>1. /\ UNCHANGED <<cache, locator, hash, iface, hits, compiled>>
          /\ \A q \in Procs \ {p} : pc'[q] = pc[q] /\ program'[q] = program[q]
          /\ pc'[p] \in {"analyzing", "rejected"}
      BY <2>1, <2>7 DEF ReadSources
    <3>2. Judged'
      BY <2>3, <3>1 DEF Accepted, Grounds
    <3> QED BY <2>2, <3>1, <3>2
  <2>8. ASSUME NEW m \in Modules, AnalyzeModule(p, m) PROVE VerdictInv'
    <3>1. CacheClean' /\ HitsClean' /\ SavedInferred'
      BY <2>8, AnalyzeClean
    <3>2. /\ UNCHANGED <<pc, locator, program>> /\ pc[p] = "analyzing"
          /\ \A q \in Procs \ {p} : /\ hash'[q] = hash[q] /\ iface'[q] = iface[q]
                                    /\ hits'[q] = hits[q]
      BY <2>1, <2>8 DEF AnalyzeModule
    <3>3. Judged'
      BY <2>3, <3>2 DEF Accepted, Grounds
    <3> QED BY <3>1, <3>3 DEF VerdictInv
  <2>9. CASE Diagnose(p)
    <3>1. /\ UNCHANGED <<cache, locator, program, hash, iface, hits, compiled>>
          /\ \A q \in Procs \ {p} : pc'[q] = pc[q]
          /\ Analyzed(p)
          /\ pc'[p] = IF ReportsErrors(p, Inferred(p)) THEN "rejected" ELSE "saving"
      BY <2>1, <2>9 DEF Diagnose
    <3>2. \A q \in Procs : /\ Analyzed(q)' <=> Analyzed(q)
                           /\ Inferred(q)' = Inferred(q)
                           /\ ReportsErrors(q, Inferred(q))'
                                <=> ReportsErrors(q, Inferred(q))
      BY <3>1 DEF Analyzed, Inferred, AllNodes, ReportsErrors
    <3>3. \A q \in Procs \ {p} : Accepted(q)' <=> Accepted(q)
      BY <3>1 DEF Accepted
    <3>4. Accepted(p)' => ~ReportsErrors(p, Inferred(p))
      BY <3>1 DEF Accepted
    <3>5. Judged'
      BY <3>1, <3>2, <3>3, <3>4 DEF VerdictInv, Judged
    <3> QED BY <2>2, <3>1, <3>5
  <2>10. CASE SaveModuleCache(p)
    <3>1. CacheClean'
      BY <2>10, SavedClean
    <3>2. /\ UNCHANGED <<pc, locator, program, hash, iface, hits>>
          /\ compiled[p] # <<>> /\ compiled' = [compiled EXCEPT ![p] = Tail(@)]
      BY <2>10 DEF SaveModuleCache
    <3>3. Judged'
      BY <2>3, <3>2 DEF Accepted, Grounds
    <3>4. SavedInferred'
      <4>1. \A i \in 1 .. Len(Tail(compiled[p])) :
              /\ i + 1 \in 1 .. Len(compiled[p])
              /\ Tail(compiled[p])[i] = compiled[p][i + 1]
        BY <2>1, <3>2
      <4> QED BY <2>1, <3>2, <4>1 DEF VerdictInv, SavedInferred
    <3>5. HitsClean'
      BY <3>2 DEF VerdictInv, HitsClean
    <3> QED BY <3>1, <3>3, <3>4, <3>5 DEF VerdictInv
  <2>11. CASE Emit(p)
    <3>1. /\ UNCHANGED <<cache, locator, program, hash, iface, hits, compiled>>
          /\ \A q \in Procs \ {p} : pc'[q] = pc[q]
          /\ pc[p] = "saving"
      BY <2>1, <2>11 DEF Emit
    <3>2. Judged'
      BY <2>3, <3>1 DEF Accepted, Grounds
    <3> QED BY <2>2, <3>1, <3>2
  <2>12. ASSUME NEW n \in Nodes, NEW f \in Files, WriteGoFile(p, n, f)
         PROVE  VerdictInv'
    BY <1>1, <2>12 DEF WriteGoFile
  <2>13. CASE Prune(p) \/ GoRun(p)
    <3>1. /\ UNCHANGED <<cache, locator, program, hash, iface, hits, compiled>>
          /\ \A q \in Procs \ {p} : pc'[q] = pc[q]
          /\ pc[p] \in {"writing", "built"}
      BY <2>1, <2>13 DEF Prune, GoRun
    <3>2. Judged'
      BY <2>3, <3>1 DEF Accepted, Grounds
    <3> QED BY <2>2, <3>1, <3>2
  <2>14. CASE Finish(p) \/ Crash(p)
    <3>1. Leave(p)
      BY <2>14 DEF Finish, Crash
    <3>2. \A q \in Procs \ {p} :
            /\ pc'[q] = pc[q] /\ locator'[q] = locator[q]
            /\ program'[q] = program[q] /\ hash'[q] = hash[q]
            /\ iface'[q] = iface[q] /\ hits'[q] = hits[q]
            /\ compiled'[q] = compiled[q]
      BY <2>1, <3>1 DEF Leave, ForgetModules
    <3>3. /\ pc'[p] = "idle" /\ hits'[p] = {} /\ compiled'[p] = <<>>
          /\ cache' = cache
      BY <2>1, <3>1 DEF Leave
    <3>4. Judged'
      BY <2>3, <3>2, <3>3 DEF Accepted, Grounds
    <3> QED BY <3>2, <3>3, <3>4
           DEF VerdictInv, CacheClean, HitsClean, SavedInferred
  <2> QED BY <1>3, <2>4, <2>5, <2>7, <2>8, <2>9, <2>10, <2>11, <2>12, <2>13,
             <2>14, <2>6 DEF Session
<1>4. CASE UNCHANGED vars
  BY <1>1, <1>4 DEF vars
<1> QED BY <1>2, <1>3, <1>4 DEF Next

(* With sound interfaces and a clean cache, inferring the modules that     *)
(* were taken from it would report nothing more.                           *)
LEMMA VerdictImpliesNoHiddenErrors ==
  ASSUME TypeInv, CacheSound, VerdictInv PROVE NoHiddenErrors
<1> SUFFICES ASSUME NEW p \in Procs, Accepted(p)
             PROVE ~AnalysisErrors(program[p], locator[p],
                      [m \in DOMAIN hash[p] |-> InferredIface(p, m)], AllNodes(p))
  BY DEF NoHiddenErrors, Accepted
<1> DEFINE known == [m \in DOMAIN hash[p] |-> InferredIface(p, m)]
<1>1. Ordered(program[p]) \subseteq DOMAIN hash[p]
      /\ ~AnalysisErrors(program[p], locator[p], iface[p], Inferred(p))
  BY DEF VerdictInv, Judged, Analyzed, ReportsErrors
<1>2. DOMAIN iface[p] = DOMAIN known /\ \A d \in DOMAIN known : known[d] = iface[p][d]
  BY DEF CacheSound, TypeInv, TypeOK
<1>3. ASSUME NEW n \in AllNodes(p)
      PROVE  ~HasErrors(DefinitionsOf(program[p], n, locator[p], known).tree)
  <2>1. CASE n \in Inferred(p)
    <3>1. DefinitionsOf(program[p], n, locator[p], known)
            = DefinitionsOf(program[p], n, locator[p], iface[p])
      <4>1. CASE n = Entry
        <5>1. Definitions(program[p], Entry, locator[p], known)
                = Definitions(program[p], Entry, locator[p], iface[p])
          BY <1>2 DEF Definitions
        <5> QED BY <4>1, <5>1 DEF DefinitionsOf
      <4>2. CASE n # Entry
        <5>1. n \in DOMAIN known
          BY <1>1, <4>2 DEF AllNodes
        <5> QED BY <1>2, <4>2, <5>1 DEF DefinitionsOf
      <4> QED BY <4>1, <4>2
    <3>2. ~HasErrors(DefinitionsOf(program[p], n, locator[p], iface[p]).tree)
      BY <1>1, <2>1 DEF AnalysisErrors
    <3> QED BY <3>1, <3>2
  <2>2. CASE n \in hits[p]
    <3>1. n \in DOMAIN known /\ ~HasErrors(iface[p][n].tree) /\ n \in Modules
      BY <2>2 DEF VerdictInv, HitsClean, TypeInv, TypeOK
    <3>2. DefinitionsOf(program[p], n, locator[p], known) = iface[p][n]
      BY <1>2, <3>1, NodeAssumption DEF DefinitionsOf
    <3> QED BY <3>1, <3>2
  <2> QED BY <2>1, <2>2 DEF Inferred
<1> QED BY <1>1, <1>3 DEF AnalysisErrors

(* An analysis that reports no error hides none: what it took from the     *)
(* cache would pass the checks again on what this session read.            *)
THEOREM NothingIsHidden ==
  ASSUME FixedTypedefs, InjectiveCacheFile PROVE Spec => []NoHiddenErrors
<1>1. TypeInv /\ CacheInv => CacheSound
  BY CacheInvImpliesSound
<1>2. TypeInv /\ CacheInv /\ [Next]_vars => CacheInv'
  BY StepCache
<1>3. TypeInv /\ CacheSound /\ VerdictInv => NoHiddenErrors
  BY VerdictImpliesNoHiddenErrors
<1> QED BY <1>1, <1>2, <1>3, InitTypes, StepTypes, InitCache, InitVerdict,
           StepVerdict, PTL DEF Spec

-----------------------------------------------------------------------------
(* The refinement of CleanCompile.                                         *)

(* What Clean takes from Program is what BuildCache takes from it.         *)
LEMMA SameProgram ==
  /\ Clean!EmptyMap = EmptyMap
  /\ Clean!Programs(Snapshots) = Programs(Snapshots)
  /\ \A map, m, x : Clean!Put(map, m, x) = Put(map, m, x)
  /\ \A g, n : Clean!Source(g, n) = Source(g, n)
  /\ \A g, n : Clean!Imports(g, n) = Imports(g, n)
  /\ \A g : Clean!Ordered(g) = Ordered(g)
  /\ \A g, n, go, known :
       Clean!Definitions(g, n, go, known) = Definitions(g, n, go, known)
  /\ \A g, go, known, K :
       Clean!AnalysisErrors(g, go, known, K) <=> AnalysisErrors(g, go, known, K)
<1> USE DEF Clean!Nodes, Nodes
<1>1. Clean!EmptyMap = EmptyMap
  BY DEF Clean!EmptyMap, EmptyMap
<1>2. Clean!Programs(Snapshots) = Programs(Snapshots)
  BY DEF Clean!Programs, Programs
<1>3. \A map, m, x : Clean!Put(map, m, x) = Put(map, m, x)
  BY DEF Clean!Put, Put
<1>4. \A g, n : Clean!Source(g, n) = Source(g, n)
  BY DEF Clean!Source, Source
<1>5. \A g, n : Clean!Imports(g, n) = Imports(g, n)
  BY <1>4 DEF Clean!Imports, Imports
<1>6. \A g : Clean!Reachable(g) = Reachable(g)
  BY <1>5 DEF Clean!Reachable, Reachable
<1>7. \A g : Clean!Ordered(g) = Ordered(g)
  BY <1>5, <1>6 DEF Clean!Ordered, Ordered
<1>8. \A g, n, go : Clean!Resolved(g, n, go) = Resolved(g, n, go)
  BY <1>5 DEF Clean!Resolved, Resolved
<1>9. \A g, n, go, known :
        Clean!Definitions(g, n, go, known) = Definitions(g, n, go, known)
  BY <1>4, <1>8 DEF Clean!Definitions, Definitions, Clean!Digest, Digest
<1>10. \A t : Clean!HasErrors(t) <=> HasErrors(t)
  BY DEF Clean!HasErrors, HasErrors
<1>11. \A g, n, go, known :
         Clean!DefinitionsOf(g, n, go, known) = DefinitionsOf(g, n, go, known)
  BY <1>9 DEF Clean!DefinitionsOf, DefinitionsOf
<1>12. \A g : Clean!Missing(g) = Missing(g)
  BY <1>4, <1>6 DEF Clean!Missing, Missing
<1>13. \A g, go, known, K :
         Clean!AnalysisErrors(g, go, known, K) <=> AnalysisErrors(g, go, known, K)
  BY <1>5, <1>6, <1>7, <1>10, <1>11, <1>12
     DEF Clean!AnalysisErrors, AnalysisErrors
<1> QED BY <1>1, <1>2, <1>3, <1>4, <1>5, <1>7, <1>9, <1>13

(* What an observer of an analysis without cache sees of a session: it has *)
(* begun once it has its program, and every later phase is a verdict.      *)
Phases ==
  \A p \in Procs :
    /\ Unread(p) <=> program[p] = None
    /\ Unread(p) => Status(p) = "none"
    /\ pc[p] = "analyzing" => Status(p) = "analyzing"
    /\ pc[p] = "rejected" => Status(p) = "rejected"
    /\ ~Unread(p) /\ pc[p] \notin {"analyzing", "rejected"}
         => Status(p) = "accepted"

(* The phases follow from what a session has read.                         *)
LEMMA Observed == TypeInv => Phases
<1> SUFFICES ASSUME TypeInv, NEW p \in Procs
      PROVE  /\ Unread(p) <=> program[p] = None
             /\ Unread(p) => Status(p) = "none"
             /\ pc[p] = "analyzing" => Status(p) = "analyzing"
             /\ pc[p] = "rejected" => Status(p) = "rejected"
             /\ ~Unread(p) /\ pc[p] \notin {"analyzing", "rejected"}
                  => Status(p) = "accepted"
  BY DEF Phases
<1>1. Unread(p) <=> program[p] = None
  BY ProgramAssumption DEF TypeInv, ProgramRead
<1> QED BY <1>1 DEF Status, Unread

ResolvedBy(p) == IF program[p] = None THEN None ELSE locator[p]

(* Nothing has begun at the start.                                         *)
LEMMA InitClean == Init => Clean!Init
<1> SUFFICES ASSUME Init PROVE Clean!Init
  OBVIOUS
<1>1. \A p \in Procs : program[p] = None /\ Status(p) = "none"
  BY DEF Init, Status
<1>2. [p \in Procs |-> Status(p)] = [p \in Procs |-> "none"]
  BY <1>1
<1>3. [p \in Procs |-> IF program[p] = None THEN None ELSE locator[p]]
        = [p \in Procs |-> None]
  BY <1>1
<1>4. program = [p \in Procs |-> None] /\ iface = [p \in Procs |-> EmptyMap]
  BY DEF Init
<1> QED BY <1>2, <1>3, <1>4, SameProgram DEF Clean!Init

(* A step that shows nothing to the observer.                              *)
LEMMA Hidden ==
  ASSUME UNCHANGED <<program, iface>>,
         \A q \in Procs : Status(q)' = Status(q) /\ ResolvedBy(q)' = ResolvedBy(q)
  PROVE  UNCHANGED Clean!vars
<1>1. ([q \in Procs |-> Status(q)])' = [q \in Procs |-> Status(q)]
  OBVIOUS
<1>2. ([q \in Procs |-> IF program[q] = None THEN None ELSE locator[q]])'
        = [q \in Procs |-> IF program[q] = None THEN None ELSE locator[q]]
  BY DEF ResolvedBy
<1> QED BY <1>1, <1>2 DEF Clean!vars

(* A step that shows the observer a change of one session.                 *)
LEMMA Shown ==
  ASSUME NEW p \in Procs,
         \A q \in Procs \ {p} :
           Status(q)' = Status(q) /\ ResolvedBy(q)' = ResolvedBy(q)
  PROVE  /\ ([q \in Procs |-> Status(q)])'
              = [[q \in Procs |-> Status(q)] EXCEPT ![p] = Status(p)']
         /\ ([q \in Procs |-> IF program[q] = None THEN None ELSE locator[q]])'
              = [[q \in Procs |-> IF program[q] = None THEN None ELSE locator[q]]
                   EXCEPT ![p] = ResolvedBy(p)']
  BY DEF ResolvedBy

(* Inferring the modules that were taken from the cache would change       *)
(* nothing about the verdict.                                              *)
LEMMA SameVerdict ==
  ASSUME TypeInv, VerdictInv, NEW p \in Procs
  PROVE  ReportsErrors(p, Inferred(p)) <=> ReportsErrors(p, AllNodes(p))
<1>1. ASSUME NEW n \in hits[p]
      PROVE  ~HasErrors(DefinitionsOf(program[p], n, locator[p], iface[p]).tree)
  <2>1. n \in Modules /\ ~HasErrors(iface[p][n].tree)
    BY DEF VerdictInv, HitsClean, TypeInv, TypeOK
  <2> QED BY <2>1, NodeAssumption DEF DefinitionsOf
<1>2. \A n \in AllNodes(p) : n \in Inferred(p) \/ n \in hits[p]
  BY DEF Inferred
<1>3. Inferred(p) \subseteq AllNodes(p)
  BY DEF Inferred
<1> QED BY <1>1, <1>2, <1>3 DEF ReportsErrors, AnalysisErrors

(* Each step of a session is a step of an analysis without cache, or shows *)
(* nothing to its observer.                                                *)
LEMMA StepClean ==
  ASSUME FixedTypedefs
  PROVE  TypeInv /\ CacheInv /\ VerdictInv /\ Phases /\ TypeInv' /\ Phases'
           /\ [Next]_vars => [Clean!Next]_(Clean!vars)
<1> SUFFICES ASSUME TypeInv, CacheInv, VerdictInv, Phases, TypeInv', Phases',
                    [Next]_vars
             PROVE  Clean!Next \/ UNCHANGED Clean!vars
  OBVIOUS
<1> USE DEF user, disk, process, bounds
<1>1. ASSUME UNCHANGED <<pc, locator, program, iface>> PROVE UNCHANGED Clean!vars
  BY <1>1, Hidden DEF Status, ResolvedBy
<1>2. CASE (\E n \in Nodes : Edit(n)) \/ ChangeTypedef \/ UpgradeCompiler
           \/ EditManifest
  BY <1>1, <1>2 DEF Edit, ChangeTypedef, UpgradeCompiler, EditManifest
<1>3. ASSUME NEW p \in Procs, Session(p)
      PROVE  Clean!Next \/ UNCHANGED Clean!vars
  <2>1. /\ pc = [q \in Procs |-> pc[q]] /\ locator = [q \in Procs |-> locator[q]]
        /\ program = [q \in Procs |-> program[q]]
        /\ DOMAIN iface = Procs /\ DOMAIN iface[p] = DOMAIN hash[p]
    BY DEF TypeInv, TypeOK
  <2>2. ASSUME \A q \in Procs \ {p} : pc'[q] = pc[q] /\ locator'[q] = locator[q]
                                      /\ program'[q] = program[q]
        PROVE  \A q \in Procs \ {p} :
                 Status(q)' = Status(q) /\ ResolvedBy(q)' = ResolvedBy(q)
    BY <2>2 DEF Status, ResolvedBy
  <2>3. ASSUME \A q \in Procs \ {p} : pc'[q] = pc[q] /\ locator'[q] = locator[q],
               UNCHANGED <<program, iface>>, Status(p)' = Status(p),
               locator'[p] = locator[p] \/ program[p] = None
        PROVE  UNCHANGED Clean!vars
    BY <2>2, <2>3, Hidden DEF ResolvedBy
  <2>4. CASE Start(p)
    <3>1. /\ UNCHANGED <<program, iface>> /\ Unread(p) /\ Unread(p)'
          /\ \A q \in Procs \ {p} : pc'[q] = pc[q] /\ locator'[q] = locator[q]
      BY <2>1, <2>4 DEF Start, Unread
    <3> QED BY <2>3, <3>1 DEF Phases
  <2>5. CASE AcquireTargetLock(p)
    <3>1. /\ UNCHANGED <<program, locator, iface>> /\ Unread(p) /\ Unread(p)'
          /\ \A q \in Procs \ {p} : pc'[q] = pc[q]
      BY <2>1, <2>5 DEF AcquireTargetLock, Unread
    <3> QED BY <2>3, <3>1 DEF Phases
  <2>6. CASE StartBindgenFails(p)
    <3>1. /\ UNCHANGED <<program, iface>> /\ Unread(p) /\ Unread(p)'
          /\ \A q \in Procs \ {p} : pc'[q] = pc[q] /\ locator'[q] = locator[q]
      BY <2>1, <2>6 DEF StartBindgenFails, Unread
    <3> QED BY <2>3, <3>1 DEF Phases
  <2>7. CASE ReadSources(p)
    <3>1. PICK g : /\ program' = [program EXCEPT ![p] = g]
                   /\ \/ pc' = [pc EXCEPT ![p] = "analyzing"]
                      \/ /\ pc' = [pc EXCEPT ![p] = "rejected"]
                         /\ Source(g, Entry).quality = "syntax"
      <4>1. CASE job[p] = "lsp"
        BY <2>7, <4>1 DEF ReadSources
      <4>2. CASE job[p] # "lsp"
        <5>1. Source([root |-> Entry, snap |-> src], Entry) = src[Entry]
          BY DEF Source
        <5> QED BY <2>7, <4>2, <5>1 DEF ReadSources
      <4> QED BY <4>1, <4>2
    <3>2. UNCHANGED <<locator, iface>> /\ Unread(p)
      BY <2>7 DEF ReadSources, Unread
    <3>3. program'[p] = g /\ ~Unread(p)' /\ g # None
      BY <2>1, <3>1 DEF Unread, Phases
    <3>4. \A q \in Procs \ {p} :
            Status(q)' = Status(q) /\ ResolvedBy(q)' = ResolvedBy(q)
      BY <2>1, <2>2, <3>1, <3>2
    <3>5. Clean!Begin(p)
      <4>1. program' \in [Procs -> Programs(Snapshots) \cup {None}]
        BY DEF TypeInv, TypeOK
      <4>2. locator[p] \in Typedefs \cup {None} /\ ResolvedBy(p)' = locator[p]
        BY <3>2, <3>3 DEF TypeInv, TypeOK, ResolvedBy
      <4>3. Status(p) = "none"
        BY <3>2 DEF Phases
      <4>4. \/ Status(p)' = "analyzing"
            \/ Source(program'[p], Entry).quality = "syntax"
               /\ Status(p)' = "rejected"
        BY <2>1, <3>1, <3>3 DEF Phases
      <4> QED BY <3>1, <3>2, <3>3, <3>4, <4>1, <4>2, <4>3, <4>4, Shown,
                 SameProgram DEF Clean!Begin
    <3> QED BY <3>5 DEF Clean!Next
  <2>8. ASSUME NEW m \in Modules, AnalyzeModule(p, m)
        PROVE  Clean!Next
    <3>1. /\ UNCHANGED <<pc, locator, program>> /\ pc[p] = "analyzing"
          /\ m \in Ordered(program[p]) /\ m \notin DOMAIN hash[p]
          /\ Imports(program[p], m) \cap Ordered(program[p]) \subseteq DOMAIN hash[p]
      BY <2>8 DEF AnalyzeModule
    <3>2. iface' = [iface EXCEPT ![p] =
                      Put(@, m, Definitions(program[p], m, locator[p], iface[p]))]
      BY <2>8, RegistersInferred DEF InferredIface
    <3>3. /\ ([q \in Procs |-> Status(q)])' = [q \in Procs |-> Status(q)]
          /\ ([q \in Procs |-> IF program[q] = None THEN None ELSE locator[q]])'
               = [q \in Procs |-> IF program[q] = None THEN None ELSE locator[q]]
      BY <3>1 DEF Status
    <3>4. Status(p) = "analyzing" /\ program[p] # None
      BY <3>1 DEF Phases, Unread
    <3>5. Clean!Infer(p, m)
      BY <2>1, <3>1, <3>2, <3>3, <3>4, SameProgram DEF Clean!Infer
    <3> QED BY <3>5 DEF Clean!Next
  <2>9. CASE Diagnose(p)
    <3>1. /\ UNCHANGED <<locator, program, iface>>
          /\ pc[p] = "analyzing" /\ Analyzed(p)
          /\ pc' = [pc EXCEPT ![p] =
               IF ReportsErrors(p, Inferred(p)) THEN "rejected" ELSE "saving"]
      BY <2>9 DEF Diagnose
    <3>2. Status(p) = "analyzing" /\ program[p] # None
      BY <3>1 DEF Phases, Unread
    <3>3. Status(p)' = IF AnalysisErrors(program[p], locator[p], iface[p],
                                         Ordered(program[p]) \cup {Entry})
                         THEN "rejected" ELSE "accepted"
      <4>1. Status(p)' = IF ReportsErrors(p, Inferred(p))
                           THEN "rejected" ELSE "accepted"
        BY <2>1, <3>1 DEF Phases, Unread
      <4> QED BY <4>1, SameVerdict DEF ReportsErrors, AllNodes
    <3>4. \A q \in Procs \ {p} :
            Status(q)' = Status(q) /\ ResolvedBy(q)' = ResolvedBy(q)
      BY <2>1, <2>2, <3>1
    <3>5. ([q \in Procs |-> IF program[q] = None THEN None ELSE locator[q]])'
            = [q \in Procs |-> IF program[q] = None THEN None ELSE locator[q]]
      BY <3>1
    <3>6. Clean!Conclude(p)
      BY <2>1, <3>1, <3>2, <3>3, <3>4, <3>5, Shown, SameProgram
         DEF Clean!Conclude, Analyzed
    <3> QED BY <3>6 DEF Clean!Next
  <2>10. CASE SaveModuleCache(p)
    BY <1>1, <2>10 DEF SaveModuleCache
  <2>11. ASSUME UNCHANGED <<program, locator, iface>>,
                \A q \in Procs \ {p} : pc'[q] = pc[q],
                pc[p] \in {"saving", "writing", "built"},
                pc'[p] \in {"checked", "failed", "writing", "built", "running"}
         PROVE  UNCHANGED Clean!vars
    <3>1. Status(p) = "accepted" /\ Status(p)' = "accepted"
      BY <2>11 DEF Phases, Unread
    <3> QED BY <2>3, <2>11, <3>1
  <2>12. CASE Emit(p)
    BY <2>1, <2>11, <2>12 DEF Emit
  <2>13. ASSUME NEW n \in Nodes, NEW f \in Files, WriteGoFile(p, n, f)
         PROVE  UNCHANGED Clean!vars
    BY <1>1, <2>13 DEF WriteGoFile
  <2>14. CASE Prune(p) \/ GoRun(p)
    BY <2>1, <2>11, <2>14 DEF Prune, GoRun
  <2>15. CASE Finish(p) \/ Crash(p)
    <3>1. Leave(p)
      BY <2>15 DEF Finish, Crash
    <3>2. /\ \A q \in Procs \ {p} : pc'[q] = pc[q] /\ locator'[q] = locator[q]
                                    /\ program'[q] = program[q]
          /\ program' = [program EXCEPT ![p] = None]
          /\ iface' = [iface EXCEPT ![p] = EmptyMap]
          /\ program'[p] = None /\ pc'[p] = "idle"
      BY <2>1, <3>1 DEF Leave, ForgetModules
    <3>3. Status(p)' = "none" /\ ResolvedBy(p)' = None
      BY <3>2 DEF Phases, Unread, ResolvedBy
    <3>4. \A q \in Procs \ {p} :
            Status(q)' = Status(q) /\ ResolvedBy(q)' = ResolvedBy(q)
      BY <2>2, <3>2
    <3>5. Clean!End(p)
      <4>1. ([q \in Procs |-> Status(q)])'
              = [[q \in Procs |-> Status(q)] EXCEPT ![p] = "none"]
        BY <3>3, <3>4, Shown
      <4>2. ([q \in Procs |-> IF program[q] = None THEN None ELSE locator[q]])'
              = [[q \in Procs |-> IF program[q] = None THEN None ELSE locator[q]]
                   EXCEPT ![p] = None]
        BY <3>3, <3>4, Shown
      <4>3. Clean!EmptyMap = EmptyMap
        BY SameProgram
      <4> QED BY <3>2, <4>1, <4>2, <4>3 DEF Clean!End
    <3> QED BY <3>5 DEF Clean!Next
  <2> QED BY <1>3, <2>4, <2>5, <2>7, <2>8, <2>9, <2>10, <2>12, <2>13, <2>14,
             <2>15, <2>6 DEF Session
<1>4. CASE UNCHANGED vars
  BY <1>1, <1>4 DEF vars
<1> QED BY <1>2, <1>3, <1>4 DEF Next

(* Nobody can tell from the interfaces and the verdicts of the sessions    *)
(* that there is a cache: every session is an analysis without cache of    *)
(* the program it read.                                                    *)
THEOREM CacheIsInvisible ==
  ASSUME FixedTypedefs, InjectiveCacheFile PROVE Spec => ImplementsCleanCompile
<1>1. TypeInv /\ CacheInv /\ [Next]_vars => CacheInv'
  BY StepCache
<1>2. TypeInv /\ CacheInv /\ VerdictInv /\ Phases /\ TypeInv' /\ Phases'
        /\ [Next]_vars => [Clean!Next]_(Clean!vars)
  BY StepClean
<1> QED BY <1>1, <1>2, InitTypes, StepTypes, InitCache, InitVerdict,
           StepVerdict, InitClean, Observed, PTL
       DEF Spec, ImplementsCleanCompile, Clean!Spec

-----------------------------------------------------------------------------
(* The Go files.  all_go_outputs_exist asks whether the files are there,   *)
(* not whether they are those of the entry, so it takes discipline of the  *)
(* sessions for a hit to be right: whoever saves an entry writes its Go    *)
(* files before anybody else looks, and nothing in another module decides  *)
(* what is emitted for this one.  build_cache_check_first shows what       *)
(* OnlyBuilds is for, build_cache_methods what PlainSources is for; a      *)
(* crash or an emission error between saving and writing is like a check.  *)

(* Builds and runs, with or without --debug, but not both: //line          *)
(* directives are no key of the cache.                                     *)
OnlyBuilds == Jobs \subseteq {"build", "run"} \/ Jobs \subseteq {"debug"}

NoCrashes == MaxCrashes = 0

(* No methods that another module can keep or export, no emission errors.  *)
PlainSources ==
  \A n \in Nodes : \A s \in SourcesOf[n] :
    s.methods = {} /\ s.quality # "emit_error"

(* The definitions a session has of a node, and the Go file it would write. *)
IfaceOf(p, n) == DefinitionsOf(program[p], n, locator[p], iface[p])

OwnCode(p, n, K) == GoCode(p, n, iface[p], K)

PlainCode(d, c) ==
  [definitions |-> d, compiler |-> c, debug |-> "debug" \in Jobs,
   exported |-> {}, kept |-> {}]

(* What a session is about to do, and what it has found out.               *)
Committed(p) ==
  /\ pc[p] # "idle" => job[p] \in Jobs
  /\ Unread(p) => hits[p] = {}
  /\ ~Unread(p) => /\ program[p].root = Entry
                   /\ DOMAIN hash[p] \subseteq Ordered(program[p])
                   /\ hits[p] \subseteq DOMAIN hash[p]
  /\ \A i \in 1 .. Len(compiled[p]) : compiled[p][i] \in DOMAIN hash[p] \ hits[p]
  /\ Accepted(p) => /\ Ordered(program[p]) \subseteq DOMAIN hash[p]
                    /\ Missing(program[p]) = {}

(* The entry of a module is the one this session would save. *)
Matches(p, m) ==
  /\ cache[CacheFile[m]].compiler = comp[p]
  /\ cache[CacheFile[m]].source_hash = SourceOf(p, m)
  /\ cache[CacheFile[m]].definitions = iface[p][m]

(* While a session proceeds, the entries of the modules it has analysed    *)
(* are its own: a hit's matches, a miss's is gone until it is saved.       *)
EntriesMatch(p) ==
  \A m \in DOMAIN hash[p] :
    /\ m \in hits[p] => cache[CacheFile[m]] # None
    /\ cache[CacheFile[m]] # None => Matches(p, m)

(* What a writing session still has to write, and what it has written.     *)
Written(p) ==
  pc[p] = "writing" =>
    /\ toWrite[p] \subseteq Inferred(p) \X Files
    /\ \A n \in Inferred(p) : \A f \in SourceOf(p, n).files :
         <<n, f>> \in toWrite[p] \/ out[n][f] = OwnCode(p, n, Inferred(p))

BuiltFresh(p) ==
  pc[p] = "built" =>
    \A n \in AllNodes(p), f \in Files :
      out[n][f] = IF f \in SourceOf(p, n).files
                    THEN OwnCode(p, n, AllNodes(p)) ELSE None

SessionFresh(p) ==
  Committed(p) /\ EntriesMatch(p) /\ Written(p) /\ BuiltFresh(p)

(* The Go files of a module are those of its cache entry...                *)
AsSaved(m) ==
  \A f \in Files :
    out[m][f] = IF f \in cache[CacheFile[m]].source_hash.files
                  THEN PlainCode(cache[CacheFile[m]].definitions,
                                 cache[CacheFile[m]].compiler)
                  ELSE None

(* ... unless a session that has inferred the module is about to write them. *)
Pending(p, m) == pc[p] \in {"saving", "writing"} /\ m \in Inferred(p)

EntriesVouch ==
  \A m \in Modules : cache[CacheFile[m]] # None =>
    AsSaved(m) \/ \E p \in Procs : Pending(p, m)

FreshInv ==
  /\ crashes = 0
  /\ \A p \in Procs : SessionFresh(p)
  /\ EntriesVouch

(* No sessions, no entries. *)
LEMMA InitFresh == Init => FreshInv
  BY NamesAssumption
     DEF Init, FreshInv, SessionFresh, Committed, EntriesMatch, Written,
         BuiltFresh, EntriesVouch, Unread, Accepted, EmptyMap

(* Under the assumptions the Go file of a node is a function of its        *)
(* definitions and of the compiler.                                        *)
LEMMA CodeIsPlain ==
  ASSUME OnlyBuilds, PlainSources, TypeInv, NEW p \in Procs, ~Unread(p),
         Committed(p), NEW n \in Nodes, NEW K
  PROVE  OwnCode(p, n, K) = PlainCode(IfaceOf(p, n), comp[p])
<1>1. program[p] \in Programs(Snapshots)
  BY DEF TypeInv, ProgramRead
<1>2. PICK k \in Nodes : Source(program[p], n) = program[p].snap[k]
  BY <1>1 DEF Source, Programs
<1>3. program[p].snap[k] \in SourcesOf[k]
  BY <1>1 DEF Programs, Snapshots
<1>4. Source(program[p], n).methods = {}
  BY <1>2, <1>3 DEF PlainSources
<1>5. UsedMethods(program[p], n, K) = {} /\ ExportedMethods(program[p], n) = {}
  BY <1>4 DEF UsedMethods, ExportedMethods
<1>6. (job[p] = "debug") = ("debug" \in Jobs)
  BY DEF Committed, Unread, OnlyBuilds
<1> QED BY <1>5, <1>6 DEF OwnCode, GoCode, IfaceOf, PlainCode

(* A step that leaves what a session has read and found leaves what is     *)
(* computed from it.                                                       *)
SameSession(p) ==
  /\ job'[p] = job[p] /\ comp'[p] = comp[p] /\ locator'[p] = locator[p]
  /\ program'[p] = program[p] /\ iface'[p] = iface[p] /\ hash'[p] = hash[p]
  /\ hits'[p] = hits[p]

LEMMA SameFindings ==
  ASSUME NEW p \in Procs, SameSession(p)
  PROVE  /\ AllNodes(p)' = AllNodes(p) /\ Inferred(p)' = Inferred(p)
         /\ \A n : SourceOf(p, n)' = SourceOf(p, n)
         /\ \A n : IfaceOf(p, n)' = IfaceOf(p, n)
         /\ \A n, K : OwnCode(p, n, K)' = OwnCode(p, n, K)
  BY DEF SameSession, AllNodes, Inferred, SourceOf, IfaceOf, OwnCode, GoCode

(* Nothing moved, for a session and for target/. *)
LEMMA SessionStays ==
  ASSUME NEW p \in Procs, SessionFresh(p), SameSession(p), pc'[p] = pc[p],
         compiled'[p] = compiled[p], toWrite'[p] = toWrite[p], UNCHANGED disk
  PROVE  SessionFresh(p)'
<1> USE DEF SessionFresh, disk
<1>1. Committed(p)'
  BY DEF SameSession, Committed, Unread, Accepted
<1>2. EntriesMatch(p)'
  BY SameFindings DEF SameSession, EntriesMatch, Matches
<1>3. Written(p)'
  BY SameFindings DEF Written
<1>4. BuiltFresh(p)'
  BY SameFindings DEF BuiltFresh
<1> QED BY <1>1, <1>2, <1>3, <1>4

(* A session that has read nothing does not care about target/. *)
LEMMA SessionUnread ==
  ASSUME TypeInv', NEW p \in Procs, Unread(p)', hits'[p] = {},
         pc'[p] # "idle" => job'[p] \in Jobs
  PROVE  SessionFresh(p)'
<1>1. hash'[p] = EmptyMap /\ compiled'[p] = <<>>
  BY DEF TypeInv, ProgramRead
<1>2. DOMAIN hash'[p] = {}
  BY <1>1 DEF EmptyMap
<1>3. pc'[p] \notin {"saving", "checked", "writing", "built", "running"}
  BY DEF Unread
<1> QED BY <1>1, <1>2, <1>3
       DEF SessionFresh, Committed, EntriesMatch, Written, BuiltFresh, Accepted

(* While the holder of the lock works, the others have read nothing.       *)
LEMMA OthersWait ==
  ASSUME TypeInv, TypeInv', TargetLockHeld, NEW p \in Procs, ~Unread(p),
         NEW q \in Procs, q # p, SessionFresh(q), SameSession(q),
         pc'[q] = pc[q]
  PROVE  SessionFresh(q)' /\ Unread(q) /\ Unread(q)'
<1>1. pc[q] \in {"idle", "locking"}
  BY DEF TargetLockHeld, Unread
<1>2. hits[q] = {} /\ (pc[q] # "idle" => job[q] \in Jobs)
  BY <1>1 DEF SessionFresh, Committed, Unread
<1> QED BY <1>1, <1>2, SessionUnread DEF SameSession, Unread

(* What vouches for an entry stays while nothing is written to target/ and *)
(* nobody gives up what he is about to write.                              *)
LEMMA VouchesStay ==
  ASSUME EntriesVouch, UNCHANGED disk,
         \A p \in Procs, m \in Modules : Pending(p, m) => Pending(p, m)'
  PROVE  EntriesVouch'
<1>1. \A m \in Modules : AsSaved(m) => AsSaved(m)'
  BY DEF AsSaved, disk
<1> QED BY <1>1 DEF EntriesVouch, disk

(* The loader of a command reads src/ as the entry.                        *)
LEMMA ReadFresh ==
  ASSUME OnlyBuilds, TypeInv, NEW p \in Procs, SessionFresh(p), ReadSources(p)
  PROVE  SessionFresh(p)'
<1>1. job[p] \in Jobs /\ job[p] # "lsp" /\ hits[p] = {} /\ hash[p] = EmptyMap
      /\ compiled[p] = <<>>
  BY DEF ReadSources, SessionFresh, Committed, Unread, OnlyBuilds, TypeInv,
         ProgramRead
<1>2. program' = [program EXCEPT ![p] = [root |-> Entry, snap |-> src]]
      /\ UNCHANGED <<disk, job, hash, iface, hits, compiled>>
  BY <1>1 DEF ReadSources
<1>3. pc'[p] \in {"rejected", "analyzing"}
  BY <1>1 DEF ReadSources, TypeInv, TypeOK
<1>4. DOMAIN hash'[p] = {} /\ hits'[p] = {} /\ compiled'[p] = <<>>
      /\ program'[p].root = Entry /\ job'[p] \in Jobs
  BY <1>1, <1>2 DEF EmptyMap, TypeInv, TypeOK
<1> QED BY <1>3, <1>4
       DEF SessionFresh, Committed, EntriesMatch, Written, BuiltFresh, Accepted,
           Unread

(* A turn of the loop: a hit's entry has the keys of this session, and its *)
(* definitions become those of the session; a miss's entry is deleted.     *)
LEMMA AnalyzeFresh ==
  ASSUME InjectiveCacheFile, TypeInv, NEW p \in Procs, SessionFresh(p),
         NEW m \in Modules, AnalyzeModule(p, m)
  PROVE  SessionFresh(p)'
<1>1. /\ pc[p] = "analyzing" /\ m \in Ordered(program[p]) /\ m \notin DOMAIN hash[p]
      /\ UNCHANGED <<out, pc, job, comp, locator, program, toWrite>>
  BY DEF AnalyzeModule
<1>2. PICK h, i : /\ hash' = [hash EXCEPT ![p] = Put(@, m, h)]
                  /\ iface' = [iface EXCEPT ![p] = Put(@, m, i)]
                  /\ CacheHit(p, m) => i = cache[CacheFile[m]].definitions
  BY DEF AnalyzeModule
<1>3. /\ DOMAIN hash = Procs /\ DOMAIN iface = Procs /\ DOMAIN cache = CacheFiles
      /\ hits \in [Procs -> SUBSET Modules]
      /\ DOMAIN hash[p] \subseteq Modules /\ DOMAIN iface[p] = DOMAIN hash[p]
      /\ compiled \in [Procs -> Seq(Modules)]
      /\ CacheFile \in [Modules -> CacheFiles]
  BY NamesAssumption DEF TypeInv, TypeOK
<1>4. /\ DOMAIN hash'[p] = DOMAIN hash[p] \cup {m}
      /\ \A k \in DOMAIN hash[p] : iface'[p][k] = iface[p][k]
      /\ iface'[p][m] = i
  BY <1>1, <1>2, <1>3 DEF Put
<1>5. /\ program[p].root = Entry /\ DOMAIN hash[p] \subseteq Ordered(program[p])
      /\ hits[p] \subseteq DOMAIN hash[p] /\ job[p] \in Jobs
  BY <1>1 DEF SessionFresh, Committed, Unread
<1>6. \A k \in DOMAIN hash[p] : CacheFile[k] # CacheFile[m]
  BY <1>1, <1>3 DEF InjectiveCacheFile
<1>7. CASE CacheHit(p, m)
  <2>1. /\ hits'[p] = hits[p] \cup {m} /\ UNCHANGED <<cache, compiled>>
    BY <1>3, <1>7 DEF AnalyzeModule
  <2>2. Committed(p)'
    <3>1. \A j \in 1 .. Len(compiled'[p]) :
            compiled'[p][j] \in DOMAIN hash'[p] \ hits'[p]
      BY <1>1, <1>4, <2>1 DEF SessionFresh, Committed
    <3> QED BY <1>1, <1>4, <1>5, <2>1, <3>1 DEF Committed, Unread, Accepted
  <2>3. /\ cache[CacheFile[m]] # None
        /\ cache[CacheFile[m]].compiler = comp[p]
        /\ cache[CacheFile[m]].source_hash = SourceOf(p, m)
    BY <1>7 DEF CacheHit, IsCacheValid
  <2>4. EntriesMatch(p)'
    <3> SUFFICES ASSUME NEW k \in DOMAIN hash'[p]
                 PROVE  /\ k \in hits'[p] => cache'[CacheFile[k]] # None
                        /\ cache'[CacheFile[k]] # None => Matches(p, k)'
      BY DEF EntriesMatch
    <3>1. SourceOf(p, k)' = SourceOf(p, k)
      BY <1>1 DEF SourceOf
    <3>2. CASE k = m
      BY <1>1, <1>2, <1>4, <1>7, <2>1, <2>3, <3>1, <3>2 DEF Matches
    <3>3. CASE k # m
      BY <1>1, <1>4, <2>1, <3>1, <3>3 DEF SessionFresh, EntriesMatch, Matches
    <3> QED BY <3>2, <3>3
  <2> QED BY <1>1, <2>2, <2>4 DEF SessionFresh, Written, BuiltFresh
<1>8. CASE ~CacheHit(p, m)
  <2>1. /\ hits' = hits /\ cache' = [cache EXCEPT ![CacheFile[m]] = None]
        /\ compiled' = [compiled EXCEPT ![p] = Append(@, m)]
    BY <1>8 DEF AnalyzeModule
  <2>2. Committed(p)'
    <3>1. compiled[p] \in Seq(Modules) /\ compiled'[p] = Append(compiled[p], m)
      BY <1>3, <2>1
    <3>2. \A j \in 1 .. Len(compiled[p]) :
            compiled[p][j] \in DOMAIN hash[p] \ hits[p]
      BY DEF SessionFresh, Committed
    <3>3. \A j \in 1 .. Len(compiled'[p]) :
            compiled'[p][j] \in DOMAIN hash'[p] \ hits'[p]
      BY <1>1, <1>4, <1>5, <2>1, <3>1, <3>2
    <3> QED BY <1>1, <1>4, <1>5, <2>1, <3>3 DEF Committed, Unread, Accepted
  <2>3. cache'[CacheFile[m]] = None
        /\ \A k \in DOMAIN hash[p] : cache'[CacheFile[k]] = cache[CacheFile[k]]
    BY <1>3, <1>6, <2>1
  <2>4. EntriesMatch(p)'
    <3> SUFFICES ASSUME NEW k \in DOMAIN hash'[p]
                 PROVE  /\ k \in hits'[p] => cache'[CacheFile[k]] # None
                        /\ cache'[CacheFile[k]] # None => Matches(p, k)'
      BY DEF EntriesMatch
    <3>1. SourceOf(p, k)' = SourceOf(p, k)
      BY <1>1 DEF SourceOf
    <3>2. CASE k = m
      BY <1>1, <1>5, <2>1, <2>3, <3>2
    <3>3. CASE k # m
      BY <1>1, <1>4, <2>1, <2>3, <3>1, <3>3
         DEF SessionFresh, EntriesMatch, Matches
    <3> QED BY <3>2, <3>3
  <2> QED BY <1>1, <2>2, <2>4 DEF SessionFresh, Written, BuiltFresh
<1> QED BY <1>7, <1>8

(* An entry that is saved has the keys and the definitions of its session. *)
LEMMA SaveFresh ==
  ASSUME InjectiveCacheFile, TypeInv, NEW p \in Procs, SessionFresh(p),
         SaveModuleCache(p)
  PROVE  /\ SessionFresh(p)'
         /\ \A m \in Modules :
              \/ cache'[CacheFile[m]] = cache[CacheFile[m]]
              \/ m \in Inferred(p)
<1> DEFINE m == Head(compiled[p])
<1>1. /\ pc[p] = "saving" /\ compiled[p] # <<>>
      /\ compiled' = [compiled EXCEPT ![p] = Tail(@)]
      /\ \/ cache' = cache
         \/ cache' = [cache EXCEPT ![CacheFile[m]] = CacheEntry(p, m)]
      /\ UNCHANGED <<out, pc, job, comp, locator, program, hash, iface, hits,
                     toWrite>>
  BY DEF SaveModuleCache
<1>2. /\ DOMAIN cache = CacheFiles /\ compiled \in [Procs -> Seq(Modules)]
      /\ DOMAIN hash[p] \subseteq Modules
      /\ CacheFile \in [Modules -> CacheFiles]
  BY NamesAssumption DEF TypeInv, TypeOK
<1>3. /\ compiled[p] \in Seq(Modules) /\ compiled'[p] = Tail(compiled[p])
      /\ m = compiled[p][1] /\ 1 \in 1 .. Len(compiled[p])
  BY <1>1, <1>2
<1>4. \A j \in 1 .. Len(compiled[p]) : compiled[p][j] \in DOMAIN hash[p] \ hits[p]
  BY DEF SessionFresh, Committed
<1>5. m \in DOMAIN hash[p] \ hits[p] /\ m \in Modules
  BY <1>2, <1>3, <1>4
<1> HIDE DEF m
<1>6. SameSession(p)
  BY <1>1 DEF SameSession
<1>7. Committed(p)'
  <2>1. \A j \in 1 .. Len(compiled'[p]) :
          compiled'[p][j] \in DOMAIN hash'[p] \ hits'[p]
    BY <1>1, <1>3, <1>4
  <2> QED BY <1>1, <2>1 DEF SessionFresh, Committed, Unread, Accepted
<1>8. \A k \in Modules : k # m => cache'[CacheFile[k]] = cache[CacheFile[k]]
  BY <1>1, <1>2, <1>5 DEF InjectiveCacheFile
<1>9. EntriesMatch(p)'
  <2> SUFFICES ASSUME NEW k \in DOMAIN hash[p]
               PROVE  /\ k \in hits[p] => cache'[CacheFile[k]] # None
                      /\ cache'[CacheFile[k]] # None => Matches(p, k)'
    BY <1>1 DEF EntriesMatch
  <2>1. SourceOf(p, k)' = SourceOf(p, k)
    BY <1>6, SameFindings
  <2>2. ASSUME cache'[CacheFile[k]] = cache[CacheFile[k]]
        PROVE  /\ k \in hits[p] => cache'[CacheFile[k]] # None
               /\ cache'[CacheFile[k]] # None => Matches(p, k)'
    BY <1>1, <2>1, <2>2 DEF SessionFresh, EntriesMatch, Matches
  <2>3. ASSUME k = m, cache' = [cache EXCEPT ![CacheFile[m]] = CacheEntry(p, m)]
        PROVE  Matches(p, k)'
    <3>1. cache'[CacheFile[k]] = CacheEntry(p, k)
      BY <1>2, <1>5, <2>3
    <3> QED BY <1>1, <2>1, <3>1 DEF CacheEntry, Matches
  <2> QED BY <1>1, <1>2, <1>5, <1>8, <2>2, <2>3
<1>10. m \in Inferred(p)
  BY <1>1, <1>5 DEF SessionFresh, Committed, Unread, Inferred, AllNodes
<1> QED BY <1>1, <1>7, <1>8, <1>9, <1>10 DEF SessionFresh, Written, BuiltFresh

(* A session that writes begins with everything it has inferred to write.  *)
LEMMA EmitFresh ==
  ASSUME OnlyBuilds, PlainSources, TypeInv, NEW p \in Procs, SessionFresh(p),
         Emit(p)
  PROVE  SessionFresh(p)' /\ pc'[p] = "writing"
<1>1. pc[p] = "saving" /\ job[p] \in Jobs /\ program[p] \in Programs(Snapshots)
  BY DEF Emit, SessionFresh, Committed, TypeInv, ProgramRead, Unread
<1>2. Emits(job[p])
  BY <1>1 DEF OnlyBuilds, Emits
<1>3. \A n \in Inferred(p) : n \in Nodes
  BY OrderedModules DEF Inferred, AllNodes, Nodes
<1>4. ASSUME NEW n \in Inferred(p) PROVE SourceOf(p, n).quality # "emit_error"
  <2>1. PICK k \in Nodes : SourceOf(p, n) = program[p].snap[k]
    BY <1>1, <1>3 DEF SourceOf, Source, Programs
  <2>2. program[p].snap[k] \in SourcesOf[k]
    BY <1>1 DEF Programs, Snapshots
  <2> QED BY <2>1, <2>2 DEF PlainSources
<1> DEFINE all == UNION {{n} \X SourceOf(p, n).files : n \in Inferred(p)}
<1>5. /\ pc' = [pc EXCEPT ![p] = "writing"]
      /\ toWrite' = [toWrite EXCEPT ![p] = all]
      /\ UNCHANGED <<disk, job, comp, locator, program, hash, iface, hits,
                     compiled>>
  BY <1>2, <1>4 DEF Emit
<1>6. pc'[p] = "writing" /\ toWrite'[p] = all
  BY <1>5 DEF TypeInv, TypeOK
<1>7. SameSession(p)
  BY <1>5 DEF SameSession
<1>8. Committed(p)' /\ EntriesMatch(p)'
  <2>1. Committed(p)'
    BY <1>1, <1>5, <1>6 DEF SessionFresh, Committed, Unread, Accepted
  <2>2. EntriesMatch(p)'
    BY <1>5, <1>7, SameFindings DEF SessionFresh, EntriesMatch, Matches, disk
  <2> QED BY <2>1, <2>2
<1>9. Written(p)'
  <2>1. all \subseteq Inferred(p) \X Files
    BY <1>1, <1>3, SourceType DEF SourceOf
  <2>2. \A n \in Inferred(p) : \A f \in SourceOf(p, n).files : <<n, f>> \in all
    OBVIOUS
  <2> QED BY <1>6, <1>7, <2>1, <2>2, SameFindings DEF Written
<1> QED BY <1>6, <1>8, <1>9 DEF SessionFresh, BuiltFresh

(* A session's step is not one of another session. *)
LEMMA OthersStay ==
  ASSUME TypeInv, NEW p \in Procs, Session(p), NEW q \in Procs \ {p}
  PROVE  /\ SameSession(q) /\ pc'[q] = pc[q]
         /\ compiled'[q] = compiled[q] /\ toWrite'[q] = toWrite[q]
<1> USE DEF SameSession
<1>1. /\ DOMAIN pc = Procs /\ DOMAIN job = Procs /\ DOMAIN comp = Procs
      /\ DOMAIN locator = Procs /\ DOMAIN program = Procs /\ DOMAIN hash = Procs
      /\ DOMAIN iface = Procs /\ DOMAIN hits = Procs /\ DOMAIN compiled = Procs
      /\ DOMAIN toWrite = Procs
  BY DEF TypeInv, TypeOK
<1>2. CASE Start(p)
  BY <1>1, <1>2 DEF Start
<1>3. CASE AcquireTargetLock(p)
  BY <1>1, <1>3 DEF AcquireTargetLock
<1>4. CASE StartBindgenFails(p)
  BY <1>1, <1>4 DEF StartBindgenFails
<1>5. CASE ReadSources(p)
  BY <1>1, <1>5 DEF ReadSources
<1>6. CASE \E m \in Modules : AnalyzeModule(p, m)
  BY <1>1, <1>6 DEF AnalyzeModule
<1>7. CASE Diagnose(p)
  BY <1>1, <1>7 DEF Diagnose
<1>8. CASE SaveModuleCache(p)
  BY <1>1, <1>8 DEF SaveModuleCache
<1>9. CASE Emit(p)
  BY <1>1, <1>9 DEF Emit
<1>10. CASE \E n \in Nodes, f \in Files : WriteGoFile(p, n, f)
  BY <1>1, <1>10 DEF WriteGoFile
<1>11. CASE Prune(p) \/ GoRun(p)
  BY <1>1, <1>11 DEF Prune, GoRun
<1>12. CASE Finish(p) \/ Crash(p)
  BY <1>1, <1>12 DEF Finish, Crash, Leave, ForgetModules
<1> QED BY <1>2, <1>3, <1>5, <1>6, <1>7, <1>8, <1>9, <1>10, <1>11, <1>12, <1>4
    DEF Session

(* A file written is one that was to be written, of a node inferred.       *)
LEMMA WriteFresh ==
  ASSUME TypeInv, NEW p \in Procs, SessionFresh(p), EntriesVouch,
         NEW n \in Nodes, NEW f \in Files, WriteGoFile(p, n, f)
  PROVE  SessionFresh(p)' /\ EntriesVouch'
<1>1. /\ pc[p] = "writing" /\ <<n, f>> \in toWrite[p]
      /\ out' = [out EXCEPT ![n][f] = OwnCode(p, n, Inferred(p))]
      /\ toWrite' = [toWrite EXCEPT ![p] = @ \ {<<n, f>>}]
      /\ UNCHANGED <<cache, pc, job, comp, locator, program, hash, iface, hits,
                     compiled>>
  BY DEF WriteGoFile, OwnCode
<1>2. SameSession(p)
  BY <1>1 DEF SameSession
<1>3. /\ toWrite'[p] = toWrite[p] \ {<<n, f>>}
      /\ out'[n][f] = OwnCode(p, n, Inferred(p))
      /\ \A k \in Nodes, g \in Files :
           <<k, g>> # <<n, f>> => out'[k][g] = out[k][g]
  BY <1>1 DEF TypeInv, TypeOK
<1>4. /\ toWrite[p] \subseteq Inferred(p) \X Files
      /\ \A k \in Inferred(p) : \A g \in SourceOf(p, k).files :
           <<k, g>> \in toWrite[p] \/ out[k][g] = OwnCode(p, k, Inferred(p))
  BY <1>1 DEF SessionFresh, Written
<1>5. n \in Inferred(p)
  BY <1>1, <1>4
<1>6. /\ program[p] \in Programs(Snapshots)
      /\ \A k \in Inferred(p) : k \in Nodes
  BY <1>1, OrderedModules
     DEF TypeInv, ProgramRead, Unread, Inferred, AllNodes, Nodes
<1>7. Written(p)'
  <2>1. toWrite'[p] \subseteq Inferred(p) \X Files
    BY <1>3, <1>4
  <2>2. ASSUME NEW k \in Inferred(p), NEW g \in SourceOf(p, k).files
        PROVE  <<k, g>> \in toWrite'[p] \/ out'[k][g] = OwnCode(p, k, Inferred(p))
    <3>1. k \in Nodes /\ g \in Files
      BY <1>6, SourceType DEF SourceOf
    <3> QED BY <1>3, <1>4, <3>1
  <2> QED BY <1>2, <2>1, <2>2, SameFindings DEF Written
<1>8. Committed(p)' /\ EntriesMatch(p)' /\ BuiltFresh(p)'
  <2>1. Committed(p)'
    BY <1>1 DEF SessionFresh, Committed, Unread, Accepted
  <2>2. EntriesMatch(p)'
    BY <1>1, <1>2, SameFindings DEF SessionFresh, EntriesMatch, Matches
  <2> QED BY <1>1, <2>1, <2>2 DEF BuiltFresh
<1>9. EntriesVouch'
  <2> SUFFICES ASSUME NEW m \in Modules, cache[CacheFile[m]] # None
               PROVE  AsSaved(m)' \/ \E q \in Procs : Pending(q, m)'
    BY <1>1 DEF EntriesVouch
  <2>1. CASE m \in Inferred(p)
    BY <1>1, <1>2, <2>1, SameFindings DEF Pending
  <2>2. CASE m \notin Inferred(p) /\ AsSaved(m)
    <3>1. \A g \in Files : out'[m][g] = out[m][g]
      BY <1>3, <1>5, <2>2 DEF Nodes
    <3> QED BY <1>1, <2>2, <3>1 DEF AsSaved
  <2>3. ASSUME NEW q \in Procs, Pending(q, m) PROVE Pending(q, m)'
    BY <1>1, <2>3 DEF Pending, Inferred, AllNodes
  <2> QED BY <2>1, <2>2, <2>3 DEF EntriesVouch
<1> QED BY <1>7, <1>8, <1>9 DEF SessionFresh

(* When the files that are left over are gone, the Go files of what was    *)
(* inferred are complete, and those of the hits are what their entries     *)
(* vouch for, since nobody else was about to write.                        *)
LEMMA PruneFresh ==
  ASSUME OnlyBuilds, PlainSources, TypeInv, TargetLockHeld, NEW p \in Procs,
         SessionFresh(p), EntriesVouch, Prune(p)
  PROVE  SessionFresh(p)' /\ EntriesVouch'
<1>1. /\ pc[p] = "writing" /\ toWrite[p] = {}
      /\ out' = [n \in Nodes |-> [f \in Files |->
                   IF <<n, f>> \in Orphans(p) THEN None ELSE out[n][f]]]
      /\ pc' = [pc EXCEPT ![p] = "built"]
      /\ UNCHANGED <<cache, job, comp, locator, program, hash, iface, hits,
                     compiled>>
  BY DEF Prune
<1>2. pc'[p] = "built" /\ \A q \in Procs \ {p} : pc'[q] = pc[q]
  BY <1>1 DEF TypeInv, TypeOK
<1>3. SameSession(p)
  BY <1>1 DEF SameSession
<1>4. /\ program[p] \in Programs(Snapshots) /\ program[p].root = Entry
      /\ ~Unread(p) /\ Missing(program[p]) = {} /\ Committed(p)
      /\ DOMAIN hash[p] \subseteq Ordered(program[p])
      /\ Ordered(program[p]) \subseteq DOMAIN hash[p]
      /\ hits[p] \subseteq Modules
  BY <1>1
     DEF SessionFresh, Committed, Unread, Accepted, TypeInv, TypeOK, ProgramRead
<1>5. \A n \in AllNodes(p) : n \in Nodes
  BY OrderedModules DEF AllNodes, Nodes
<1>6. \A n \in AllNodes(p) : SourceOf(p, n).files # {}
  <2> SUFFICES ASSUME NEW n \in AllNodes(p) PROVE SourceOf(p, n).files # {}
    OBVIOUS
  <2>1. CASE n = Entry
    <3>1. program[p].snap[Entry] \in SourcesOf[Entry]
      BY <1>4 DEF Programs, Snapshots, Nodes
    <3> QED BY <1>4, <2>1, <3>1, EntryAssumption DEF SourceOf, Source
  <2>2. CASE n \in Ordered(program[p])
    <3>1. n \in Reachable(program[p])
      BY <2>2 DEF Ordered
    <3> QED BY <1>4, <3>1 DEF Missing, SourceOf
  <2> QED BY <2>1, <2>2 DEF AllNodes
<1>7. \A n \in Nodes, f \in Files :
        out'[n][f] = IF <<n, f>> \in Orphans(p) THEN None ELSE out[n][f]
  BY <1>1
<1>8. ASSUME NEW n \in Inferred(p), NEW f \in Files
      PROVE  out'[n][f] = IF f \in SourceOf(p, n).files
                            THEN PlainCode(IfaceOf(p, n), comp[p]) ELSE None
  <2>1. n \in AllNodes(p) /\ n \in Nodes
    BY <1>5 DEF Inferred
  <2>2. <<n, f>> \in Orphans(p) <=> f \notin SourceOf(p, n).files
    BY <1>6, <2>1 DEF Orphans
  <2>3. f \in SourceOf(p, n).files => out[n][f] = OwnCode(p, n, Inferred(p))
    BY <1>1 DEF SessionFresh, Written
  <2>4. OwnCode(p, n, Inferred(p)) = PlainCode(IfaceOf(p, n), comp[p])
    BY <1>4, <2>1, CodeIsPlain
  <2> QED BY <1>7, <2>1, <2>2, <2>3, <2>4
<1>9. ASSUME NEW n \in Nodes, n \notin Inferred(p), NEW f \in Files
      PROVE  out'[n][f] = out[n][f]
  <2>1. <<n, f>> \notin Orphans(p)
    BY <1>9 DEF Orphans
  <2> QED BY <1>7, <2>1
<1>10. ASSUME NEW m \in Modules, cache[CacheFile[m]] # None, m \notin Inferred(p)
       PROVE  AsSaved(m)
  <2>1. \A q \in Procs : ~Pending(q, m)
    BY <1>1, <1>10 DEF Pending, TargetLockHeld
  <2> QED BY <1>10, <2>1 DEF EntriesVouch
<1>11. ASSUME NEW m \in DOMAIN hash[p], cache[CacheFile[m]] # None
       PROVE  /\ cache[CacheFile[m]].compiler = comp[p]
              /\ cache[CacheFile[m]].source_hash = SourceOf(p, m)
              /\ cache[CacheFile[m]].definitions = IfaceOf(p, m)
  <2>1. m # Entry
    BY NodeAssumption DEF TypeInv, TypeOK
  <2> QED BY <1>11, <2>1
          DEF SessionFresh, EntriesMatch, Matches, IfaceOf, DefinitionsOf
<1>12. EntriesVouch'
  <2> SUFFICES ASSUME NEW m \in Modules, cache[CacheFile[m]] # None
               PROVE  AsSaved(m)'
    BY <1>1 DEF EntriesVouch
  <2>1. CASE m \in Inferred(p)
    <3>1. m \in DOMAIN hash[p]
      BY <1>4, <2>1, NodeAssumption DEF Inferred, AllNodes, Nodes
    <3>2. /\ cache[CacheFile[m]].compiler = comp[p]
          /\ cache[CacheFile[m]].source_hash = SourceOf(p, m)
          /\ cache[CacheFile[m]].definitions = IfaceOf(p, m)
      BY <1>11, <3>1
    <3>3. \A f \in Files :
            out'[m][f] = IF f \in SourceOf(p, m).files
                           THEN PlainCode(IfaceOf(p, m), comp[p]) ELSE None
      BY <1>8, <2>1
    <3>4. cache'[CacheFile[m]] = cache[CacheFile[m]]
      BY <1>1
    <3> QED BY <3>2, <3>3, <3>4 DEF AsSaved, PlainCode
  <2>2. CASE m \notin Inferred(p)
    BY <1>1, <1>9, <1>10, <2>2 DEF AsSaved, Nodes
  <2> QED BY <2>1, <2>2
<1>13. BuiltFresh(p)'
  <2> SUFFICES ASSUME NEW n \in AllNodes(p), NEW f \in Files
               PROVE  out'[n][f] = IF f \in SourceOf(p, n).files
                                     THEN OwnCode(p, n, AllNodes(p)) ELSE None
    BY <1>3, SameFindings DEF BuiltFresh
  <2>1. OwnCode(p, n, AllNodes(p)) = PlainCode(IfaceOf(p, n), comp[p])
    BY <1>4, <1>5, CodeIsPlain
  <2>2. CASE n \in Inferred(p)
    BY <1>8, <2>1, <2>2
  <2>3. CASE n \notin Inferred(p)
    <3>1. n \in hits[p] /\ n \in DOMAIN hash[p] /\ n \in Modules
      BY <1>4, <2>3 DEF Inferred, Committed
    <3>2. cache[CacheFile[n]] # None
      BY <3>1 DEF SessionFresh, EntriesMatch
    <3>3. out'[n][f] = out[n][f]
      BY <1>9, <2>3, <3>1 DEF Nodes
    <3> QED BY <1>10, <1>11, <2>1, <2>3, <3>1, <3>2, <3>3 DEF AsSaved
  <2> QED BY <2>2, <2>3
<1>14. Committed(p)' /\ EntriesMatch(p)'
  <2>1. Committed(p)'
    BY <1>1, <1>2 DEF SessionFresh, Committed, Unread, Accepted
  <2>2. EntriesMatch(p)'
    BY <1>1, <1>3, SameFindings DEF SessionFresh, EntriesMatch, Matches
  <2> QED BY <2>1, <2>2
<1> QED BY <1>2, <1>12, <1>13, <1>14 DEF SessionFresh, Written

(* Every step of a session keeps its own part and what vouches for entries. *)
LEMMA SessionStep ==
  ASSUME OnlyBuilds, NoCrashes, PlainSources, InjectiveCacheFile,
         TypeInv, TypeInv', TargetLockHeld, FreshInv, NEW p \in Procs, Session(p)
  PROVE  SessionFresh(p)' /\ EntriesVouch' /\ crashes' = 0
<1> USE DEF FreshInv
<1>1. DOMAIN pc = Procs /\ DOMAIN job = Procs
  BY DEF TypeInv, TypeOK
<1>2. CASE Start(p)
  <2>1. PICK j \in Jobs : /\ job' = [job EXCEPT ![p] = j]
                          /\ pc'[p] \in {"locking", "reading"}
    BY <1>1, <1>2 DEF Start
  <2>2. hits'[p] = {} /\ job'[p] \in Jobs
    BY <1>1, <1>2, <2>1 DEF Start, SessionFresh, Committed, Unread
  <2>3. \A q \in Procs, m \in Modules : Pending(q, m) => Pending(q, m)'
    BY <1>1, <1>2 DEF Start, Pending, Inferred, AllNodes
  <2>4. SessionFresh(p)'
    BY <2>1, <2>2, SessionUnread DEF Unread
  <2> QED BY <1>2, <2>3, <2>4, VouchesStay DEF Start, bounds
<1>3. CASE AcquireTargetLock(p)
  <2>1. pc'[p] = "reading" /\ hits'[p] = {} /\ job'[p] \in Jobs
    BY <1>1, <1>3 DEF AcquireTargetLock, SessionFresh, Committed, Unread
  <2>2. \A q \in Procs, m \in Modules : Pending(q, m) => Pending(q, m)'
    BY <1>1, <1>3 DEF AcquireTargetLock, Pending, Inferred, AllNodes
  <2>3. SessionFresh(p)'
    BY <2>1, SessionUnread DEF Unread
  <2> QED BY <1>3, <2>2, <2>3, VouchesStay DEF AcquireTargetLock, bounds
<1>4. CASE ReadSources(p)
  <2>1. \A q \in Procs, m \in Modules : Pending(q, m) => Pending(q, m)'
    <3>1. pc[p] = "reading" /\ hits' = hits
          /\ \A q \in Procs \ {p} : pc'[q] = pc[q] /\ program'[q] = program[q]
      BY <1>1, <1>4 DEF ReadSources, TypeInv, TypeOK
    <3> QED BY <3>1 DEF Pending, Inferred, AllNodes
  <2> QED BY <1>4, <2>1, ReadFresh, VouchesStay DEF ReadSources, bounds
<1>5. ASSUME NEW m \in Modules, AnalyzeModule(p, m)
      PROVE  SessionFresh(p)' /\ EntriesVouch' /\ crashes' = 0
  <2>1. /\ pc[p] = "analyzing" /\ UNCHANGED <<out, pc, program, crashes>>
        /\ \A k \in Modules : \/ cache'[CacheFile[k]] = cache[CacheFile[k]]
                              \/ cache'[CacheFile[k]] = None
    <3>1. /\ DOMAIN cache = CacheFiles /\ CacheFile \in [Modules -> CacheFiles]
      BY NamesAssumption DEF TypeInv, TypeOK
    <3> QED BY <1>5, <3>1 DEF AnalyzeModule, bounds
  <2>2. \A q \in Procs : pc[q] \notin {"saving", "writing"}
    BY <2>1 DEF TargetLockHeld
  <2>3. EntriesVouch'
    <3> SUFFICES ASSUME NEW k \in Modules, cache'[CacheFile[k]] # None
                 PROVE  AsSaved(k)'
      BY DEF EntriesVouch
    <3>1. cache'[CacheFile[k]] = cache[CacheFile[k]]
      BY <2>1
    <3>2. AsSaved(k)
      BY <2>2, <3>1 DEF EntriesVouch, Pending
    <3> QED BY <2>1, <3>1, <3>2 DEF AsSaved
  <2> QED BY <1>5, <2>1, <2>3, AnalyzeFresh
<1>6. CASE Diagnose(p)
  <2>1. /\ pc[p] = "analyzing" /\ Ordered(program[p]) \subseteq DOMAIN hash[p]
        /\ pc'[p] \in {"rejected", "saving"}
        /\ pc'[p] = "saving" => Missing(program[p]) = {}
        /\ UNCHANGED <<disk, job, comp, locator, program, hash, iface, hits,
                       compiled, crashes>>
    BY <1>1, <1>6 DEF Diagnose, Analyzed, ReportsErrors, AnalysisErrors, bounds
  <2>2. SameSession(p)
    BY <2>1 DEF SameSession
  <2>3. Committed(p)'
    BY <2>1 DEF SessionFresh, Committed, Unread, Accepted
  <2>4. EntriesMatch(p)'
    BY <2>1, <2>2, SameFindings DEF SessionFresh, EntriesMatch, Matches, disk
  <2>5. \A q \in Procs, m \in Modules : Pending(q, m) => Pending(q, m)'
    BY <1>1, <1>6 DEF Diagnose, Pending, Inferred, AllNodes
  <2> QED BY <2>1, <2>3, <2>4, <2>5, VouchesStay
          DEF SessionFresh, Written, BuiltFresh
<1>7. CASE SaveModuleCache(p)
  <2>1. /\ pc[p] = "saving" /\ UNCHANGED <<out, pc, program, hits, crashes>>
    BY <1>7 DEF SaveModuleCache, bounds
  <2>2. \A q \in Procs, k \in Modules : Pending(q, k) => Pending(q, k)'
    BY <2>1 DEF Pending, Inferred, AllNodes
  <2>3. EntriesVouch'
    <3> SUFFICES ASSUME NEW k \in Modules, cache'[CacheFile[k]] # None
                 PROVE  AsSaved(k)' \/ \E q \in Procs : Pending(q, k)'
      BY DEF EntriesVouch
    <3>1. CASE k \in Inferred(p)
      BY <2>1, <2>2, <3>1 DEF Pending
    <3>2. CASE cache'[CacheFile[k]] = cache[CacheFile[k]]
      <4>1. AsSaved(k) => AsSaved(k)'
        BY <2>1, <3>2 DEF AsSaved
      <4> QED BY <2>2, <3>2, <4>1 DEF EntriesVouch
    <3> QED BY <1>7, <3>1, <3>2, SaveFresh
  <2> QED BY <1>7, <2>1, <2>3, SaveFresh
<1>8. CASE Emit(p)
  <2>1. pc'[p] = "writing"
    BY <1>8, EmitFresh
  <2>2. /\ \A q \in Procs \ {p} : pc'[q] = pc[q]
        /\ UNCHANGED <<disk, program, hits, crashes>>
    BY <1>1, <1>8 DEF Emit, bounds
  <2>3. \A q \in Procs, m \in Modules : Pending(q, m) => Pending(q, m)'
    BY <2>1, <2>2 DEF Pending, Inferred, AllNodes
  <2> QED BY <1>8, <2>2, <2>3, EmitFresh, VouchesStay
<1>9. ASSUME NEW n \in Nodes, NEW f \in Files, WriteGoFile(p, n, f)
      PROVE  SessionFresh(p)' /\ EntriesVouch' /\ crashes' = 0
  BY <1>9, WriteFresh DEF WriteGoFile, bounds
<1>10. CASE Prune(p)
  BY <1>10, PruneFresh DEF Prune, bounds
<1>11. CASE GoRun(p)
  <2>1. /\ pc[p] = "built" /\ pc'[p] = "running"
        /\ UNCHANGED <<disk, job, comp, locator, program, hash, iface, hits,
                       compiled, crashes>>
    BY <1>1, <1>11 DEF GoRun, bounds
  <2>2. SameSession(p)
    BY <2>1 DEF SameSession
  <2>3. Committed(p)'
    BY <2>1 DEF SessionFresh, Committed, Unread, Accepted
  <2>4. EntriesMatch(p)'
    BY <2>1, <2>2, SameFindings DEF SessionFresh, EntriesMatch, Matches, disk
  <2>5. \A q \in Procs, m \in Modules : Pending(q, m) => Pending(q, m)'
    BY <1>1, <1>11 DEF GoRun, Pending, Inferred, AllNodes
  <2> QED BY <2>1, <2>3, <2>4, <2>5, VouchesStay
          DEF SessionFresh, Written, BuiltFresh
<1>12. CASE Finish(p)
  <2>1. /\ pc[p] \notin {"saving", "writing"} /\ pc'[p] = "idle" /\ hits'[p] = {}
        /\ UNCHANGED <<disk, crashes>>
        /\ \A q \in Procs \ {p} : /\ pc'[q] = pc[q] /\ program'[q] = program[q]
                                  /\ hits'[q] = hits[q]
    BY <1>1, <1>12 DEF Finish, Leave, TypeInv, TypeOK
  <2>2. \A q \in Procs, m \in Modules : Pending(q, m) => Pending(q, m)'
    BY <2>1 DEF Pending, Inferred, AllNodes
  <2>3. SessionFresh(p)'
    BY <2>1, SessionUnread DEF Unread
  <2> QED BY <2>1, <2>2, <2>3, VouchesStay
<1>13. ~Crash(p)
  BY DEF Crash, NoCrashes
<1>14. ~StartBindgenFails(p)
  BY JobsAssumption DEF StartBindgenFails, OnlyBuilds, TypeInv, TypeOK
<1> QED BY <1>2, <1>3, <1>4, <1>5, <1>6, <1>7, <1>8, <1>9, <1>10, <1>11, <1>12,
           <1>13, <1>14 DEF Session

(* The others see nothing of the step of a session: those that have read   *)
(* something do so under the lock, and the step is then not the other's.   *)
LEMMA StepFresh ==
  ASSUME OnlyBuilds, NoCrashes, PlainSources, InjectiveCacheFile
  PROVE  TypeInv /\ TypeInv' /\ TargetLockHeld /\ FreshInv /\ [Next]_vars
           => FreshInv'
<1> SUFFICES ASSUME TypeInv, TypeInv', TargetLockHeld, FreshInv, [Next]_vars
             PROVE  FreshInv'
  OBVIOUS
<1>1. ASSUME UNCHANGED <<disk, process, crashes>> PROVE FreshInv'
  <2>1. \A p \in Procs : SessionFresh(p)'
    BY <1>1, SessionStays DEF FreshInv, SameSession, process
  <2>2. \A p \in Procs, m \in Modules : Pending(p, m) => Pending(p, m)'
    BY <1>1 DEF Pending, Inferred, AllNodes, process
  <2> QED BY <1>1, <2>1, <2>2, VouchesStay DEF FreshInv
<1>2. ASSUME NEW p \in Procs, Session(p) PROVE FreshInv'
  <2>1. SessionFresh(p)' /\ EntriesVouch' /\ crashes' = 0
    BY <1>2, SessionStep
  <2>2. ASSUME NEW q \in Procs \ {p} PROVE SessionFresh(q)'
    <3>1. /\ SameSession(q) /\ pc'[q] = pc[q]
          /\ compiled'[q] = compiled[q] /\ toWrite'[q] = toWrite[q]
      BY <1>2, OthersStay
    <3>2. CASE UNCHANGED disk
      BY <3>1, <3>2, SessionStays DEF FreshInv
    <3>3. CASE ~Unread(p)
      BY <3>1, <3>3, OthersWait DEF FreshInv
    <3>4. ~Unread(p) \/ UNCHANGED disk
      BY <1>2 DEF Session, Unread, Start, AcquireTargetLock, StartBindgenFails,
         ReadSources, AnalyzeModule, Diagnose, SaveModuleCache, Emit, WriteGoFile, Prune,
         GoRun, Finish, Crash, Leave, disk
    <3> QED BY <3>2, <3>3, <3>4
  <2> QED BY <2>1, <2>2 DEF FreshInv
<1>3. CASE \/ \E n \in Nodes : Edit(n)
           \/ ChangeTypedef \/ UpgradeCompiler \/ EditManifest
  BY <1>1, <1>3 DEF Edit, ChangeTypedef, UpgradeCompiler, EditManifest
<1>4. CASE UNCHANGED vars
  BY <1>1, <1>4 DEF vars, bounds
<1> QED BY <1>2, <1>3, <1>4 DEF Next

(* The definitions of a compilation from scratch are the only ones that    *)
(* give each module what inference gives it from them.  A session has met  *)
(* them all, module by module, dependencies first: that is why it agrees   *)
(* with them, without an induction over the imports.                       *)
IsClean(g, go, D) ==
  D = [m \in Ordered(g) |->
        [module |-> m,
         tree |-> Digest(Source(g, m),
           [d \in Resolved(g, m, go) |->
              IF d = GoDep THEN go
              ELSE IF d \in Ordered(g) THEN D[d].tree ELSE None])]]

Agrees ==
  \A p \in Procs : \A D :
    IsClean(program[p], locator[p], D) =>
      \A m \in DOMAIN hash[p] : iface[p][m] = D[m]

(* If there are such definitions, CleanDefinitions is one.                 *)
LEMMA CleanDefinitionsAreClean ==
  ASSUME NEW g, NEW go, NEW D, IsClean(g, go, D)
  PROVE  IsClean(g, go, CleanDefinitions(g, go))
<1>1. \E E : IsClean(g, go, E)
  OBVIOUS
<1>2. CleanDefinitions(g, go) = CHOOSE E : IsClean(g, go, E)
  BY Zenon DEF CleanDefinitions, IsClean
<1> QED BY <1>1, <1>2

LEMMA InitAgrees == Init => Agrees
  BY DEF Init, Agrees, EmptyMap

(* Only the turn of the loop adds to what a session knows.                 *)
LEMMA KnowsOrForgets ==
  ASSUME TypeInv, [Next]_vars,
         ~\E p \in Procs : \E m \in Modules : AnalyzeModule(p, m)
  PROVE  \A p \in Procs :
           \/ hash'[p] = EmptyMap
           \/ /\ hash'[p] = hash[p] /\ iface'[p] = iface[p]
              /\ program'[p] = program[p] /\ locator'[p] = locator[p]
<1> USE DEF user, disk, process, bounds
<1>1. /\ DOMAIN locator = Procs /\ DOMAIN program = Procs
      /\ DOMAIN hash = Procs /\ DOMAIN iface = Procs
  BY DEF TypeInv, TypeOK
<1>2. ASSUME NEW p \in Procs, Session(p), NEW q \in Procs
      PROVE  \/ hash'[q] = EmptyMap
             \/ /\ hash'[q] = hash[q] /\ iface'[q] = iface[q]
                /\ program'[q] = program[q] /\ locator'[q] = locator[q]
  <2>1. CASE q # p
    BY <1>2, <2>1, OthersStay DEF SameSession
  <2>2. CASE Unread(p) /\ hash' = hash
    BY <2>1, <2>2 DEF TypeInv, ProgramRead
  <2>3. CASE UNCHANGED <<hash, iface, program, locator>>
    BY <2>3
  <2>4. CASE Finish(p) \/ Crash(p)
    BY <1>1, <2>1, <2>4 DEF Finish, Crash, Leave, ForgetModules
  <2>5. CASE Start(p) \/ AcquireTargetLock(p) \/ StartBindgenFails(p) \/ ReadSources(p)
    <3>1. Unread(p) /\ hash' = hash
      BY <2>5 DEF Start, AcquireTargetLock, StartBindgenFails, ReadSources, Unread
    <3> QED BY <2>2, <3>1
  <2>6. CASE \/ Diagnose(p) \/ SaveModuleCache(p) \/ Emit(p) \/ Prune(p) \/ GoRun(p)
             \/ \E n \in Nodes, f \in Files : WriteGoFile(p, n, f)
    BY <2>3, <2>6 DEF Diagnose, SaveModuleCache, Emit, Prune, GoRun, WriteGoFile
  <2> QED BY <1>2, <2>4, <2>5, <2>6 DEF Session
<1>3. CASE \/ \E n \in Nodes : Edit(n)
           \/ ChangeTypedef \/ UpgradeCompiler \/ EditManifest
  BY <1>3 DEF Edit, ChangeTypedef, UpgradeCompiler, EditManifest
<1>4. CASE UNCHANGED vars
  BY <1>4 DEF vars
<1> QED BY <1>2, <1>3, <1>4 DEF Next

(* What it adds is inferred from what it knew, so from what it agreed with. *)
LEMMA AnalyzeAgrees ==
  ASSUME FixedTypedefs, TypeInv, CacheInv, Agrees, NEW p \in Procs, NEW m \in Modules,
         AnalyzeModule(p, m)
  PROVE  Agrees'
<1>1. /\ m \in Ordered(program[p]) /\ m \notin DOMAIN hash[p]
      /\ Imports(program[p], m) \cap Ordered(program[p]) \subseteq DOMAIN hash[p]
      /\ program' = program /\ locator' = locator
  BY DEF AnalyzeModule
<1>2. iface' = [iface EXCEPT ![p] = Put(@, m, InferredIface(p, m))]
  BY RegistersInferred
<1>3. PICK h : hash' = [hash EXCEPT ![p] = Put(@, m, h)]
  BY DEF AnalyzeModule
<1>4. /\ DOMAIN hash = Procs /\ DOMAIN iface = Procs
      /\ DOMAIN iface[p] = DOMAIN hash[p]
      /\ DOMAIN hash[p] \subseteq Ordered(program[p])
  BY DEF TypeInv, TypeOK, CacheInv, HashesFaithful
<1>5. /\ DOMAIN hash'[p] = DOMAIN hash[p] \cup {m}
      /\ iface'[p][m] = InferredIface(p, m)
      /\ \A k \in DOMAIN hash[p] : iface'[p][k] = iface[p][k]
  BY <1>1, <1>2, <1>3, <1>4 DEF Put
<1>6. ASSUME NEW D, IsClean(program[p], locator[p], D)
      PROVE  InferredIface(p, m) = D[m]
  <2>1. \A k \in DOMAIN hash[p] : iface[p][k] = D[k]
    BY <1>6 DEF Agrees
  <2>2. \A d \in Resolved(program[p], m, locator[p]) :
          d \in DOMAIN iface[p] <=> d \in Ordered(program[p])
    BY <1>1, <1>4 DEF Resolved
  <2>3. D[m] = [module |-> m,
                tree |-> Digest(Source(program[p], m),
                  [d \in Resolved(program[p], m, locator[p]) |->
                     IF d = GoDep THEN locator[p]
                     ELSE IF d \in Ordered(program[p]) THEN D[d].tree ELSE None])]
    BY <1>1, <1>6 DEF IsClean
  <2> QED BY <1>4, <2>1, <2>2, <2>3 DEF InferredIface, Definitions
<1>7. ASSUME NEW D, IsClean(program[p], locator[p], D), NEW k \in DOMAIN hash'[p]
      PROVE  iface'[p][k] = D[k]
  BY <1>5, <1>6, <1>7 DEF Agrees
<1>8. \A q \in Procs \ {p} : hash'[q] = hash[q] /\ iface'[q] = iface[q]
  BY <1>2, <1>3, <1>4
<1> SUFFICES ASSUME NEW q \in Procs, NEW D, IsClean(program'[q], locator'[q], D),
                    NEW k \in DOMAIN hash'[q]
             PROVE  iface'[q][k] = D[k]
  BY DEF Agrees, IsClean
<1>9. IsClean(program[q], locator[q], D)
  BY <1>1
<1> QED BY <1>7, <1>8, <1>9 DEF Agrees

LEMMA StepAgrees ==
  ASSUME FixedTypedefs
  PROVE  TypeInv /\ CacheInv /\ Agrees /\ [Next]_vars => Agrees'
<1> SUFFICES ASSUME TypeInv, CacheInv, Agrees, [Next]_vars PROVE Agrees'
  OBVIOUS
<1>1. CASE \E p \in Procs : \E m \in Modules : AnalyzeModule(p, m)
  BY <1>1, AnalyzeAgrees
<1>2. CASE ~\E p \in Procs : \E m \in Modules : AnalyzeModule(p, m)
  <2> SUFFICES ASSUME NEW p \in Procs, NEW D, IsClean(program'[p], locator'[p], D),
                      NEW m \in DOMAIN hash'[p]
               PROVE  iface'[p][m] = D[m]
    BY DEF Agrees, IsClean
  <2>1. hash'[p] # EmptyMap
    BY DEF EmptyMap
  <2>2. /\ hash'[p] = hash[p] /\ iface'[p] = iface[p]
        /\ program'[p] = program[p] /\ locator'[p] = locator[p]
    BY <1>2, <2>1, KnowsOrForgets
  <2> QED BY <2>2 DEF Agrees
<1> QED BY <1>1, <1>2

(* Once all modules are analysed, what is known is what a compilation from *)
(* scratch would infer.                                                    *)
LEMMA KnownIsClean ==
  ASSUME TypeInv, CacheInv, CacheSound, Agrees, NEW p \in Procs,
         Ordered(program[p]) \subseteq DOMAIN hash[p]
  PROVE  /\ DOMAIN CleanDefinitions(program[p], locator[p]) = Ordered(program[p])
         /\ \A m \in Ordered(program[p]) :
              iface[p][m] = CleanDefinitions(program[p], locator[p])[m]
<1>1. DOMAIN hash[p] = Ordered(program[p]) /\ DOMAIN iface[p] = Ordered(program[p])
  BY DEF TypeInv, TypeOK, CacheInv, HashesFaithful
<1>2. PICK D : D = [k \in Ordered(program[p]) |-> iface[p][k]]
  OBVIOUS
<1>3. \A k \in Ordered(program[p]) :
        iface[p][k] =
          [module |-> k,
           tree |-> Digest(Source(program[p], k),
             [d \in Resolved(program[p], k, locator[p]) |->
                IF d = GoDep THEN locator[p]
                ELSE IF d \in Ordered(program[p]) THEN D[d].tree ELSE None])]
  <2> SUFFICES ASSUME NEW k \in Ordered(program[p])
               PROVE  iface[p][k] =
                 [module |-> k,
                  tree |-> Digest(Source(program[p], k),
                    [d \in Resolved(program[p], k, locator[p]) |->
                       IF d = GoDep THEN locator[p]
                       ELSE IF d \in Ordered(program[p]) THEN D[d].tree ELSE None])]
    OBVIOUS
  <2>1. iface[p][k] = Definitions(program[p], k, locator[p], iface[p])
    BY <1>1 DEF CacheSound, InferredIface
  <2>2. \A d \in Ordered(program[p]) : D[d] = iface[p][d]
    BY <1>2
  <2> QED BY <1>1, <2>1, <2>2 DEF Definitions
<1>4. IsClean(program[p], locator[p], D)
  BY <1>2, <1>3 DEF IsClean
<1>5. IsClean(program[p], locator[p], CleanDefinitions(program[p], locator[p]))
  BY <1>4, CleanDefinitionsAreClean
<1>6. DOMAIN CleanDefinitions(program[p], locator[p]) = Ordered(program[p])
  BY <1>5 DEF IsClean
<1> QED BY <1>1, <1>5, <1>6 DEF Agrees

(* A build that has the definitions of a compilation from scratch has its  *)
(* Go files.                                                               *)
LEMMA FreshIsClean ==
  ASSUME TypeInv, CacheInv, CacheSound, Agrees, FreshInv
  PROVE  OutputsFresh
<1> SUFFICES ASSUME NEW p \in Procs, pc[p] = "built",
                    NEW n \in AllNodes(p), NEW f \in Files
             PROVE  out[n][f] = IF f \in SourceOf(p, n).files
                      THEN GoCode(p, n, CleanDefinitions(program[p], locator[p]),
                                  AllNodes(p))
                      ELSE None
  BY DEF OutputsFresh
<1>1. Ordered(program[p]) \subseteq DOMAIN hash[p] /\ DOMAIN iface[p] = DOMAIN hash[p]
  BY DEF FreshInv, SessionFresh, Committed, Accepted, TypeInv, TypeOK
<1>2. DOMAIN hash[p] = Ordered(program[p])
  BY <1>1 DEF CacheInv, HashesFaithful
<1>3. /\ DOMAIN CleanDefinitions(program[p], locator[p]) = Ordered(program[p])
      /\ \A m \in Ordered(program[p]) :
           iface[p][m] = CleanDefinitions(program[p], locator[p])[m]
  BY <1>1, KnownIsClean
<1>4. DefinitionsOf(program[p], n, locator[p], CleanDefinitions(program[p], locator[p]))
        = DefinitionsOf(program[p], n, locator[p], iface[p])
  <2>1. CASE n = Entry
    BY <1>1, <1>2, <1>3, <2>1 DEF DefinitionsOf, Definitions
  <2>2. CASE n # Entry
    BY <1>3, <2>2 DEF DefinitionsOf, AllNodes
  <2> QED BY <2>1, <2>2
<1>5. GoCode(p, n, CleanDefinitions(program[p], locator[p]), AllNodes(p))
        = OwnCode(p, n, AllNodes(p))
  BY <1>4 DEF GoCode, OwnCode
<1> QED BY <1>5 DEF FreshInv, SessionFresh, BuiltFresh

(* After a build the Go files are those of a build from scratch, whatever  *)
(* was built before, with which compiler, and whatever the user edited in  *)
(* between or meanwhile.  The five assumptions are the five ways in which  *)
(* stale Go files can stay: a session that saves an entry and leaves the   *)
(* Go files to the next (a check, a build that is killed or fails to emit),*)
(* methods and exports decided by another module, a typedef that changes   *)
(* below a module, and two modules with one cache file.                    *)
THEOREM BuildsAreFresh ==
  ASSUME OnlyBuilds, NoCrashes, PlainSources, FixedTypedefs, InjectiveCacheFile
  PROVE  Spec => []OutputsFresh
<1>1. ServerTakesLock
  BY DEF OnlyBuilds, ServerTakesLock
<1>2. Spec => []TargetLockHeld
  BY <1>1, TargetLockExclusive
<1>3. TypeInv /\ TypeInv' /\ TargetLockHeld /\ FreshInv /\ [Next]_vars => FreshInv'
  BY StepFresh
<1>4. TypeInv /\ CacheInv /\ [Next]_vars => CacheInv'
  BY StepCache
<1>5. TypeInv /\ CacheInv /\ Agrees /\ [Next]_vars => Agrees'
  BY StepAgrees
<1>6. Spec => []CacheSound
  BY CacheIsSound
<1>7. TypeInv /\ CacheInv /\ CacheSound /\ Agrees /\ FreshInv => OutputsFresh
  BY FreshIsClean
<1> QED BY <1>2, <1>3, <1>4, <1>5, <1>6, <1>7, InitTypes, StepTypes, InitCache, InitFresh,
           InitAgrees, PTL
       DEF Spec

-----------------------------------------------------------------------------
(* Warnings.  A session of the language server may run without lints, and  *)
(* a private method may lose its last use in another module, so the result *)
(* is about commands, and sources without such methods.                    *)

OnlyCommands == "lsp" \notin Jobs

(* Every session lints, so that no entry, and nothing a session took from  *)
(* the cache, has a warning.                                               *)
LintInv ==
  /\ \A p \in Procs : lints[p]
  /\ \A c \in CacheFiles :
       cache[c] # None => cache[c].source_hash.quality # "warning"
  /\ \A p \in Procs :
       /\ Unread(p) => hits[p] = {}
       /\ \A m \in hits[p] : SourceOf(p, m).quality # "warning"

(* At the start there is no entry, and nobody has taken one.               *)
LEMMA InitLints == Init => LintInv
  BY DEF Init, LintInv

(* What is saved was linted, what is taken was saved; and a session reads  *)
(* its sources before it takes anything.                                   *)
LEMMA StepLints ==
  ASSUME OnlyCommands
  PROVE  TypeInv /\ LintInv /\ [Next]_vars => LintInv'
<1> SUFFICES ASSUME TypeInv, LintInv, [Next]_vars
             PROVE  LintInv'
  OBVIOUS
<1> USE DEF TypeInv, TypeOK, user, disk, process, bounds
<1>1. ASSUME UNCHANGED <<cache, pc, program, lints, hits>> PROVE LintInv'
  BY <1>1 DEF LintInv, Unread, SourceOf
<1>2. ASSUME NEW p \in Procs, Session(p) PROVE LintInv'
  <2>1. CASE Start(p)
    <3>1. /\ pc[p] = "idle"
          /\ \E s \in {"locking", "reading"} : pc' = [pc EXCEPT ![p] = s]
          /\ UNCHANGED <<cache, program, lints, hits>>
      BY <2>1 DEF Start
    <3> QED BY <3>1 DEF LintInv, Unread, SourceOf
  <2>2. CASE AcquireTargetLock(p) \/ StartBindgenFails(p)
    <3>1. /\ pc[p] = "locking" /\ pc' = [pc EXCEPT ![p] = "reading"]
          /\ UNCHANGED <<cache, program, lints, hits>>
      BY <2>2 DEF AcquireTargetLock, StartBindgenFails
    <3> QED BY <3>1 DEF LintInv, Unread, SourceOf
  <2>3. CASE ReadSources(p)
    <3>1. /\ pc[p] = "reading"
          /\ \E s \in {"rejected", "analyzing"} : pc' = [pc EXCEPT ![p] = s]
          /\ \E g \in Programs(Snapshots) : program' = [program EXCEPT ![p] = g]
          /\ UNCHANGED <<cache, hits>>
      BY <2>3 DEF ReadSources, Programs, Nodes
    <3>2. job[p] # "lsp"
      BY JobsAssumption DEF OnlyCommands
    <3>3. lints' = lints
      BY <2>3, <3>2 DEF ReadSources
    <3>4. hits[p] = {}
      BY <3>1 DEF LintInv, Unread
    <3> QED BY <3>1, <3>3, <3>4 DEF LintInv, Unread, SourceOf
  <2>4. ASSUME NEW m \in Modules, AnalyzeModule(p, m) PROVE LintInv'
    <3>1. pc[p] = "analyzing" /\ UNCHANGED <<pc, program, lints>>
      BY <2>4 DEF AnalyzeModule
    <3>2. CacheFile[m] \in CacheFiles
      BY NamesAssumption
    <3>3. CASE CacheHit(p, m)
      <4>1. cache' = cache /\ hits' = [hits EXCEPT ![p] = @ \cup {m}]
        BY <2>4, <3>3 DEF AnalyzeModule
      <4>2. SourceOf(p, m).quality # "warning"
        BY <3>2, <3>3 DEF CacheHit, IsCacheValid, LintInv
      <4> QED BY <3>1, <4>1, <4>2 DEF LintInv, Unread, SourceOf
    <3>4. CASE ~CacheHit(p, m)
      <4>1. cache' = [cache EXCEPT ![CacheFile[m]] = None] /\ hits' = hits
        BY <2>4, <3>4 DEF AnalyzeModule
      <4> QED BY <3>1, <3>2, <4>1 DEF LintInv, Unread, SourceOf
    <3> QED BY <3>3, <3>4
  <2>5. CASE Diagnose(p)
    <3>1. /\ pc[p] = "analyzing"
          /\ \E s \in {"rejected", "saving"} : pc' = [pc EXCEPT ![p] = s]
          /\ UNCHANGED <<cache, program, lints, hits>>
      BY <2>5 DEF Diagnose
    <3> QED BY <3>1 DEF LintInv, Unread, SourceOf
  <2>6. CASE SaveModuleCache(p)
    <3> DEFINE m == Head(compiled[p])
    <3>1. UNCHANGED <<pc, program, lints, hits>>
      BY <2>6 DEF SaveModuleCache
    <3>2. \/ cache' = cache
          \/ /\ ~HasWarnings(program[p], m, Inferred(p))
             /\ cache' = [cache EXCEPT ![CacheFile[m]] = CacheEntry(p, m)]
      BY <2>6 DEF SaveModuleCache, LintInv
    <3>3. CacheEntry(p, m).source_hash = SourceOf(p, m)
      BY DEF CacheEntry
    <3>4. ~HasWarnings(program[p], m, Inferred(p)) => SourceOf(p, m).quality # "warning"
      BY DEF HasWarnings, SourceOf
    <3> QED BY <3>1, <3>2, <3>3, <3>4 DEF LintInv, Unread, SourceOf
  <2>7. CASE Emit(p)
    <3>1. /\ pc[p] = "saving"
          /\ \E s \in {"checked", "failed", "writing"} : pc' = [pc EXCEPT ![p] = s]
          /\ UNCHANGED <<cache, program, lints, hits>>
      BY <2>7 DEF Emit
    <3> QED BY <3>1 DEF LintInv, Unread, SourceOf
  <2>8. ASSUME NEW n \in Nodes, NEW f \in Files, WriteGoFile(p, n, f) PROVE LintInv'
    BY <1>1, <2>8 DEF WriteGoFile
  <2>9. CASE Prune(p)
    <3>1. /\ pc[p] = "writing" /\ pc' = [pc EXCEPT ![p] = "built"]
          /\ UNCHANGED <<cache, program, lints, hits>>
      BY <2>9 DEF Prune
    <3> QED BY <3>1 DEF LintInv, Unread, SourceOf
  <2>10. CASE GoRun(p)
    <3>1. /\ pc[p] = "built" /\ pc' = [pc EXCEPT ![p] = "running"]
          /\ UNCHANGED <<cache, program, lints, hits>>
      BY <2>10 DEF GoRun
    <3> QED BY <3>1 DEF LintInv, Unread, SourceOf
  <2>11. CASE Finish(p) \/ Crash(p)
    <3>1. Leave(p)
      BY <2>11 DEF Finish, Crash
    <3>2. /\ lints' = [lints EXCEPT ![p] = TRUE]
          /\ hits' = [hits EXCEPT ![p] = {}]
          /\ pc' = [pc EXCEPT ![p] = "idle"]
          /\ program' = [program EXCEPT ![p] = None]
          /\ cache' = cache
      BY <3>1 DEF Leave
    <3> QED BY <3>2 DEF LintInv, Unread, SourceOf
  <2> QED BY <1>2, <2>1, <2>2, <2>3, <2>4, <2>5, <2>6, <2>7, <2>8, <2>9, <2>10,
             <2>11 DEF Session
<1>3. CASE UNCHANGED vars
  BY <1>1, <1>3 DEF vars
<1>4. CASE \E n \in Nodes : Edit(n)
  BY <1>1, <1>4 DEF Edit
<1>5. CASE ChangeTypedef \/ UpgradeCompiler \/ EditManifest
  BY <1>1, <1>5 DEF ChangeTypedef, UpgradeCompiler, EditManifest
<1> QED BY <1>2, <1>3, <1>4, <1>5 DEF Next

(* No warning disappears behind the cache: as long as only commands use it *)
(* and no private method is behind an interface, a module that a session   *)
(* takes from the cache, unlinted, has no warning for it to show, whatever *)
(* was saved, edited, killed or rejected before.                           *)
THEOREM WarningsAreShown ==
  ASSUME OnlyCommands, PlainSources
  PROVE  Spec => []NoHiddenWarnings
<1>1. TypeInv /\ LintInv => NoHiddenWarnings
  <2> SUFFICES ASSUME TypeInv, LintInv, NEW p \in Procs, ~Unread(p), NEW m \in hits[p]
               PROVE  ~HasWarnings(program[p], m, AllNodes(p))
    BY DEF NoHiddenWarnings, Unread
  <2>1. program[p] \in Programs(Snapshots) /\ m \in Nodes
    BY DEF TypeInv, TypeOK, ProgramRead, Nodes
  <2>2. PICK k \in Nodes : Source(program[p], m) = program[p].snap[k]
    BY <2>1 DEF Source, Programs
  <2>3. Source(program[p], m).methods = {}
    BY <2>1, <2>2 DEF PlainSources, Programs, Snapshots
  <2>4. Source(program[p], m).quality # "warning"
    BY DEF LintInv, SourceOf
  <2> QED BY <2>3, <2>4 DEF HasWarnings, UsedMethods
<1>2. TypeInv /\ LintInv /\ [Next]_vars => LintInv'
  BY StepLints
<1> QED BY <1>1, <1>2, InitTypes, StepTypes, InitLints, PTL DEF Spec
=============================================================================
