------------------------------ MODULE AddSync ------------------------------
(***************************************************************************)
(* The table [dependencies.go] of lisette.toml under `lis add`, `lis sync` *)
(* and the user's own edits.                                               *)
(*                                                                         *)
(* Both commands read the manifest first, take the mutation lock (or give  *)
(* up), wait for the target lock, and then change the manifest by a series *)
(* of read-modify-write's of the file, one module at a time, planned from  *)
(* what they read.  A command may be killed, or fail, between any two of   *)
(* them.  Between the locks and the writes `lis add` walks the graph of Go *)
(* modules, whose selected versions move upward as the Go tool learns of   *)
(* more requirements.                                                      *)
(*                                                                         *)
(* External: the Go tool.  A module has a number of versions, a version    *)
(* requires others, and a requirement is known once the module is fetched  *)
(* or listed.  The typedef cache is not modelled.                          *)
(***************************************************************************)
EXTENDS Naturals, FiniteSets

CONSTANTS
    Modules,      \* paths of third-party Go modules, in their order
    MaxVersion,   \* the latest version of a module
    Procs,        \* the processes that run `lis add` and `lis sync`
    Starts,       \* pairs of a world, in which world[m][v][n] is the version of n that m@v
                  \* requires or 0, and of a table [dependencies.go] to start from
    Requests,     \* the <<module, version>> that `lis add` is asked for
    Imports,      \* the sets of modules that src/ may import
    MaxCommands,  \* bound: commands started
    MaxSurprises  \* bound: edits of the manifest and answers that the Go tool fails to give

Versions == 1..MaxVersion

\* An entry with `via` is a transitive dependency, one without is direct.
Gone == [version |-> 0, direct |-> FALSE, via |-> {}]
Direct(v) == [version |-> v, direct |-> TRUE, via |-> {}]
Transitive(v, parents) == [version |-> v, direct |-> FALSE, via |-> parents]
Entries == {Direct(v) : v \in Versions}
             \cup {Transitive(v, parents) : v \in Versions, parents \in SUBSET Modules}
Selections == [Modules -> 0..MaxVersion]

ASSUME ModulesAssumption == Modules \subseteq Nat \ {0} /\ IsFiniteSet(Modules)
ASSUME StartsAssumption ==
    Starts \subseteq [Modules -> [Versions -> Selections]] \X [Modules -> Entries \cup {Gone}]
ASSUME InputsAssumption == Requests \subseteq Modules \X Versions /\ Imports \subseteq SUBSET Modules
ASSUME ProcsAssumption == {"none", "other"} \cap Procs = {}
ASSUME BoundsAssumption == MaxVersion \in Nat /\ MaxCommands \in Nat /\ MaxSurprises \in Nat

VARIABLES
    world,      \* what the modules require
    manifest,   \* [dependencies.go]
    mutator,    \* the holder of .lis-mutate.lock
    holder,     \* the holder of .lis-target.lock: "other" is lis run, build or check
    proc,       \* the commands under way
    commands, surprises

vars == <<world, manifest, mutator, holder, proc, commands, surprises>>
env == <<world, commands, surprises>>

None == "none"
NoVersions == [m \in Modules |-> 0]
NoEdges == [m \in Modules |-> {}]

Idle == [stage |-> "idle", cmd |-> "none", dep |-> 0, version |-> 0,
         read |-> [m \in Modules |-> Gone],    \* the manifest before the locks
         base |-> [m \in Modules |-> Gone],    \* the manifest that todo was planned from
         gomod |-> NoVersions,                 \* the selected versions (go list -m)
         versions |-> NoVersions, edges |-> NoEdges, expanded |-> {}, queue |-> {},
         walked |-> {},                        \* modules with a typedef made by this add
         scanned |-> {},                       \* imports found by this sync
         todo |-> [m \in {} |-> Gone],         \* the writes left of this stage
         sure |-> FALSE,                       \* Go took no version back, and told all drift
         clean |-> FALSE]                      \* nobody edited since read, no module skipped

\* The stages of a command that holds the mutation lock and the target lock.
Walking == {"fetch", "reconcile", "walk", "expand", "declare"}
Writing == {"upsert", "cleanup", "trim", "resolve"}
Locked == {"scan", "hygiene"} \cup Walking \cup Writing
Stages == {"idle", "parsed", "waiting"} \cup Locked

Keys(table) == {m \in Modules : table[m].version > 0}
Join(s, t) == [m \in Modules |-> IF s[m] >= t[m] THEN s[m] ELSE t[m]]
Requires(m, v) == IF v = 0 THEN NoVersions ELSE world[m][v]
Listed(m, v) == {n \in Modules \ {m} : Requires(m, v)[n] > 0}

Init ==
    /\ \E start \in Starts : world = start[1] /\ manifest = start[2]
    /\ mutator = None /\ holder = None
    /\ proc = [p \in Procs |-> Idle]
    /\ commands = 0 /\ surprises = 0

-----------------------------------------------------------------------------
(***************************************************************************)
(* From the command line to the locks.                                     *)
(***************************************************************************)
Start(p) ==
    /\ proc[p].stage = "idle"
    /\ commands < MaxCommands
    /\ \/ \E request \in Requests :
              proc' = [proc EXCEPT ![p] = [Idle EXCEPT !.stage = "parsed", !.cmd = "add",
                          !.dep = request[1], !.version = request[2], !.read = manifest,
                          !.base = manifest, !.sure = TRUE, !.clean = TRUE]]
       \/ proc' = [proc EXCEPT ![p] = [Idle EXCEPT !.stage = "parsed", !.cmd = "sync",
                          !.read = manifest, !.base = manifest, !.clean = TRUE]]
    /\ commands' = commands + 1
    /\ UNCHANGED <<world, manifest, mutator, holder, surprises>>

\* Mutant: does not look whether another command holds the lock.
TakeMutationLock(p) ==
    /\ proc[p].stage = "parsed"
    /\ mutator' = p /\ proc' = [proc EXCEPT ![p].stage = "waiting"]
    /\ UNCHANGED <<env, manifest, holder>>

\* The lock of mutations is tried once: held by another command, it ends this one.
AcquireMutationLock(p) ==
    /\ proc[p].stage = "parsed"
    /\ IF mutator = None
       THEN mutator' = p /\ proc' = [proc EXCEPT ![p].stage = "waiting"]
       ELSE UNCHANGED mutator /\ proc' = [proc EXCEPT ![p] = Idle]
    /\ UNCHANGED <<env, manifest, holder>>

AcquireTargetLock(p) ==
    /\ proc[p].stage = "waiting"
    /\ holder = None
    /\ holder' = p
    /\ proc' = [proc EXCEPT ![p].stage = IF proc[p].cmd = "add" THEN "fetch" ELSE "scan"]
    /\ UNCHANGED <<env, manifest, mutator>>

\* The end of a process, at any point and for any reason: both locks are dropped.
Leave(p) ==
    /\ proc' = [proc EXCEPT ![p] = Idle]
    /\ mutator' = IF mutator = p THEN None ELSE mutator
    /\ holder' = IF holder = p THEN None ELSE holder

\* An error that ends the command, or a kill.
Quit(p) ==
    /\ proc[p].stage # "idle"
    /\ Leave(p)
    /\ UNCHANGED <<env, manifest>>

OtherTakesTarget ==
    /\ holder = None
    /\ holder' = "other"
    /\ UNCHANGED <<env, manifest, mutator, proc>>

OtherLeavesTarget ==
    /\ holder = "other"
    /\ holder' = None
    /\ UNCHANGED <<env, manifest, mutator, proc>>

\* The Go tool, and the user, have MaxSurprises in all.  A module that Go can never list keeps
\* its old version, is drift in each turn and is looked at again without end (add.rs:558-646):
\* that loop is cut here.
Surprise == surprises < MaxSurprises /\ surprises' = surprises + 1

-----------------------------------------------------------------------------
(***************************************************************************)
(* lis add: the graph of modules.                                          *)
(***************************************************************************)
\* target/go.mod is written from the manifest read before the locks, then `go get`.
Fetch(p) ==
    LET r == proc[p]
        pinned == [m \in Modules |-> IF m = r.dep THEN r.version ELSE r.read[m].version]
    IN  /\ r.stage = "fetch"
        /\ proc' = [proc EXCEPT ![p] = [r EXCEPT !.stage = "reconcile", !.queue = {r.dep},
                                    !.gomod = Join(pinned, Requires(r.dep, r.version))]]
        /\ UNCHANGED <<env, manifest, mutator, holder>>

\* m is listed: what it requires is known, its version and its edges are recorded.
ListModule(r, m) ==
    [r EXCEPT !.gomod = Join(@, Requires(m, r.gomod[m])),
              !.versions[m] = r.gomod[m],
              !.edges[m] = Listed(m, r.gomod[m]),
              !.expanded = @ \cup {m},
              !.queue = (@ \ {m}) \cup Listed(m, r.gomod[m])]

\* A module whose version or packages the Go tool cannot tell is skipped with a warning.
Skip(r, m) == [r EXCEPT !.queue = @ \ {m}, !.clean = FALSE]

\* Mutant: a module of a version listed before is listed again.
ReconcileAlways(p) ==
    LET r == proc[p] IN
    /\ r.stage = "reconcile"
    /\ \E m \in r.queue : proc' = [proc EXCEPT ![p] = ListModule(r, m)]
    /\ UNCHANGED <<env, manifest, mutator, holder>>

\* Only the added module must not be skipped.  Duplicates in the queue are skipped by the code.
ReconcileModule(p) ==
    LET r == proc[p] IN
    /\ r.stage = "reconcile"
    /\ \E m \in r.queue :
          \/ /\ m # r.dep
             /\ Surprise
             /\ proc' = [proc EXCEPT ![p] = Skip(r, m)]
          \/ /\ r.versions[m] = r.gomod[m]
             /\ UNCHANGED surprises
             /\ proc' = [proc EXCEPT ![p] = [r EXCEPT !.queue = @ \ {m}]]
          \/ /\ r.versions[m] # r.gomod[m]
             /\ UNCHANGED surprises
             /\ proc' = [proc EXCEPT ![p] = ListModule(r, m)]
    /\ UNCHANGED <<world, commands, manifest, mutator, holder>>

Upgraded(r) == {m \in Modules : r.versions[m] # 0 /\ r.gomod[m] \notin {0, r.versions[m]}}

ReconcileDrift(p) ==
    LET r == proc[p] IN
    /\ r.stage = "reconcile" /\ r.queue = {}
    /\ proc' = [proc EXCEPT ![p] = IF Upgraded(r) # {}
                    THEN [r EXCEPT !.queue = Upgraded(r)]
                    ELSE [r EXCEPT !.stage = "walk", !.walked = {r.dep}]]
    /\ UNCHANGED <<env, manifest, mutator, holder>>

\* `go get n@v`.  For a version below the selected one, which `go get` takes back, the modules
\* that need a later one of n, and those that need these, are lowered or dropped.
AfterGet(selected, n, v) ==
    IF v >= selected[n]
    THEN {Join([selected EXCEPT ![n] = v], Requires(n, v))}
    ELSE {s \in Selections :
            /\ s[n] = v
            /\ \A k \in Modules : s[k] <= selected[k] /\ Requires(k, s[k])[n] <= v}

\* A package of m, whose typedef was made, imports one of n, a module that Go knows: the edge is
\* recorded, and n gets a version, and a typedef of its own if Go can load its package.
Meet(r, m, n) ==
    [r EXCEPT !.versions[n] = IF @ = 0 THEN r.gomod[n] ELSE @, !.edges[m] = @ \cup {n}]

MakeTypedef(r, n, selected) ==
    [r EXCEPT !.walked = @ \cup {n}, !.gomod = selected,
              !.sure = @ /\ r.versions[n] >= r.gomod[n]]

WalkImport(p) ==
    LET r == proc[p] IN
    /\ r.stage = "walk"
    /\ \E m \in r.walked : \E n \in Listed(m, r.versions[m]) :
          LET s == Meet(r, m, n) IN
          /\ r.gomod[n] > 0
          /\ n \notin r.walked \/ n \notin r.edges[m]
          /\ \/ proc' = [proc EXCEPT ![p] = s]
             \/ \E selected \in AfterGet(s.gomod, n, s.versions[n]) :
                   proc' = [proc EXCEPT ![p] = MakeTypedef(s, n, selected)]
    /\ UNCHANGED <<env, manifest, mutator, holder>>

EndWalk(p) ==
    LET r == proc[p] IN
    /\ r.stage = "walk"
    /\ proc' = [proc EXCEPT ![p] = [r EXCEPT !.stage = "expand",
                    !.queue = {m \in Modules : r.versions[m] # 0} \ r.expanded]]
    /\ UNCHANGED <<env, manifest, mutator, holder>>

\* m is listed late: a version recorded before stays, until drift is looked for.
FirstVersion(r, m) == IF r.versions[m] = 0 THEN r.gomod[m] ELSE r.versions[m]

ListLate(r, m) ==
    [r EXCEPT !.gomod = Join(@, Requires(m, r.gomod[m])),
              !.versions[m] = FirstVersion(r, m),
              !.edges[m] = @ \cup Listed(m, r.gomod[m]),
              !.expanded = @ \cup {m},
              !.queue = (@ \cup Listed(m, r.gomod[m])) \ (r.expanded \cup {m})]

\* The version, or the list of packages, may fail.
ExpandModule(p) ==
    LET r == proc[p] IN
    /\ r.stage = "expand"
    /\ \E m \in r.queue :
          \/ /\ Surprise
             /\ \E v \in {r.versions[m], FirstVersion(r, m)} :
                   proc' = [proc EXCEPT ![p] = [Skip(r, m) EXCEPT !.versions[m] = v]]
          \/ /\ UNCHANGED surprises
             /\ proc' = [proc EXCEPT ![p] = ListLate(r, m)]
    /\ UNCHANGED <<world, commands, manifest, mutator, holder>>

\* What the upgraded modules become: listed again, with edges anew.  Mutant: the edges stay.
AnewKeepingEdges(r, upgraded) ==
    [r EXCEPT !.versions = [m \in Modules |-> IF m \in upgraded THEN r.gomod[m] ELSE @[m]],
              !.expanded = @ \ upgraded, !.queue = upgraded]

Anew(r, upgraded) ==
    [r EXCEPT !.versions = [m \in Modules |-> IF m \in upgraded THEN r.gomod[m] ELSE @[m]],
              !.edges = [m \in Modules |-> IF m \in upgraded THEN {} ELSE @[m]],
              !.expanded = @ \ upgraded, !.queue = upgraded]

\* The Go tool may fail to tell the version of one of the modules: it keeps the old one.
ExpandDrift(p) ==
    LET r == proc[p]
        unsure == [r EXCEPT !.sure = FALSE, !.clean = FALSE]
    IN
    /\ r.stage = "expand" /\ r.queue = {}
    /\ \/ /\ UNCHANGED surprises
          /\ Upgraded(r) = {}
          /\ proc' = [proc EXCEPT ![p] = [r EXCEPT !.stage = "declare"]]
       \/ /\ UNCHANGED surprises
          /\ Upgraded(r) # {}
          /\ proc' = [proc EXCEPT ![p] = Anew(r, Upgraded(r))]
       \/ /\ Surprise
          /\ \E m \in Upgraded(r) :
                proc' = [proc EXCEPT ![p] = IF Upgraded(r) = {m}
                            THEN [unsure EXCEPT !.stage = "declare"]
                            ELSE Anew(unsure, Upgraded(r) \ {m})]
    /\ UNCHANGED <<world, commands, manifest, mutator, holder>>

-----------------------------------------------------------------------------
(***************************************************************************)
(* The writes to lisette.toml.                                             *)
(***************************************************************************)
\* The parents in the graph of the modules that lis add found under the added one.
Parents(r, m) == {parent \in Modules : m \in r.edges[parent]}
Transitives(r) == {m \in Modules \ {r.dep} : Parents(r, m) # {}}
WasDirect(r, m) == r.read[m].direct

\* Mutants: direct dependencies are not told apart; a module with the version of the
\* manifest is left as it is.
UpsertAllAsTransitive(r) ==
    [m \in {n \in Transitives(r) : r.versions[n] # 0} |->
        Transitive(r.versions[m], (r.read[m].via \ {r.dep}) \cup Parents(r, m))]

UpsertNewVersions(r) ==
    LET kept == {m \in Keys(r.read) : r.read[m].version = r.versions[m]}
    IN  [m \in {n \in Transitives(r) : r.versions[n] # 0} \ kept |->
            IF WasDirect(r, m)
            THEN Direct(r.versions[m])
            ELSE Transitive(r.versions[m], (r.read[m].via \ {r.dep}) \cup Parents(r, m))]

UpsertWrites(r) ==
    LET kept == {m \in Modules : WasDirect(r, m) /\ r.read[m].version = r.versions[m]}
    IN  [m \in {n \in Transitives(r) : r.versions[n] # 0} \ kept |->
            IF WasDirect(r, m)
            THEN Direct(r.versions[m])
            ELSE Transitive(r.versions[m], (r.read[m].via \ {r.dep}) \cup Parents(r, m))]

\* Mutant: takes the version from the graph, where the module is not.
CleanupWritesOfGraph(r) ==
    [m \in {n \in Keys(r.read) \ Transitives(r) : r.dep \in r.read[n].via} |->
        IF r.read[m].via = {r.dep} THEN Gone
        ELSE Transitive(r.versions[m], r.read[m].via \ {r.dep})]

\* Former transitives of the added module that it does not need any more.
CleanupWrites(r) ==
    [m \in {n \in Keys(r.read) \ Transitives(r) : r.dep \in r.read[n].via} |->
        IF r.read[m].via = {r.dep} THEN Gone
        ELSE Transitive(r.gomod[m], r.read[m].via \ {r.dep})]

TrimWrites(table) ==
    [m \in {n \in Keys(table) : ~ table[n].via \subseteq Keys(table)} |->
        Transitive(table[m].version, table[m].via \cap Keys(table))]

\* Mutant: drops what the sources import too.
DropWrites(table, imported) ==
    [m \in {n \in Keys(table) : ~ table[n].direct /\ table[n].via = {}} |-> Gone]

ResolveWrites(table, imported) ==
    [m \in {n \in Keys(table) : ~ table[n].direct /\ table[n].via = {}} |->
        IF m \in imported THEN Direct(table[m].version) ELSE Gone]

\* What the other commands have read of the manifest is not what it holds now.
DirtyBut(p, procs) == [q \in Procs |-> IF q = p THEN procs[q] ELSE [procs[q] EXCEPT !.clean = FALSE]]

\* The added module becomes direct, whatever it was.
Declare(p) ==
    LET r == proc[p] IN
    /\ r.stage = "declare"
    /\ manifest' = [manifest EXCEPT ![r.dep] = Direct(r.versions[r.dep])]
    /\ proc' = DirtyBut(p, [proc EXCEPT ![p].stage = "upsert", ![p].todo = UpsertWrites(r)])
    /\ UNCHANGED <<env, mutator, holder>>

\* An entry that is kept needs a version, which Go does not tell of a module it has dropped.
Unknown(r, m) == r.stage = "cleanup" /\ r.todo[m] # Gone /\ r.gomod[m] = 0

\* One upsert_go_dep or remove_go_dep: the file is read, changed and written.
Write(p) ==
    LET r == proc[p] IN
    /\ r.stage \in Writing
    /\ \E m \in DOMAIN r.todo :
          /\ \A n \in DOMAIN r.todo : m <= n
          /\ IF Unknown(r, m)
             THEN Leave(p) /\ UNCHANGED manifest
             ELSE /\ manifest' = [manifest EXCEPT ![m] = r.todo[m]]
                  /\ proc' = DirtyBut(p, [proc EXCEPT ![p].todo =
                                             [n \in DOMAIN r.todo \ {m} |-> r.todo[n]]])
                  /\ UNCHANGED <<mutator, holder>>
    /\ UNCHANGED env

BeginCleanup(p) ==
    LET r == proc[p] IN
    /\ r.stage = "upsert" /\ DOMAIN r.todo = {}
    /\ proc' = [proc EXCEPT ![p].stage = "cleanup", ![p].todo = CleanupWrites(r)]
    /\ UNCHANGED <<env, manifest, mutator, holder>>

\* lis sync reads which modules the sources import, then generates typedefs.
Scan(p) ==
    /\ proc[p].stage = "scan"
    /\ \E imported \in Imports :
          proc' = [proc EXCEPT ![p].stage = "hygiene", ![p].scanned = imported]
    /\ UNCHANGED <<env, manifest, mutator, holder>>

BeginTrim(p) ==
    LET r == proc[p] IN
    /\ r.stage = "hygiene" \/ (r.stage = "cleanup" /\ DOMAIN r.todo = {})
    /\ proc' = [proc EXCEPT ![p] = [Idle EXCEPT !.stage = "trim", !.cmd = r.cmd,
                                     !.dep = r.dep, !.read = r.read, !.scanned = r.scanned,
                                     !.clean = r.clean, !.base = manifest,
                                     !.todo = TrimWrites(manifest)]]
    /\ UNCHANGED <<env, manifest, mutator, holder>>

BeginResolve(p) ==
    LET r == proc[p] IN
    /\ r.stage = "trim" /\ DOMAIN r.todo = {}
    /\ proc' = [proc EXCEPT ![p].stage = "resolve", ![p].base = manifest,
                            ![p].todo = ResolveWrites(manifest, r.scanned)]
    /\ UNCHANGED <<env, manifest, mutator, holder>>

Finish(p) ==
    /\ proc[p].stage = "resolve" /\ DOMAIN proc[p].todo = {}
    /\ Leave(p)
    /\ UNCHANGED <<env, manifest>>

-----------------------------------------------------------------------------
\* The user edits lisette.toml: a dependency is removed, declared or given a version.
Edit ==
    /\ Surprise
    /\ \E m \in Modules, entry \in {Gone} \cup {Direct(v) : v \in Versions} :
          /\ entry # manifest[m]
          /\ manifest' = [manifest EXCEPT ![m] = entry]
    /\ proc' = [q \in Procs |-> [proc[q] EXCEPT !.clean = FALSE]]
    /\ UNCHANGED <<world, mutator, holder, commands>>

-----------------------------------------------------------------------------
Work(p) ==
    \/ AcquireMutationLock(p) \/ AcquireTargetLock(p)
    \/ Fetch(p) \/ ReconcileModule(p) \/ ReconcileDrift(p)
    \/ WalkImport(p) \/ EndWalk(p) \/ ExpandModule(p) \/ ExpandDrift(p)
    \/ Declare(p) \/ Write(p) \/ BeginCleanup(p)
    \/ Scan(p) \/ BeginTrim(p) \/ BeginResolve(p) \/ Finish(p)

Next ==
    \/ \E p \in Procs : Start(p) \/ Work(p) \/ Quit(p)
    \/ OtherTakesTarget \/ OtherLeavesTarget \/ Edit

\* A command keeps going unless it is killed, and gets the target lock if it is free again
\* and again; lis run and the others give it back.
Fairness ==
    /\ \A p \in Procs : WF_vars(Work(p)) /\ SF_vars(AcquireTargetLock(p))
    /\ WF_vars(OtherLeavesTarget)

Spec == Init /\ [][Next]_vars /\ Fairness

-----------------------------------------------------------------------------
(***************************************************************************)
(* Properties.                                                             *)
(***************************************************************************)
TypeOK ==
    /\ manifest \in [Modules -> Entries \cup {Gone}]
    /\ mutator \in Procs \cup {None} /\ holder \in Procs \cup {None, "other"}
    /\ \A p \in Procs :
          LET r == proc[p] IN
          /\ r.stage \in Stages /\ r.cmd \in {"none", "add", "sync"}
          /\ r.read \in [Modules -> Entries \cup {Gone}]
          /\ r.gomod \in Selections /\ r.versions \in Selections
          /\ r.edges \in [Modules -> SUBSET Modules]
          /\ r.queue \subseteq Modules /\ r.expanded \subseteq Modules
          /\ DOMAIN r.todo \subseteq Modules
          /\ \A m \in DOMAIN r.todo : r.todo[m] \in
                [version : 0..MaxVersion, direct : BOOLEAN, via : SUBSET Modules]
    /\ commands \in 0..MaxCommands /\ surprises \in 0..MaxSurprises

\* One command at a time is past the locks: it holds both, so that nobody else writes the
\* manifest or target/ (lock.rs).
OneMutation ==
    \A p \in Procs : proc[p].stage \in Locked => mutator = p /\ holder = p

\* A command takes a direct dependency away only if it was not direct when the command last
\* parsed the manifest: `lis add` leaves "every other direct dep" alone (add.rs:1013), but for
\* those declared since it started, and removals never hit a direct one.
DirectStaysDirect ==
    [][\A m \in Modules :
          manifest[m].direct /\ ~ manifest'[m].direct /\ surprises' = surprises
            => \E p \in Procs : mutator = p /\ ~ proc[p].base[m].direct]_vars

\* The modules that d needs, d included, at the versions of the manifest.
Needs(m) == Listed(m, manifest[m].version)
Reach(d) == {m \in Modules : \A S \in SUBSET Modules :
                d \in S /\ (\A k \in S : Needs(k) \subseteq S) => m \in S}
Done(p) == proc[p].stage = "resolve" /\ DOMAIN proc[p].todo = {}

\* When `lis add` starts to write, its graph is about the versions that Go has selected in the
\* end, of each module it could list: an edge is never one of an older version.  And if nothing
\* failed, each module in it was listed.  The first does not hold if Go was asked for a version
\* below the selected one, or did not tell which it had selected.
GraphExact ==
    \A p \in Procs :
        LET r == proc[p] IN
        r.stage = "declare" =>
            /\ r.sure => \A m \in Modules : r.versions[m] \in {0, r.gomod[m]}
            /\ r.sure => \A m \in r.expanded : r.edges[m] = Listed(m, r.versions[m])
            /\ r.clean => \A m \in Modules : \A n \in r.edges[m] : n \in r.expanded

\* An undisturbed `lis add` leaves the whole graph of the added module in the manifest, each
\* module recent enough for those that need it and declared direct or via all of these:
\* modules met twice, requirements that raise versions met before, circular requirements
\* and the writes that clean up afterwards included.
AddDeclares ==
    \A p \in Procs :
        Done(p) /\ proc[p].cmd = "add" /\ proc[p].clean =>
            \A m \in Reach(proc[p].dep) :
                /\ m \in Keys(manifest)
                /\ \A n \in Needs(m) \ {proc[p].dep} :
                      /\ manifest[n].version >= Requires(m, manifest[m].version)[n]
                      /\ manifest[n].direct \/ m \in manifest[n].via

\* The transitives of a table without a parent in it.
Orphans(table) ==
    {m \in Keys(table) : ~ table[m].direct /\ table[m].via \cap Keys(table) = {}}

\* What an undisturbed `lis sync` makes of the manifest it read, through the writes of both of
\* its rounds: the orphans are gone, or direct if src/ imports them; no other entry is removed,
\* and none that is left has lost its version or names a parent that was not in the manifest.
\* An orphan of an orphan was none when `lis sync` read it, and stays: see NoOrphansLeft.
SyncRemovesOrphans ==
    \A p \in Procs :
        Done(p) /\ proc[p].cmd = "sync" /\ proc[p].clean =>
            LET read == proc[p].read IN
            /\ Keys(manifest) = Keys(read) \ (Orphans(read) \ proc[p].scanned)
            /\ \A m \in Keys(manifest) :
                  /\ manifest[m].version = read[m].version
                  /\ manifest[m].direct <=> read[m].direct \/ m \in Orphans(read)
                  /\ manifest[m].via = read[m].via \cap Keys(read)

\* `lis sync` removes the "orphaned transitives from the manifest" (13-go-interop.md:330), so
\* that deleting an entry and running `lis sync` removes a dependency (332-335).  Violated: an
\* entry that loses its last parent to this very `lis sync` stays, with the parent's name.
NoOrphansLeft ==
    \A p \in Procs :
        Done(p) /\ proc[p].cmd = "sync" /\ proc[p].clean => Orphans(manifest) = {}

\* A command that runs and is not killed comes to its end: the graph walk converges though
\* versions go up under it, and nobody waits for a lock for ever.
CommandsEnd == \A p \in Procs : proc[p].stage # "idle" ~> proc[p].stage = "idle"
=============================================================================
