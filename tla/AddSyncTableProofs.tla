------------------------- MODULE AddSyncTableProofs -------------------------
(***************************************************************************)
(* What an undisturbed `lis add` or `lis sync` leaves in the manifest, for *)
(* any modules, requirements, start and number of other commands: the      *)
(* graph of the added module, and the table read without its orphans.      *)
(***************************************************************************)
EXTENDS AddSyncGraphProofs

-----------------------------------------------------------------------------
(***************************************************************************)
(* No module is its own parent.                                            *)
(***************************************************************************)
NoSelf(table) == \A m \in Modules : m \notin table[m].via

Selfless(r) ==
    /\ NoSelf(r.read)
    /\ \A m \in DOMAIN r.todo : m \notin r.todo[m].via
    /\ \A m \in Modules : m \notin r.edges[m]

SelfInv == NoSelf(manifest) /\ \A p \in Procs : Selfless(proc[p])

\* Nothing of the kind is there to start with: lisette never writes one, only a user could.
NoSelfStarts == \A start \in Starts : NoSelf(start[2])

-----------------------------------------------------------------------------
(***************************************************************************)
(* What the manifest, table, holds under a command r, as long as nobody    *)
(* else has written to it since r read it and no module was skipped.       *)
(***************************************************************************)
\* The graph of d in a table: S holds d and what S needs, and nothing but d without a parent.
Rooted(table, d, S) ==
    /\ d \in S /\ table[d].direct /\ S \subseteq Keys(table)
    /\ \A m \in S : \A n \in Listed(m, table[m].version) :
          /\ n \in S
          /\ n # d => /\ table[n].version >= Requires(m, table[m].version)[n]
                      /\ table[n].direct \/ m \in table[n].via
    /\ \A n \in S \ {d} : \E m \in S : n \in Listed(m, table[m].version)

\* The declaration of m is the one that the graph of r asks for.
Placed(r, table, m) ==
    /\ table[m].version = r.versions[m]
    /\ table[m].direct \/ Parents(r, m) \subseteq table[m].via

Upserting(r, table) ==
    /\ table[r.dep] = Direct(r.versions[r.dep])
    /\ \A m \in DOMAIN r.todo : m \in DOMAIN UpsertWrites(r) /\ r.todo[m] = UpsertWrites(r)[m]
    /\ \A m \in Transitives(r) \ DOMAIN r.todo : Placed(r, table, m)

Cleaning(r, table) ==
    /\ table[r.dep] = Direct(r.versions[r.dep])
    /\ r.dep \notin DOMAIN r.todo /\ Transitives(r) \cap DOMAIN r.todo = {}
    /\ \A m \in Transitives(r) : Placed(r, table, m)

\* Trimming takes no parent in S away.
Trimming(r, table, S) ==
    \A m \in S \cap DOMAIN r.todo :
        /\ ~ table[m].direct /\ r.todo[m].version = table[m].version
        /\ table[m].via \cap S \subseteq r.todo[m].via

\* The entry of m once the parents that are not in the table read are gone, and once the
\* orphans are direct.
Trimmed(read, m, entry) ==
    /\ entry.version = read[m].version /\ entry.version # 0
    /\ entry.direct <=> read[m].direct
    /\ entry.via = read[m].via \cap Keys(read)

Resolved(read, m, entry) ==
    /\ entry.version = read[m].version /\ entry.version # 0
    /\ entry.direct <=> read[m].direct \/ m \in Orphans(read)
    /\ entry.via = read[m].via \cap Keys(read)

\* Under lis sync: first the parents, then the orphans.
ParentsRead(r, table) ==
    /\ Keys(table) = Keys(r.read) /\ DOMAIN r.todo \subseteq Keys(r.read)
    /\ \A m \in DOMAIN r.todo : Trimmed(r.read, m, r.todo[m])
    /\ \A m \in Keys(table) \ DOMAIN r.todo : Trimmed(r.read, m, table[m])

OrphansLeft(r, table) ==
    /\ Keys(table) = Keys(r.read) \ (Orphans(r.read) \ (r.scanned \cup DOMAIN r.todo))
    /\ DOMAIN r.todo \subseteq Orphans(r.read)
    /\ \A m \in DOMAIN r.todo : IF m \in r.scanned THEN Resolved(r.read, m, r.todo[m])
                                                   ELSE r.todo[m] = Gone
    /\ \A m \in Keys(table) \ DOMAIN r.todo : Resolved(r.read, m, table[m])

\* Up to the first write the manifest is what r has read.
Unwritten(r, table) ==
    /\ r.stage \in {"parsed", "waiting", "scan", "hygiene"} \cup Walking => table = r.read
    /\ r.stage \in {"scan", "hygiene"} => r.cmd # "add"

SyncFollows(r, table) ==
    /\ r.stage = "trim" /\ r.cmd = "sync" => ParentsRead(r, table)
    /\ r.stage = "resolve" /\ r.cmd = "sync" => OrphansLeft(r, table)

AddFollows(r, table) ==
    /\ r.stage = "upsert" => Upserting(r, table)
    /\ r.stage = "cleanup" => Cleaning(r, table)
    /\ r.stage = "trim" /\ r.cmd = "add" =>
          \E S \in SUBSET Modules : Rooted(table, r.dep, S) /\ Trimming(r, table, S)
    /\ r.stage = "resolve" /\ r.cmd = "add" =>
          \E S \in SUBSET Modules : Rooted(table, r.dep, S) /\ S \cap DOMAIN r.todo = {}

SyncInv ==
    \A p \in Procs :
        proc[p].clean => Unwritten(proc[p], manifest) /\ SyncFollows(proc[p], manifest)
AddInv == \A p \in Procs : proc[p].clean => AddFollows(proc[p], manifest)

-----------------------------------------------------------------------------
(***************************************************************************)
(* What the graph walk leaves alone.                                       *)
(***************************************************************************)
LEMMA GraphOnly ==
  ASSUME NEW r, NEW s, NEW fields, Differ(r, s, fields),
         fields \subseteq {"stage", "scanned"} \cup GraphFields
  PROVE  /\ s.cmd = r.cmd /\ s.dep = r.dep /\ s.read = r.read /\ s.todo = r.todo
         /\ "stage" \notin fields => s.stage = r.stage
         /\ "clean" \notin fields => s.clean = r.clean
         /\ "edges" \notin fields => s.edges = r.edges
         /\ "scanned" \notin fields => s.scanned = r.scanned
  BY DEF Differ, Fields, GraphFields

\* s is in the stage of r, or in a later one, and did not turn clean.
GoesOn(r, s) ==
    /\ s.cmd = r.cmd /\ s.dep = r.dep /\ s.read = r.read /\ s.todo = r.todo
    /\ s.clean => r.clean
    /\ \/ r.stage \in Walking /\ s.stage \in Walking
       \/ r.stage = "scan" /\ s.stage = "hygiene"

LEMMA WalkGoesOn ==
  ASSUME NEW r, NEW s, Walked(r, s) \/ Scanned(r, s)
  PROVE  GoesOn(r, s)
<1> USE DEF GoesOn, Walking, GraphFields
<1>1. CASE Fetched(r, s) \/ Requeued(r, s) \/ Reconciled(r, s) \/ WalkEnded(r, s) \/ Scanned(r, s)
  <2>1. CASE Fetched(r, s)
    BY <2>1, GraphOnly DEF Fetched
  <2>2. CASE Requeued(r, s)
    BY <2>2, GraphOnly DEF Requeued
  <2>3. CASE Reconciled(r, s)
    BY <2>3, GraphOnly DEF Reconciled
  <2>4. CASE WalkEnded(r, s)
    BY <2>4, GraphOnly DEF WalkEnded
  <2>5. CASE Scanned(r, s)
    BY <2>5, GraphOnly DEF Scanned
  <2> QED BY <1>1, <2>1, <2>2, <2>3, <2>4, <2>5
<1>2. ASSUME NEW m \in Modules, \/ Dequeued(r, s, m) \/ Skipped(r, s, m) \/ ListedNow(r, s, m)
                                \/ SkippedLate(r, s, m) \/ ListedLate(r, s, m)
      PROVE  GoesOn(r, s)
  <2>1. CASE Dequeued(r, s, m)
    BY <2>1, GraphOnly DEF Dequeued
  <2>2. CASE Skipped(r, s, m)
    BY <2>2, GraphOnly DEF Skipped
  <2>3. CASE ListedNow(r, s, m)
    BY <2>3, GraphOnly DEF ListedNow
  <2>4. CASE SkippedLate(r, s, m)
    BY <2>4, GraphOnly DEF SkippedLate
  <2>5. CASE ListedLate(r, s, m)
    BY <2>5, GraphOnly DEF ListedLate
  <2> QED BY <1>2, <2>1, <2>2, <2>3, <2>4, <2>5
<1>3. ASSUME NEW t, NEW m, NEW n, Met(r, t, m, n) PROVE GoesOn(r, t)
  BY <1>3, GraphOnly DEF Met
<1>4. ASSUME NEW t, NEW m, NEW n, Met(r, t, m, n), Gotten(t, s, n) PROVE GoesOn(r, s)
  <2>1. GoesOn(t, s)
    BY <1>4, GraphOnly DEF Gotten
  <2> QED BY <1>3, <1>4, <2>1
<1>5. ASSUME NEW U, Renewed(r, s, U) PROVE GoesOn(r, s)
  BY <1>5, GraphOnly DEF Renewed
<1>6. Expanded(r, s) => GoesOn(r, s)
  BY GraphOnly DEF Expanded
<1> QED BY <1>1, <1>2, <1>3, <1>4, <1>5, <1>6 DEF Walked

-----------------------------------------------------------------------------
(***************************************************************************)
(* No module becomes its own parent.                                       *)
(***************************************************************************)
LEMMA ListedIsOther ==
  ASSUME NEW m, NEW v
  PROVE  m \notin Listed(m, v)
  BY DEF Listed

LEMMA WalkKeepsSelfless ==
  ASSUME NEW r, Good(r), Selfless(r), NEW s, Walked(r, s) \/ Scanned(r, s)
  PROVE  Selfless(s)
<1>1. s.read = r.read /\ s.todo = r.todo
  BY WalkGoesOn DEF GoesOn
<1>2. r.edges \in [Modules -> SUBSET Modules]
  BY DEF Good, Typed
<1> DEFINE Other(x) == \A m \in Modules : m \notin x.edges[m]
<1>3. Other(r)
  BY DEF Selfless
<1>4. ASSUME NEW m \in Modules, ListedNow(r, s, m) \/ ListedLate(r, s, m) PROVE Other(s)
  BY <1>2, <1>3, <1>4, ListedIsOther DEF ListedNow, ListedLate
<1>5. ASSUME NEW t, NEW m \in Modules, NEW n, Met(r, t, m, n) PROVE Other(t)
  BY <1>2, <1>3, <1>5, ListedIsOther DEF Met
<1>6. ASSUME NEW t, NEW m \in Modules, NEW n, Met(r, t, m, n), Gotten(t, s, n) PROVE Other(s)
  <2>1. s.edges = t.edges
    BY <1>6, GraphOnly DEF Gotten, GraphFields
  <2> QED BY <1>5, <1>6, <2>1
<1>7. ASSUME NEW U, Renewed(r, s, U) PROVE Other(s)
  BY <1>3, <1>7 DEF Renewed
<1>8. ASSUME NEW m, \/ Dequeued(r, s, m) \/ Skipped(r, s, m) \/ SkippedLate(r, s, m)
                    \/ Fetched(r, s) \/ Requeued(r, s) \/ Reconciled(r, s) \/ WalkEnded(r, s)
                    \/ Expanded(r, s) \/ Scanned(r, s)
      PROVE  Other(s)
  <2>1. PICK fields : /\ Differ(r, s, fields) /\ "edges" \notin fields
                      /\ fields \subseteq {"stage", "scanned"} \cup GraphFields
    <3>1. \/ Differ(r, s, {"queue"}) \/ Differ(r, s, {"queue", "clean"})
          \/ Differ(r, s, {"queue", "clean", "versions"}) \/ Differ(r, s, {"stage", "queue", "gomod"})
          \/ Differ(r, s, {"stage", "walked"}) \/ Differ(r, s, {"stage", "queue"})
          \/ Differ(r, s, {"stage", "sure", "clean"}) \/ Differ(r, s, {"stage", "scanned"})
      BY <1>8 DEF Dequeued, Skipped, SkippedLate, Fetched, Requeued, Reconciled, WalkEnded,
                  Expanded, Scanned
    <3> QED BY <3>1 DEF GraphFields
  <2>2. s.edges = r.edges
    BY <2>1, GraphOnly
  <2> QED BY <1>3, <2>2
<1>9. Other(s)
  BY <1>4, <1>5, <1>6, <1>7, <1>8 DEF Walked
<1> QED BY <1>1, <1>9 DEF Selfless

LEMMA UpsertsSelfless ==
  ASSUME NEW r, Selfless(r), NEW m \in DOMAIN UpsertWrites(r)
  PROVE  m \notin UpsertWrites(r)[m].via
<1>1. m \in Modules /\ m \notin r.read[m].via /\ m \notin Parents(r, m)
  BY DEF UpsertWrites, Transitives, Selfless, NoSelf, Parents
<1>2. UpsertWrites(r)[m] \in {Direct(r.versions[m]),
          Transitive(r.versions[m], (r.read[m].via \ {r.dep}) \cup Parents(r, m))}
  BY DEF UpsertWrites
<1> QED BY <1>1, <1>2 DEF Direct, Transitive

LEMMA CleanupsSelfless ==
  ASSUME NEW r, Selfless(r), NEW m \in DOMAIN CleanupWrites(r)
  PROVE  m \notin CleanupWrites(r)[m].via
<1>1. m \in Modules /\ m \notin r.read[m].via
  BY DEF CleanupWrites, Keys, Selfless, NoSelf
<1>2. CleanupWrites(r)[m] \in {Gone, Transitive(r.gomod[m], r.read[m].via \ {r.dep})}
  BY DEF CleanupWrites
<1> QED BY <1>1, <1>2 DEF Gone, Transitive

LEMMA TrimsSelfless ==
  ASSUME NEW table, NoSelf(table), NEW m \in DOMAIN TrimWrites(table)
  PROVE  m \notin TrimWrites(table)[m].via
<1>1. m \in Modules /\ m \notin table[m].via
  BY DEF TrimWrites, Keys, NoSelf
<1>2. TrimWrites(table)[m] = Transitive(table[m].version, table[m].via \cap Keys(table))
  BY DEF TrimWrites
<1> QED BY <1>1, <1>2 DEF Transitive

LEMMA ResolvesSelfless ==
  ASSUME NEW table, NEW imported, NEW m \in DOMAIN ResolveWrites(table, imported)
  PROVE  ResolveWrites(table, imported)[m].via = {}
<1>1. ResolveWrites(table, imported)[m] \in {Gone, Direct(table[m].version)}
  BY DEF ResolveWrites
<1> QED BY <1>1 DEF Gone, Direct

LEMMA IdleIsSelfless == Selfless(Idle)
<1>1. /\ Idle.read = [m \in Modules |-> Gone] /\ DOMAIN Idle.todo = {}
      /\ Idle.edges = [m \in Modules |-> {}]
  BY DEF Idle, NoEdges
<1>2. Gone.via = {}
  BY DEF Gone
<1> QED BY <1>1, <1>2 DEF Selfless, NoSelf

LEMMA OthersKeepSelfless ==
  ASSUME NoSelf(manifest), NEW r, Selfless(r), NEW s,
         \/ s = Idle \/ Began(s) \/ Locks(r, s)
         \/ CleanupBegun(r, s) \/ TrimBegun(r, s) \/ ResolveBegun(r, s) \/ Declared(r, s)
  PROVE  Selfless(s)
<1>1. CASE Began(s)
  <2>1. s.read = manifest /\ s.todo = Idle.todo /\ s.edges = Idle.edges
    BY <1>1 DEF Began, Differ, Fields
  <2> QED BY <2>1, IdleIsSelfless DEF Selfless
<1>2. CASE Locks(r, s)
  <2>1. s.read = r.read /\ s.todo = r.todo /\ s.edges = r.edges
    BY <1>2 DEF Locks, Differ, Fields
  <2> QED BY <2>1 DEF Selfless
<1>3. CASE CleanupBegun(r, s)
  <2>1. s.read = r.read /\ s.todo = CleanupWrites(r) /\ s.edges = r.edges
    BY <1>3 DEF CleanupBegun, Differ, Fields
  <2> QED BY <2>1, CleanupsSelfless DEF Selfless
<1>4. CASE TrimBegun(r, s)
  <2>1. s.read = r.read /\ s.todo = TrimWrites(manifest) /\ s.edges = Idle.edges
    BY <1>4 DEF TrimBegun, Differ, Fields
  <2> QED BY <2>1, TrimsSelfless, IdleIsSelfless DEF Selfless
<1>5. CASE ResolveBegun(r, s)
  <2>1. s.read = r.read /\ s.todo = ResolveWrites(manifest, r.scanned) /\ s.edges = r.edges
    BY <1>5 DEF ResolveBegun, Differ, Fields
  <2> QED BY <2>1, ResolvesSelfless DEF Selfless
<1>6. CASE Declared(r, s)
  <2>1. s.read = r.read /\ s.todo = UpsertWrites(r) /\ s.edges = r.edges
    BY <1>6 DEF Declared, Differ, Fields
  <2> QED BY <2>1, UpsertsSelfless DEF Selfless
<1> QED BY <1>1, <1>2, <1>3, <1>4, <1>5, <1>6, IdleIsSelfless

LEMMA WroteKeepsSelfless ==
  ASSUME NEW r, Selfless(r), NEW s, NEW m, Wrote(r, s, m)
  PROVE  Selfless(s) /\ m \notin r.todo[m].via
<1>1. /\ s.read = r.read /\ s.edges = r.edges /\ m \in DOMAIN r.todo
      /\ s.todo = [n \in DOMAIN r.todo \ {m} |-> r.todo[n]]
  BY DEF Wrote, Differ, Fields
<1>2. \A n \in DOMAIN s.todo : n \in DOMAIN r.todo /\ s.todo[n] = r.todo[n]
  BY <1>1
<1> QED BY <1>1, <1>2 DEF Selfless

LEMMA SoiledIsSelfless ==
  ASSUME NEW r, Good(r), Selfless(r)
  PROVE  Selfless(Soiled(r))
<1> DEFINE s == Soiled(r)
<1>1. Differ(r, s, {"clean"})
  BY SoiledIsGood
<1> HIDE DEF s
<1>2. s.read = r.read /\ s.todo = r.todo /\ s.edges = r.edges
  BY <1>1 DEF Differ, Fields
<1>3. Selfless(s)
  BY <1>2 DEF Selfless
<1> QED BY <1>3 DEF s

LEMMA SelfSteps == TypeInv /\ SelfInv /\ [Next]_vars => SelfInv'
<1> SUFFICES ASSUME TypeInv, SelfInv, [Next]_vars PROVE SelfInv'
  OBVIOUS
<1>1. ASSUME NEW p \in Procs, NEW s, Selfless(s), Turns(p, s), UNCHANGED manifest
      PROVE  SelfInv'
  BY <1>1 DEF TypeInv, SelfInv, Turns, Selfless, NoSelf
<1>2. ASSUME NEW p \in Procs, NEW s, Selfless(s), Soils(p, s), NEW m \in Modules, NEW entry,
             m \notin entry.via, manifest' = [manifest EXCEPT ![m] = entry]
      PROVE  SelfInv'
  <2>1. NoSelf(manifest')
    BY <1>2 DEF TypeInv, Table, SelfInv, NoSelf
  <2>2. \A q \in Procs : Selfless(proc'[q])
    BY <1>2, SoiledIsSelfless DEF TypeInv, SelfInv, Soils
  <2> QED BY <2>1, <2>2 DEF SelfInv, Selfless, NoSelf
<1>3. ASSUME NEW p \in Procs, Start(p) \/ Work(p) \/ Quit(p)
      PROVE  SelfInv'
  <2>1. Steps(p) /\ Good(proc[p]) /\ Selfless(proc[p]) /\ NoSelf(manifest)
    BY <1>3, EveryStep DEF TypeInv, SelfInv
  <2>2. ASSUME NEW s, Turns(p, s), UNCHANGED manifest,
               \/ s = Idle \/ Began(s) \/ Locks(proc[p], s)
               \/ Walked(proc[p], s) \/ Scanned(proc[p], s)
               \/ CleanupBegun(proc[p], s) \/ TrimBegun(proc[p], s) \/ ResolveBegun(proc[p], s)
        PROVE  SelfInv'
    BY <1>1, <2>1, <2>2, WalkKeepsSelfless, OthersKeepSelfless
  <2>3. ASSUME NEW s, Soils(p, s), Declared(proc[p], s),
               manifest' = [manifest EXCEPT ![proc[p].dep] = Direct(proc[p].versions[proc[p].dep])]
        PROVE  SelfInv'
    <3>1. Selfless(s) /\ proc[p].dep \in Modules
      BY <2>1, <2>3, OthersKeepSelfless, DeclaredKeepsGood
    <3>2. proc[p].dep \notin Direct(proc[p].versions[proc[p].dep]).via
      BY DEF Direct
    <3> QED BY <1>2, <2>3, <3>1, <3>2
  <2>4. ASSUME NEW s, NEW m \in DOMAIN proc[p].todo, Soils(p, s), Wrote(proc[p], s, m),
               manifest' = [manifest EXCEPT ![m] = proc[p].todo[m]]
        PROVE  SelfInv'
    <3>1. Selfless(s) /\ m \notin proc[p].todo[m].via /\ m \in Modules
      BY <2>1, <2>4, WroteKeepsSelfless, WroteKeepsGood
    <3> QED BY <1>2, <2>4, <3>1
  <2> QED BY <2>1, <2>2, <2>3, <2>4 DEF Steps
<1>4. CASE Edit
  <2>1. PICK m \in Modules, entry \in {Gone} \cup {Direct(v) : v \in Versions} :
          manifest' = [manifest EXCEPT ![m] = entry]
    BY <1>4 DEF Edit
  <2>2. entry.via = {}
    BY DEF Gone, Direct
  <2>3. NoSelf(manifest')
    BY <2>1, <2>2 DEF TypeInv, Table, SelfInv, NoSelf
  <2>4. \A q \in Procs : Selfless(proc'[q])
    BY <1>4, EditSoils, SoiledIsSelfless DEF TypeInv, SelfInv
  <2> QED BY <2>3, <2>4 DEF SelfInv, Selfless, NoSelf
<1>5. CASE OtherTakesTarget \/ OtherLeavesTarget \/ UNCHANGED vars
  <2>1. UNCHANGED <<manifest, proc>>
    BY <1>5 DEF OtherTakesTarget, OtherLeavesTarget, env, vars
  <2> QED BY <2>1 DEF SelfInv, Selfless, NoSelf
<1> QED BY <1>3, <1>4, <1>5 DEF Next

LEMMA SelfStarts ==
  ASSUME NoSelfStarts
  PROVE  Init => SelfInv
<1> SUFFICES ASSUME Init PROVE SelfInv
  OBVIOUS
<1>1. NoSelf(manifest) /\ \A p \in Procs : proc[p] = Idle
  BY DEF Init, NoSelfStarts
<1> QED BY <1>1, IdleIsSelfless DEF SelfInv

LEMMA SelfInvariant ==
  ASSUME NoSelfStarts
  PROVE  Spec => []SelfInv
  BY SelfStarts, SelfSteps, TypeInvariant, PTL DEF Spec

-----------------------------------------------------------------------------
(***************************************************************************)
(* lis sync, and any command before its first write.                       *)
(***************************************************************************)
LEMMA WriteOnly ==
  ASSUME NEW r, NEW s, NEW fields, Differ(r, s, fields), fields \subseteq {"stage", "todo", "base"}
  PROVE  /\ s.cmd = r.cmd /\ s.dep = r.dep /\ s.read = r.read /\ s.scanned = r.scanned
         /\ s.gomod = r.gomod /\ s.versions = r.versions /\ s.edges = r.edges
         /\ s.expanded = r.expanded /\ s.clean = r.clean
         /\ "stage" \notin fields => s.stage = r.stage
  BY DEF Differ, Fields

LEMMA WroteOnly ==
  ASSUME NEW r, NEW s, NEW m, Wrote(r, s, m)
  PROVE  /\ s.stage = r.stage /\ s.cmd = r.cmd /\ s.dep = r.dep /\ s.read = r.read
         /\ s.scanned = r.scanned /\ s.versions = r.versions /\ s.edges = r.edges
         /\ s.clean = r.clean /\ m \in DOMAIN r.todo /\ r.stage \in Writing
         /\ DOMAIN s.todo = DOMAIN r.todo \ {m}
         /\ \A n \in DOMAIN s.todo : s.todo[n] = r.todo[n]
<1>1. /\ Differ(r, s, {"todo"}) /\ m \in DOMAIN r.todo /\ r.stage \in Writing
      /\ s.todo = [n \in DOMAIN r.todo \ {m} |-> r.todo[n]]
  BY DEF Wrote
<1>2. \A n \in DOMAIN s.todo : s.todo[n] = r.todo[n]
  BY <1>1
<1> QED BY <1>1, <1>2, WriteOnly

\* A command that has not written yet: it goes on from what it read.
LEMMA UnwrittenGoesOn ==
  ASSUME NEW r, Unwritten(r, manifest), r.clean, NEW s,
         Locks(r, s) \/ Walked(r, s) \/ Scanned(r, s), s.clean
  PROVE  Unwritten(s, manifest) /\ s.stage \notin Writing
<1>1. CASE Locks(r, s)
  <2>1. s.read = r.read /\ s.cmd = r.cmd
    BY <1>1 DEF Locks, Differ, Fields
  <2> QED BY <1>1, <2>1 DEF Locks, Unwritten, Walking, Writing
<1>2. CASE Walked(r, s) \/ Scanned(r, s)
  <2>1. GoesOn(r, s)
    BY <1>2, WalkGoesOn
  <2> QED BY <2>1 DEF GoesOn, Unwritten, Walking, Writing
<1> QED BY <1>1, <1>2

LEMMA WithParentsIsTransitive ==
  ASSUME NEW table \in Table, NEW m \in Modules, table[m].via # {}
  PROVE  ~ table[m].direct
<1>1. table[m] \in Entries \cup {Gone}
  BY DEF Table
<1>2. table[m] # Gone /\ \A v \in Versions : table[m] # Direct(v)
  BY DEF Gone, Direct
<1>3. PICK v \in Versions, parents \in SUBSET Modules : table[m] = Transitive(v, parents)
  BY <1>1, <1>2 DEF Entries
<1>4. table[m].direct = FALSE
  BY <1>3 DEF Transitive
<1> QED BY <1>4

LEMMA TrimReadsParents ==
  ASSUME NEW table \in Table, NEW r, r.read = table, r.todo = TrimWrites(table)
  PROVE  ParentsRead(r, table)
<1>1. DOMAIN r.todo \subseteq Keys(table) /\ Keys(table) \subseteq Modules
  BY DEF TrimWrites, Keys
<1>2. ASSUME NEW m \in DOMAIN r.todo
      PROVE  Trimmed(table, m, r.todo[m])
  <2>1. /\ r.todo[m] = Transitive(table[m].version, table[m].via \cap Keys(table))
        /\ ~ table[m].via \subseteq Keys(table)
    BY <1>2 DEF TrimWrites
  <2>2. table[m].version # 0
    BY <1>1, <1>2, KeysAreEntries DEF Versions
  <2>3. ~ table[m].direct
    BY <1>1, <1>2, <2>1, WithParentsIsTransitive
  <2> QED BY <2>1, <2>2, <2>3 DEF Transitive, Trimmed
<1>3. ASSUME NEW m \in Keys(table) \ DOMAIN r.todo PROVE Trimmed(table, m, table[m])
  <2>1. table[m].via \subseteq Keys(table)
    BY <1>3 DEF TrimWrites
  <2>2. table[m].version # 0
    BY <1>3, KeysAreEntries DEF Versions
  <2>3. table[m].via = table[m].via \cap Keys(table)
    BY <2>1
  <2> QED BY <2>2, <2>3 DEF Trimmed
<1> QED BY <1>1, <1>2, <1>3 DEF ParentsRead

\* A write to a table, and which modules have an entry after it.
Changed(table, after, m, entry) ==
    after[m] = entry /\ \A n \in Modules \ {m} : after[n] = table[n]

LEMMA Changes ==
  ASSUME NEW table \in Table, NEW m \in Modules, NEW entry
  PROVE  Changed(table, [table EXCEPT ![m] = entry], m, entry)
  BY DEF Table, Changed

LEMMA KeysAfter ==
  ASSUME NEW table, NEW after, NEW m \in Modules, NEW entry \in Entries \cup {Gone},
         Changed(table, after, m, entry)
  PROVE  /\ entry.version = 0 => Keys(after) = Keys(table) \ {m}
         /\ entry.version # 0 => Keys(after) = Keys(table) \cup {m}
<1>1. after[m] = entry /\ entry.version \in Nat /\ \A n \in Modules \ {m} : after[n] = table[n]
  BY EntriesAreWrites, BoundsAssumption DEF Writes, Changed
<1>2. m \in Keys(after) <=> entry.version # 0
  BY <1>1 DEF Keys
<1>3. \A n \in Modules \ {m} : n \in Keys(after) <=> n \in Keys(table)
  BY <1>1 DEF Keys
<1>4. Keys(after) \subseteq Modules /\ Keys(table) \subseteq Modules
  BY DEF Keys
<1> QED BY <1>2, <1>3, <1>4

LEMMA TrimKeepsParents ==
  ASSUME NEW table \in Table, NEW r, Good(r), ParentsRead(r, table), NEW s, NEW m, Wrote(r, s, m),
         NEW after, Changed(table, after, m, r.todo[m])
  PROVE  ParentsRead(s, after)
<1>1. m \in Modules /\ r.todo[m] \in Entries \cup {Gone} /\ m \in DOMAIN r.todo
  BY WroteKeepsGood, WroteOnly
<1> DEFINE entry == r.todo[m]
<1>0. after[m] = entry /\ \A n \in Modules \ {m} : after[n] = table[n]
  BY DEF Changed
<1>2. /\ entry.version = 0 => Keys(after) = Keys(table) \ {m}
      /\ entry.version # 0 => Keys(after) = Keys(table) \cup {m}
  BY <1>1, KeysAfter
<1>3. /\ Trimmed(r.read, m, r.todo[m]) /\ m \in Keys(r.read)
      /\ Keys(table) = Keys(r.read) /\ Keys(table) \subseteq Modules
  BY <1>1 DEF ParentsRead, Keys
<1>4. Keys(after) = Keys(r.read)
  BY <1>2, <1>3 DEF Trimmed
<1>5. \A n \in Keys(after) \ DOMAIN s.todo : Trimmed(r.read, n, after[n])
  <2> SUFFICES ASSUME NEW n \in Keys(after) \ DOMAIN s.todo PROVE Trimmed(r.read, n, after[n])
    OBVIOUS
  <2>1. n = m \/ n \in Keys(table) \ DOMAIN r.todo
    BY <1>3, <1>4, WroteOnly
  <2> QED BY <1>0, <1>3, <2>1 DEF ParentsRead
<1>6. s.read = r.read /\ DOMAIN s.todo = DOMAIN r.todo \ {m} /\ \A n \in DOMAIN s.todo : s.todo[n] = r.todo[n]
  BY WroteOnly
<1>7. DOMAIN s.todo \subseteq Keys(s.read) /\ \A n \in DOMAIN s.todo : Trimmed(s.read, n, s.todo[n])
  BY <1>6 DEF ParentsRead
<1> QED BY <1>4, <1>5, <1>6, <1>7 DEF ParentsRead

\* The entries without parents are the orphans of the table that lis sync read.
LEMMA ResolveFindsOrphans ==
  ASSUME NEW table \in Table, NEW r, ParentsRead(r, table), DOMAIN r.todo = {}, NEW s,
         s.read = r.read, s.scanned = r.scanned, s.todo = ResolveWrites(table, r.scanned)
  PROVE  OrphansLeft(s, table)
<1>1. Keys(table) = Keys(s.read) /\ \A m \in Keys(table) : Trimmed(s.read, m, table[m])
  BY DEF ParentsRead
<1>2. DOMAIN s.todo = {m \in Keys(table) : ~ table[m].direct /\ table[m].via = {}}
  BY DEF ResolveWrites
<1>3. DOMAIN s.todo = Orphans(s.read)
  BY <1>1, <1>2 DEF Trimmed, Orphans
<1>4. ASSUME NEW m \in DOMAIN s.todo
      PROVE  IF m \in s.scanned THEN Resolved(s.read, m, s.todo[m]) ELSE s.todo[m] = Gone
  <2>1. /\ m \in Keys(table) /\ m \in Orphans(s.read) /\ table[m].via = {}
        /\ s.todo[m] = IF m \in s.scanned THEN Direct(table[m].version) ELSE Gone
    BY <1>2, <1>3, <1>4 DEF ResolveWrites
  <2>2. Trimmed(s.read, m, table[m])
    BY <1>1, <2>1
  <2> QED BY <2>1, <2>2 DEF Direct, Trimmed, Resolved
<1>5. ASSUME NEW m \in Keys(table) \ DOMAIN s.todo
      PROVE  Resolved(s.read, m, table[m])
  BY <1>1, <1>3, <1>5 DEF Trimmed, Resolved
<1> QED BY <1>1, <1>3, <1>4, <1>5 DEF OrphansLeft

LEMMA ResolveKeepsOrphans ==
  ASSUME NEW table \in Table, NEW r, Good(r), OrphansLeft(r, table), NEW s, NEW m, Wrote(r, s, m),
         NEW after, Changed(table, after, m, r.todo[m])
  PROVE  OrphansLeft(s, after)
<1>1. m \in Modules /\ r.todo[m] \in Entries \cup {Gone} /\ m \in DOMAIN r.todo
  BY WroteKeepsGood, WroteOnly
<1> DEFINE entry == r.todo[m]
<1>2. after[m] = entry /\ \A n \in Modules \ {m} : after[n] = table[n]
  BY DEF Changed
<1>3. /\ entry.version = 0 => Keys(after) = Keys(table) \ {m}
      /\ entry.version # 0 => Keys(after) = Keys(table) \cup {m}
  BY <1>1, KeysAfter
<1>4. /\ s.read = r.read /\ s.scanned = r.scanned /\ DOMAIN s.todo = DOMAIN r.todo \ {m}
      /\ \A n \in DOMAIN s.todo : s.todo[n] = r.todo[n]
  BY WroteOnly
<1>5. /\ Keys(table) = Keys(r.read) \ (Orphans(r.read) \ (r.scanned \cup DOMAIN r.todo))
      /\ m \in Orphans(r.read) /\ Orphans(r.read) \subseteq Keys(r.read)
      /\ IF m \in r.scanned THEN Resolved(r.read, m, entry) ELSE entry = Gone
  BY <1>1 DEF OrphansLeft, Orphans
<1>6. entry.version # 0 <=> m \in r.scanned
  BY <1>5 DEF Resolved, Gone
<1>7. Keys(after) = Keys(s.read) \ (Orphans(s.read) \ (s.scanned \cup DOMAIN s.todo))
  BY <1>1, <1>3, <1>4, <1>5, <1>6
<1>8. /\ DOMAIN s.todo \subseteq Orphans(s.read)
      /\ \A n \in DOMAIN s.todo : IF n \in s.scanned THEN Resolved(s.read, n, s.todo[n])
                                                     ELSE s.todo[n] = Gone
  BY <1>4 DEF OrphansLeft
<1>9. ASSUME NEW n \in Keys(after) \ DOMAIN s.todo
      PROVE  Resolved(s.read, n, after[n])
  <2>1. CASE n = m
    BY <1>2, <1>4, <1>5, <1>7, <1>9, <2>1
  <2>2. CASE n # m
    <3>1. n \in Keys(table) \ DOMAIN r.todo /\ n \in Modules
      BY <1>3, <1>4, <1>9, <2>2 DEF Keys
    <3> QED BY <1>2, <1>4, <2>2, <3>1 DEF OrphansLeft
  <2> QED BY <2>1, <2>2
<1> QED BY <1>7, <1>8, <1>9 DEF OrphansLeft

\* The commands of others are left alone, or they are not undisturbed any more.
LEMMA SyncSteps == TypeInv /\ SyncInv /\ [Next]_vars => SyncInv'
<1> SUFFICES ASSUME TypeInv, SyncInv, [Next]_vars PROVE SyncInv'
  OBVIOUS
<1> DEFINE Fine(r, table) == r.clean => Unwritten(r, table) /\ SyncFollows(r, table)
<1>1. ASSUME NEW p \in Procs, Start(p) \/ Work(p) \/ Quit(p)
      PROVE  \A q \in Procs : Fine(proc'[q], manifest')
  <2> DEFINE r == proc[p]
  <2>1. Steps(p) /\ Good(r) /\ Fine(r, manifest) /\ manifest \in Table /\ DOMAIN proc = Procs
    BY <1>1, EveryStep DEF TypeInv, SyncInv
  <2>2. ASSUME UNCHANGED manifest, NEW s, Turns(p, s),
               \/ s = Idle \/ Began(s) \/ Locks(r, s) \/ Walked(r, s) \/ Scanned(r, s)
               \/ CleanupBegun(r, s) \/ TrimBegun(r, s) \/ ResolveBegun(r, s)
        PROVE  \A q \in Procs : Fine(proc'[q], manifest')
    <3> HIDE DEF r
    <3>1. ASSUME s = Idle PROVE Fine(s, manifest)
      <4>1. ~ s.clean
        BY <3>1 DEF Idle
      <4> QED BY <4>1
    <3>2. ASSUME Began(s) PROVE Fine(s, manifest)
      BY <3>2 DEF Began, Unwritten, SyncFollows
    <3>3. ASSUME Locks(r, s) \/ Walked(r, s) \/ Scanned(r, s) PROVE Fine(s, manifest)
      <4>1. s.clean => r.clean
        BY <3>3, WalkGoesOn DEF GoesOn, Locks, Differ, Fields
      <4> QED BY <2>1, <3>3, <4>1, UnwrittenGoesOn DEF SyncFollows, Writing
    <3>4. ASSUME CleanupBegun(r, s) PROVE Fine(s, manifest)
      BY <3>4 DEF CleanupBegun, Unwritten, SyncFollows, Walking
    <3>5. ASSUME TrimBegun(r, s) PROVE Fine(s, manifest)
      <4>1. /\ s.stage = "trim" /\ s.todo = TrimWrites(manifest) /\ s.cmd = r.cmd
            /\ s.read = r.read /\ s.clean = r.clean
            /\ r.stage = "hygiene" \/ r.stage = "cleanup"
        BY <3>5 DEF TrimBegun
      <4>2. s.clean /\ s.cmd = "sync" => manifest = s.read
        BY <2>1, <4>1 DEF Good, Formed, Unwritten
      <4> QED BY <2>1, <4>1, <4>2, TrimReadsParents DEF Unwritten, SyncFollows, Walking
    <3>6. ASSUME ResolveBegun(r, s) PROVE Fine(s, manifest)
      <4>1. /\ Differ(r, s, {"stage", "todo", "base"}) /\ r.stage = "trim" /\ DOMAIN r.todo = {}
            /\ s.stage = "resolve" /\ s.todo = ResolveWrites(manifest, r.scanned)
        BY <3>6 DEF ResolveBegun
      <4>2. /\ s.cmd = r.cmd /\ s.read = r.read /\ s.scanned = r.scanned /\ s.clean = r.clean
        BY <4>1, WriteOnly
      <4> QED BY <2>1, <4>1, <4>2, ResolveFindsOrphans DEF Unwritten, SyncFollows, Walking
    <3>7. Fine(s, manifest)
      BY <2>2, <3>1, <3>2, <3>3, <3>4, <3>5, <3>6
    <3>8. \A q \in Procs \ {p} : proc'[q] = proc[q]
      BY <2>1, <2>2 DEF Turns
    <3>9. proc'[p] = s
      BY <2>1, <2>2 DEF Turns
    <3> HIDE DEF Fine
    <3>10. \A q \in Procs : Fine(proc[q], manifest)
      BY DEF SyncInv, Fine
    <3> QED BY <2>2, <3>7, <3>8, <3>9, <3>10
  <2>3. ASSUME NEW s, Soils(p, s), s.clean => Unwritten(s, manifest') /\ SyncFollows(s, manifest')
        PROVE  \A q \in Procs : Fine(proc'[q], manifest')
    <3>1. \A q \in Procs \ {p} : ~ proc'[q].clean
      BY <2>3, SoiledIsGood DEF Soils, TypeInv
    <3> QED BY <2>3, <3>1 DEF Soils
  <2>4. ASSUME NEW s, Soils(p, s), Declared(r, s)
        PROVE  \A q \in Procs : Fine(proc'[q], manifest')
    BY <2>3, <2>4 DEF Declared, Unwritten, SyncFollows, Walking
  <2>5. ASSUME NEW s, NEW m \in DOMAIN r.todo, Soils(p, s), Wrote(r, s, m),
               manifest' = [manifest EXCEPT ![m] = r.todo[m]]
        PROVE  \A q \in Procs : Fine(proc'[q], manifest')
    <3> HIDE DEF r
    <3>1. s.stage = r.stage /\ s.cmd = r.cmd /\ s.clean = r.clean /\ r.stage \in Writing
      BY <2>5, WroteOnly
    <3>2. Unwritten(s, manifest')
      BY <3>1 DEF Unwritten, Walking, Writing
    <3>3. s.clean => SyncFollows(s, manifest')
      <4>1. m \in Modules
        BY <2>1, <2>5, WroteKeepsGood
      <4>2. Changed(manifest, manifest', m, r.todo[m])
        BY <2>1, <2>5, <4>1, Changes
      <4> QED BY <2>1, <2>5, <3>1, <4>2, TrimKeepsParents, ResolveKeepsOrphans DEF SyncFollows
    <3> QED BY <2>3, <2>5, <3>2, <3>3
  <2> QED BY <2>1, <2>2, <2>4, <2>5 DEF Steps
<1>2. CASE Edit
  <2>1. \A q \in Procs : ~ proc'[q].clean
    BY <1>2, EditSoils, SoiledIsGood DEF TypeInv
  <2> QED BY <2>1 DEF SyncInv
<1>3. CASE OtherTakesTarget \/ OtherLeavesTarget \/ UNCHANGED vars
  <2>1. UNCHANGED <<manifest, proc>>
    BY <1>3 DEF OtherTakesTarget, OtherLeavesTarget, env, vars
  <2> QED BY <2>1 DEF SyncInv, Unwritten, SyncFollows, ParentsRead, OrphansLeft, Trimmed, Resolved, Orphans, Keys
<1>4. (\A q \in Procs : Fine(proc'[q], manifest')) => SyncInv'
  BY DEF SyncInv, Unwritten, SyncFollows, ParentsRead, OrphansLeft, Trimmed, Resolved, Orphans, Keys
<1> QED BY <1>1, <1>2, <1>3, <1>4 DEF Next

LEMMA SyncInvariant == Spec => []SyncInv
<1>1. Init => SyncInv
  BY DEF Init, SyncInv, Idle
<1> QED BY <1>1, SyncSteps, TypeInvariant, PTL DEF Spec

\* SyncRemovesOrphans: `lis sync` that nobody disturbs removes exactly the orphans of the table it
\* read that src/ does not import, makes the others direct, and leaves each entry its version and
\* the parents that were in that table, however many writes it takes and with whatever parents
\* the manifest starts (trim_dead_via_parents and resolve_empty_via, in their order).
THEOREM SyncLeavesNoOrphanItRead == Spec => []SyncRemovesOrphans
<1>1. TypeInv /\ SyncInv => SyncRemovesOrphans
  <2> SUFFICES ASSUME TypeInv, SyncInv, NEW p \in Procs,
                      Done(p), proc[p].cmd = "sync", proc[p].clean
               PROVE  LET read == proc[p].read IN
                      /\ Keys(manifest) = Keys(read) \ (Orphans(read) \ proc[p].scanned)
                      /\ \A m \in Keys(manifest) :
                            /\ manifest[m].version = read[m].version
                            /\ manifest[m].direct <=> read[m].direct \/ m \in Orphans(read)
                            /\ manifest[m].via = read[m].via \cap Keys(read)
    BY DEF SyncRemovesOrphans
  <2>1. OrphansLeft(proc[p], manifest) /\ DOMAIN proc[p].todo = {}
    BY DEF SyncInv, SyncFollows, Done
  <2> QED BY <2>1 DEF OrphansLeft, Resolved
<1> QED BY <1>1, TypeInvariant, SyncInvariant, PTL

-----------------------------------------------------------------------------
(***************************************************************************)
(* lis add: from the declaration to the trimming.                          *)
(***************************************************************************)
LEMMA SamePlan ==
  ASSUME NEW r, NEW s, s.dep = r.dep, s.read = r.read, s.versions = r.versions, s.edges = r.edges
  PROVE  /\ \A m : Parents(s, m) = Parents(r, m)
         /\ Transitives(s) = Transitives(r)
         /\ UpsertWrites(s) = UpsertWrites(r)
         /\ \A table, m : Placed(s, table, m) <=> Placed(r, table, m)
<1>1. \A m : Parents(s, m) = Parents(r, m)
  BY DEF Parents
<1>2. Transitives(s) = Transitives(r)
  BY <1>1 DEF Transitives
<1>3. UpsertWrites(s) = UpsertWrites(r)
  BY <1>1, <1>2 DEF UpsertWrites, WasDirect
<1>4. \A table, m : Placed(s, table, m) <=> Placed(r, table, m)
  BY <1>1 DEF Placed
<1> QED BY <1>1, <1>2, <1>3, <1>4

\* The transitives of a closed graph are listed.
LEMMA TransitivesAreListed ==
  ASSUME NEW r, Typed(r), Closed(r)
  PROVE  /\ Transitives(r) \subseteq r.expanded \ {r.dep}
         /\ \A m \in Transitives(r) : r.versions[m] # 0
<1>1. ASSUME NEW m \in Transitives(r)
      PROVE  m \in r.expanded \ {r.dep} /\ r.versions[m] # 0
  <2>1. PICK k \in Modules : m \in r.edges[k]
    BY DEF Transitives, Parents
  <2>2. k \in r.expanded
    BY <2>1 DEF Closed
  <2>3. m \in r.expanded
    BY <2>1, <2>2 DEF Closed
  <2> QED BY <2>3 DEF Closed, Covered, Transitives
<1> QED BY <1>1

LEMMA KeptIsPlaced ==
  ASSUME NEW r, NEW m \in Transitives(r), r.versions[m] # 0, m \notin DOMAIN UpsertWrites(r)
  PROVE  Placed(r, r.read, m)
<1>1. WasDirect(r, m) /\ r.read[m].version = r.versions[m]
  BY DEF UpsertWrites, Transitives
<1> QED BY <1>1 DEF Placed, WasDirect

LEMMA UpsertPlaces ==
  ASSUME NEW r, NEW m \in DOMAIN UpsertWrites(r), NEW table, table[m] = UpsertWrites(r)[m]
  PROVE  Placed(r, table, m)
<1>1. table[m] \in {Direct(r.versions[m]),
          Transitive(r.versions[m], (r.read[m].via \ {r.dep}) \cup Parents(r, m))}
  BY DEF UpsertWrites
<1> QED BY <1>1 DEF Placed, Direct, Transitive

LEMMA DeclaredFollows ==
  ASSUME NEW r, Good(r), Closed(r), NEW s, Declared(r, s), NEW table \in Table, table = r.read,
         NEW after, Changed(table, after, r.dep, Direct(r.versions[r.dep]))
  PROVE  Upserting(s, after)
<1>1. /\ Differ(r, s, {"stage", "todo"}) /\ s.todo = UpsertWrites(r)
      /\ r.dep \in Modules /\ Typed(r)
  BY DeclaredKeepsGood DEF Declared, Good
<1>2. s.dep = r.dep /\ s.read = r.read /\ s.versions = r.versions /\ s.edges = r.edges
  BY <1>1, WriteOnly
<1>3. after[s.dep] = Direct(s.versions[s.dep])
  BY <1>2 DEF Changed
<1>4. \A m \in DOMAIN s.todo : m \in DOMAIN UpsertWrites(s) /\ s.todo[m] = UpsertWrites(s)[m]
  BY <1>1, <1>2, SamePlan
<1>5. ASSUME NEW m \in Transitives(s) \ DOMAIN s.todo
      PROVE  Placed(s, after, m)
  <2>1. m \in Transitives(r) /\ m \notin DOMAIN UpsertWrites(r)
    BY <1>1, <1>2, <1>5, SamePlan
  <2>2. Placed(r, r.read, m)
    BY <1>1, <2>1, TransitivesAreListed, KeptIsPlaced
  <2>3. after[m] = r.read[m]
    BY <2>1 DEF Changed, Transitives
  <2>4. Placed(r, after, m)
    BY <2>2, <2>3 DEF Placed
  <2> QED BY <1>2, <2>4, SamePlan
<1> QED BY <1>3, <1>4, <1>5 DEF Upserting

LEMMA UpsertFollows ==
  ASSUME NEW r, r.dep \in Modules, Upserting(r, manifest), NEW s, NEW m, Wrote(r, s, m),
         NEW after, Changed(manifest, after, m, r.todo[m])
  PROVE  Upserting(s, after)
<1>1. /\ s.dep = r.dep /\ s.read = r.read /\ s.versions = r.versions /\ s.edges = r.edges
      /\ m \in DOMAIN r.todo /\ DOMAIN s.todo = DOMAIN r.todo \ {m}
      /\ \A n \in DOMAIN s.todo : s.todo[n] = r.todo[n]
  BY WroteOnly
<1>2. m \in DOMAIN UpsertWrites(r) /\ r.todo[m] = UpsertWrites(r)[m]
  BY <1>1 DEF Upserting
<1>3. m \in Modules \ {r.dep}
  BY <1>2 DEF UpsertWrites, Transitives
<1>4. after[s.dep] = Direct(s.versions[s.dep])
  BY <1>1, <1>3 DEF Changed, Upserting
<1>5. \A n \in DOMAIN s.todo : n \in DOMAIN UpsertWrites(s) /\ s.todo[n] = UpsertWrites(s)[n]
  BY <1>1, SamePlan DEF Upserting
<1>6. ASSUME NEW n \in Transitives(s) \ DOMAIN s.todo
      PROVE  Placed(s, after, n)
  <2>1. CASE n = m
    BY <1>1, <1>2, <2>1, UpsertPlaces, SamePlan DEF Changed
  <2>2. CASE n # m
    <3>1. n \in Transitives(r) \ DOMAIN r.todo /\ n \in Modules
      BY <1>1, <1>6, <2>2, SamePlan DEF Transitives
    <3>2. Placed(r, manifest, n) /\ after[n] = manifest[n]
      BY <2>2, <3>1 DEF Upserting, Changed
    <3>3. Placed(r, after, n)
      BY <3>2 DEF Placed
    <3> QED BY <1>1, <3>3, SamePlan
  <2> QED BY <2>1, <2>2
<1> QED BY <1>1, <1>4, <1>5, <1>6 DEF Upserting

LEMMA CleanupFollows ==
  ASSUME NEW r, Upserting(r, manifest), r.dep \in Modules, NoSelf(r.read), NEW s, CleanupBegun(r, s)
  PROVE  Cleaning(s, manifest)
<1>1. /\ Differ(r, s, {"stage", "todo"}) /\ DOMAIN r.todo = {} /\ s.todo = CleanupWrites(r)
  BY DEF CleanupBegun
<1>2. s.dep = r.dep /\ s.read = r.read /\ s.versions = r.versions /\ s.edges = r.edges
  BY <1>1, WriteOnly
<1>3. DOMAIN s.todo = {n \in Keys(r.read) \ Transitives(r) : r.dep \in r.read[n].via}
  BY <1>1 DEF CleanupWrites
<1>4. s.dep \notin DOMAIN s.todo /\ Transitives(s) \cap DOMAIN s.todo = {}
  BY <1>2, <1>3, SamePlan DEF NoSelf
<1>5. \A m \in Transitives(s) : Placed(s, manifest, m)
  BY <1>1, <1>2, SamePlan DEF Upserting
<1>6. manifest[s.dep] = Direct(s.versions[s.dep])
  BY <1>2 DEF Upserting
<1> QED BY <1>4, <1>5, <1>6 DEF Cleaning

LEMMA CleaningFollows ==
  ASSUME NEW r, Cleaning(r, manifest), r.dep \in Modules, NEW s, NEW m, Wrote(r, s, m),
         NEW after, Changed(manifest, after, m, r.todo[m])
  PROVE  Cleaning(s, after)
<1>1. /\ s.dep = r.dep /\ s.read = r.read /\ s.versions = r.versions /\ s.edges = r.edges
      /\ m \in DOMAIN r.todo /\ DOMAIN s.todo = DOMAIN r.todo \ {m}
  BY WroteOnly
<1>2. m # r.dep /\ m \notin Transitives(r)
  BY <1>1 DEF Cleaning
<1>3. after[r.dep] = Direct(r.versions[r.dep])
  BY <1>2 DEF Changed, Cleaning
<1>4. ASSUME NEW n \in Transitives(s)
      PROVE  Placed(s, after, n)
  <2>1. n \in Transitives(r) /\ n \in Modules
    BY <1>1, SamePlan DEF Transitives
  <2>2. Placed(r, manifest, n) /\ after[n] = manifest[n]
    BY <1>2, <2>1 DEF Cleaning, Changed
  <2>3. Placed(r, after, n)
    BY <2>2 DEF Placed
  <2> QED BY <1>1, <2>3, SamePlan
<1>5. s.dep \notin DOMAIN s.todo /\ Transitives(s) \cap DOMAIN s.todo = {}
  BY <1>1, SamePlan DEF Cleaning
<1> QED BY <1>1, <1>3, <1>4, <1>5 DEF Cleaning

-----------------------------------------------------------------------------
(***************************************************************************)
(* lis add: the modules that the added one needs keep their entries.       *)
(***************************************************************************)
\* The modules that r.dep needs, in the graph of r.
Closure(r, T) == r.dep \in T /\ \A k \in T : r.edges[k] \subseteq T
Needed(r) == {m \in Modules : \A T \in SUBSET Modules : Closure(r, T) => m \in T}

LEMMA NeededIsClosed ==
  ASSUME NEW r, Typed(r), Closed(r), r.dep \in Modules
  PROVE  /\ Needed(r) \subseteq r.expanded /\ r.dep \in Needed(r)
         /\ \A m \in Needed(r) : r.edges[m] \subseteq Needed(r)
         /\ \A n \in Needed(r) \ {r.dep} : \E m \in Needed(r) : n \in r.edges[m]
<1>0. r.edges \in [Modules -> SUBSET Modules] /\ r.expanded \subseteq Modules
  BY DEF Typed
<1>1. Closure(r, r.expanded)
  BY DEF Closure, Closed
<1>2. Needed(r) \subseteq r.expanded /\ r.dep \in Needed(r) /\ Needed(r) \subseteq Modules
  BY <1>0, <1>1 DEF Needed, Closure
<1>3. ASSUME NEW m \in Needed(r), NEW n \in r.edges[m]
      PROVE  n \in Needed(r)
  <2>1. n \in Modules
    BY <1>0, <1>2, <1>3
  <2>2. ASSUME NEW T \in SUBSET Modules, Closure(r, T) PROVE n \in T
    <3>1. m \in T
      BY <1>3, <2>2 DEF Needed
    <3> QED BY <1>3, <2>2, <3>1 DEF Closure
  <2> QED BY <2>1, <2>2 DEF Needed
<1>4. ASSUME NEW n \in Needed(r) \ {r.dep}, \A m \in Needed(r) : n \notin r.edges[m]
      PROVE  FALSE
  <2>1. Closure(r, Needed(r) \ {n})
    BY <1>2, <1>3, <1>4 DEF Closure
  <2> QED BY <1>2, <1>4, <2>1 DEF Needed
<1> QED BY <1>2, <1>3, <1>4

LEMMA CleanedIsRooted ==
  ASSUME world \in Worlds, manifest \in Table, NEW r, Good(r), Closed(r), r.dep \in Modules,
         Cleaning(r, manifest)
  PROVE  Rooted(manifest, r.dep, Needed(r))
<1> DEFINE S == Needed(r)
<1>0. Typed(r) /\ r.dep \in r.expanded
  BY DEF Good, Closed
<1>1. /\ S \subseteq r.expanded /\ r.dep \in S
      /\ \A m \in S : r.edges[m] \subseteq S
      /\ \A n \in S \ {r.dep} : \E m \in S : n \in r.edges[m]
  BY <1>0, NeededIsClosed
<1>2. S \subseteq Modules
  BY DEF Needed
<1> HIDE DEF S
<1>3. ASSUME NEW m \in S
      PROVE  /\ r.versions[m] # 0 /\ r.versions[m] = r.gomod[m]
             /\ r.edges[m] = Listed(m, r.versions[m])
             /\ \A n \in Modules : r.gomod[n] >= Requires(m, r.versions[m])[n]
  BY <1>1 DEF Closed, Covered
<1>4. ASSUME NEW n \in S \ {r.dep} PROVE n \in Transitives(r) /\ Placed(r, manifest, n)
  <2>1. n \in Transitives(r)
    BY <1>1, <1>2 DEF Transitives, Parents
  <2> QED BY <2>1 DEF Cleaning
<1>5. manifest[r.dep].direct /\ manifest[r.dep].version = r.versions[r.dep]
  BY DEF Cleaning, Direct
<1>6. ASSUME NEW m \in S PROVE manifest[m].version = r.versions[m]
  BY <1>4, <1>5 DEF Placed
<1>7. S \subseteq Keys(manifest)
  <2> SUFFICES ASSUME NEW m \in S PROVE manifest[m].version > 0
    BY <1>2 DEF Keys
  <2>1. manifest[m].version \in 0..MaxVersion /\ manifest[m].version # 0
    BY <1>2, <1>3, <1>6, EntriesAreWrites DEF Table, Writes
  <2> QED BY <2>1
<1>8. ASSUME NEW m \in S, NEW n \in Listed(m, manifest[m].version)
      PROVE  /\ n \in S
             /\ n # r.dep => /\ manifest[n].version >= Requires(m, manifest[m].version)[n]
                             /\ manifest[n].direct \/ m \in manifest[n].via
  <2>1. n \in r.edges[m] /\ n \in S
    BY <1>1, <1>3, <1>6
  <2>2. n # r.dep => manifest[n].version >= Requires(m, manifest[m].version)[n]
    BY <1>2, <1>3, <1>6, <2>1
  <2>3. m \in Parents(r, n)
    BY <1>2, <2>1 DEF Parents
  <2>4. n # r.dep => manifest[n].direct \/ m \in manifest[n].via
    BY <1>4, <2>1, <2>3 DEF Placed
  <2> QED BY <2>1, <2>2, <2>4
<1>9. \A n \in S \ {r.dep} : \E m \in S : n \in Listed(m, manifest[m].version)
  BY <1>1, <1>3, <1>6
<1>10. Rooted(manifest, r.dep, S)
  BY <1>1, <1>5, <1>7, <1>8, <1>9 DEF Rooted
<1> QED BY <1>10 DEF S

LEMMA TrimFollows ==
  ASSUME manifest \in Table, TameTable(manifest), NEW d, NEW S, Rooted(manifest, d, S),
         NEW s, s.todo = TrimWrites(manifest)
  PROVE  Trimming(s, manifest, S)
<1> SUFFICES ASSUME NEW m \in S \cap DOMAIN s.todo
             PROVE  /\ ~ manifest[m].direct /\ s.todo[m].version = manifest[m].version
                    /\ manifest[m].via \cap S \subseteq s.todo[m].via
  BY DEF Trimming
<1>1. /\ s.todo[m] = Transitive(manifest[m].version, manifest[m].via \cap Keys(manifest))
      /\ ~ manifest[m].via \subseteq Keys(manifest) /\ m \in Modules
  BY DEF TrimWrites, Keys
<1>2. ~ manifest[m].direct
  BY <1>1 DEF TameTable, Tame
<1>3. S \subseteq Keys(manifest)
  BY DEF Rooted
<1> QED BY <1>1, <1>2, <1>3 DEF Transitive

\* What is left of the entries of S is enough.
LEMMA RootedStays ==
  ASSUME NEW table, NEW after, NEW d, NEW S, Rooted(table, d, S),
         \A n \in S : /\ after[n].version = table[n].version
                      /\ table[n].direct => after[n].direct
                      /\ table[n].direct \/ table[n].via \cap S \subseteq after[n].via
  PROVE  Rooted(after, d, S)
<1>1. d \in S /\ after[d].direct /\ S \subseteq Keys(after)
  BY DEF Rooted, Keys
<1>2. ASSUME NEW m \in S, NEW n \in Listed(m, after[m].version)
      PROVE  /\ n \in S
             /\ n # d => /\ after[n].version >= Requires(m, after[m].version)[n]
                         /\ after[n].direct \/ m \in after[n].via
  <2>1. n \in Listed(m, table[m].version) /\ after[m].version = table[m].version
    BY <1>2
  <2>2. n \in S /\ (n # d => /\ table[n].version >= Requires(m, table[m].version)[n]
                             /\ table[n].direct \/ m \in table[n].via)
    BY <2>1 DEF Rooted
  <2> QED BY <2>1, <2>2
<1>3. \A n \in S \ {d} : \E m \in S : n \in Listed(m, after[m].version)
  BY DEF Rooted
<1> QED BY <1>1, <1>2, <1>3 DEF Rooted

LEMMA TrimmingFollows ==
  ASSUME NEW r, NEW S \in SUBSET Modules, Rooted(manifest, r.dep, S), Trimming(r, manifest, S),
         NEW s, NEW m, Wrote(r, s, m), NEW after, Changed(manifest, after, m, r.todo[m])
  PROVE  Rooted(after, s.dep, S) /\ Trimming(s, after, S)
<1>1. /\ s.dep = r.dep /\ m \in DOMAIN r.todo /\ DOMAIN s.todo = DOMAIN r.todo \ {m}
      /\ \A n \in DOMAIN s.todo : s.todo[n] = r.todo[n]
  BY WroteOnly
<1>2. after[m] = r.todo[m] /\ \A n \in Modules \ {m} : after[n] = manifest[n]
  BY DEF Changed
<1>3. m \in S => /\ ~ manifest[m].direct /\ r.todo[m].version = manifest[m].version
                 /\ manifest[m].via \cap S \subseteq r.todo[m].via
  BY <1>1 DEF Trimming
<1>4. ASSUME NEW n \in S
      PROVE  /\ after[n].version = manifest[n].version
             /\ manifest[n].direct => after[n].direct
             /\ manifest[n].direct \/ manifest[n].via \cap S \subseteq after[n].via
  <2>1. CASE n = m
    BY <1>2, <1>3, <2>1
  <2>2. CASE n # m
    BY <1>2, <2>2
  <2> QED BY <2>1, <2>2
<1>5. Rooted(after, s.dep, S)
  BY <1>1, <1>4, RootedStays
<1>6. Trimming(s, after, S)
  BY <1>1, <1>2 DEF Trimming
<1> QED BY <1>5, <1>6

LEMMA ResolveFollows ==
  ASSUME NEW d, NEW S \in SUBSET Modules, Rooted(manifest, d, S), NEW s, NEW imported,
         s.todo = ResolveWrites(manifest, imported)
  PROVE  S \cap DOMAIN s.todo = {}
<1> SUFFICES ASSUME NEW n \in S, n \in DOMAIN s.todo PROVE FALSE
  OBVIOUS
<1>1. ~ manifest[n].direct /\ manifest[n].via = {}
  BY DEF ResolveWrites
<1>2. n # d
  BY <1>1 DEF Rooted
<1>3. PICK m \in S : n \in Listed(m, manifest[m].version)
  BY <1>2 DEF Rooted
<1>4. manifest[n].direct \/ m \in manifest[n].via
  BY <1>2, <1>3 DEF Rooted
<1> QED BY <1>1, <1>4

LEMMA ResolvingFollows ==
  ASSUME NEW r, NEW S \in SUBSET Modules, Rooted(manifest, r.dep, S), S \cap DOMAIN r.todo = {},
         NEW s, NEW m, Wrote(r, s, m), NEW after, Changed(manifest, after, m, r.todo[m])
  PROVE  Rooted(after, s.dep, S) /\ S \cap DOMAIN s.todo = {}
<1>1. s.dep = r.dep /\ m \in DOMAIN r.todo /\ DOMAIN s.todo = DOMAIN r.todo \ {m}
  BY WroteOnly
<1>2. \A n \in S : after[n] = manifest[n]
  BY <1>1 DEF Changed
<1>3. Rooted(after, s.dep, S)
  BY <1>1, <1>2, RootedStays
<1> QED BY <1>1, <1>3

-----------------------------------------------------------------------------
(***************************************************************************)
(* lis add: all steps.                                                     *)
(***************************************************************************)
LEMMA TurnsFollow ==
  ASSUME TypeInv, TameTable(manifest), NEW r, Good(r), Graph(r), Selfless(r),
         r.clean => Unwritten(r, manifest) /\ AddFollows(r, manifest), NEW s, s.clean,
         \/ s = Idle \/ Began(s) \/ Locks(r, s) \/ Walked(r, s) \/ Scanned(r, s)
         \/ CleanupBegun(r, s) \/ TrimBegun(r, s) \/ ResolveBegun(r, s)
  PROVE  AddFollows(s, manifest)
<1>1. ASSUME s.stage \notin Writing PROVE AddFollows(s, manifest)
  BY <1>1 DEF AddFollows, Writing
<1>2. ASSUME s = Idle \/ Began(s) PROVE s.stage \notin Writing
  BY <1>2 DEF Began, Idle, Writing
<1>3. ASSUME Locks(r, s) \/ Walked(r, s) \/ Scanned(r, s) PROVE s.stage \notin Writing
  BY <1>3, WalkGoesOn DEF GoesOn, Locks, Walking, Writing
<1>4. CASE CleanupBegun(r, s)
  <2>1. r.stage = "upsert" /\ s.stage = "cleanup" /\ r.clean /\ r.dep \in Modules
    BY <1>4, WriteOnly DEF CleanupBegun, Good, Formed
  <2>2. Cleaning(s, manifest)
    BY <1>4, <2>1, CleanupFollows DEF AddFollows, Selfless
  <2> QED BY <2>1, <2>2 DEF AddFollows
<1>5. CASE TrimBegun(r, s)
  <2>1. /\ s.stage = "trim" /\ s.todo = TrimWrites(manifest) /\ s.cmd = r.cmd /\ s.dep = r.dep
        /\ r.clean /\ r.stage \in {"hygiene", "cleanup"}
    BY <1>5 DEF TrimBegun
  <2>2. CASE r.stage = "hygiene"
    BY <1>5, <2>1, <2>2 DEF AddFollows, Unwritten, TrimBegun
  <2>3. CASE r.stage = "cleanup"
    <3>1. Closed(r) /\ r.dep \in Modules /\ Cleaning(r, manifest) /\ r.clean
      BY <1>5, <2>3 DEF TrimBegun, Good, Formed, Graph, AddFollows
    <3>2. Rooted(manifest, s.dep, Needed(r))
      BY <2>1, <3>1, CleanedIsRooted DEF TypeInv
    <3>3. Trimming(s, manifest, Needed(r))
      BY <2>1, <3>2, TrimFollows DEF TypeInv
    <3>4. Needed(r) \in SUBSET Modules
      BY DEF Needed
    <3> QED BY <2>1, <3>2, <3>3, <3>4 DEF AddFollows
  <2> QED BY <2>1, <2>2, <2>3
<1>6. CASE ResolveBegun(r, s)
  <2>1. /\ Differ(r, s, {"stage", "todo", "base"}) /\ r.stage = "trim" /\ s.stage = "resolve"
        /\ s.todo = ResolveWrites(manifest, r.scanned)
    BY <1>6 DEF ResolveBegun
  <2>2. s.cmd = r.cmd /\ s.dep = r.dep /\ r.clean
    BY <2>1, WriteOnly
  <2>3. ASSUME s.cmd = "add"
        PROVE  \E S \in SUBSET Modules : Rooted(manifest, s.dep, S) /\ S \cap DOMAIN s.todo = {}
    <3>1. PICK S \in SUBSET Modules : Rooted(manifest, s.dep, S)
      BY <2>1, <2>2, <2>3 DEF AddFollows
    <3>2. S \cap DOMAIN s.todo = {}
      BY <2>1, <3>1, ResolveFollows
    <3> QED BY <3>1, <3>2
  <2> QED BY <2>1, <2>3 DEF AddFollows
<1> QED BY <1>1, <1>2, <1>3, <1>4, <1>5, <1>6

LEMMA WroteFollows ==
  ASSUME NEW r, Good(r), AddFollows(r, manifest), NEW s, NEW m, Wrote(r, s, m),
         NEW after, Changed(manifest, after, m, r.todo[m])
  PROVE  AddFollows(s, after)
<1>1. s.stage = r.stage /\ s.cmd = r.cmd /\ s.dep = r.dep
  BY WroteOnly
<1>2. r.cmd = "add" \/ r.stage \in {"upsert", "cleanup"} => r.dep \in Modules
  BY DEF Good, Formed
<1>3. CASE s.stage = "upsert"
  <2>1. Upserting(s, after)
    BY <1>1, <1>2, <1>3, UpsertFollows DEF AddFollows
  <2> QED BY <1>3, <2>1 DEF AddFollows
<1>4. CASE s.stage = "cleanup"
  <2>1. Cleaning(s, after)
    BY <1>1, <1>2, <1>4, CleaningFollows DEF AddFollows
  <2> QED BY <1>4, <2>1 DEF AddFollows
<1>5. CASE s.stage = "trim" /\ s.cmd = "add"
  <2>1. PICK S \in SUBSET Modules : Rooted(manifest, r.dep, S) /\ Trimming(r, manifest, S)
    BY <1>1, <1>5 DEF AddFollows
  <2>2. Rooted(after, s.dep, S) /\ Trimming(s, after, S)
    BY <2>1, TrimmingFollows
  <2> QED BY <1>5, <2>2 DEF AddFollows
<1>6. CASE s.stage = "resolve" /\ s.cmd = "add"
  <2>1. PICK S \in SUBSET Modules : Rooted(manifest, r.dep, S) /\ S \cap DOMAIN r.todo = {}
    BY <1>1, <1>6 DEF AddFollows
  <2>2. Rooted(after, s.dep, S) /\ S \cap DOMAIN s.todo = {}
    BY <2>1, ResolvingFollows
  <2> QED BY <1>6, <2>2 DEF AddFollows
<1> QED BY <1>3, <1>4, <1>5, <1>6 DEF AddFollows

\* What follows is about what the modules require, which does not change.
LEMMA AddOf ==
  ASSUME UNCHANGED world, \A q \in Procs : proc'[q].clean => AddFollows(proc'[q], manifest')
  PROVE  AddInv'
<1> SUFFICES ASSUME NEW q \in Procs, AddFollows(proc'[q], manifest')
             PROVE  AddFollows(proc[q], manifest)'
  BY DEF AddInv
<1>1. Upserting(proc'[q], manifest') => Upserting(proc[q], manifest)'
  BY DEF Upserting, Placed, Parents, Transitives, UpsertWrites, WasDirect
<1>2. Cleaning(proc'[q], manifest') => Cleaning(proc[q], manifest)'
  BY DEF Cleaning, Placed, Parents, Transitives
<1>3. \A S : Trimming(proc'[q], manifest', S) => Trimming(proc[q], manifest, S)'
  BY DEF Trimming
<1>4. \A S : Rooted(manifest', proc'[q].dep, S) => Rooted(manifest, proc[q].dep, S)'
  BY DEF Rooted, Listed, Requires, Keys
<1> QED BY <1>1, <1>2, <1>3, <1>4 DEF AddFollows

LEMMA AddSteps ==
  TypeInv /\ Inv /\ GraphInv /\ SelfInv /\ SyncInv /\ AddInv /\ [Next]_vars => AddInv'
<1> SUFFICES ASSUME TypeInv, Inv, GraphInv, SelfInv, SyncInv, AddInv, [Next]_vars PROVE AddInv'
  OBVIOUS
<1> DEFINE Fine(r, table) == r.clean => AddFollows(r, table)
<1>1. ASSUME NEW p \in Procs, Start(p) \/ Work(p) \/ Quit(p)
      PROVE  \A q \in Procs : Fine(proc'[q], manifest')
  <2> DEFINE r == proc[p]
  <2>1. /\ Steps(p) /\ Good(r) /\ Graph(r) /\ Selfless(r)
        /\ manifest \in Table /\ TameTable(manifest) /\ DOMAIN proc = Procs
        /\ r.clean => Unwritten(r, manifest) /\ AddFollows(r, manifest)
    BY <1>1, EveryStep DEF TypeInv, GraphInv, SelfInv, SyncInv, AddInv, Inv
  <2>2. ASSUME UNCHANGED manifest, NEW s, Turns(p, s),
               \/ s = Idle \/ Began(s) \/ Locks(r, s) \/ Walked(r, s) \/ Scanned(r, s)
               \/ CleanupBegun(r, s) \/ TrimBegun(r, s) \/ ResolveBegun(r, s)
        PROVE  \A q \in Procs : Fine(proc'[q], manifest')
    <3>1. Fine(s, manifest)
      BY <2>1, <2>2, TurnsFollow
    <3>2. proc'[p] = s /\ \A q \in Procs \ {p} : proc'[q] = proc[q]
      BY <2>1, <2>2 DEF Turns
    <3> HIDE DEF Fine
    <3>3. \A q \in Procs : Fine(proc[q], manifest)
      BY DEF AddInv, Fine
    <3> QED BY <2>2, <3>1, <3>2, <3>3
  <2>3. ASSUME NEW s, Soils(p, s), s.clean => AddFollows(s, manifest')
        PROVE  \A q \in Procs : Fine(proc'[q], manifest')
    <3>1. \A q \in Procs \ {p} : ~ proc'[q].clean
      BY <2>3, SoiledIsGood DEF Soils, TypeInv
    <3> QED BY <2>3, <3>1 DEF Soils
  <2>4. ASSUME NEW s, Soils(p, s), Declared(r, s),
               manifest' = [manifest EXCEPT ![r.dep] = Direct(r.versions[r.dep])]
        PROVE  \A q \in Procs : Fine(proc'[q], manifest')
    <3> HIDE DEF r
    <3>1. /\ Differ(r, s, {"stage", "todo"}) /\ r.stage = "declare" /\ s.stage = "upsert"
          /\ r.dep \in Modules
      BY <2>1, <2>4, DeclaredKeepsGood DEF Declared
    <3>2. Changed(manifest, manifest', r.dep, Direct(r.versions[r.dep]))
      BY <2>1, <2>4, <3>1, Changes
    <3>3. ASSUME s.clean PROVE AddFollows(s, manifest')
      <4>1. r.clean
        BY <3>1, <3>3, WriteOnly
      <4>2. Closed(r) /\ manifest = r.read
        BY <2>1, <3>1, <4>1 DEF Graph, Unwritten, Walking
      <4>3. Upserting(s, manifest')
        BY <2>1, <2>4, <3>2, <4>2, DeclaredFollows
      <4> QED BY <3>1, <4>3 DEF AddFollows
    <3> QED BY <2>3, <2>4, <3>3
  <2>5. ASSUME NEW s, NEW m \in DOMAIN r.todo, Soils(p, s), Wrote(r, s, m),
               manifest' = [manifest EXCEPT ![m] = r.todo[m]]
        PROVE  \A q \in Procs : Fine(proc'[q], manifest')
    <3> HIDE DEF r
    <3>1. s.clean = r.clean /\ m \in Modules
      BY <2>1, <2>5, WroteOnly, WroteKeepsGood
    <3>2. Changed(manifest, manifest', m, r.todo[m])
      BY <2>1, <2>5, <3>1, Changes
    <3>3. s.clean => AddFollows(s, manifest')
      BY <2>1, <2>5, <3>1, <3>2, WroteFollows
    <3> QED BY <2>3, <2>5, <3>3
  <2> QED BY <2>1, <2>2, <2>4, <2>5 DEF Steps
<1>2. CASE Edit
  <2>1. \A q \in Procs : ~ proc'[q].clean
    BY <1>2, EditSoils, SoiledIsGood DEF TypeInv
  <2> QED BY <2>1 DEF AddInv
<1>3. CASE OtherTakesTarget \/ OtherLeavesTarget \/ UNCHANGED vars
  <2>1. UNCHANGED <<world, manifest, proc>>
    BY <1>3 DEF OtherTakesTarget, OtherLeavesTarget, env, vars
  <2> QED BY <2>1, AddOf DEF AddInv
<1>4. ASSUME NEW p \in Procs, Start(p) \/ Work(p) \/ Quit(p) PROVE AddInv'
  BY <1>1, <1>4, CountersType, AddOf
<1> QED BY <1>2, <1>3, <1>4 DEF Next

LEMMA AddInvariant ==
  ASSUME NoSelfStarts
  PROVE  Spec => []AddInv
<1>1. Init => AddInv
  BY DEF Init, AddInv, Idle
<1> QED BY <1>1, AddSteps, TypeInvariant, Invariant, GraphInvariant, SelfInvariant, SyncInvariant,
           PTL DEF Spec

\* AddDeclares: if no module is its own parent in the lisette.toml to start with (lisette writes
\* none), an undisturbed `lis add` leaves all modules that the added one needs in the manifest, recent
\* enough and with their parents, however versions were raised on the way, and neither the removal
\* of former transitives nor the trimming that follows takes any of it away (add.rs).
THEOREM AddLeavesItsGraph ==
  ASSUME NoSelfStarts
  PROVE  Spec => []AddDeclares
<1>1. TypeInv /\ AddInv => AddDeclares
  <2> SUFFICES ASSUME AddInv, NEW p \in Procs, Done(p), proc[p].cmd = "add", proc[p].clean,
                      NEW m \in Reach(proc[p].dep)
               PROVE  /\ m \in Keys(manifest)
                      /\ \A n \in Needs(m) \ {proc[p].dep} :
                            /\ manifest[n].version >= Requires(m, manifest[m].version)[n]
                            /\ manifest[n].direct \/ m \in manifest[n].via
    BY DEF AddDeclares
  <2> DEFINE d == proc[p].dep
  <2>1. PICK S \in SUBSET Modules : Rooted(manifest, d, S)
    BY DEF AddInv, AddFollows, Done
  <2>2. d \in S /\ \A k \in S : Needs(k) \subseteq S
    BY <2>1 DEF Rooted, Needs
  <2>3. m \in S
    BY <2>2 DEF Reach
  <2> QED BY <2>1, <2>3 DEF Rooted, Needs
<1> QED BY <1>1, AddInvariant, TypeInvariant, PTL
=============================================================================
