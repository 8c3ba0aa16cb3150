------------------------- MODULE AddSyncGraphProofs -------------------------
(***************************************************************************)
(* Theorems about AddSync for any modules, requirements and processes: the *)
(* types, and the graph that `lis add` writes from.                        *)
(***************************************************************************)
EXTENDS AddSyncProofs

-----------------------------------------------------------------------------
(***************************************************************************)
(* Types.                                                                  *)
(***************************************************************************)
Worlds == [Modules -> [Versions -> Selections]]
Table == [Modules -> Entries \cup {Gone}]
Writes == [version : 0..MaxVersion, direct : BOOLEAN, via : SUBSET Modules]

LEMMA EntriesAreWrites ==
  /\ Gone \in Writes
  /\ \A v \in 0..MaxVersion : Direct(v) \in Writes
  /\ \A v \in 0..MaxVersion : \A parents \in SUBSET Modules : Transitive(v, parents) \in Writes
  /\ Entries \cup {Gone} \subseteq Writes
  /\ \A v \in Versions : Direct(v) \in Entries
  /\ \A v \in Versions : \A parents \in SUBSET Modules : Transitive(v, parents) \in Entries
<1>1. Gone \in Writes /\ \A v \in 0..MaxVersion : Direct(v) \in Writes
  BY BoundsAssumption DEF Gone, Direct, Writes
<1>2. \A v \in 0..MaxVersion : \A parents \in SUBSET Modules : Transitive(v, parents) \in Writes
  BY DEF Transitive, Writes
<1>3. Versions \subseteq 0..MaxVersion
  BY BoundsAssumption DEF Versions
<1> QED BY <1>1, <1>2, <1>3 DEF Entries

LEMMA RequiresType ==
  ASSUME world \in Worlds, NEW m \in Modules, NEW v \in 0..MaxVersion
  PROVE  Requires(m, v) \in Selections
<1>1. v # 0 => v \in Versions
  BY BoundsAssumption DEF Versions
<1>2. NoVersions \in Selections
  BY BoundsAssumption DEF NoVersions, Selections
<1> QED BY <1>1, <1>2 DEF Requires, Worlds

LEMMA JoinIsHighest ==
  ASSUME NEW s \in Selections, NEW t \in Selections
  PROVE  /\ Join(s, t) \in Selections
         /\ \A k \in Modules : /\ Join(s, t)[k] \in {s[k], t[k]}
                               /\ Join(s, t)[k] >= s[k] /\ Join(s, t)[k] >= t[k]
<1>1. \A k \in Modules : s[k] \in Nat /\ t[k] \in Nat
  BY BoundsAssumption DEF Selections
<1> QED BY <1>1 DEF Join, Selections

LEMMA AfterGetType ==
  ASSUME world \in Worlds, NEW s \in Selections, NEW n \in Modules, NEW v \in 0..MaxVersion,
         NEW t \in AfterGet(s, n, v)
  PROVE  t \in Selections
<1>1. Requires(n, v) \in Selections /\ [s EXCEPT ![n] = v] \in Selections
  BY RequiresType DEF Selections
<1> QED BY <1>1, JoinIsHighest DEF AfterGet

\* A command, field by field.
Typed(r) ==
    /\ Fields \subseteq DOMAIN r
    /\ r.stage \in Stages /\ r.cmd \in {"none", "add", "sync"}
    /\ r.read \in Table /\ r.base \in Table
    /\ r.gomod \in Selections /\ r.versions \in Selections
    /\ r.edges \in [Modules -> SUBSET Modules]
    /\ r.queue \subseteq Modules /\ r.expanded \subseteq Modules
    /\ r.walked \subseteq Modules /\ r.scanned \subseteq Modules
    /\ DOMAIN r.todo \subseteq Modules
    /\ \A m \in DOMAIN r.todo : r.todo[m] \in Writes

\* The added module has a version whenever it is needed, and an entry that is written has one.
Formed(r) ==
    /\ r.cmd = "add" => r.dep \in Modules
    /\ r.stage \in {"parsed", "waiting", "fetch"} /\ r.cmd = "add" => r.version \in Versions
    /\ r.stage \in Walking \cup {"upsert", "cleanup"} => r.cmd = "add"
    /\ r.stage = "reconcile" =>
          r.gomod[r.dep] # 0 /\ (r.dep \in r.queue \/ r.versions[r.dep] # 0)
    /\ r.stage \in {"walk", "expand", "declare"} => r.versions[r.dep] # 0
    /\ r.stage \in Writing =>
          \A m \in DOMAIN r.todo :
              r.todo[m] \in Entries \cup {Gone} \/ (r.stage = "cleanup" /\ r.gomod[m] = 0)

Good(r) == Typed(r) /\ Formed(r)

TypeInv ==
    /\ world \in Worlds /\ manifest \in Table
    /\ mutator \in Procs \cup {None} /\ holder \in Procs \cup {None, "other"}
    /\ commands \in 0..MaxCommands /\ surprises \in 0..MaxSurprises
    /\ DOMAIN proc = Procs /\ \A p \in Procs : Good(proc[p])

-----------------------------------------------------------------------------
(***************************************************************************)
(* The graph.                                                              *)
(***************************************************************************)
Graphing == {"reconcile", "walk", "expand", "declare"}

\* While Go takes nothing back: versions lag behind those selected, and a module that does not
\* lag has the edges of its version.
Exact(r) ==
    /\ \A m \in Modules : r.versions[m] <= r.gomod[m]
    /\ \A m \in Modules : r.versions[m] = 0 => m \notin r.expanded /\ r.edges[m] = {}
    /\ \A m \in Modules : r.versions[m] = r.gomod[m] => r.edges[m] \subseteq Listed(m, r.gomod[m])
    /\ \A m \in r.expanded : r.versions[m] = r.gomod[m] => r.edges[m] = Listed(m, r.gomod[m])
    /\ r.stage \in {"reconcile", "expand"} => \A m \in r.queue : r.gomod[m] # 0
    /\ r.stage = "declare" => \A m \in Modules : r.versions[m] \in {0, r.gomod[m]}

\* The modules listed, and what is listed under them.
Covered(r, m) ==
    /\ r.versions[m] # 0
    /\ r.edges[m] = Listed(m, r.versions[m])
    /\ \A n \in Modules : r.gomod[n] >= Requires(m, r.versions[m])[n]

\* The graph that an undisturbed walk leaves: closed, and at the selected versions.
Closed(r) ==
    /\ r.dep \in r.expanded
    /\ \A m \in r.expanded : Covered(r, m) /\ r.versions[m] = r.gomod[m]
    /\ \A m \in r.expanded : r.edges[m] \subseteq r.expanded
    /\ \A m \in Modules \ r.expanded : r.versions[m] = 0 /\ r.edges[m] = {}

\* The same before the walk has ended: what is not listed yet is in the queue.
Spread(r) ==
    /\ r.dep \in r.expanded \cup r.queue
    /\ \A m \in r.expanded : Covered(r, m)
    /\ \A m \in Modules : r.edges[m] \subseteq r.expanded \cup r.queue
    /\ \A m \in Modules \ r.expanded : r.versions[m] = 0

Graph(r) ==
    /\ r.stage \in {"parsed", "waiting", "fetch"} =>
          r.versions = NoVersions /\ r.edges = NoEdges /\ r.expanded = {}
    /\ r.cmd = "add" /\ r.stage \in {"parsed", "waiting", "fetch", "reconcile"} => r.sure
    /\ r.stage \in Graphing /\ r.sure => Exact(r)
    /\ r.stage = "reconcile" /\ r.clean => Spread(r)
    /\ r.stage \in {"walk", "expand", "declare", "upsert", "cleanup"} /\ r.clean => Closed(r)
    /\ r.stage \in {"walk", "expand", "declare"} /\ r.clean => r.sure
    /\ r.stage = "walk" /\ r.clean => r.walked \subseteq r.expanded
    /\ r.stage = "expand" /\ r.clean => r.queue = {}

GraphInv == \A p \in Procs : Graph(proc[p])

-----------------------------------------------------------------------------
(***************************************************************************)
(* The steps of the graph walk as relations between a command before and   *)
(* after, field by field.                                                  *)
(***************************************************************************)
Differ(r, s, fields) == Fields \subseteq DOMAIN s /\ \A f \in Fields \ fields : s[f] = r[f]
GraphFields == {"gomod", "versions", "edges", "expanded", "queue", "walked", "sure", "clean"}

Pinned(r) == [m \in Modules |-> IF m = r.dep THEN r.version ELSE r.read[m].version]

Fetched(r, s) ==
    /\ r.stage = "fetch" /\ s.stage = "reconcile" /\ Differ(r, s, {"stage", "queue", "gomod"})
    /\ s.queue = {r.dep} /\ s.gomod = Join(Pinned(r), Requires(r.dep, r.version))

Dequeued(r, s, m) ==
    /\ r.stage = "reconcile" /\ m \in r.queue /\ Differ(r, s, {"queue"})
    /\ r.versions[m] = r.gomod[m] /\ s.queue = r.queue \ {m}

Skipped(r, s, m) ==
    /\ r.stage = "reconcile" /\ m \in r.queue /\ Differ(r, s, {"queue", "clean"})
    /\ m # r.dep /\ s.queue = r.queue \ {m} /\ ~ s.clean

ListedNow(r, s, m) ==
    /\ r.stage = "reconcile" /\ m \in r.queue
    /\ Differ(r, s, {"gomod", "versions", "edges", "expanded", "queue"})
    /\ s.gomod = Join(r.gomod, Requires(m, r.gomod[m]))
    /\ s.versions = [r.versions EXCEPT ![m] = r.gomod[m]]
    /\ s.edges = [r.edges EXCEPT ![m] = Listed(m, r.gomod[m])]
    /\ s.expanded = r.expanded \cup {m}
    /\ s.queue = (r.queue \ {m}) \cup Listed(m, r.gomod[m])

Requeued(r, s) ==
    /\ r.stage = "reconcile" /\ r.queue = {} /\ Upgraded(r) # {}
    /\ Differ(r, s, {"queue"}) /\ s.queue = Upgraded(r)

Reconciled(r, s) ==
    /\ r.stage = "reconcile" /\ r.queue = {} /\ Upgraded(r) = {}
    /\ Differ(r, s, {"stage", "walked"}) /\ s.stage = "walk" /\ s.walked = {r.dep}

Met(r, s, m, n) ==
    /\ r.stage = "walk" /\ m \in r.walked /\ n \in Listed(m, r.versions[m]) /\ r.gomod[n] > 0
    /\ Differ(r, s, {"versions", "edges"})
    /\ s.versions = [r.versions EXCEPT ![n] = IF r.versions[n] = 0 THEN r.gomod[n] ELSE r.versions[n]]
    /\ s.edges = [r.edges EXCEPT ![m] = r.edges[m] \cup {n}]

Gotten(r, s, n) ==
    /\ r.stage = "walk" /\ r.versions[n] # 0 /\ n \in Modules
    /\ Differ(r, s, {"walked", "gomod", "sure"})
    /\ s.walked = r.walked \cup {n} /\ s.gomod \in AfterGet(r.gomod, n, r.versions[n])
    /\ s.sure <=> r.sure /\ r.versions[n] >= r.gomod[n]

WalkEnded(r, s) ==
    /\ r.stage = "walk" /\ s.stage = "expand" /\ Differ(r, s, {"stage", "queue"})
    /\ s.queue = {m \in Modules : r.versions[m] # 0} \ r.expanded

SkippedLate(r, s, m) ==
    /\ r.stage = "expand" /\ m \in r.queue /\ Differ(r, s, {"queue", "clean", "versions"})
    /\ s.queue = r.queue \ {m} /\ ~ s.clean
    /\ \E v \in {r.versions[m], FirstVersion(r, m)} : s.versions = [r.versions EXCEPT ![m] = v]

ListedLate(r, s, m) ==
    /\ r.stage = "expand" /\ m \in r.queue
    /\ Differ(r, s, {"gomod", "versions", "edges", "expanded", "queue"})
    /\ s.gomod = Join(r.gomod, Requires(m, r.gomod[m]))
    /\ s.versions = [r.versions EXCEPT ![m] = FirstVersion(r, m)]
    /\ s.edges = [r.edges EXCEPT ![m] = r.edges[m] \cup Listed(m, r.gomod[m])]
    /\ s.expanded = r.expanded \cup {m}
    /\ s.queue = (r.queue \cup Listed(m, r.gomod[m])) \ (r.expanded \cup {m})

\* Drift: the modules U are listed anew; without any, the walk is over.
Renewed(r, s, U) ==
    /\ r.stage = "expand" /\ r.queue = {} /\ U \subseteq Upgraded(r)
    /\ Differ(r, s, {"versions", "edges", "expanded", "queue", "sure", "clean"})
    /\ s.versions = [m \in Modules |-> IF m \in U THEN r.gomod[m] ELSE r.versions[m]]
    /\ s.edges = [m \in Modules |-> IF m \in U THEN {} ELSE r.edges[m]]
    /\ s.expanded = r.expanded \ U /\ s.queue = U /\ U # {}
    /\ (U = Upgraded(r) /\ s.sure = r.sure /\ s.clean = r.clean) \/ (~ s.sure /\ ~ s.clean)

Expanded(r, s) ==
    /\ r.stage = "expand" /\ r.queue = {} /\ s.stage = "declare"
    /\ Differ(r, s, {"stage", "sure", "clean"})
    /\ (Upgraded(r) = {} /\ s.sure = r.sure /\ s.clean = r.clean) \/ (~ s.sure /\ ~ s.clean)

Scanned(r, s) ==
    /\ r.stage = "scan" /\ s.stage = "hygiene" /\ Differ(r, s, {"stage", "scanned"})
    /\ s.scanned \in Imports

Walked(r, s) ==
    \/ Fetched(r, s) \/ Requeued(r, s) \/ Reconciled(r, s) \/ WalkEnded(r, s) \/ Expanded(r, s)
    \/ \E m \in Modules : \/ Dequeued(r, s, m) \/ Skipped(r, s, m) \/ ListedNow(r, s, m)
                          \/ SkippedLate(r, s, m) \/ ListedLate(r, s, m)
    \/ \E m, n \in Modules : Met(r, s, m, n)
    \/ \E m, n \in Modules : \E t : Met(r, t, m, n) /\ Gotten(t, s, n)
    \/ \E U \in SUBSET Modules : Renewed(r, s, U)

\* p becomes s, and the others are left as they are.
Turns(p, s) == proc' = [proc EXCEPT ![p] = s]
Walks(p) == \E s : Turns(p, s) /\ (Walked(proc[p], s) \/ Scanned(proc[p], s))

LEMMA FetchWalks ==
  ASSUME TypeInv, NEW p \in Procs, Fetch(p)
  PROVE  Walks(p)
<1> DEFINE r == proc[p]
           s == [r EXCEPT !.stage = "reconcile", !.queue = {r.dep},
                          !.gomod = Join(Pinned(r), Requires(r.dep, r.version))]
<1>1. Turns(p, s) /\ r.stage = "fetch"
  BY DEF Fetch, Turns, Pinned
<1>2. Fetched(r, s)
  BY <1>1 DEF TypeInv, Good, Typed, Fetched, Differ, Fields
<1> QED BY <1>1, <1>2 DEF Walks, Walked

LEMMA ReconcileModuleWalks ==
  ASSUME TypeInv, NEW p \in Procs, ReconcileModule(p)
  PROVE  Walks(p)
<1> DEFINE r == proc[p]
<1>1. PICK m \in r.queue :
          \/ m # r.dep /\ Turns(p, Skip(r, m))
          \/ r.versions[m] = r.gomod[m] /\ Turns(p, [r EXCEPT !.queue = @ \ {m}])
          \/ Turns(p, ListModule(r, m))
  BY Zenon DEF ReconcileModule, Turns
<1>2. r.stage = "reconcile" /\ m \in Modules /\ Fields \subseteq DOMAIN r
  BY DEF ReconcileModule, TypeInv, Good, Typed
<1>3. m # r.dep => Skipped(r, Skip(r, m), m)
  BY <1>2 DEF Skipped, Skip, Differ, Fields
<1>4. r.versions[m] = r.gomod[m] => Dequeued(r, [r EXCEPT !.queue = @ \ {m}], m)
  BY <1>2 DEF Dequeued, Differ, Fields
<1>5. ListedNow(r, ListModule(r, m), m)
  BY <1>2 DEF ListedNow, ListModule, Differ, Fields
<1> QED BY <1>1, <1>2, <1>3, <1>4, <1>5 DEF Walks, Walked

LEMMA ReconcileDriftWalks ==
  ASSUME TypeInv, NEW p \in Procs, ReconcileDrift(p)
  PROVE  Walks(p)
<1> DEFINE r == proc[p]
<1>1. /\ r.stage = "reconcile" /\ r.queue = {} /\ Fields \subseteq DOMAIN r
      /\ \/ Upgraded(r) # {} /\ Turns(p, [r EXCEPT !.queue = Upgraded(r)])
         \/ Upgraded(r) = {} /\ Turns(p, [r EXCEPT !.stage = "walk", !.walked = {r.dep}])
  BY DEF ReconcileDrift, Turns, TypeInv, Good, Typed
<1>2. Upgraded(r) # {} => Requeued(r, [r EXCEPT !.queue = Upgraded(r)])
  BY <1>1 DEF Requeued, Differ, Fields
<1>3. Upgraded(r) = {} => Reconciled(r, [r EXCEPT !.stage = "walk", !.walked = {r.dep}])
  BY <1>1 DEF Reconciled, Differ, Fields
<1> QED BY <1>1, <1>2, <1>3 DEF Walks, Walked

LEMMA WalkImportWalks ==
  ASSUME TypeInv, NEW p \in Procs, WalkImport(p)
  PROVE  Walks(p)
<1> DEFINE r == proc[p]
<1>1. /\ r.stage = "walk"
      /\ \E m \in r.walked : \E n \in Listed(m, r.versions[m]) :
            /\ r.gomod[n] > 0
            /\ \/ Turns(p, Meet(r, m, n))
               \/ \E selected \in AfterGet(Meet(r, m, n).gomod, n, Meet(r, m, n).versions[n]) :
                     Turns(p, MakeTypedef(Meet(r, m, n), n, selected))
  BY Zenon DEF WalkImport, Turns
<1>2. PICK m \in r.walked : \E n \in Listed(m, r.versions[m]) :
        /\ r.gomod[n] > 0
        /\ \/ Turns(p, Meet(r, m, n))
           \/ \E selected \in AfterGet(Meet(r, m, n).gomod, n, Meet(r, m, n).versions[n]) :
                 Turns(p, MakeTypedef(Meet(r, m, n), n, selected))
  BY <1>1
<1>0. PICK n \in Listed(m, r.versions[m]) :
        /\ r.gomod[n] > 0
        /\ \/ Turns(p, Meet(r, m, n))
           \/ \E selected \in AfterGet(Meet(r, m, n).gomod, n, Meet(r, m, n).versions[n]) :
                 Turns(p, MakeTypedef(Meet(r, m, n), n, selected))
  BY <1>2
<1>3. \E t : /\ t = Meet(r, m, n)
            /\ \/ Turns(p, t)
               \/ \E selected \in AfterGet(t.gomod, n, t.versions[n]) :
                     Turns(p, MakeTypedef(t, n, selected))
  <2> WITNESS Meet(r, m, n)
  <2> QED BY <1>0
<1>11. PICK t : /\ t = Meet(r, m, n)
               /\ \/ Turns(p, t)
                  \/ \E selected \in AfterGet(t.gomod, n, t.versions[n]) :
                        Turns(p, MakeTypedef(t, n, selected))
  BY <1>3, Zenon
<1>4. /\ m \in Modules /\ n \in Modules /\ Fields \subseteq DOMAIN r /\ r.gomod \in Selections
      /\ r.versions \in Selections
  BY DEF TypeInv, Good, Typed, Listed
<1>5. Met(r, t, m, n)
  BY <1>0, <1>1, <1>11, <1>4 DEF Met, Meet, Differ, Fields
<1>6. t.stage = "walk" /\ t.versions[n] # 0 /\ Fields \subseteq DOMAIN t
  BY <1>1, <1>2, <1>4, <1>5, BoundsAssumption DEF Met, Differ, Fields, Selections
<1>7. CASE Turns(p, t)
  BY <1>4, <1>5, <1>7 DEF Walks, Walked
<1>8. CASE \E selected \in AfterGet(t.gomod, n, t.versions[n]) :
               Turns(p, MakeTypedef(t, n, selected))
  <2>1. PICK selected \in AfterGet(t.gomod, n, t.versions[n]) :
               Turns(p, MakeTypedef(t, n, selected))
    BY <1>8
  <2>2. Gotten(t, MakeTypedef(t, n, selected), n)
    BY <1>4, <1>6 DEF Gotten, MakeTypedef, Differ, Fields
  <2> QED BY <1>4, <1>5, <2>1, <2>2 DEF Walks, Walked
<1> QED BY <1>11, <1>7, <1>8

LEMMA EndWalkWalks ==
  ASSUME TypeInv, NEW p \in Procs, EndWalk(p)
  PROVE  Walks(p)
<1> DEFINE r == proc[p]
           s == [r EXCEPT !.stage = "expand",
                          !.queue = {m \in Modules : r.versions[m] # 0} \ r.expanded]
<1>1. Turns(p, s) /\ r.stage = "walk"
  BY DEF EndWalk, Turns
<1>2. WalkEnded(r, s)
  BY <1>1 DEF TypeInv, Good, Typed, WalkEnded, Differ, Fields
<1> QED BY <1>1, <1>2 DEF Walks, Walked

LEMMA ExpandModuleWalks ==
  ASSUME TypeInv, NEW p \in Procs, ExpandModule(p)
  PROVE  Walks(p)
<1> DEFINE r == proc[p]
<1>1. PICK m \in r.queue :
          \/ \E v \in {r.versions[m], FirstVersion(r, m)} :
                Turns(p, [Skip(r, m) EXCEPT !.versions[m] = v])
          \/ Turns(p, ListLate(r, m))
  BY Zenon DEF ExpandModule, Turns
<1>2. r.stage = "expand" /\ m \in Modules /\ Fields \subseteq DOMAIN r
  BY DEF ExpandModule, TypeInv, Good, Typed
<1>3. CASE \E v \in {r.versions[m], FirstVersion(r, m)} :
                Turns(p, [Skip(r, m) EXCEPT !.versions[m] = v])
  <2>1. PICK v \in {r.versions[m], FirstVersion(r, m)} :
                Turns(p, [Skip(r, m) EXCEPT !.versions[m] = v])
    BY <1>3
  <2>2. SkippedLate(r, [Skip(r, m) EXCEPT !.versions[m] = v], m)
    <3> DEFINE s == [Skip(r, m) EXCEPT !.versions[m] = v]
    <3>1. /\ Differ(r, s, {"queue", "clean", "versions"}) /\ s.queue = r.queue \ {m} /\ ~ s.clean
          /\ s.versions = [r.versions EXCEPT ![m] = v]
      BY <1>2 DEF Skip, Differ, Fields
    <3> HIDE DEF s
    <3>2. SkippedLate(r, s, m)
      BY <1>2, <3>1 DEF SkippedLate
    <3> QED BY <3>2 DEF s
  <2> QED BY <1>2, <2>1, <2>2 DEF Walks, Walked
<1>4. ListedLate(r, ListLate(r, m), m)
  BY <1>2 DEF ListedLate, ListLate, Differ, Fields
<1> QED BY <1>1, <1>2, <1>3, <1>4 DEF Walks, Walked

LEMMA ExpandDriftWalks ==
  ASSUME TypeInv, NEW p \in Procs, ExpandDrift(p)
  PROVE  Walks(p)
<1> DEFINE r == proc[p]
           unsure == [r EXCEPT !.sure = FALSE, !.clean = FALSE]
<1>1. /\ r.stage = "expand" /\ r.queue = {} /\ Fields \subseteq DOMAIN r
      /\ Upgraded(r) \subseteq Modules
  BY DEF ExpandDrift, TypeInv, Good, Typed, Upgraded
<1>2. /\ Differ(r, unsure, {"sure", "clean"}) /\ ~ unsure.sure /\ ~ unsure.clean
  BY <1>1 DEF Differ, Fields
<1> HIDE DEF unsure
<1>3. \/ Upgraded(r) = {} /\ Turns(p, [r EXCEPT !.stage = "declare"])
      \/ Upgraded(r) # {} /\ Turns(p, Anew(r, Upgraded(r)))
      \/ \E m \in Upgraded(r) : Turns(p, IF Upgraded(r) = {m}
                                         THEN [unsure EXCEPT !.stage = "declare"]
                                         ELSE Anew(unsure, Upgraded(r) \ {m}))
  BY Zenon DEF ExpandDrift, Turns, unsure
<1>4. Upgraded(r) = {} => Expanded(r, [r EXCEPT !.stage = "declare"])
  BY <1>1 DEF Expanded, Differ, Fields
<1>5. Upgraded(r) # {} => Renewed(r, Anew(r, Upgraded(r)), Upgraded(r))
  BY <1>1 DEF Renewed, Anew, Differ, Fields
<1>6. Expanded(r, [unsure EXCEPT !.stage = "declare"])
  BY <1>1, <1>2 DEF Expanded, Differ, Fields
<1>7. ASSUME NEW m \in Upgraded(r), Upgraded(r) # {m}
      PROVE  Renewed(r, Anew(unsure, Upgraded(r) \ {m}), Upgraded(r) \ {m})
  <2> DEFINE U == Upgraded(r) \ {m}
  <2>1. U # {} /\ U \subseteq Upgraded(r)
    BY <1>7
  <2> HIDE DEF U
  <2>2. Renewed(r, Anew(unsure, U), U)
    BY <1>1, <1>2, <2>1 DEF Renewed, Anew, Differ, Fields
  <2> QED BY <2>2 DEF U
<1>8. ASSUME NEW m \in Upgraded(r), 
             Turns(p, IF Upgraded(r) = {m} THEN [unsure EXCEPT !.stage = "declare"]
                                           ELSE Anew(unsure, Upgraded(r) \ {m}))
      PROVE  Walks(p)
  <2>1. CASE Upgraded(r) = {m}
    <3>1. Turns(p, [unsure EXCEPT !.stage = "declare"])
      BY <1>8, <2>1
    <3> QED BY <1>6, <3>1 DEF Walks, Walked
  <2>2. CASE Upgraded(r) # {m}
    <3>1. Turns(p, Anew(unsure, Upgraded(r) \ {m})) /\ Upgraded(r) \ {m} \in SUBSET Modules
      BY <1>1, <1>8, <2>2
    <3> QED BY <1>7, <2>2, <3>1 DEF Walks, Walked
  <2> QED BY <2>1, <2>2
<1>9. CASE Upgraded(r) = {} /\ Turns(p, [r EXCEPT !.stage = "declare"])
  BY <1>4, <1>9 DEF Walks, Walked
<1>10. CASE Upgraded(r) # {} /\ Turns(p, Anew(r, Upgraded(r)))
  BY <1>1, <1>5, <1>10 DEF Walks, Walked
<1> QED BY <1>3, <1>8, <1>9, <1>10

LEMMA ScanWalks ==
  ASSUME TypeInv, NEW p \in Procs, Scan(p)
  PROVE  Walks(p)
<1> DEFINE r == proc[p]
<1>1. r.stage = "scan" /\ Fields \subseteq DOMAIN r
  BY DEF Scan, TypeInv, Good, Typed
<1>2. PICK imported \in Imports : Turns(p, [r EXCEPT !.stage = "hygiene", !.scanned = imported])
  BY <1>1 DEF Scan, Turns, Fields
<1>3. Scanned(r, [r EXCEPT !.stage = "hygiene", !.scanned = imported])
  BY <1>1 DEF Scanned, Differ, Fields
<1> QED BY <1>2, <1>3 DEF Walks

-----------------------------------------------------------------------------
(***************************************************************************)
(* The graph walk keeps the types.                                         *)
(***************************************************************************)
LEMMA WalkTypes ==
  ASSUME NEW r, NEW s, Typed(r), NEW fields, Differ(r, s, fields),
         fields \subseteq {"stage", "scanned"} \cup GraphFields,
         s.stage \in Stages, s.scanned \subseteq Modules,
         s.gomod \in Selections, s.versions \in Selections, s.edges \in [Modules -> SUBSET Modules],
         s.queue \subseteq Modules, s.expanded \subseteq Modules, s.walked \subseteq Modules
  PROVE  Typed(s)
<1>1. /\ s.cmd = r.cmd /\ s.read = r.read /\ s.base = r.base
      /\ s.todo = r.todo /\ s.dep = r.dep /\ s.version = r.version /\ Fields \subseteq DOMAIN s
  BY DEF Differ, Fields, GraphFields
<1> QED BY <1>1 DEF Typed

LEMMA ListingTypes ==
  ASSUME world \in Worlds, NEW r, Typed(r), NEW m \in Modules
  PROVE  /\ r.gomod[m] \in 0..MaxVersion /\ r.versions[m] \in 0..MaxVersion
         /\ FirstVersion(r, m) \in 0..MaxVersion
         /\ Requires(m, r.gomod[m]) \in Selections
         /\ Listed(m, r.gomod[m]) \subseteq Modules
         /\ Join(r.gomod, Requires(m, r.gomod[m])) \in Selections
         /\ \A k \in Modules : Join(r.gomod, Requires(m, r.gomod[m]))[k] >= r.gomod[k]
<1>1. r.gomod[m] \in 0..MaxVersion /\ r.versions[m] \in 0..MaxVersion /\ r.gomod \in Selections
  BY DEF Typed, Selections
<1>2. Requires(m, r.gomod[m]) \in Selections /\ Listed(m, r.gomod[m]) \subseteq Modules
  BY <1>1, RequiresType DEF Listed
<1> QED BY <1>1, <1>2, JoinIsHighest DEF FirstVersion

LEMMA FetchKeepsGood ==
  ASSUME world \in Worlds, NEW r, Good(r), NEW s, Fetched(r, s)
  PROVE  Good(s)
<1>1. /\ r.stage = "fetch" /\ r.cmd = "add" /\ r.dep \in Modules /\ r.version \in Versions
      /\ r.version \in 0..MaxVersion /\ r.version # 0
  BY BoundsAssumption DEF Good, Formed, Fetched, Walking, Versions
<1>2. Pinned(r) \in Selections
  <2>1. \A entry \in Entries \cup {Gone} : entry.version \in 0..MaxVersion
    BY EntriesAreWrites DEF Writes
  <2> QED BY <1>1, <2>1 DEF Pinned, Selections, Good, Typed, Table
<1>3. Join(Pinned(r), Requires(r.dep, r.version)) \in Selections
      /\ Join(Pinned(r), Requires(r.dep, r.version))[r.dep] >= Pinned(r)[r.dep]
  BY <1>1, <1>2, RequiresType, JoinIsHighest
<1>4. Pinned(r)[r.dep] = r.version
  BY <1>1 DEF Pinned
<1>5. /\ s.stage = "reconcile" /\ s.gomod \in Selections /\ s.gomod[r.dep] # 0 /\ s.queue = {r.dep}
      /\ s.dep = r.dep /\ s.cmd = "add" /\ s.versions = r.versions /\ s.edges = r.edges
      /\ s.expanded = r.expanded /\ s.walked = r.walked /\ s.scanned = r.scanned
      /\ Differ(r, s, {"stage", "queue", "gomod"})
  BY <1>1, <1>3, <1>4, BoundsAssumption DEF Fetched, Differ, Fields, Versions, Selections
<1>6. Typed(s)
  BY <1>1, <1>5, WalkTypes DEF Good, Typed, GraphFields, Stages, Locked, Walking
<1>7. Formed(s)
  BY <1>1, <1>5 DEF Formed, Writing
<1> QED BY <1>6, <1>7 DEF Good

\* Steps that take modules out of the queue, or put others in it.
LEMMA QueueKeepsGood ==
  ASSUME NEW r, Good(r), NEW s, NEW m \in Modules,
         Dequeued(r, s, m) \/ Skipped(r, s, m) \/ Requeued(r, s)
  PROVE  Good(s)
<1>1. /\ Differ(r, s, {"queue", "clean"}) /\ r.stage = "reconcile" /\ s.queue \subseteq Modules
      /\ s.queue = r.queue \ {m} \/ r.queue = {}
      /\ m = r.dep => r.versions[m] = r.gomod[m] \/ r.queue = {}
  BY DEF Dequeued, Skipped, Requeued, Differ, Good, Typed, Upgraded
<1>2. /\ s.stage = r.stage /\ s.gomod = r.gomod /\ s.dep = r.dep /\ s.cmd = r.cmd
      /\ s.versions = r.versions /\ s.edges = r.edges
      /\ s.expanded = r.expanded /\ s.walked = r.walked /\ s.scanned = r.scanned
  BY <1>1 DEF Differ, Fields
<1>3. Typed(s)
  BY <1>1, <1>2, WalkTypes DEF Good, Typed, GraphFields
<1>4. Formed(s)
  BY <1>1, <1>2 DEF Good, Formed, Writing, Walking
<1> QED BY <1>3, <1>4 DEF Good

LEMMA ListedKeepsGood ==
  ASSUME world \in Worlds, NEW r, Good(r), NEW s, NEW m \in Modules,
         ListedNow(r, s, m) \/ ListedLate(r, s, m)
  PROVE  Good(s)
<1>1. /\ Differ(r, s, {"gomod", "versions", "edges", "expanded", "queue"})
      /\ s.stage = r.stage /\ s.dep = r.dep /\ s.cmd = r.cmd /\ s.walked = r.walked
      /\ s.scanned = r.scanned
  BY DEF ListedNow, ListedLate, Differ, Fields
<1>2. /\ Typed(r) /\ r.queue \subseteq Modules /\ r.expanded \subseteq Modules
      /\ r.edges \in [Modules -> SUBSET Modules] /\ r.versions \in Selections
      /\ r.gomod \in Selections /\ r.walked \subseteq Modules /\ r.scanned \subseteq Modules
      /\ r.stage \in Stages
  BY DEF Good, Typed
<1>3. /\ r.gomod[m] \in 0..MaxVersion /\ FirstVersion(r, m) \in 0..MaxVersion
      /\ Listed(m, r.gomod[m]) \subseteq Modules
      /\ Join(r.gomod, Requires(m, r.gomod[m])) \in Selections
      /\ \A k \in Modules : Join(r.gomod, Requires(m, r.gomod[m]))[k] >= r.gomod[k]
  BY <1>2, ListingTypes
<1>4. /\ s.versions \in Selections /\ s.edges \in [Modules -> SUBSET Modules]
      /\ s.gomod \in Selections /\ \A k \in Modules : s.gomod[k] >= r.gomod[k]
      /\ s.expanded \subseteq Modules /\ s.queue \subseteq Modules
  BY <1>2, <1>3 DEF ListedNow, ListedLate, Selections
<1>5. Typed(s)
  BY <1>1, <1>2, <1>4, WalkTypes DEF GraphFields
<1>6. \A k \in Modules : r.gomod[k] \in Nat /\ s.gomod[k] \in Nat
  BY <1>2, <1>4, BoundsAssumption DEF Selections
<1>7. CASE ListedNow(r, s, m)
  <2>1. /\ r.stage = "reconcile" /\ r.cmd = "add" /\ r.dep \in Modules /\ r.gomod[r.dep] # 0
        /\ r.dep \in r.queue \/ r.versions[r.dep] # 0
        /\ s.versions = [r.versions EXCEPT ![m] = r.gomod[m]] /\ r.queue \ {m} \subseteq s.queue
    BY <1>7 DEF ListedNow, Good, Formed, Walking
  <2>2. s.gomod[r.dep] # 0 /\ (r.dep \in s.queue \/ s.versions[r.dep] # 0)
    BY <1>2, <1>4, <1>6, <2>1 DEF Selections
  <2> QED BY <1>1, <1>5, <2>1, <2>2 DEF Good, Formed, Writing
<1>8. CASE ListedLate(r, s, m)
  <2>1. /\ r.stage = "expand" /\ r.cmd = "add" /\ r.dep \in Modules /\ r.versions[r.dep] # 0
        /\ s.versions = [r.versions EXCEPT ![m] = FirstVersion(r, m)]
    BY <1>8 DEF ListedLate, Good, Formed, Walking
  <2>2. s.versions[r.dep] # 0
    BY <1>2, <2>1 DEF Selections, FirstVersion
  <2> QED BY <1>1, <1>5, <2>1, <2>2 DEF Good, Formed, Writing
<1> QED BY <1>7, <1>8

LEMMA ImportKeepsGood ==
  ASSUME world \in Worlds, NEW r, Good(r), NEW s, NEW m \in Modules, NEW n \in Modules,
         Met(r, s, m, n)
  PROVE  Good(s) /\ s.stage = "walk" /\ s.versions[n] # 0
<1>1. /\ Differ(r, s, {"versions", "edges"}) /\ r.stage = "walk" /\ r.gomod[n] > 0
      /\ s.versions = [r.versions EXCEPT ![n] = IF r.versions[n] = 0 THEN r.gomod[n] ELSE r.versions[n]]
      /\ s.edges = [r.edges EXCEPT ![m] = r.edges[m] \cup {n}]
  BY DEF Met
<1>2. /\ s.stage = r.stage /\ s.dep = r.dep /\ s.cmd = r.cmd /\ s.walked = r.walked
      /\ s.scanned = r.scanned /\ s.gomod = r.gomod /\ s.expanded = r.expanded
      /\ s.queue = r.queue
  BY <1>1 DEF Differ, Fields
<1>3. /\ Typed(r) /\ r.queue \subseteq Modules /\ r.expanded \subseteq Modules
      /\ r.edges \in [Modules -> SUBSET Modules] /\ r.versions \in Selections
      /\ r.gomod \in Selections /\ r.walked \subseteq Modules /\ r.scanned \subseteq Modules
      /\ r.stage \in Stages /\ r.cmd = "add" /\ r.dep \in Modules /\ r.versions[r.dep] # 0
  BY <1>1 DEF Good, Typed, Formed, Walking
<1>4. /\ s.versions \in Selections /\ s.edges \in [Modules -> SUBSET Modules]
      /\ s.versions[n] # 0 /\ s.versions[r.dep] # 0
  BY <1>1, <1>3, BoundsAssumption DEF Selections
<1>5. Typed(s)
  BY <1>1, <1>2, <1>3, <1>4, WalkTypes DEF GraphFields
<1>6. Formed(s)
  BY <1>1, <1>2, <1>3, <1>4 DEF Formed, Writing
<1> QED BY <1>1, <1>2, <1>4, <1>5, <1>6 DEF Good

LEMMA GetKeepsGood ==
  ASSUME world \in Worlds, NEW r, Good(r), NEW s, NEW n \in Modules, Gotten(r, s, n)
  PROVE  Good(s)
<1>1. /\ Differ(r, s, {"walked", "gomod", "sure"}) /\ r.stage = "walk"
      /\ s.walked = r.walked \cup {n} /\ s.gomod \in AfterGet(r.gomod, n, r.versions[n])
  BY DEF Gotten
<1>2. /\ s.stage = r.stage /\ s.dep = r.dep /\ s.cmd = r.cmd /\ s.versions = r.versions
      /\ s.scanned = r.scanned /\ s.edges = r.edges /\ s.expanded = r.expanded
      /\ s.queue = r.queue
  BY <1>1 DEF Differ, Fields
<1>3. /\ Typed(r) /\ r.queue \subseteq Modules /\ r.expanded \subseteq Modules
      /\ r.edges \in [Modules -> SUBSET Modules] /\ r.versions \in Selections
      /\ r.gomod \in Selections /\ r.walked \subseteq Modules /\ r.scanned \subseteq Modules
      /\ r.stage \in Stages /\ r.cmd = "add" /\ r.dep \in Modules /\ r.versions[r.dep] # 0
      /\ r.versions[n] \in 0..MaxVersion
  BY <1>1 DEF Good, Typed, Formed, Walking, Selections
<1>4. s.gomod \in Selections
  BY <1>1, <1>3, AfterGetType
<1>5. Typed(s)
  BY <1>1, <1>2, <1>3, <1>4, WalkTypes DEF GraphFields
<1>6. Formed(s)
  BY <1>1, <1>2, <1>3 DEF Formed, Writing
<1> QED BY <1>5, <1>6 DEF Good

LEMMA DriftKeepsGood ==
  ASSUME NEW r, Good(r), NEW s, NEW U \in SUBSET Modules, Renewed(r, s, U)
  PROVE  Good(s)
<1>1. /\ Differ(r, s, {"versions", "edges", "expanded", "queue", "sure", "clean"})
      /\ s.versions = [m \in Modules |-> IF m \in U THEN r.gomod[m] ELSE r.versions[m]]
      /\ s.edges = [m \in Modules |-> IF m \in U THEN {} ELSE r.edges[m]]
      /\ s.expanded = r.expanded \ U /\ s.queue = U
      /\ r.stage = "expand" /\ U \subseteq Upgraded(r)
  BY DEF Renewed
<1>2. /\ s.stage = r.stage /\ s.dep = r.dep /\ s.cmd = r.cmd /\ s.walked = r.walked
      /\ s.scanned = r.scanned /\ s.gomod = r.gomod
  BY <1>1 DEF Differ, Fields
<1>3. /\ Typed(r) /\ r.expanded \subseteq Modules
      /\ r.edges \in [Modules -> SUBSET Modules] /\ r.versions \in Selections
      /\ r.gomod \in Selections /\ r.walked \subseteq Modules /\ r.scanned \subseteq Modules
      /\ r.stage \in Stages /\ r.cmd = "add" /\ r.dep \in Modules /\ r.versions[r.dep] # 0
  BY <1>1 DEF Good, Typed, Formed, Walking
<1>4. /\ s.versions \in Selections /\ s.edges \in [Modules -> SUBSET Modules]
      /\ s.expanded \subseteq Modules /\ s.queue \subseteq Modules
  BY <1>1, <1>3 DEF Selections
<1>5. s.versions[r.dep] # 0
  BY <1>1, <1>3 DEF Upgraded
<1>6. Typed(s)
  BY <1>1, <1>2, <1>3, <1>4, WalkTypes DEF GraphFields
<1>7. Formed(s)
  BY <1>1, <1>2, <1>3, <1>5 DEF Formed, Writing
<1> QED BY <1>6, <1>7 DEF Good

\* From one stage to the next.
LEMMA StageKeepsGood ==
  ASSUME NEW r, Good(r), NEW s,
         Reconciled(r, s) \/ WalkEnded(r, s) \/ Expanded(r, s) \/ Scanned(r, s)
  PROVE  Good(s)
<1>1. /\ Typed(r) /\ r.queue \subseteq Modules /\ r.expanded \subseteq Modules
      /\ r.edges \in [Modules -> SUBSET Modules] /\ r.versions \in Selections
      /\ r.gomod \in Selections /\ r.walked \subseteq Modules /\ r.scanned \subseteq Modules
  BY DEF Good, Typed
<1>2. CASE Reconciled(r, s)
  <2>1. /\ Differ(r, s, {"stage", "walked"}) /\ s.stage = "walk" /\ s.walked = {r.dep}
        /\ r.cmd = "add" /\ r.dep \in Modules /\ r.versions[r.dep] # 0
    BY <1>2 DEF Reconciled, Good, Formed, Walking
  <2>2. /\ s.dep = r.dep /\ s.cmd = r.cmd /\ s.versions = r.versions /\ s.gomod = r.gomod
        /\ s.scanned = r.scanned /\ s.edges = r.edges /\ s.expanded = r.expanded
        /\ s.queue = r.queue
    BY <2>1 DEF Differ, Fields
  <2>3. Typed(s)
    BY <1>1, <2>1, <2>2, WalkTypes DEF GraphFields, Stages, Locked, Walking
  <2> QED BY <2>1, <2>2, <2>3 DEF Good, Formed, Writing
<1>3. CASE WalkEnded(r, s)
  <2>1. /\ Differ(r, s, {"stage", "queue"}) /\ s.stage = "expand" /\ s.queue \subseteq Modules
        /\ r.cmd = "add" /\ r.dep \in Modules /\ r.versions[r.dep] # 0
    BY <1>3 DEF WalkEnded, Good, Formed, Walking
  <2>2. /\ s.dep = r.dep /\ s.cmd = r.cmd /\ s.versions = r.versions /\ s.gomod = r.gomod
        /\ s.scanned = r.scanned /\ s.edges = r.edges /\ s.expanded = r.expanded
        /\ s.walked = r.walked
    BY <2>1 DEF Differ, Fields
  <2>3. Typed(s)
    BY <1>1, <2>1, <2>2, WalkTypes DEF GraphFields, Stages, Locked, Walking
  <2> QED BY <2>1, <2>2, <2>3 DEF Good, Formed, Writing
<1>4. CASE Expanded(r, s)
  <2>1. /\ Differ(r, s, {"stage", "sure", "clean"}) /\ s.stage = "declare"
        /\ r.cmd = "add" /\ r.dep \in Modules /\ r.versions[r.dep] # 0
    BY <1>4 DEF Expanded, Good, Formed, Walking
  <2>2. /\ s.dep = r.dep /\ s.cmd = r.cmd /\ s.versions = r.versions /\ s.gomod = r.gomod
        /\ s.scanned = r.scanned /\ s.edges = r.edges /\ s.expanded = r.expanded
        /\ s.walked = r.walked /\ s.queue = r.queue
    BY <2>1 DEF Differ, Fields
  <2>3. Typed(s)
    BY <1>1, <2>1, <2>2, WalkTypes DEF GraphFields, Stages, Locked, Walking
  <2> QED BY <2>1, <2>2, <2>3 DEF Good, Formed, Writing
<1>5. CASE Scanned(r, s)
  <2>1. /\ Differ(r, s, {"stage", "scanned"}) /\ s.stage = "hygiene" /\ s.scanned \subseteq Modules
        /\ r.cmd = "add" => r.dep \in Modules
    BY <1>5, InputsAssumption DEF Scanned, Good, Formed
  <2>2. /\ s.dep = r.dep /\ s.cmd = r.cmd /\ s.versions = r.versions /\ s.gomod = r.gomod
        /\ s.edges = r.edges /\ s.expanded = r.expanded
        /\ s.walked = r.walked /\ s.queue = r.queue
    BY <2>1 DEF Differ, Fields
  <2>3. Typed(s)
    BY <1>1, <2>1, <2>2, WalkTypes DEF GraphFields, Stages, Locked
  <2> QED BY <2>1, <2>2, <2>3 DEF Good, Formed, Writing, Walking
<1> QED BY <1>2, <1>3, <1>4, <1>5

LEMMA SkippedLateKeepsGood ==
  ASSUME NEW r, Good(r), NEW s, NEW m \in Modules, SkippedLate(r, s, m)
  PROVE  Good(s)
<1>1. /\ Differ(r, s, {"queue", "clean", "versions"}) /\ s.queue = r.queue \ {m}
      /\ r.stage = "expand"
  BY DEF SkippedLate
<1>2. PICK v \in {r.versions[m], FirstVersion(r, m)} : s.versions = [r.versions EXCEPT ![m] = v]
  BY DEF SkippedLate
<1>3. /\ s.stage = r.stage /\ s.dep = r.dep /\ s.cmd = r.cmd /\ s.walked = r.walked
      /\ s.scanned = r.scanned /\ s.gomod = r.gomod /\ s.edges = r.edges
      /\ s.expanded = r.expanded
  BY <1>1 DEF Differ, Fields
<1>4. /\ Typed(r) /\ r.queue \subseteq Modules /\ r.expanded \subseteq Modules
      /\ r.edges \in [Modules -> SUBSET Modules] /\ r.versions \in Selections
      /\ r.gomod \in Selections /\ r.walked \subseteq Modules /\ r.scanned \subseteq Modules
      /\ r.stage \in Stages /\ r.cmd = "add" /\ r.dep \in Modules /\ r.versions[r.dep] # 0
  BY <1>1 DEF Good, Typed, Formed, Walking
<1>5. s.versions \in Selections /\ s.versions[r.dep] # 0
  BY <1>2, <1>4 DEF Selections, FirstVersion
<1>6. Typed(s)
  BY <1>1, <1>3, <1>4, <1>5, WalkTypes DEF GraphFields
<1>7. Formed(s)
  BY <1>1, <1>3, <1>4, <1>5 DEF Formed, Writing
<1> QED BY <1>6, <1>7 DEF Good

LEMMA WalkedKeepsGood ==
  ASSUME world \in Worlds, NEW r, Good(r), NEW s, Walked(r, s) \/ Scanned(r, s)
  PROVE  Good(s)
<1>1. ASSUME NEW m \in Modules, NEW n \in Modules, NEW t, Met(r, t, m, n), Gotten(t, s, n)
      PROVE  Good(s)
  BY <1>1, ImportKeepsGood, GetKeepsGood
<1>2. ASSUME NEW m \in Modules,
             \/ Dequeued(r, s, m) \/ Skipped(r, s, m) \/ ListedNow(r, s, m)
             \/ SkippedLate(r, s, m) \/ ListedLate(r, s, m)
      PROVE  Good(s)
  BY <1>2, QueueKeepsGood, ListedKeepsGood, SkippedLateKeepsGood
<1>3. Requeued(r, s) => Good(s)
  <2>1. ASSUME Requeued(r, s) PROVE \E m \in Modules : TRUE
    BY <2>1 DEF Requeued, Upgraded
  <2> QED BY <2>1, QueueKeepsGood
<1> QED BY <1>1, <1>2, <1>3, FetchKeepsGood, StageKeepsGood, ImportKeepsGood, DriftKeepsGood
        DEF Walked

-----------------------------------------------------------------------------
(***************************************************************************)
(* The other steps, in the same way, and what they do to the manifest.     *)
(***************************************************************************)
Soiled(r) == [r EXCEPT !.clean = FALSE]

\* p becomes s, and what the others have read is not what the manifest holds now.
Soils(p, s) ==
    /\ DOMAIN proc' = Procs /\ proc'[p] = s
    /\ \A q \in Procs \ {p} : proc'[q] = Soiled(proc[q])

Declared(r, s) ==
    /\ r.stage = "declare" /\ s.stage = "upsert" /\ Differ(r, s, {"stage", "todo"})
    /\ s.todo = UpsertWrites(r)

Wrote(r, s, m) ==
    /\ r.stage \in Writing /\ m \in DOMAIN r.todo /\ ~ Unknown(r, m) /\ Differ(r, s, {"todo"})
    /\ s.todo = [n \in DOMAIN r.todo \ {m} |-> r.todo[n]]

CleanupBegun(r, s) ==
    /\ r.stage = "upsert" /\ DOMAIN r.todo = {} /\ s.stage = "cleanup"
    /\ Differ(r, s, {"stage", "todo"}) /\ s.todo = CleanupWrites(r)

TrimBegun(r, s) ==
    /\ r.stage = "hygiene" \/ (r.stage = "cleanup" /\ DOMAIN r.todo = {})
    /\ s.stage = "trim" /\ s.todo = TrimWrites(manifest) /\ s.base = manifest
    /\ s.cmd = r.cmd /\ s.dep = r.dep /\ s.read = r.read /\ s.scanned = r.scanned
    /\ s.clean = r.clean
    /\ Differ(Idle, s, {"stage", "todo", "base", "cmd", "dep", "read", "scanned", "clean"})

ResolveBegun(r, s) ==
    /\ r.stage = "trim" /\ DOMAIN r.todo = {} /\ s.stage = "resolve"
    /\ Differ(r, s, {"stage", "todo", "base"}) /\ s.base = manifest
    /\ s.todo = ResolveWrites(manifest, r.scanned)

LEMMA DeclareWrites ==
  ASSUME TypeInv, NEW p \in Procs, Declare(p)
  PROVE  \E s : /\ Soils(p, s) /\ Declared(proc[p], s)
                /\ manifest' = [manifest EXCEPT ![proc[p].dep] = Direct(proc[p].versions[proc[p].dep])]
<1> DEFINE r == proc[p]
           s == [r EXCEPT !.stage = "upsert", !.todo = UpsertWrites(r)]
<1>1. /\ proc' = DirtyBut(p, [proc EXCEPT ![p].stage = "upsert", ![p].todo = UpsertWrites(r)])
      /\ manifest' = [manifest EXCEPT ![r.dep] = Direct(r.versions[r.dep])]
      /\ r.stage = "declare" /\ Fields \subseteq DOMAIN r /\ DOMAIN proc = Procs
  BY DEF Declare, TypeInv, Good, Typed
<1>2. Soils(p, s)
  BY <1>1 DEF DirtyBut, Soils, Soiled, Fields
<1>3. Declared(r, s)
  BY <1>1 DEF Declared, Differ, Fields
<1> HIDE DEF s
<1> QED BY <1>1, <1>2, <1>3

LEMMA WriteWrites ==
  ASSUME TypeInv, NEW p \in Procs, Write(p)
  PROVE  \/ Leave(p) /\ UNCHANGED <<env, manifest>>
         \/ \E s : \E m \in DOMAIN proc[p].todo :
               /\ Soils(p, s) /\ Wrote(proc[p], s, m)
               /\ manifest' = [manifest EXCEPT ![m] = proc[p].todo[m]]
               /\ UNCHANGED <<env, mutator, holder>>
<1> DEFINE r == proc[p]
<1>1. PICK m \in DOMAIN r.todo :
          IF Unknown(r, m)
          THEN Leave(p) /\ UNCHANGED manifest
          ELSE /\ manifest' = [manifest EXCEPT ![m] = r.todo[m]]
               /\ proc' = DirtyBut(p, [proc EXCEPT ![p].todo =
                                          [n \in DOMAIN r.todo \ {m} |-> r.todo[n]]])
               /\ UNCHANGED <<mutator, holder>>
  BY Zenon DEF Write
<1>2. r.stage \in Writing /\ UNCHANGED env /\ Fields \subseteq DOMAIN r /\ DOMAIN proc = Procs
  BY DEF Write, TypeInv, Good, Typed
<1>3. CASE Unknown(r, m)
  BY <1>1, <1>2, <1>3
<1>4. CASE ~ Unknown(r, m)
  <2> DEFINE todo == [n \in DOMAIN r.todo \ {m} |-> r.todo[n]]
             s == [r EXCEPT !.todo = todo]
  <2>1. Soils(p, s)
    <3>1. proc' = DirtyBut(p, [proc EXCEPT ![p].todo = todo])
      BY <1>1, <1>4
    <3> HIDE DEF todo
    <3> QED BY <1>2, <3>1 DEF DirtyBut, Soils, Soiled, Fields
  <2>2. Wrote(r, s, m)
    <3> HIDE DEF todo
    <3>1. Differ(r, s, {"todo"}) /\ s.todo = todo
      BY <1>2 DEF Differ, Fields
    <3> QED BY <1>2, <1>4, <3>1 DEF Wrote, todo
  <2> HIDE DEF s
  <2> QED BY <1>1, <1>2, <1>4, <2>1, <2>2
<1> QED BY <1>3, <1>4

LEMMA BeginWrites ==
  ASSUME TypeInv, NEW p \in Procs, BeginCleanup(p) \/ BeginTrim(p) \/ BeginResolve(p)
  PROVE  \E s : Turns(p, s) /\ (CleanupBegun(proc[p], s) \/ TrimBegun(proc[p], s)
                                  \/ ResolveBegun(proc[p], s))
<1> DEFINE r == proc[p]
<1>1. Fields \subseteq DOMAIN r /\ DOMAIN proc = Procs
  BY DEF TypeInv, Good, Typed
<1>2. CASE BeginCleanup(p)
  <2> DEFINE todo == CleanupWrites(r)
             s == [r EXCEPT !.stage = "cleanup", !.todo = todo]
  <2>1. /\ proc' = [proc EXCEPT ![p].stage = "cleanup", ![p].todo = todo]
        /\ r.stage = "upsert" /\ DOMAIN r.todo = {}
    BY <1>2 DEF BeginCleanup
  <2>2. CleanupBegun(r, s)
    <3> HIDE DEF todo
    <3>1. Differ(r, s, {"stage", "todo"}) /\ s.todo = todo /\ s.stage = "cleanup"
      BY <1>1 DEF Differ, Fields
    <3> HIDE DEF s
    <3> QED BY <2>1, <3>1 DEF CleanupBegun, todo
  <2>3. Turns(p, s)
    <3> HIDE DEF todo
    <3> QED BY <1>1, <2>1 DEF Turns, Fields
  <2> QED BY <2>2, <2>3
<1>3. CASE BeginTrim(p)
  <2> DEFINE todo == TrimWrites(manifest)
             s == [Idle EXCEPT !.stage = "trim", !.cmd = r.cmd,
                               !.dep = r.dep, !.read = r.read, !.scanned = r.scanned,
                               !.clean = r.clean, !.base = manifest, !.todo = todo]
  <2>1. Turns(p, s) /\ (r.stage = "hygiene" \/ (r.stage = "cleanup" /\ DOMAIN r.todo = {}))
    BY <1>3 DEF BeginTrim, Turns
  <2>2. TrimBegun(r, s)
    <3> HIDE DEF todo
    <3>1. Fields \subseteq DOMAIN Idle
      BY IdleIsPlanned
    <3>2. /\ Differ(Idle, s, {"stage", "todo", "base", "cmd", "dep", "read", "scanned", "clean"})
          /\ s.todo = todo /\ s.stage = "trim" /\ s.cmd = r.cmd /\ s.dep = r.dep
          /\ s.read = r.read /\ s.scanned = r.scanned /\ s.clean = r.clean /\ s.base = manifest
      BY <3>1 DEF Differ, Fields
    <3> HIDE DEF s
    <3> QED BY <2>1, <3>2 DEF TrimBegun, todo
  <2> QED BY <2>1, <2>2
<1>4. CASE BeginResolve(p)
  <2> DEFINE todo == ResolveWrites(manifest, r.scanned)
             s == [r EXCEPT !.stage = "resolve", !.base = manifest, !.todo = todo]
  <2>1. /\ proc' = [proc EXCEPT ![p].stage = "resolve", ![p].base = manifest, ![p].todo = todo]
        /\ r.stage = "trim" /\ DOMAIN r.todo = {}
    BY <1>4 DEF BeginResolve
  <2>2. ResolveBegun(r, s)
    <3> HIDE DEF todo
    <3>1. /\ Differ(r, s, {"stage", "base", "todo"}) /\ s.todo = todo /\ s.stage = "resolve"
          /\ s.base = manifest
      BY <1>1 DEF Differ, Fields
    <3>2. Differ(r, s, {"stage", "todo", "base"})
      BY <3>1 DEF Differ
    <3> HIDE DEF s
    <3> QED BY <2>1, <3>1, <3>2 DEF ResolveBegun, todo
  <2>3. Turns(p, s)
    <3> HIDE DEF todo
    <3> QED BY <1>1, <2>1 DEF Turns, Fields
  <2> QED BY <2>2, <2>3
<1> QED BY <1>2, <1>3, <1>4

-----------------------------------------------------------------------------
(***************************************************************************)
(* They keep the types too.                                                *)
(***************************************************************************)
LEMMA WritesTypes ==
  ASSUME NEW r, NEW s, Typed(r), Differ(r, s, {"stage", "todo", "base"}), s.stage \in Stages,
         s.base \in Table, DOMAIN s.todo \subseteq Modules,
         \A m \in DOMAIN s.todo : s.todo[m] \in Writes
  PROVE  Typed(s)
<1>1. /\ s.cmd = r.cmd /\ s.read = r.read /\ s.gomod = r.gomod /\ s.versions = r.versions
      /\ s.edges = r.edges /\ s.queue = r.queue /\ s.expanded = r.expanded
      /\ s.walked = r.walked /\ s.scanned = r.scanned /\ Fields \subseteq DOMAIN s
  BY DEF Differ, Fields
<1> QED BY <1>1 DEF Typed

LEMMA SoiledIsGood ==
  ASSUME NEW r, Good(r)
  PROVE  Good(Soiled(r)) /\ Differ(r, Soiled(r), {"clean"}) /\ ~ Soiled(r).clean
<1> DEFINE s == Soiled(r)
<1>1. Fields \subseteq DOMAIN r /\ Typed(r) /\ Formed(r)
  BY DEF Good, Typed
<1>2. Differ(r, s, {"clean"}) /\ ~ s.clean
  BY <1>1 DEF Soiled, Differ, Fields
<1> HIDE DEF s
<1>3. /\ s.stage = r.stage /\ s.cmd = r.cmd /\ s.dep = r.dep /\ s.version = r.version
      /\ s.read = r.read /\ s.base = r.base /\ s.gomod = r.gomod /\ s.versions = r.versions
      /\ s.edges = r.edges /\ s.queue = r.queue /\ s.expanded = r.expanded
      /\ s.walked = r.walked /\ s.scanned = r.scanned /\ s.todo = r.todo
      /\ Fields \subseteq DOMAIN s
  BY <1>2 DEF Differ, Fields
<1>4. Typed(s) /\ Formed(s)
  BY <1>1, <1>3 DEF Typed, Formed
<1> QED BY <1>2, <1>4 DEF Good, s

LEMMA IdleIsGood == Good(Idle)
<1>1. /\ Fields \subseteq DOMAIN Idle /\ Idle.stage = "idle" /\ Idle.cmd = "none"
      /\ Idle.read = [m \in Modules |-> Gone] /\ Idle.base = [m \in Modules |-> Gone]
      /\ Idle.gomod = NoVersions /\ Idle.versions = NoVersions /\ Idle.edges = NoEdges
      /\ Idle.queue = {} /\ Idle.expanded = {} /\ Idle.walked = {} /\ Idle.scanned = {}
      /\ DOMAIN Idle.todo = {}
  BY DEF Fields, Idle
<1>2. NoVersions \in Selections /\ NoEdges \in [Modules -> SUBSET Modules]
      /\ [m \in Modules |-> Gone] \in Table
  BY BoundsAssumption DEF NoVersions, NoEdges, Selections, Table
<1>3. Typed(Idle)
  BY <1>1, <1>2 DEF Typed, Stages
<1>4. Formed(Idle)
  BY <1>1 DEF Formed, Walking, Writing
<1> QED BY <1>3, <1>4 DEF Good

LEMMA UpsertsAreEntries ==
  ASSUME NEW r, Typed(r), NEW m \in DOMAIN UpsertWrites(r)
  PROVE  m \in Modules /\ UpsertWrites(r)[m] \in Entries
<1>1. m \in Modules /\ r.versions[m] \in Versions
  BY DEF UpsertWrites, Transitives, Typed, Selections, Versions
<1>2. (r.read[m].via \ {r.dep}) \cup Parents(r, m) \in SUBSET Modules
  <2>1. r.read[m] \in Writes
    BY <1>1, EntriesAreWrites DEF Typed, Table
  <2> QED BY <2>1 DEF Writes, Parents
<1> QED BY <1>1, <1>2, EntriesAreWrites DEF UpsertWrites

LEMMA CleanupsAreEntries ==
  ASSUME NEW r, Typed(r), NEW m \in DOMAIN CleanupWrites(r)
  PROVE  /\ m \in Modules /\ CleanupWrites(r)[m] \in Writes
         /\ CleanupWrites(r)[m] \in Entries \cup {Gone} \/ r.gomod[m] = 0
<1>1. m \in Modules /\ r.gomod[m] \in 0..MaxVersion
  BY DEF CleanupWrites, Keys, Typed, Selections
<1>2. r.read[m].via \ {r.dep} \in SUBSET Modules
  <2>1. r.read[m] \in Writes
    BY <1>1, EntriesAreWrites DEF Typed, Table
  <2> QED BY <2>1 DEF Writes
<1>3. r.gomod[m] # 0 => r.gomod[m] \in Versions
  BY <1>1 DEF Versions
<1>4. CleanupWrites(r)[m] \in {Gone, Transitive(r.gomod[m], r.read[m].via \ {r.dep})}
  BY DEF CleanupWrites
<1> QED BY <1>1, <1>2, <1>3, <1>4, EntriesAreWrites

LEMMA KeysAreEntries ==
  ASSUME NEW table \in Table, NEW m \in Keys(table)
  PROVE  m \in Modules /\ table[m] \in Entries /\ table[m].version \in Versions
         /\ table[m].via \subseteq Modules
<1>1. m \in Modules /\ table[m] \in Entries /\ table[m].version \in 0..MaxVersion
      /\ table[m].via \subseteq Modules /\ table[m].version > 0
  BY EntriesAreWrites DEF Keys, Table, Writes, Gone
<1> QED BY <1>1 DEF Versions

LEMMA TrimsAreEntries ==
  ASSUME NEW table \in Table, NEW m \in DOMAIN TrimWrites(table)
  PROVE  m \in Modules /\ TrimWrites(table)[m] \in Entries
<1>1. m \in Keys(table) /\ TrimWrites(table)[m] = Transitive(table[m].version, table[m].via \cap Keys(table))
  BY DEF TrimWrites
<1> QED BY <1>1, KeysAreEntries, EntriesAreWrites

LEMMA ResolvesAreEntries ==
  ASSUME NEW table \in Table, NEW imported, NEW m \in DOMAIN ResolveWrites(table, imported)
  PROVE  m \in Modules /\ ResolveWrites(table, imported)[m] \in Entries \cup {Gone}
<1>1. m \in Keys(table) /\ ResolveWrites(table, imported)[m] \in {Gone, Direct(table[m].version)}
  BY DEF ResolveWrites
<1> QED BY <1>1, KeysAreEntries, EntriesAreWrites

LEMMA DeclaredKeepsGood ==
  ASSUME NEW r, Good(r), NEW s, Declared(r, s)
  PROVE  Good(s) /\ r.dep \in Modules /\ Direct(r.versions[r.dep]) \in Entries
<1>1. /\ Differ(r, s, {"stage", "todo"}) /\ r.stage = "declare" /\ s.stage = "upsert"
      /\ s.todo = UpsertWrites(r) /\ Typed(r) /\ r.cmd = "add" /\ r.dep \in Modules
      /\ r.versions[r.dep] # 0 /\ r.base \in Table /\ r.versions \in Selections
  BY DEF Declared, Good, Typed, Formed, Walking
<1>2. s.base = r.base /\ s.dep = r.dep /\ s.cmd = r.cmd /\ Differ(r, s, {"stage", "todo", "base"})
  BY <1>1 DEF Differ, Fields
<1>3. DOMAIN s.todo \subseteq Modules /\ \A m \in DOMAIN s.todo : s.todo[m] \in Entries
  BY <1>1, UpsertsAreEntries
<1>4. Typed(s)
  BY <1>1, <1>2, <1>3, WritesTypes, EntriesAreWrites DEF Stages, Locked, Writing
<1>5. Formed(s)
  BY <1>1, <1>2, <1>3 DEF Formed, Walking
<1>6. r.versions[r.dep] \in Versions
  BY <1>1 DEF Selections, Versions
<1> QED BY <1>1, <1>4, <1>5, <1>6, EntriesAreWrites DEF Good

LEMMA WroteKeepsGood ==
  ASSUME NEW r, Good(r), NEW s, NEW m, Wrote(r, s, m)
  PROVE  Good(s) /\ m \in Modules /\ r.todo[m] \in Entries \cup {Gone}
<1>1. /\ Differ(r, s, {"todo"}) /\ r.stage \in Writing /\ Typed(r) /\ Formed(r)
      /\ m \in DOMAIN r.todo /\ DOMAIN r.todo \subseteq Modules /\ r.base \in Table
      /\ s.todo = [n \in DOMAIN r.todo \ {m} |-> r.todo[n]] /\ ~ Unknown(r, m)
      /\ r.stage \in Stages /\ \A n \in DOMAIN r.todo : r.todo[n] \in Writes
  BY DEF Wrote, Good, Typed
<1>2. /\ s.stage = r.stage /\ s.base = r.base /\ s.dep = r.dep /\ s.cmd = r.cmd
      /\ s.gomod = r.gomod /\ Differ(r, s, {"stage", "todo", "base"})
  BY <1>1 DEF Differ, Fields
<1>3. \A n \in DOMAIN s.todo : n \in DOMAIN r.todo /\ s.todo[n] = r.todo[n]
  BY <1>1
<1>4. Typed(s)
  BY <1>1, <1>2, <1>3, WritesTypes
<1>5. Formed(s)
  BY <1>1, <1>2, <1>3 DEF Formed, Walking, Writing
<1>6. r.todo[m] \in Entries \cup {Gone}
  BY <1>1 DEF Formed, Unknown
<1> QED BY <1>1, <1>4, <1>5, <1>6 DEF Good

LEMMA BegunKeepsGood ==
  ASSUME manifest \in Table, NEW r, Good(r), NEW s,
         CleanupBegun(r, s) \/ TrimBegun(r, s) \/ ResolveBegun(r, s)
  PROVE  Good(s)
<1>1. /\ Typed(r) /\ Formed(r) /\ r.base \in Table /\ r.read \in Table
      /\ r.scanned \subseteq Modules /\ r.cmd \in {"none", "add", "sync"}
  BY DEF Good, Typed
<1>2. CASE CleanupBegun(r, s)
  <2>1. /\ Differ(r, s, {"stage", "todo"}) /\ r.stage = "upsert" /\ s.stage = "cleanup"
        /\ s.todo = CleanupWrites(r) /\ r.cmd = "add" /\ r.dep \in Modules
    BY <1>1, <1>2 DEF CleanupBegun, Formed, Walking
  <2>2. /\ s.base = r.base /\ s.dep = r.dep /\ s.cmd = r.cmd /\ s.gomod = r.gomod
        /\ Differ(r, s, {"stage", "todo", "base"})
    BY <2>1 DEF Differ, Fields
  <2>3. /\ DOMAIN s.todo \subseteq Modules /\ \A m \in DOMAIN s.todo : s.todo[m] \in Writes
        /\ \A m \in DOMAIN s.todo : s.todo[m] \in Entries \cup {Gone} \/ s.gomod[m] = 0
    BY <1>1, <2>1, <2>2, CleanupsAreEntries
  <2>4. Typed(s)
    BY <1>1, <2>1, <2>2, <2>3, WritesTypes DEF Stages, Locked, Writing
  <2>5. Formed(s)
    BY <2>1, <2>2, <2>3 DEF Formed, Walking
  <2> QED BY <2>4, <2>5 DEF Good
<1>3. CASE TrimBegun(r, s)
  <2>1. /\ s.stage = "trim" /\ s.todo = TrimWrites(manifest) /\ s.base = manifest
        /\ s.cmd = r.cmd /\ s.dep = r.dep /\ s.read = r.read /\ s.scanned = r.scanned
        /\ Differ(Idle, s, {"stage", "todo", "base", "cmd", "dep", "read", "scanned", "clean"})
    BY <1>3 DEF TrimBegun
  <2>2. /\ s.gomod = Idle.gomod /\ s.versions = Idle.versions /\ s.edges = Idle.edges
        /\ s.queue = Idle.queue /\ s.expanded = Idle.expanded /\ s.walked = Idle.walked
        /\ Fields \subseteq DOMAIN s
    BY <2>1 DEF Differ, Fields
  <2>3. Typed(Idle)
    BY IdleIsGood DEF Good
  <2>4. DOMAIN s.todo \subseteq Modules /\ \A m \in DOMAIN s.todo : s.todo[m] \in Entries
    BY <2>1, TrimsAreEntries
  <2>5. \A m \in DOMAIN s.todo : s.todo[m] \in Writes
    BY <2>4, EntriesAreWrites
  <2>6. Typed(s)
    BY <1>1, <2>1, <2>2, <2>3, <2>4, <2>5 DEF Typed, Stages, Locked, Writing
  <2>7. Formed(s)
    BY <1>1, <2>1, <2>4 DEF Formed, Walking
  <2> QED BY <2>6, <2>7 DEF Good
<1>4. CASE ResolveBegun(r, s)
  <2>1. /\ Differ(r, s, {"stage", "todo", "base"}) /\ r.stage = "trim" /\ s.stage = "resolve"
        /\ s.todo = ResolveWrites(manifest, r.scanned) /\ s.base = manifest
    BY <1>4 DEF ResolveBegun
  <2>2. s.dep = r.dep /\ s.cmd = r.cmd
    BY <2>1 DEF Differ, Fields
  <2>3. DOMAIN s.todo \subseteq Modules /\ \A m \in DOMAIN s.todo : s.todo[m] \in Entries \cup {Gone}
    BY <2>1, ResolvesAreEntries
  <2>4. Typed(s)
    BY <1>1, <2>1, <2>3, WritesTypes, EntriesAreWrites DEF Stages, Locked, Writing
  <2>5. Formed(s)
    BY <1>1, <2>1, <2>2, <2>3 DEF Formed, Walking
  <2> QED BY <2>4, <2>5 DEF Good
<1> QED BY <1>2, <1>3, <1>4

-----------------------------------------------------------------------------
(***************************************************************************)
(* The beginning and the end of a command, and all the steps together.     *)
(***************************************************************************)
Began(r) ==
    /\ r.stage = "parsed" /\ r.cmd \in {"add", "sync"} /\ r.clean /\ r.base = r.read
    /\ r.read = manifest
    /\ r.cmd = "add" => r.sure /\ <<r.dep, r.version>> \in Requests
    /\ Differ(Idle, r, {"stage", "cmd", "dep", "version", "read", "base", "sure", "clean"})

LEMMA StartBegins ==
  ASSUME TypeInv, NEW p \in Procs, Start(p)
  PROVE  \E s : Turns(p, s) /\ Began(s)
<1>1. Fields \subseteq DOMAIN Idle
  BY IdleIsPlanned
<1>2. ASSUME NEW request \in Requests,
             Turns(p, [Idle EXCEPT !.stage = "parsed", !.cmd = "add",
                          !.dep = request[1], !.version = request[2], !.read = manifest,
                          !.base = manifest, !.sure = TRUE, !.clean = TRUE])
      PROVE  \E s : Turns(p, s) /\ Began(s)
  <2> DEFINE s == [Idle EXCEPT !.stage = "parsed", !.cmd = "add",
                          !.dep = request[1], !.version = request[2], !.read = manifest,
                          !.base = manifest, !.sure = TRUE, !.clean = TRUE]
  <2>1. /\ s.stage = "parsed" /\ s.cmd = "add" /\ s.dep = request[1] /\ s.version = request[2]
        /\ s.read = manifest /\ s.base = manifest /\ s.sure /\ s.clean
        /\ Differ(Idle, s, {"stage", "cmd", "dep", "version", "read", "base", "sure", "clean"})
    BY <1>1 DEF Differ, Fields
  <2>2. Turns(p, s) /\ request = <<request[1], request[2]>>
    BY <1>2, InputsAssumption
  <2> HIDE DEF s
  <2>3. Began(s)
    BY <2>1, <2>2 DEF Began
  <2> QED BY <2>2, <2>3
<1>3. ASSUME Turns(p, [Idle EXCEPT !.stage = "parsed", !.cmd = "sync",
                          !.read = manifest, !.base = manifest, !.clean = TRUE])
      PROVE  \E s : Turns(p, s) /\ Began(s)
  <2> DEFINE s == [Idle EXCEPT !.stage = "parsed", !.cmd = "sync",
                          !.read = manifest, !.base = manifest, !.clean = TRUE]
  <2>1. /\ s.stage = "parsed" /\ s.cmd = "sync"
        /\ s.read = manifest /\ s.base = manifest /\ s.clean
        /\ Differ(Idle, s, {"stage", "cmd", "dep", "version", "read", "base", "sure", "clean"})
    BY <1>1 DEF Differ, Fields
  <2>2. Turns(p, s)
    BY <1>3
  <2> HIDE DEF s
  <2>3. Began(s)
    BY <2>1 DEF Began
  <2> QED BY <2>2, <2>3
<1> QED BY <1>2, <1>3, Zenon DEF Start, Turns

LEMMA BeganIsGood ==
  ASSUME manifest \in Table, NEW r, Began(r)
  PROVE  Good(r)
<1>1. /\ r.stage = "parsed" /\ r.cmd \in {"add", "sync"}
      /\ r.cmd = "add" => r.dep \in Modules /\ r.version \in Versions
      /\ r.read \in Table /\ r.base \in Table
  BY InputsAssumption DEF Began
<1>2. /\ r.gomod = Idle.gomod /\ r.versions = Idle.versions /\ r.edges = Idle.edges
      /\ r.queue = Idle.queue /\ r.expanded = Idle.expanded /\ r.walked = Idle.walked
      /\ r.scanned = Idle.scanned /\ r.todo = Idle.todo /\ Fields \subseteq DOMAIN r
  BY DEF Began, Differ, Fields
<1>3. Typed(r)
  BY <1>1, <1>2, IdleIsGood DEF Good, Typed, Stages
<1>4. Formed(r)
  BY <1>1 DEF Formed, Walking, Writing
<1> QED BY <1>3, <1>4 DEF Good

\* A lock is taken: the command goes on, or it ends at once.
Locks(r, s) ==
    /\ Differ(r, s, {"stage"})
    /\ \/ r.stage = "parsed" /\ s.stage = "waiting"
       \/ r.stage = "waiting" /\ s.stage = IF r.cmd = "add" THEN "fetch" ELSE "scan"

LEMMA AcquireLocks ==
  ASSUME TypeInv, NEW p \in Procs, AcquireMutationLock(p) \/ AcquireTargetLock(p)
  PROVE  Turns(p, Idle) \/ \E s : Turns(p, s) /\ Locks(proc[p], s)
<1> DEFINE r == proc[p]
<1>1. Fields \subseteq DOMAIN r /\ DOMAIN proc = Procs
  BY DEF TypeInv, Good, Typed
<1>2. ASSUME NEW stage
      PROVE  [proc EXCEPT ![p].stage = stage] = [proc EXCEPT ![p] = [r EXCEPT !.stage = stage]]
  BY <1>1
<1>3. ASSUME NEW stage
      PROVE  Differ(r, [r EXCEPT !.stage = stage], {"stage"}) /\ [r EXCEPT !.stage = stage].stage = stage
  BY <1>1 DEF Differ, Fields
<1>4. CASE AcquireMutationLock(p)
  <2>1. r.stage = "parsed" /\ (Turns(p, Idle) \/ Turns(p, [r EXCEPT !.stage = "waiting"]))
    BY <1>4, <1>2 DEF AcquireMutationLock, Turns
  <2> QED BY <1>3, <2>1 DEF Locks
<1>5. CASE AcquireTargetLock(p)
  <2> DEFINE stage == IF r.cmd = "add" THEN "fetch" ELSE "scan"
  <2>1. r.stage = "waiting" /\ Turns(p, [r EXCEPT !.stage = stage])
    BY <1>5, <1>2 DEF AcquireTargetLock, Turns
  <2>2. Differ(r, [r EXCEPT !.stage = stage], {"stage"}) /\ [r EXCEPT !.stage = stage].stage = stage
    BY <1>3
  <2>3. Locks(r, [r EXCEPT !.stage = stage])
    BY <2>1, <2>2 DEF Locks
  <2> QED BY <2>1, <2>3
<1> QED BY <1>4, <1>5

LEMMA LocksKeepGood ==
  ASSUME NEW r, Good(r), NEW s, Locks(r, s)
  PROVE  Good(s)
<1>1. /\ Typed(r) /\ Formed(r) /\ Differ(r, s, {"stage"})
      /\ \/ r.stage = "parsed" /\ s.stage = "waiting"
         \/ r.stage = "waiting" /\ s.stage = IF r.cmd = "add" THEN "fetch" ELSE "scan"
  BY DEF Good, Locks
<1>2. /\ s.cmd = r.cmd /\ s.dep = r.dep /\ s.version = r.version
      /\ s.read = r.read /\ s.base = r.base /\ s.gomod = r.gomod /\ s.versions = r.versions
      /\ s.edges = r.edges /\ s.queue = r.queue /\ s.expanded = r.expanded
      /\ s.walked = r.walked /\ s.scanned = r.scanned /\ s.todo = r.todo
      /\ Fields \subseteq DOMAIN s
  BY <1>1 DEF Differ, Fields
<1>3. Typed(s)
  BY <1>1, <1>2 DEF Typed, Stages, Locked, Walking
<1>4. Formed(s)
  BY <1>1, <1>2 DEF Formed, Walking, Writing
<1> QED BY <1>3, <1>4 DEF Good

\* What a step does to the commands and to the manifest, whatever it is.
Steps(p) ==
    \/ UNCHANGED manifest /\ \E s : Turns(p, s) /\
          (s = Idle \/ Began(s) \/ Locks(proc[p], s) \/ Walked(proc[p], s) \/ Scanned(proc[p], s)
             \/ CleanupBegun(proc[p], s) \/ TrimBegun(proc[p], s) \/ ResolveBegun(proc[p], s))
    \/ \E s : /\ Soils(p, s) /\ Declared(proc[p], s)
              /\ manifest' = [manifest EXCEPT ![proc[p].dep] = Direct(proc[p].versions[proc[p].dep])]
    \/ \E s : \E m \in DOMAIN proc[p].todo :
          /\ Soils(p, s) /\ Wrote(proc[p], s, m)
          /\ manifest' = [manifest EXCEPT ![m] = proc[p].todo[m]]

LEMMA EveryStep ==
  ASSUME TypeInv, NEW p \in Procs, Start(p) \/ Work(p) \/ Quit(p)
  PROVE  Steps(p)
<1>1. CASE Quit(p) \/ Finish(p)
  <2>1. Turns(p, Idle) /\ UNCHANGED manifest
    BY <1>1 DEF Quit, Finish, Leave, Turns
  <2> QED BY <2>1 DEF Steps
<1>2. CASE Start(p)
  <2>1. UNCHANGED manifest
    BY <1>2 DEF Start
  <2> QED BY <1>2, <2>1, StartBegins DEF Steps
<1>3. CASE AcquireMutationLock(p) \/ AcquireTargetLock(p)
  <2>1. UNCHANGED manifest
    BY <1>3 DEF AcquireMutationLock, AcquireTargetLock
  <2> QED BY <1>3, <2>1, AcquireLocks DEF Steps
<1>4. CASE \/ Fetch(p) \/ ReconcileModule(p) \/ ReconcileDrift(p) \/ WalkImport(p)
           \/ EndWalk(p) \/ ExpandModule(p) \/ ExpandDrift(p) \/ Scan(p)
  <2>1. UNCHANGED manifest
    BY <1>4 DEF Fetch, ReconcileModule, ReconcileDrift, WalkImport, EndWalk, ExpandModule,
                ExpandDrift, Scan
  <2>2. Walks(p)
    BY <1>4, FetchWalks, ReconcileModuleWalks, ReconcileDriftWalks, WalkImportWalks, EndWalkWalks,
       ExpandModuleWalks, ExpandDriftWalks, ScanWalks
  <2> QED BY <2>1, <2>2 DEF Steps, Walks
<1>5. CASE BeginCleanup(p) \/ BeginTrim(p) \/ BeginResolve(p)
  <2>1. UNCHANGED manifest
    BY <1>5 DEF BeginCleanup, BeginTrim, BeginResolve
  <2> QED BY <1>5, <2>1, BeginWrites DEF Steps
<1>6. CASE Declare(p)
  BY <1>6, DeclareWrites DEF Steps
<1>7. CASE Write(p)
  <2>1. CASE Leave(p) /\ UNCHANGED <<env, manifest>>
    <3>1. Turns(p, Idle) /\ UNCHANGED manifest
      BY <2>1 DEF Leave, Turns
    <3> QED BY <3>1 DEF Steps
  <2>2. CASE \E s : \E m \in DOMAIN proc[p].todo :
                /\ Soils(p, s) /\ Wrote(proc[p], s, m)
                /\ manifest' = [manifest EXCEPT ![m] = proc[p].todo[m]]
                /\ UNCHANGED <<env, mutator, holder>>
    BY <2>2 DEF Steps
  <2> QED BY <1>7, <2>1, <2>2, WriteWrites
<1> QED BY <1>1, <1>2, <1>3, <1>4, <1>5, <1>6, <1>7 DEF Work

LEMMA TurnsKeepTypes ==
  ASSUME TypeInv, NEW p \in Procs, NEW s, Good(s), Turns(p, s)
  PROVE  DOMAIN proc' = Procs /\ \A q \in Procs : Good(proc'[q])
  BY DEF TypeInv, Turns

LEMMA SoilsKeepTypes ==
  ASSUME TypeInv, NEW p \in Procs, NEW s, Good(s), Soils(p, s)
  PROVE  DOMAIN proc' = Procs /\ \A q \in Procs : Good(proc'[q])
  BY SoiledIsGood DEF TypeInv, Soils

LEMMA StepsKeepTypes ==
  ASSUME TypeInv, NEW p \in Procs, Steps(p)
  PROVE  /\ manifest' \in Table
         /\ DOMAIN proc' = Procs /\ \A q \in Procs : Good(proc'[q])
<1>1. Good(proc[p]) /\ world \in Worlds /\ manifest \in Table
  BY DEF TypeInv
<1>2. ASSUME UNCHANGED manifest, NEW s, Turns(p, s),
             \/ s = Idle \/ Began(s) \/ Locks(proc[p], s)
             \/ Walked(proc[p], s) \/ Scanned(proc[p], s)
             \/ CleanupBegun(proc[p], s) \/ TrimBegun(proc[p], s) \/ ResolveBegun(proc[p], s)
      PROVE  manifest' \in Table /\ DOMAIN proc' = Procs /\ \A q \in Procs : Good(proc'[q])
  <2>1. Good(s)
    BY <1>1, <1>2, IdleIsGood, BeganIsGood, LocksKeepGood, WalkedKeepsGood, BegunKeepsGood
  <2> QED BY <1>1, <1>2, <2>1, TurnsKeepTypes
<1>3. ASSUME NEW s, Soils(p, s), Declared(proc[p], s),
             manifest' = [manifest EXCEPT ![proc[p].dep] = Direct(proc[p].versions[proc[p].dep])]
      PROVE  manifest' \in Table /\ DOMAIN proc' = Procs /\ \A q \in Procs : Good(proc'[q])
  <2>1. Good(s) /\ proc[p].dep \in Modules /\ Direct(proc[p].versions[proc[p].dep]) \in Entries
    BY <1>1, <1>3, DeclaredKeepsGood
  <2> QED BY <1>1, <1>3, <2>1, SoilsKeepTypes DEF Table
<1>4. ASSUME NEW s, NEW m \in DOMAIN proc[p].todo, Soils(p, s), Wrote(proc[p], s, m),
             manifest' = [manifest EXCEPT ![m] = proc[p].todo[m]]
      PROVE  manifest' \in Table /\ DOMAIN proc' = Procs /\ \A q \in Procs : Good(proc'[q])
  <2>1. Good(s) /\ m \in Modules /\ proc[p].todo[m] \in Entries \cup {Gone}
    BY <1>1, <1>4, WroteKeepsGood
  <2> QED BY <1>1, <1>4, <2>1, SoilsKeepTypes DEF Table
<1> QED BY <1>2, <1>3, <1>4 DEF Steps

LEMMA EditSoils ==
  ASSUME TypeInv, Edit
  PROVE  /\ manifest' \in Table /\ surprises' \in 0..MaxSurprises
         /\ DOMAIN proc' = Procs /\ \A q \in Procs : proc'[q] = Soiled(proc[q])
<1>1. PICK m \in Modules, entry \in {Gone} \cup {Direct(v) : v \in Versions} :
        manifest' = [manifest EXCEPT ![m] = entry]
  BY DEF Edit
<1>2. entry \in Entries \cup {Gone} /\ manifest \in Table /\ surprises \in 0..MaxSurprises
  BY EntriesAreWrites DEF TypeInv
<1>3. surprises' \in 0..MaxSurprises
  BY <1>2, BoundsAssumption DEF Edit, Surprise
<1> QED BY <1>1, <1>2, <1>3 DEF Edit, Soiled, Table

\* The locks and the counters.
LEMMA CountersType ==
  ASSUME TypeInv, NEW p \in Procs, Start(p) \/ Work(p) \/ Quit(p)
  PROVE  /\ commands' \in 0..MaxCommands /\ surprises' \in 0..MaxSurprises
         /\ mutator' \in Procs \cup {None} /\ holder' \in Procs \cup {None, "other"}
         /\ UNCHANGED world
<1>1. /\ commands \in 0..MaxCommands /\ surprises \in 0..MaxSurprises
      /\ mutator \in Procs \cup {None} /\ holder \in Procs \cup {None, "other"}
  BY DEF TypeInv
<1>2. CASE Start(p)
  <2>1. /\ commands < MaxCommands /\ commands' = commands + 1
        /\ UNCHANGED <<world, manifest, mutator, holder, surprises>>
    BY <1>2, Zenon DEF Start
  <2> QED BY <1>1, <2>1, BoundsAssumption
<1>3. CASE ReconcileModule(p) \/ ExpandModule(p) \/ ExpandDrift(p)
  <2>1. (Surprise \/ UNCHANGED surprises) /\ UNCHANGED <<world, commands, mutator, holder>>
    BY <1>3, Zenon DEF ReconcileModule, ExpandModule, ExpandDrift
  <2> QED BY <1>1, <2>1, BoundsAssumption DEF Surprise
<1>4. CASE Quit(p) \/ Finish(p)
  BY <1>1, <1>4 DEF Quit, Finish, Leave, env
<1>5. CASE Write(p)
  <2>1. (Leave(p) \/ UNCHANGED <<mutator, holder>>) /\ UNCHANGED env
    BY <1>5, Zenon DEF Write
  <2> QED BY <1>1, <2>1 DEF Leave, env
<1>6. CASE \/ AcquireMutationLock(p) \/ AcquireTargetLock(p) \/ Fetch(p) \/ ReconcileDrift(p)
           \/ WalkImport(p) \/ EndWalk(p) \/ Declare(p) \/ BeginCleanup(p) \/ Scan(p)
           \/ BeginTrim(p) \/ BeginResolve(p)
  BY <1>1, <1>6 DEF AcquireMutationLock, AcquireTargetLock, Fetch, ReconcileDrift, WalkImport,
     EndWalk, Declare, BeginCleanup, Scan, BeginTrim, BeginResolve, env
<1> QED BY <1>2, <1>3, <1>4, <1>5, <1>6 DEF Work

LEMMA TypesStart == Init => TypeInv
<1> SUFFICES ASSUME Init PROVE TypeInv
  OBVIOUS
<1>1. world \in Worlds /\ manifest \in Table
  BY StartsAssumption DEF Init, Worlds, Table
<1>2. DOMAIN proc = Procs /\ \A p \in Procs : Good(proc[p])
  BY IdleIsGood DEF Init
<1> QED BY <1>1, <1>2, BoundsAssumption DEF Init, TypeInv

LEMMA TypesStep == TypeInv /\ [Next]_vars => TypeInv'
<1> SUFFICES ASSUME TypeInv, [Next]_vars PROVE TypeInv'
  OBVIOUS
<1>1. /\ world \in Worlds /\ manifest \in Table /\ DOMAIN proc = Procs
      /\ \A q \in Procs : Good(proc[q])
      /\ commands \in 0..MaxCommands /\ surprises \in 0..MaxSurprises
      /\ mutator \in Procs \cup {None} /\ holder \in Procs \cup {None, "other"}
  BY DEF TypeInv
<1>2. ASSUME NEW p \in Procs, Start(p) \/ Work(p) \/ Quit(p)
      PROVE  TypeInv'
  <2>1. Steps(p)
    BY <1>2, EveryStep
  <2>2. /\ manifest' \in Table
        /\ DOMAIN proc' = Procs /\ \A q \in Procs : Good(proc'[q])
    BY <2>1, StepsKeepTypes
  <2>3. /\ commands' \in 0..MaxCommands /\ surprises' \in 0..MaxSurprises
        /\ mutator' \in Procs \cup {None} /\ holder' \in Procs \cup {None, "other"}
        /\ world' \in Worlds
    BY <1>1, <1>2, CountersType
  <2> QED BY <2>2, <2>3 DEF TypeInv, Good, Typed, Formed
<1>3. CASE Edit
  <2>1. /\ manifest' \in Table /\ surprises' \in 0..MaxSurprises
        /\ DOMAIN proc' = Procs /\ \A q \in Procs : Good(proc'[q])
    BY <1>1, <1>3, EditSoils, SoiledIsGood
  <2> QED BY <1>1, <1>3, <2>1 DEF Edit, TypeInv, Good, Typed, Formed
<1>4. CASE OtherTakesTarget \/ OtherLeavesTarget
  BY <1>1, <1>4 DEF OtherTakesTarget, OtherLeavesTarget, env, TypeInv, Good, Typed, Formed
<1>5. CASE UNCHANGED vars
  BY <1>1, <1>5 DEF vars, TypeInv, Good, Typed, Formed
<1> QED BY <1>2, <1>3, <1>4, <1>5 DEF Next

LEMMA TypeInvariant == Spec => []TypeInv
  BY TypesStart, TypesStep, PTL DEF Spec

\* TypeOK: whatever the modules require and however Go moves their versions, the manifest holds
\* entries with a version, and a write that is left is one of a known module; a version that
\* Go does not know is never written.
THEOREM Types == Spec => []TypeOK
<1>1. TypeInv => TypeOK
  BY DEF TypeInv, Good, Typed, TypeOK, Table, Writes
<1> QED BY <1>1, TypeInvariant, PTL

-----------------------------------------------------------------------------
(***************************************************************************)
(* The graph walk keeps the graph exact while Go takes nothing back, and   *)
(* closed while nothing is skipped.                                        *)
(***************************************************************************)
\* What the types say of the numbers and sets of a graph.
LEMMA GraphTypes ==
  ASSUME world \in Worlds, NEW r, Typed(r)
  PROVE  /\ \A m \in Modules : r.versions[m] \in Nat /\ r.gomod[m] \in Nat
                               /\ r.versions[m] \in 0..MaxVersion /\ r.gomod[m] \in 0..MaxVersion
         /\ r.edges \in [Modules -> SUBSET Modules] /\ r.versions \in [Modules -> 0..MaxVersion]
         /\ r.gomod \in Selections /\ r.versions \in Selections
         /\ r.queue \subseteq Modules /\ r.expanded \subseteq Modules /\ r.walked \subseteq Modules
  BY BoundsAssumption DEF Typed, Selections

\* What is known of a version, and how the selected versions go up when it is listed.
LEMMA Rising ==
  ASSUME world \in Worlds, NEW gomod \in Selections, NEW m \in Modules, NEW v \in 0..MaxVersion
  PROVE  /\ Join(gomod, Requires(m, v)) \in Selections
         /\ \A k \in Modules : /\ gomod[k] \in Nat /\ Join(gomod, Requires(m, v))[k] \in Nat
                               /\ Requires(m, v)[k] \in Nat
                               /\ Join(gomod, Requires(m, v))[k] >= gomod[k]
                               /\ Join(gomod, Requires(m, v))[k] >= Requires(m, v)[k]
         /\ \A k \in Listed(m, v) : k \in Modules /\ k # m /\ Requires(m, v)[k] > 0
         /\ (\A k \in Modules : gomod[k] >= Requires(m, v)[k]) => Join(gomod, Requires(m, v)) = gomod
<1>1. Requires(m, v) \in Selections
  BY RequiresType
<1>2. \A k \in Modules : gomod[k] \in Nat /\ Requires(m, v)[k] \in Nat
  BY <1>1, BoundsAssumption DEF Selections
<1>3. (\A k \in Modules : gomod[k] >= Requires(m, v)[k]) => Join(gomod, Requires(m, v)) = gomod
  BY DEF Join, Selections
<1> QED BY <1>1, <1>2, <1>3, JoinIsHighest, BoundsAssumption DEF Listed, Selections

\* Steps that change no version and no edge, and select nothing lower.
LEMMA RisingKeepsExact ==
  ASSUME world \in Worlds, NEW r, NEW s, Typed(r), Typed(s), Exact(r),
         s.versions = r.versions, s.edges = r.edges, s.expanded = r.expanded,
         \A m \in Modules : s.gomod[m] >= r.gomod[m],
         s.stage \in {"reconcile", "expand"} => \A m \in s.queue : s.gomod[m] # 0,
         s.stage # "declare"
  PROVE  Exact(s)
<1>1. \A m \in Modules : /\ r.versions[m] \in Nat /\ r.gomod[m] \in Nat /\ s.gomod[m] \in Nat
  BY GraphTypes
<1>2. \A m \in Modules : s.versions[m] = s.gomod[m] => r.gomod[m] = s.gomod[m]
  BY <1>1 DEF Exact
<1>3. s.expanded \subseteq Modules
  BY DEF Typed
<1> QED BY <1>1, <1>2, <1>3 DEF Exact

LEMMA FetchedKeepsGraph ==
  ASSUME world \in Worlds, NEW r, Good(r), Graph(r), NEW s, Good(s), Fetched(r, s)
  PROVE  Graph(s)
<1>1. /\ r.stage = "fetch" /\ s.stage = "reconcile" /\ s.queue = {r.dep} /\ r.cmd = "add"
      /\ r.sure /\ r.versions = NoVersions /\ r.edges = NoEdges /\ r.expanded = {}
      /\ Differ(r, s, {"stage", "queue", "gomod"}) /\ s.gomod[s.dep] # 0
  BY DEF Fetched, Good, Graph, Formed, Walking
<1>2. /\ s.versions = NoVersions /\ s.edges = NoEdges /\ s.expanded = {} /\ s.sure = r.sure
      /\ s.dep = r.dep /\ s.cmd = r.cmd
  BY <1>1 DEF Differ, Fields
<1>3. \A m \in Modules : s.versions[m] = 0 /\ s.edges[m] = {} /\ s.gomod[m] \in Nat
  BY <1>2, GraphTypes DEF NoVersions, NoEdges, Good
<1>4. Exact(s)
  BY <1>1, <1>2, <1>3 DEF Exact
<1>5. Spread(s)
  BY <1>1, <1>2, <1>3 DEF Spread
<1> QED BY <1>1, <1>2, <1>4, <1>5 DEF Graph

LEMMA QueueKeepsGraph ==
  ASSUME world \in Worlds, NEW r, Good(r), Graph(r), NEW s, Good(s), NEW m \in Modules,
         Dequeued(r, s, m) \/ Skipped(r, s, m) \/ Requeued(r, s)
  PROVE  Graph(s)
<1>1. /\ Differ(r, s, {"queue", "clean"}) /\ r.stage = "reconcile"
      /\ s.queue \subseteq r.queue \/ (r.queue = {} /\ s.queue = Upgraded(r))
  BY DEF Dequeued, Skipped, Requeued, Differ
<1>2. /\ s.stage = r.stage /\ s.gomod = r.gomod /\ s.dep = r.dep /\ s.cmd = r.cmd
      /\ s.versions = r.versions /\ s.edges = r.edges /\ s.sure = r.sure
      /\ s.expanded = r.expanded
  BY <1>1 DEF Differ, Fields
<1>3. r.cmd = "add" /\ r.sure /\ Exact(r)
  BY <1>1 DEF Graph, Graphing, Good, Formed, Walking
<1>4. Exact(s)
  BY <1>1, <1>2, <1>3 DEF Exact, Upgraded
<1>5. ASSUME s.clean PROVE Spread(s)
  <2>1. r.clean /\ Spread(r)
    <3>1. Dequeued(r, s, m) \/ Requeued(r, s)
      BY <1>5 DEF Skipped
    <3>2. Differ(r, s, {"queue"})
      BY <3>1 DEF Dequeued, Requeued
    <3>3. s.clean = r.clean
      BY <3>2 DEF Differ, Fields
    <3> QED BY <1>1, <1>5, <3>3 DEF Graph
  <2>2. CASE Dequeued(r, s, m)
    <3>1. r.versions[m] = r.gomod[m] /\ m \in r.queue /\ s.queue = r.queue \ {m}
      BY <2>2 DEF Dequeued
    <3>2. m \in r.expanded
      BY <1>1, <1>3, <2>1, <3>1 DEF Exact, Spread
    <3> QED BY <1>2, <2>1, <3>1, <3>2 DEF Spread, Covered
  <2>3. CASE Requeued(r, s)
    BY <1>2, <2>1, <2>3 DEF Spread, Covered, Requeued
  <2> QED BY <1>5, <2>2, <2>3 DEF Skipped
<1> QED BY <1>1, <1>2, <1>3, <1>4, <1>5 DEF Graph

LEMMA ListedNowKeepsGraph ==
  ASSUME world \in Worlds, NEW r, Good(r), Graph(r), NEW s, Good(s), NEW m \in Modules,
         ListedNow(r, s, m)
  PROVE  Graph(s)
<1> DEFINE v == r.gomod[m]
<1>1. /\ Differ(r, s, {"gomod", "versions", "edges", "expanded", "queue"})
      /\ r.stage = "reconcile" /\ m \in r.queue
      /\ s.gomod = Join(r.gomod, Requires(m, v))
      /\ s.versions = [r.versions EXCEPT ![m] = v]
      /\ s.edges = [r.edges EXCEPT ![m] = Listed(m, v)]
      /\ s.expanded = r.expanded \cup {m}
      /\ s.queue = (r.queue \ {m}) \cup Listed(m, v)
  BY DEF ListedNow
<1>2. /\ s.stage = r.stage /\ s.dep = r.dep /\ s.cmd = r.cmd /\ s.sure = r.sure /\ s.clean = r.clean
  BY <1>1 DEF Differ, Fields
<1>3. r.cmd = "add" /\ r.sure /\ Exact(r)
  BY <1>1 DEF Graph, Graphing, Good, Formed, Walking
<1>4. /\ \A k \in Modules : r.versions[k] \in Nat /\ r.gomod[k] \in Nat
      /\ r.edges \in [Modules -> SUBSET Modules] /\ r.versions \in [Modules -> 0..MaxVersion]
      /\ r.gomod \in Selections /\ r.queue \subseteq Modules /\ r.expanded \subseteq Modules
      /\ v \in 0..MaxVersion
  BY GraphTypes DEF Good
<1> HIDE DEF v
<1>5. /\ \A k \in Modules : /\ s.gomod[k] \in Nat /\ s.gomod[k] >= r.gomod[k]
                            /\ Requires(m, v)[k] \in Nat /\ s.gomod[k] >= Requires(m, v)[k]
      /\ \A k \in Listed(m, v) : k \in Modules /\ k # m /\ Requires(m, v)[k] > 0
  BY <1>1, <1>4, Rising
<1>6. /\ v # 0 /\ s.versions[m] = v /\ s.edges[m] = Listed(m, v)
      /\ \A k \in Modules \ {m} : s.versions[k] = r.versions[k] /\ s.edges[k] = r.edges[k]
  BY <1>1, <1>3, <1>4 DEF Exact, v
<1>7. Exact(s)
  <2>1. \A k \in Modules : s.versions[k] <= s.gomod[k]
    <3>1. s.versions[m] <= s.gomod[m]
      BY <1>4, <1>5, <1>6 DEF v
    <3>2. \A k \in Modules \ {m} : s.versions[k] <= s.gomod[k]
      BY <1>3, <1>4, <1>5, <1>6 DEF Exact
    <3> QED BY <3>1, <3>2
  <2>2. \A k \in Modules : s.versions[k] = 0 => k \notin s.expanded /\ s.edges[k] = {}
    BY <1>1, <1>3, <1>6 DEF Exact
  <2>3. \A k \in Modules \ {m} : s.versions[k] = s.gomod[k] => r.versions[k] = r.gomod[k] /\ s.gomod[k] = r.gomod[k]
    BY <1>3, <1>4, <1>5, <1>6 DEF Exact
  <2>4. \A k \in Modules : s.versions[k] = s.gomod[k] => s.edges[k] \subseteq Listed(k, s.gomod[k])
    BY <1>3, <1>6, <2>3 DEF Exact
  <2>5. \A k \in s.expanded : s.versions[k] = s.gomod[k] => s.edges[k] = Listed(k, s.gomod[k])
    BY <1>1, <1>3, <1>4, <1>6, <2>3 DEF Exact
  <2>6. \A k \in s.queue : s.gomod[k] # 0
    <3>1. \A k \in r.queue : s.gomod[k] # 0
      BY <1>1, <1>3, <1>4, <1>5 DEF Exact
    <3>2. \A k \in Listed(m, v) : s.gomod[k] # 0
      BY <1>5
    <3> QED BY <1>1, <3>1, <3>2
  <2> QED BY <1>1, <1>2, <2>1, <2>2, <2>4, <2>5, <2>6 DEF Exact
<1>8. ASSUME r.clean PROVE Spread(s)
  <2>1. Spread(r)
    BY <1>1, <1>8 DEF Graph
  <2>2. Covered(s, m)
    BY <1>5, <1>6 DEF Covered
  <2>3. ASSUME NEW k \in r.expanded, k # m PROVE Covered(s, k)
    <3>1. Covered(r, k) /\ k \in Modules /\ s.versions[k] = r.versions[k] /\ s.edges[k] = r.edges[k]
      BY <1>4, <1>6, <2>1, <2>3 DEF Spread
    <3>2. \A n \in Modules : Requires(k, r.versions[k])[n] \in Nat
      BY <1>4, <3>1, Rising
    <3> QED BY <1>4, <1>5, <3>1, <3>2 DEF Covered
  <2>4. \A k \in Modules : s.edges[k] \subseteq s.expanded \cup s.queue
    BY <1>1, <1>6, <2>1 DEF Spread
  <2> QED BY <1>1, <1>2, <1>6, <2>1, <2>2, <2>3, <2>4 DEF Spread
<1> QED BY <1>1, <1>2, <1>3, <1>7, <1>8 DEF Graph

LEMMA ReconciledKeepsGraph ==
  ASSUME world \in Worlds, NEW r, Good(r), Graph(r), NEW s, Good(s), Reconciled(r, s)
  PROVE  Graph(s)
<1>1. /\ Differ(r, s, {"stage", "walked"}) /\ s.stage = "walk" /\ s.walked = {r.dep}
      /\ r.stage = "reconcile" /\ r.queue = {} /\ Upgraded(r) = {}
  BY DEF Reconciled
<1>2. /\ s.dep = r.dep /\ s.cmd = r.cmd /\ s.versions = r.versions /\ s.gomod = r.gomod
      /\ s.edges = r.edges /\ s.expanded = r.expanded /\ s.sure = r.sure /\ s.clean = r.clean
  BY <1>1 DEF Differ, Fields
<1>3. r.cmd = "add" /\ r.sure /\ Exact(r)
  BY <1>1 DEF Graph, Graphing, Good, Formed, Walking
<1>4. Exact(s)
  BY <1>1, <1>2, <1>3 DEF Exact
<1>5. ASSUME r.clean PROVE Closed(s) /\ s.walked \subseteq s.expanded
  <2>1. Spread(r) /\ r.expanded \subseteq Modules
    BY <1>1, <1>5 DEF Graph, Good, Typed
  <2>2. \A m \in Modules : r.versions[m] \in Nat /\ r.gomod[m] \in Nat
    BY GraphTypes DEF Good
  <2>3. \A m \in r.expanded : r.versions[m] = r.gomod[m]
    BY <1>1, <1>3, <2>1, <2>2 DEF Upgraded, Exact, Spread, Covered
  <2> QED BY <1>1, <1>2, <1>3, <2>1, <2>3 DEF Spread, Closed, Covered, Exact
<1> QED BY <1>1, <1>2, <1>3, <1>4, <1>5 DEF Graph

\* The package of a module that is closed leads to no other: nothing moves.
LEMMA MetKeepsGraph ==
  ASSUME world \in Worlds, NEW r, Good(r), Graph(r), NEW s, Good(s),
         NEW m \in Modules, NEW n \in Modules, Met(r, s, m, n)
  PROVE  Graph(s) /\ (s.clean => n \in s.expanded)
<1>1. /\ r.stage = "walk" /\ m \in r.walked /\ n \in Listed(m, r.versions[m]) /\ r.gomod[n] > 0
      /\ Differ(r, s, {"versions", "edges"})
      /\ s.versions = [r.versions EXCEPT ![n] = IF r.versions[n] = 0 THEN r.gomod[n] ELSE r.versions[n]]
      /\ s.edges = [r.edges EXCEPT ![m] = r.edges[m] \cup {n}]
  BY DEF Met
<1>2. /\ s.stage = r.stage /\ s.dep = r.dep /\ s.cmd = r.cmd /\ s.sure = r.sure
      /\ s.clean = r.clean /\ s.gomod = r.gomod /\ s.expanded = r.expanded
      /\ s.walked = r.walked
  BY <1>1 DEF Differ, Fields
<1>3. /\ \A k \in Modules : r.versions[k] \in Nat /\ r.gomod[k] \in Nat
      /\ r.edges \in [Modules -> SUBSET Modules] /\ r.versions \in [Modules -> 0..MaxVersion]
      /\ r.expanded \subseteq Modules
  BY GraphTypes DEF Good
<1>4. r.versions[m] # 0 /\ n # m
  <2>1. Requires(m, 0)[n] = 0
    BY DEF Requires, NoVersions
  <2> QED BY <1>1, <2>1 DEF Listed
<1>5. /\ \A k \in Modules \ {n} : s.versions[k] = r.versions[k]
      /\ \A k \in Modules \ {m} : s.edges[k] = r.edges[k]
      /\ s.edges[m] = r.edges[m] \cup {n} /\ s.versions[n] # 0
      /\ s.versions[n] = r.versions[n] \/ (r.versions[n] = 0 /\ s.versions[n] = r.gomod[n])
  BY <1>1, <1>3
<1>6. ASSUME r.sure PROVE Exact(s)
  <2>1. Exact(r)
    BY <1>1, <1>6 DEF Graph, Graphing
  <2>2. \A k \in Modules : s.versions[k] <= s.gomod[k]
    BY <1>2, <1>3, <1>5, <2>1 DEF Exact
  <2>3. \A k \in Modules : s.versions[k] = 0 => k \notin s.expanded /\ s.edges[k] = {}
    BY <1>2, <1>4, <1>5, <2>1 DEF Exact
  <2>4. r.versions[n] = 0 => n \notin r.expanded /\ r.edges[n] = {}
    BY <2>1 DEF Exact
  <2>5. r.versions[m] = r.gomod[m] => n \in Listed(m, r.gomod[m])
    BY <1>1
  <2>6. \A k \in Modules : s.versions[k] = s.gomod[k] => s.edges[k] \subseteq Listed(k, s.gomod[k])
    BY <1>2, <1>4, <1>5, <2>1, <2>4, <2>5 DEF Exact
  <2>7. ASSUME NEW k \in s.expanded, s.versions[k] = s.gomod[k]
        PROVE  s.edges[k] = Listed(k, s.gomod[k])
    <3>1. r.versions[k] = r.gomod[k] /\ r.edges[k] = Listed(k, r.gomod[k])
      BY <1>2, <1>3, <1>5, <2>1, <2>4, <2>7 DEF Exact
    <3>2. CASE k = m
      BY <1>2, <1>5, <2>5, <3>1, <3>2
    <3>3. CASE k # m
      BY <1>2, <1>3, <1>5, <3>1, <3>3
    <3> QED BY <3>2, <3>3
  <2> QED BY <1>1, <1>2, <2>2, <2>3, <2>6, <2>7 DEF Exact
<1>7. ASSUME r.clean PROVE Closed(s) /\ s.walked \subseteq s.expanded /\ n \in s.expanded
  <2>1. Closed(r) /\ r.walked \subseteq r.expanded
    BY <1>1, <1>7 DEF Graph
  <2>2. m \in r.expanded /\ n \in r.edges[m] /\ n \in r.expanded
    BY <1>1, <2>1 DEF Closed, Covered
  <2>3. r.versions[n] # 0
    BY <2>1, <2>2 DEF Closed, Covered
  <2>4. s.versions = r.versions
    BY <1>1, <1>3, <2>3
  <2>5. s.edges = r.edges
    <3>1. r.edges[m] \cup {n} = r.edges[m]
      BY <2>2
    <3> QED BY <1>1, <1>3, <3>1
  <2> QED BY <1>2, <2>1, <2>2, <2>4, <2>5 DEF Closed, Covered
<1> QED BY <1>1, <1>2, <1>6, <1>7 DEF Graph

\* `go get` of the version that is selected, of a module that is closed, changes nothing.
LEMMA GottenKeepsGraph ==
  ASSUME world \in Worlds, NEW r, Good(r), Graph(r), NEW s, Good(s), NEW n \in Modules,
         Gotten(r, s, n), r.clean => n \in r.expanded
  PROVE  Graph(s)
<1>1. /\ r.stage = "walk" /\ Differ(r, s, {"walked", "gomod", "sure"})
      /\ s.walked = r.walked \cup {n} /\ s.gomod \in AfterGet(r.gomod, n, r.versions[n])
      /\ s.sure <=> r.sure /\ r.versions[n] >= r.gomod[n]
  BY DEF Gotten
<1>2. /\ s.stage = r.stage /\ s.dep = r.dep /\ s.cmd = r.cmd /\ s.clean = r.clean
      /\ s.versions = r.versions /\ s.edges = r.edges /\ s.expanded = r.expanded
  BY <1>1 DEF Differ, Fields
<1>3. /\ r.gomod \in Selections /\ r.versions[n] \in 0..MaxVersion /\ r.versions[n] \in Nat
      /\ r.gomod[n] \in Nat
  BY GraphTypes DEF Good
<1>4. ASSUME s.sure PROVE s.gomod = Join(r.gomod, Requires(n, r.versions[n])) /\ Exact(r)
  <2>1. Exact(r) /\ r.versions[n] >= r.gomod[n] /\ r.versions[n] <= r.gomod[n]
    BY <1>1, <1>4 DEF Graph, Graphing, Exact
  <2>2. [r.gomod EXCEPT ![n] = r.versions[n]] = r.gomod
    BY <1>3, <2>1 DEF Selections
  <2> QED BY <1>1, <2>1, <2>2 DEF AfterGet
<1>5. ASSUME s.sure PROVE Exact(s)
  <2>1. \A k \in Modules : s.gomod[k] >= r.gomod[k]
    BY <1>3, <1>4, <1>5, Rising
  <2> QED BY <1>1, <1>2, <1>4, <1>5, <2>1, RisingKeepsExact DEF Good
<1>6. ASSUME r.clean PROVE Closed(s) /\ s.sure /\ s.walked \subseteq s.expanded
  <2>1. Closed(r) /\ r.sure /\ r.walked \subseteq r.expanded /\ n \in r.expanded
    BY <1>1, <1>6 DEF Graph
  <2>2. r.versions[n] = r.gomod[n] /\ \A k \in Modules : r.gomod[k] >= Requires(n, r.versions[n])[k]
    BY <2>1 DEF Closed, Covered
  <2>3. s.sure
    BY <1>1, <1>3, <2>1, <2>2
  <2>4. s.gomod = r.gomod
    BY <1>3, <1>4, <2>2, <2>3, Rising
  <2> QED BY <1>1, <1>2, <2>1, <2>3, <2>4 DEF Closed, Covered
<1> QED BY <1>1, <1>2, <1>5, <1>6 DEF Graph

LEMMA WalkEndedKeepsGraph ==
  ASSUME world \in Worlds, NEW r, Good(r), Graph(r), NEW s, Good(s), WalkEnded(r, s)
  PROVE  Graph(s)
<1>1. /\ r.stage = "walk" /\ s.stage = "expand" /\ Differ(r, s, {"stage", "queue"})
      /\ s.queue = {m \in Modules : r.versions[m] # 0} \ r.expanded
  BY DEF WalkEnded
<1>2. /\ s.dep = r.dep /\ s.cmd = r.cmd /\ s.clean = r.clean /\ s.sure = r.sure
      /\ s.versions = r.versions /\ s.edges = r.edges /\ s.expanded = r.expanded
      /\ s.gomod = r.gomod
  BY <1>1 DEF Differ, Fields
<1>3. \A m \in Modules : r.versions[m] \in Nat /\ r.gomod[m] \in Nat
  BY GraphTypes DEF Good
<1>4. ASSUME r.sure PROVE Exact(s)
  <2>1. Exact(r)
    BY <1>1, <1>4 DEF Graph, Graphing
  <2>2. \A m \in s.queue : s.gomod[m] # 0
    BY <1>1, <1>2, <1>3, <2>1 DEF Exact
  <2> QED BY <1>1, <1>2, <2>1, <2>2 DEF Exact
<1>5. ASSUME r.clean PROVE Closed(s) /\ s.queue = {} /\ s.sure
  <2>1. Closed(r) /\ r.sure
    BY <1>1, <1>5 DEF Graph
  <2> QED BY <1>1, <1>2, <2>1 DEF Closed, Covered
<1> QED BY <1>1, <1>2, <1>4, <1>5 DEF Graph

LEMMA SkippedLateKeepsGraph ==
  ASSUME world \in Worlds, NEW r, Good(r), Graph(r), NEW s, Good(s), NEW m \in Modules,
         SkippedLate(r, s, m)
  PROVE  Graph(s)
<1>1. /\ r.stage = "expand" /\ m \in r.queue /\ Differ(r, s, {"queue", "clean", "versions"})
      /\ s.queue = r.queue \ {m} /\ ~ s.clean
  BY DEF SkippedLate
<1>2. /\ s.stage = r.stage /\ s.dep = r.dep /\ s.cmd = r.cmd /\ s.sure = r.sure
      /\ s.edges = r.edges /\ s.expanded = r.expanded /\ s.gomod = r.gomod
  BY <1>1 DEF Differ, Fields
<1>3. PICK v \in {r.versions[m], FirstVersion(r, m)} : s.versions = [r.versions EXCEPT ![m] = v]
  BY DEF SkippedLate
<1>4. /\ \A k \in Modules : r.versions[k] \in Nat /\ r.gomod[k] \in Nat
      /\ r.versions \in [Modules -> 0..MaxVersion] /\ r.expanded \subseteq Modules
  BY GraphTypes DEF Good
<1>5. /\ \A k \in Modules \ {m} : s.versions[k] = r.versions[k]
      /\ s.versions[m] = r.versions[m] \/ (r.versions[m] = 0 /\ s.versions[m] = r.gomod[m])
  BY <1>3, <1>4 DEF FirstVersion
<1>6. ASSUME r.sure PROVE Exact(s)
  <2>1. Exact(r)
    BY <1>1, <1>6 DEF Graph, Graphing
  <2>2. r.versions[m] = 0 => m \notin r.expanded /\ r.edges[m] = {}
    BY <2>1 DEF Exact
  <2>3. \A k \in Modules : s.versions[k] <= s.gomod[k]
    BY <1>2, <1>4, <1>5, <2>1 DEF Exact
  <2>4. \A k \in Modules : s.versions[k] = 0 => k \notin s.expanded /\ s.edges[k] = {}
    BY <1>2, <1>5, <2>1, <2>2 DEF Exact
  <2>5. \A k \in Modules : s.versions[k] = s.gomod[k] => s.edges[k] \subseteq Listed(k, s.gomod[k])
    BY <1>2, <1>5, <2>1, <2>2 DEF Exact
  <2>6. \A k \in s.expanded : s.versions[k] = s.gomod[k] => s.edges[k] = Listed(k, s.gomod[k])
    BY <1>2, <1>4, <1>5, <2>1, <2>2 DEF Exact
  <2> QED BY <1>1, <1>2, <2>1, <2>3, <2>4, <2>5, <2>6 DEF Exact
<1> QED BY <1>1, <1>2, <1>6 DEF Graph

LEMMA ListedLateKeepsGraph ==
  ASSUME world \in Worlds, NEW r, Good(r), Graph(r), NEW s, Good(s), NEW m \in Modules,
         ListedLate(r, s, m)
  PROVE  Graph(s)
<1> DEFINE v == r.gomod[m]
<1>1. /\ r.stage = "expand" /\ m \in r.queue
      /\ Differ(r, s, {"gomod", "versions", "edges", "expanded", "queue"})
      /\ s.gomod = Join(r.gomod, Requires(m, v))
      /\ s.versions = [r.versions EXCEPT ![m] = FirstVersion(r, m)]
      /\ s.edges = [r.edges EXCEPT ![m] = r.edges[m] \cup Listed(m, v)]
      /\ s.expanded = r.expanded \cup {m}
      /\ s.queue = (r.queue \cup Listed(m, v)) \ (r.expanded \cup {m})
  BY DEF ListedLate
<1>2. /\ s.stage = r.stage /\ s.dep = r.dep /\ s.cmd = r.cmd /\ s.sure = r.sure /\ s.clean = r.clean
  BY <1>1 DEF Differ, Fields
<1>3. ~ r.clean
  BY <1>1 DEF Graph
<1>4. /\ \A k \in Modules : r.versions[k] \in Nat /\ r.gomod[k] \in Nat
      /\ r.edges \in [Modules -> SUBSET Modules] /\ r.versions \in [Modules -> 0..MaxVersion]
      /\ r.gomod \in Selections /\ r.queue \subseteq Modules /\ r.expanded \subseteq Modules
      /\ v \in 0..MaxVersion
  BY GraphTypes DEF Good
<1>5. ASSUME r.sure PROVE Exact(s)
  <2>1. Exact(r)
    BY <1>1, <1>5 DEF Graph, Graphing
  <2>2. /\ v # 0 /\ s.edges[m] = r.edges[m] \cup Listed(m, v)
        /\ \/ s.versions[m] = v /\ r.versions[m] = 0
           \/ s.versions[m] = r.versions[m] /\ r.versions[m] # 0
        /\ \A k \in Modules \ {m} : s.versions[k] = r.versions[k] /\ s.edges[k] = r.edges[k]
        /\ r.versions[m] <= v
        /\ r.versions[m] = 0 => r.edges[m] = {}
        /\ r.versions[m] = v => r.edges[m] \subseteq Listed(m, v)
    BY <1>1, <1>4, <2>1 DEF Exact, FirstVersion
  <2> HIDE DEF v
  <2>12. /\ \A k \in Modules : /\ s.gomod[k] \in Nat /\ s.gomod[k] >= r.gomod[k]
                                /\ Requires(m, v)[k] \in Nat /\ s.gomod[k] >= Requires(m, v)[k]
         /\ \A k \in Listed(m, v) : k \in Modules /\ k # m /\ Requires(m, v)[k] > 0
    BY <1>1, <1>4, Rising
  <2>3. /\ \A k \in Modules : s.gomod[k] \in Nat /\ s.gomod[k] >= r.gomod[k]
        /\ \A k \in Listed(m, v) : k \in Modules /\ s.gomod[k] # 0
    BY <2>12
  <2>4. s.gomod[m] >= v /\ v \in Nat
    BY <1>4, <2>3 DEF v
  <2>5. /\ s.versions[m] # 0 /\ s.versions[m] <= s.gomod[m]
        /\ s.versions[m] = s.gomod[m] => s.gomod[m] = v /\ s.edges[m] = Listed(m, v)
    BY <1>4, <2>2, <2>3, <2>4
  <2>6. \A k \in Modules \ {m} : s.versions[k] = s.gomod[k] => r.versions[k] = r.gomod[k] /\ s.gomod[k] = r.gomod[k]
    BY <1>4, <2>1, <2>2, <2>3 DEF Exact
  <2>7. \A k \in Modules : s.versions[k] <= s.gomod[k]
    <3>1. \A k \in Modules \ {m} : s.versions[k] <= s.gomod[k]
      BY <1>4, <2>1, <2>2, <2>3 DEF Exact
    <3> QED BY <2>5, <3>1
  <2>8. \A k \in Modules : s.versions[k] = 0 => k \notin s.expanded /\ s.edges[k] = {}
    BY <1>1, <2>1, <2>2, <2>5 DEF Exact
  <2>9. ASSUME NEW k \in Modules, s.versions[k] = s.gomod[k]
        PROVE  /\ s.edges[k] \subseteq Listed(k, s.gomod[k])
               /\ k \in s.expanded => s.edges[k] = Listed(k, s.gomod[k])
    <3>1. CASE k = m
      BY <2>5, <2>9, <3>1
    <3>2. CASE k # m
      <4>1. r.versions[k] = r.gomod[k] /\ s.gomod[k] = r.gomod[k] /\ s.edges[k] = r.edges[k]
        BY <2>2, <2>6, <2>9, <3>2
      <4> QED BY <1>1, <2>1, <3>2, <4>1 DEF Exact
    <3> QED BY <3>1, <3>2
  <2>10. s.expanded \subseteq Modules
    BY <1>1, <1>4
  <2>11. \A k \in s.queue : s.gomod[k] # 0
    <3>1. \A k \in r.queue : s.gomod[k] # 0
      BY <1>1, <1>4, <2>1, <2>3 DEF Exact
    <3> QED BY <1>1, <2>3, <3>1
  <2> QED BY <1>1, <1>2, <2>7, <2>8, <2>9, <2>10, <2>11 DEF Exact
<1> QED BY <1>1, <1>2, <1>3, <1>5 DEF Graph

LEMMA RenewedKeepsGraph ==
  ASSUME world \in Worlds, NEW r, Good(r), Graph(r), NEW s, Good(s), NEW U \in SUBSET Modules,
         Renewed(r, s, U)
  PROVE  Graph(s)
<1>1. /\ r.stage = "expand" /\ U \subseteq Upgraded(r) /\ U # {}
      /\ Differ(r, s, {"versions", "edges", "expanded", "queue", "sure", "clean"})
      /\ s.versions = [m \in Modules |-> IF m \in U THEN r.gomod[m] ELSE r.versions[m]]
      /\ s.edges = [m \in Modules |-> IF m \in U THEN {} ELSE r.edges[m]]
      /\ s.expanded = r.expanded \ U /\ s.queue = U
      /\ (s.sure = r.sure /\ s.clean = r.clean) \/ (~ s.sure /\ ~ s.clean)
  BY DEF Renewed
<1>2. s.stage = r.stage /\ s.dep = r.dep /\ s.cmd = r.cmd /\ s.gomod = r.gomod
  BY <1>1 DEF Differ, Fields
<1>3. /\ \A k \in Modules : r.versions[k] \in Nat /\ r.gomod[k] \in Nat
      /\ r.expanded \subseteq Modules
  BY GraphTypes DEF Good
<1>4. ~ r.clean
  <2> SUFFICES ASSUME r.clean PROVE FALSE
    OBVIOUS
  <2>1. Closed(r)
    BY <1>1 DEF Graph
  <2> QED BY <1>1, <2>1 DEF Closed, Upgraded
<1>5. ASSUME s.sure PROVE Exact(s)
  <2>1. Exact(r)
    BY <1>1, <1>5 DEF Graph, Graphing
  <2>2. \A k \in U : s.versions[k] = s.gomod[k] /\ s.gomod[k] # 0 /\ s.edges[k] = {}
    BY <1>1, <1>2 DEF Upgraded
  <2>3. \A k \in Modules \ U : s.versions[k] = r.versions[k] /\ s.edges[k] = r.edges[k]
    BY <1>1
  <2> QED BY <1>1, <1>2, <1>3, <2>1, <2>2, <2>3 DEF Exact
<1> QED BY <1>1, <1>2, <1>4, <1>5 DEF Graph

LEMMA ExpandedKeepsGraph ==
  ASSUME world \in Worlds, NEW r, Good(r), Graph(r), NEW s, Good(s), Expanded(r, s)
  PROVE  Graph(s)
<1>1. /\ r.stage = "expand" /\ s.stage = "declare" /\ Differ(r, s, {"stage", "sure", "clean"})
      /\ (Upgraded(r) = {} /\ s.sure = r.sure /\ s.clean = r.clean) \/ (~ s.sure /\ ~ s.clean)
  BY DEF Expanded
<1>2. /\ s.dep = r.dep /\ s.cmd = r.cmd /\ s.versions = r.versions /\ s.gomod = r.gomod
      /\ s.edges = r.edges /\ s.expanded = r.expanded
  BY <1>1 DEF Differ, Fields
<1>3. \A k \in Modules : r.versions[k] \in Nat /\ r.gomod[k] \in Nat
  BY GraphTypes DEF Good
<1>4. ASSUME s.sure PROVE Exact(s)
  <2>1. Exact(r) /\ Upgraded(r) = {}
    BY <1>1, <1>4 DEF Graph, Graphing
  <2>2. \A k \in Modules : r.versions[k] \in {0, r.gomod[k]}
    BY <1>3, <2>1 DEF Exact, Upgraded
  <2> QED BY <1>1, <1>2, <2>1, <2>2 DEF Exact
<1>5. ASSUME s.clean PROVE Closed(s) /\ s.sure
  <2>1. Closed(r) /\ r.sure /\ s.sure = r.sure
    BY <1>1, <1>5 DEF Graph
  <2> QED BY <1>2, <2>1 DEF Closed, Covered
<1> QED BY <1>1, <1>2, <1>4, <1>5 DEF Graph

LEMMA WalkedKeepsGraph ==
  ASSUME world \in Worlds, NEW r, Good(r), Graph(r), NEW s, Walked(r, s)
  PROVE  Graph(s)
<1>1. Good(s)
  BY WalkedKeepsGood
<1>2. ASSUME NEW m \in Modules, NEW n \in Modules, NEW t, Met(r, t, m, n), Gotten(t, s, n)
      PROVE  Graph(s)
  <2>1. Good(t) /\ Graph(t) /\ (t.clean => n \in t.expanded)
    BY <1>2, ImportKeepsGood, MetKeepsGraph
  <2> QED BY <1>1, <1>2, <2>1, GottenKeepsGraph
<1>3. ASSUME NEW m \in Modules,
             \/ Dequeued(r, s, m) \/ Skipped(r, s, m) \/ ListedNow(r, s, m)
             \/ SkippedLate(r, s, m) \/ ListedLate(r, s, m)
      PROVE  Graph(s)
  BY <1>1, <1>3, QueueKeepsGraph, ListedNowKeepsGraph, SkippedLateKeepsGraph, ListedLateKeepsGraph
<1>4. Requeued(r, s) => Graph(s)
  <2>1. ASSUME Requeued(r, s) PROVE \E m \in Modules : TRUE
    BY <2>1 DEF Requeued, Upgraded
  <2> QED BY <1>1, <2>1, QueueKeepsGraph
<1>5. ASSUME NEW m \in Modules, NEW n \in Modules, Met(r, s, m, n) PROVE Graph(s)
  BY <1>1, <1>5, MetKeepsGraph
<1>6. ASSUME NEW U \in SUBSET Modules, Renewed(r, s, U) PROVE Graph(s)
  BY <1>1, <1>6, RenewedKeepsGraph
<1>7. Fetched(r, s) \/ Reconciled(r, s) \/ WalkEnded(r, s) \/ Expanded(r, s) => Graph(s)
  BY <1>1, FetchedKeepsGraph, ReconciledKeepsGraph, WalkEndedKeepsGraph, ExpandedKeepsGraph
<1> QED BY <1>2, <1>3, <1>4, <1>5, <1>6, <1>7 DEF Walked

\* Steps that leave the graph as it is.
LEMMA SameGraph ==
  ASSUME NEW r, NEW s, NEW fields, Differ(r, s, fields),
         fields \subseteq {"stage", "scanned", "todo", "base", "clean"}
  PROVE  /\ s.cmd = r.cmd /\ s.dep = r.dep /\ s.versions = r.versions /\ s.gomod = r.gomod
         /\ s.edges = r.edges /\ s.expanded = r.expanded /\ s.sure = r.sure
         /\ s.queue = r.queue /\ s.walked = r.walked
         /\ "stage" \notin fields => s.stage = r.stage
         /\ "clean" \notin fields => s.clean = r.clean
  BY DEF Differ, Fields

LEMMA IdleHasNoGraph ==
  /\ Graph(Idle)
  /\ Idle.versions = NoVersions /\ Idle.edges = NoEdges /\ Idle.expanded = {}
<1>1. /\ Idle.stage = "idle" /\ Idle.versions = NoVersions /\ Idle.edges = NoEdges
      /\ Idle.expanded = {}
  BY DEF Idle
<1> QED BY <1>1 DEF Graph, Graphing

LEMMA BeganKeepsGraph ==
  ASSUME NEW r, Began(r)
  PROVE  Graph(r)
<1>1. /\ r.stage = "parsed" /\ r.cmd = "add" => r.sure
      /\ r.versions = Idle.versions /\ r.edges = Idle.edges /\ r.expanded = Idle.expanded
  BY DEF Began, Differ, Fields
<1>2. r.stage = "parsed" /\ (r.cmd = "add" => r.sure)
  BY DEF Began
<1> QED BY <1>1, <1>2, IdleHasNoGraph DEF Graph, Graphing

LEMMA LocksKeepGraph ==
  ASSUME NEW r, Graph(r), NEW s, Locks(r, s)
  PROVE  Graph(s)
<1>1. /\ Differ(r, s, {"stage"})
      /\ \/ r.stage = "parsed" /\ s.stage = "waiting"
         \/ r.stage = "waiting" /\ s.stage = IF r.cmd = "add" THEN "fetch" ELSE "scan"
  BY DEF Locks
<1>2. /\ s.cmd = r.cmd /\ s.versions = r.versions /\ s.edges = r.edges
      /\ s.expanded = r.expanded /\ s.sure = r.sure
  BY <1>1, SameGraph
<1> QED BY <1>1, <1>2 DEF Graph, Graphing

LEMMA ScannedKeepsGraph ==
  ASSUME NEW r, Graph(r), NEW s, Scanned(r, s)
  PROVE  Graph(s)
  BY DEF Scanned, Graph, Graphing

LEMMA BegunKeepsGraph ==
  ASSUME NEW r, Graph(r), NEW s, CleanupBegun(r, s) \/ TrimBegun(r, s) \/ ResolveBegun(r, s)
  PROVE  Graph(s)
<1>1. CASE CleanupBegun(r, s)
  <2>1. Differ(r, s, {"stage", "todo"}) /\ r.stage = "upsert" /\ s.stage = "cleanup"
    BY <1>1 DEF CleanupBegun
  <2>2. /\ s.dep = r.dep /\ s.versions = r.versions /\ s.edges = r.edges /\ s.gomod = r.gomod
        /\ s.expanded = r.expanded /\ s.clean = r.clean
    BY <2>1, SameGraph
  <2> QED BY <2>1, <2>2 DEF Graph, Graphing, Closed, Covered
<1>2. CASE TrimBegun(r, s) \/ ResolveBegun(r, s)
  BY <1>2 DEF TrimBegun, ResolveBegun, Graph, Graphing
<1> QED BY <1>1, <1>2

LEMMA DeclaredKeepsGraph ==
  ASSUME NEW r, Graph(r), NEW s, Declared(r, s)
  PROVE  Graph(s)
<1>1. Differ(r, s, {"stage", "todo"}) /\ r.stage = "declare" /\ s.stage = "upsert"
  BY DEF Declared
<1>2. /\ s.dep = r.dep /\ s.versions = r.versions /\ s.edges = r.edges /\ s.gomod = r.gomod
      /\ s.expanded = r.expanded /\ s.clean = r.clean
  BY <1>1, SameGraph
<1> QED BY <1>1, <1>2 DEF Graph, Graphing, Closed, Covered

LEMMA WroteKeepsGraph ==
  ASSUME NEW r, Graph(r), NEW s, NEW m, Wrote(r, s, m)
  PROVE  Graph(s)
<1>1. Differ(r, s, {"todo"}) /\ r.stage \in Writing
  BY DEF Wrote
<1>2. /\ s.dep = r.dep /\ s.versions = r.versions /\ s.edges = r.edges /\ s.gomod = r.gomod
      /\ s.expanded = r.expanded /\ s.clean = r.clean /\ s.stage = r.stage
  BY <1>1, SameGraph
<1> QED BY <1>1, <1>2 DEF Graph, Graphing, Writing, Closed, Covered

LEMMA SoiledKeepsGraph ==
  ASSUME NEW r, Good(r), Graph(r)
  PROVE  Graph(Soiled(r))
<1> DEFINE s == Soiled(r)
<1>1. Differ(r, s, {"clean"}) /\ ~ s.clean
  BY SoiledIsGood
<1> HIDE DEF s
<1>2. /\ s.dep = r.dep /\ s.versions = r.versions /\ s.edges = r.edges /\ s.gomod = r.gomod
      /\ s.expanded = r.expanded /\ s.stage = r.stage /\ s.cmd = r.cmd /\ s.sure = r.sure
      /\ s.queue = r.queue /\ s.walked = r.walked
  BY <1>1, SameGraph
<1>3. Exact(r) => Exact(s)
  BY <1>2 DEF Exact
<1>4. Graph(s)
  BY <1>1, <1>2, <1>3 DEF Graph
<1> QED BY <1>4 DEF s

\* A graph is about what the modules require, which does not change.
LEMMA StepsKeepGraph ==
  ASSUME TypeInv, GraphInv, NEW p \in Procs, Steps(p)
  PROVE  \A q \in Procs : Graph(proc'[q])
<1>1. Good(proc[p]) /\ Graph(proc[p]) /\ world \in Worlds
  BY DEF TypeInv, GraphInv
<1>2. ASSUME NEW s, Graph(s), Turns(p, s) PROVE \A q \in Procs : Graph(proc'[q])
  BY <1>2 DEF TypeInv, GraphInv, Turns
<1>3. ASSUME NEW s, Graph(s), Soils(p, s) PROVE \A q \in Procs : Graph(proc'[q])
  BY <1>3, SoiledKeepsGraph DEF TypeInv, GraphInv, Soils
<1>4. ASSUME NEW s, Turns(p, s),
             \/ s = Idle \/ Began(s) \/ Locks(proc[p], s)
             \/ Walked(proc[p], s) \/ Scanned(proc[p], s)
             \/ CleanupBegun(proc[p], s) \/ TrimBegun(proc[p], s) \/ ResolveBegun(proc[p], s)
      PROVE  Graph(s)
  BY <1>1, <1>4, IdleHasNoGraph, BeganKeepsGraph, LocksKeepGraph, WalkedKeepsGraph,
     ScannedKeepsGraph, BegunKeepsGraph
<1>5. ASSUME NEW s, Declared(proc[p], s) \/ \E m \in DOMAIN proc[p].todo : Wrote(proc[p], s, m)
      PROVE  Graph(s)
  BY <1>1, <1>5, DeclaredKeepsGraph, WroteKeepsGraph
<1> QED BY <1>2, <1>3, <1>4, <1>5 DEF Steps

LEMMA GraphStarts == Init => GraphInv
  BY IdleHasNoGraph DEF Init, GraphInv

LEMMA GraphOf ==
  ASSUME UNCHANGED world, \A q \in Procs : Graph(proc'[q])
  PROVE  GraphInv'
  BY DEF GraphInv, Graph, Graphing, Exact, Spread, Closed, Covered, Listed, Requires

LEMMA GraphSteps == TypeInv /\ GraphInv /\ [Next]_vars => GraphInv'
<1> SUFFICES ASSUME TypeInv, GraphInv, [Next]_vars PROVE GraphInv'
  OBVIOUS
<1>1. ASSUME NEW p \in Procs, Start(p) \/ Work(p) \/ Quit(p)
      PROVE  GraphInv'
  BY <1>1, EveryStep, StepsKeepGraph, CountersType, GraphOf
<1>2. CASE Edit
  <2>1. \A q \in Procs : proc'[q] = Soiled(proc[q])
    BY <1>2, EditSoils
  <2>2. \A q \in Procs : Graph(proc'[q])
    BY <2>1, SoiledKeepsGraph DEF TypeInv, GraphInv
  <2> QED BY <1>2, <2>2, GraphOf DEF Edit
<1>3. CASE OtherTakesTarget \/ OtherLeavesTarget \/ UNCHANGED vars
  <2>1. UNCHANGED <<world, proc>>
    BY <1>3 DEF OtherTakesTarget, OtherLeavesTarget, env, vars
  <2> QED BY <2>1, GraphOf DEF GraphInv
<1> QED BY <1>1, <1>2, <1>3 DEF Next

LEMMA GraphInvariant == Spec => []GraphInv
  BY GraphStarts, GraphSteps, TypeInvariant, PTL DEF Spec

\* GraphExact: `lis add` writes from a graph of the versions that Go has selected in the end,
\* with the edges of these versions and no older ones, and an undisturbed one has listed every
\* module in it, in whatever order modules are met and raised (add.rs, reconcile_module_graph
\* and the walks after it).
THEOREM GraphIsExact == Spec => []GraphExact
<1>1. TypeInv /\ GraphInv => GraphExact
  <2> SUFFICES ASSUME TypeInv, GraphInv, NEW p \in Procs, proc[p].stage = "declare"
               PROVE  LET r == proc[p] IN
                      /\ r.sure => \A m \in Modules : r.versions[m] \in {0, r.gomod[m]}
                      /\ r.sure => \A m \in r.expanded : r.edges[m] = Listed(m, r.versions[m])
                      /\ r.clean => \A m \in Modules : \A n \in r.edges[m] : n \in r.expanded
    BY DEF GraphExact
  <2> DEFINE r == proc[p]
  <2>1. r.expanded \subseteq Modules /\ Graph(r) /\ r.stage = "declare"
    BY DEF TypeInv, GraphInv, Good, Typed
  <2> HIDE DEF r
  <2>2. r.sure => Exact(r)
    BY <2>1 DEF Graph, Graphing
  <2>3. r.clean => Closed(r)
    BY <2>1 DEF Graph
  <2>4. r.sure => /\ \A m \in Modules : r.versions[m] \in {0, r.gomod[m]}
                  /\ \A m \in r.expanded : r.edges[m] = Listed(m, r.versions[m])
    BY <2>1, <2>2 DEF Exact
  <2>5. r.clean => \A m \in Modules : \A n \in r.edges[m] : n \in r.expanded
    BY <2>3 DEF Closed
  <2> QED BY <2>4, <2>5 DEF r
<1> QED BY <1>1, TypeInvariant, GraphInvariant, PTL
=============================================================================
