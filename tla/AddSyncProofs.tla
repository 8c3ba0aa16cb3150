---------------------------- MODULE AddSyncProofs ----------------------------
(***************************************************************************)
(* Theorems about AddSync, for any modules, requirements and processes: at *)
(* most one command is past the locks, and the manifest read before them   *)
(* costs no direct dependency that was in it.                              *)
(***************************************************************************)
EXTENDS AddSync, TLAPS

-----------------------------------------------------------------------------
(***************************************************************************)
(* What a step does to the commands.  A command is read by four of its     *)
(* fields; the others do not matter here.                                  *)
(***************************************************************************)
Fields == {"stage", "cmd", "dep", "version", "read", "base", "gomod", "versions", "edges",
           "expanded", "queue", "walked", "scanned", "todo", "sure", "clean"}
Shaped == DOMAIN proc = Procs /\ \A p \in Procs : Fields \subseteq DOMAIN proc[p]

Same(r, s) == r.stage = s.stage /\ r.read = s.read /\ r.base = s.base /\ r.todo = s.todo
Alone(p) == \A q \in Procs \ {p} : Same(proc'[q], proc[q])

\* A step of the graph walk, or the scan: from one stage under the locks to another, with
\* nothing read anew and nothing to write yet.
Inner(p) ==
    /\ proc[p].stage \in Locked \ Writing /\ proc'[p].stage \in Locked \ Writing
    /\ proc'[p].read = proc[p].read /\ proc'[p].base = proc[p].base
    /\ UNCHANGED <<manifest, mutator, holder>>

\* s is what p becomes in such a step.
Becomes(p, s) ==
    /\ proc' = [proc EXCEPT ![p] = s]
    /\ Fields \subseteq DOMAIN s /\ s.stage \in Locked \ Writing
    /\ s.read = proc[p].read /\ s.base = proc[p].base

LEMMA RecordSteps ==
  ASSUME NEW r, Fields \subseteq DOMAIN r, NEW m, NEW n, NEW v
  PROVE  \A s \in {ListModule(r, m), Skip(r, m), [r EXCEPT !.queue = @ \ {m}], ListLate(r, m),
                   [Skip(r, m) EXCEPT !.versions[m] = v], Meet(r, m, n),
                   MakeTypedef(r, n, v), Anew(r, v), [r EXCEPT !.queue = v],
                   [r EXCEPT !.sure = FALSE, !.clean = FALSE]} :
           /\ Fields \subseteq DOMAIN s
           /\ s.stage = r.stage /\ s.read = r.read /\ s.base = r.base
<1> USE DEF Fields
<1>1. \A s \in {ListModule(r, m), ListLate(r, m)} :
           Fields \subseteq DOMAIN s /\ s.stage = r.stage /\ s.read = r.read /\ s.base = r.base
  BY DEF ListModule, ListLate
<1>2. \A s \in {Skip(r, m), [r EXCEPT !.queue = @ \ {m}], [r EXCEPT !.queue = v],
                [r EXCEPT !.sure = FALSE, !.clean = FALSE],
                [Skip(r, m) EXCEPT !.versions[m] = v]} :
           Fields \subseteq DOMAIN s /\ s.stage = r.stage /\ s.read = r.read /\ s.base = r.base
  BY DEF Skip
<1>3. \A s \in {Meet(r, m, n), MakeTypedef(r, n, v), Anew(r, v)} :
           Fields \subseteq DOMAIN s /\ s.stage = r.stage /\ s.read = r.read /\ s.base = r.base
  BY DEF Meet, MakeTypedef, Anew
<1> QED BY <1>1, <1>2, <1>3

LEMMA InnerSteps ==
  ASSUME Shaped, NEW p \in Procs,
         Fetch(p) \/ ReconcileModule(p) \/ ReconcileDrift(p) \/ WalkImport(p) \/ EndWalk(p)
           \/ ExpandModule(p) \/ ExpandDrift(p) \/ Scan(p)
  PROVE  Shaped' /\ Alone(p) /\ Inner(p)
<1>1. Fields \subseteq DOMAIN proc[p] /\ proc[p].stage \in Locked \ Writing
      /\ UNCHANGED <<manifest, mutator, holder>>
  BY DEF Shaped, Locked, Walking, Writing, Fetch, ReconcileModule, ReconcileDrift, WalkImport,
         EndWalk, ExpandModule, ExpandDrift, Scan
<1>2. SUFFICES \E s : Becomes(p, s)
  BY <1>1 DEF Becomes, Shaped, Alone, Same, Inner
<1> DEFINE pinned == [m \in Modules |-> IF m = proc[p].dep THEN proc[p].version
                                        ELSE proc[p].read[m].version]
<1>3. CASE Fetch(p)
  <2> DEFINE s == [proc[p] EXCEPT !.stage = "reconcile", !.queue = {proc[p].dep},
                      !.gomod = Join(pinned, Requires(proc[p].dep, proc[p].version))]
  <2>1. proc' = [proc EXCEPT ![p] = s]
    BY <1>3 DEF Fetch
  <2>2. Becomes(p, s)
    BY <1>1, <2>1 DEF Becomes, Fields, Locked, Walking, Writing
  <2> QED BY <2>2
<1>4. CASE EndWalk(p)
  <2> DEFINE s == [proc[p] EXCEPT !.stage = "expand",
                      !.queue = {m \in Modules : proc[p].versions[m] # 0} \ proc[p].expanded]
  <2>1. proc' = [proc EXCEPT ![p] = s]
    BY <1>4 DEF EndWalk
  <2>2. Becomes(p, s)
    BY <1>1, <2>1 DEF Becomes, Fields, Locked, Walking, Writing
  <2> QED BY <2>2
<1>5. CASE Scan(p)
  <2>1. PICK imported \in Imports :
          proc' = [proc EXCEPT ![p].stage = "hygiene", ![p].scanned = imported]
    BY <1>5 DEF Scan
  <2>2. Becomes(p, [proc[p] EXCEPT !.stage = "hygiene", !.scanned = imported])
    BY <1>1, <2>1 DEF Shaped, Becomes, Fields, Locked, Walking, Writing
  <2> QED BY <2>2
<1>6. CASE ReconcileModule(p)
  <2>1. PICK m : \/ proc' = [proc EXCEPT ![p] = Skip(proc[p], m)]
                 \/ proc' = [proc EXCEPT ![p] = [proc[p] EXCEPT !.queue = @ \ {m}]]
                 \/ proc' = [proc EXCEPT ![p] = ListModule(proc[p], m)]
    BY <1>6, Zenon DEF ReconcileModule
  <2>2. \/ Becomes(p, Skip(proc[p], m)) \/ Becomes(p, [proc[p] EXCEPT !.queue = @ \ {m}])
        \/ Becomes(p, ListModule(proc[p], m))
    BY <1>1, <2>1, RecordSteps DEF Becomes
  <2> QED BY <2>2
<1>7. CASE ReconcileDrift(p)
  <2>1. CASE Upgraded(proc[p]) # {}
    <3>1. proc' = [proc EXCEPT ![p] = [proc[p] EXCEPT !.queue = Upgraded(proc[p])]]
      BY <1>7, <2>1 DEF ReconcileDrift
    <3>2. Becomes(p, [proc[p] EXCEPT !.queue = Upgraded(proc[p])])
      BY <1>1, <3>1, RecordSteps DEF Becomes
    <3> QED BY <3>2
  <2>2. CASE Upgraded(proc[p]) = {}
    <3>1. proc' = [proc EXCEPT ![p] = [proc[p] EXCEPT !.stage = "walk", !.walked = {proc[p].dep}]]
      BY <1>7, <2>2 DEF ReconcileDrift
    <3>2. Becomes(p, [proc[p] EXCEPT !.stage = "walk", !.walked = {proc[p].dep}])
      BY <1>1, <3>1 DEF Becomes, Fields, Locked, Walking, Writing
    <3> QED BY <3>2
  <2> QED BY <2>1, <2>2
<1>8. CASE WalkImport(p)
  <2>1. PICK m, n, v :
          \/ proc' = [proc EXCEPT ![p] = Meet(proc[p], m, n)]
          \/ proc' = [proc EXCEPT ![p] = MakeTypedef(Meet(proc[p], m, n), n, v)]
    BY <1>8, Zenon DEF WalkImport
  <2> DEFINE s == Meet(proc[p], m, n)
  <2>2. /\ Fields \subseteq DOMAIN s
        /\ s.stage = proc[p].stage /\ s.read = proc[p].read /\ s.base = proc[p].base
    BY <1>1, RecordSteps
  <2>3. \/ proc' = [proc EXCEPT ![p] = s]
        \/ proc' = [proc EXCEPT ![p] = MakeTypedef(s, n, v)]
    BY <2>1
  <2> HIDE DEF s
  <2>4. \/ Becomes(p, s) \/ Becomes(p, MakeTypedef(s, n, v))
    BY <1>1, <2>2, <2>3, RecordSteps DEF Becomes
  <2> QED BY <2>4
<1>9. CASE ExpandModule(p)
  <2>1. PICK m, v : \/ proc' = [proc EXCEPT ![p] = [Skip(proc[p], m) EXCEPT !.versions[m] = v]]
                    \/ proc' = [proc EXCEPT ![p] = ListLate(proc[p], m)]
    BY <1>9, Zenon DEF ExpandModule
  <2>2. \/ Becomes(p, [Skip(proc[p], m) EXCEPT !.versions[m] = v])
        \/ Becomes(p, ListLate(proc[p], m))
    BY <1>1, <2>1, RecordSteps DEF Becomes
  <2> QED BY <2>2
<1>10. CASE ExpandDrift(p)
  <2>1. ASSUME NEW r, Fields \subseteq DOMAIN r, r.stage = proc[p].stage,
               r.read = proc[p].read, r.base = proc[p].base, NEW told,
               \/ proc' = [proc EXCEPT ![p] = [r EXCEPT !.stage = "declare"]]
               \/ proc' = [proc EXCEPT ![p] = Anew(r, told)]
        PROVE  \E s : Becomes(p, s)
    <3>1. CASE proc' = [proc EXCEPT ![p] = [r EXCEPT !.stage = "declare"]]
      <4>1. Becomes(p, [r EXCEPT !.stage = "declare"])
        BY <2>1, <3>1 DEF Becomes, Fields, Locked, Walking, Writing
      <4> QED BY <4>1
    <3>2. CASE proc' = [proc EXCEPT ![p] = Anew(r, told)]
      <4>1. Becomes(p, Anew(r, told))
        BY <1>1, <2>1, <3>2, RecordSteps DEF Becomes
      <4> QED BY <4>1
    <3> QED BY <2>1, <3>1, <3>2
  <2> DEFINE unsure == [proc[p] EXCEPT !.sure = FALSE, !.clean = FALSE]
  <2>2. /\ Fields \subseteq DOMAIN unsure /\ unsure.stage = proc[p].stage
        /\ unsure.read = proc[p].read /\ unsure.base = proc[p].base
    BY <1>1, RecordSteps
  <2>3. \/ proc' = [proc EXCEPT ![p] = [proc[p] EXCEPT !.stage = "declare"]]
        \/ proc' = [proc EXCEPT ![p] = Anew(proc[p], Upgraded(proc[p]))]
        \/ \E m : proc' = [proc EXCEPT ![p] = IF Upgraded(proc[p]) = {m}
                              THEN [unsure EXCEPT !.stage = "declare"]
                              ELSE Anew(unsure, Upgraded(proc[p]) \ {m})]
    BY <1>10, Zenon DEF ExpandDrift
  <2> HIDE DEF unsure
  <2>4. CASE \/ proc' = [proc EXCEPT ![p] = [proc[p] EXCEPT !.stage = "declare"]]
             \/ proc' = [proc EXCEPT ![p] = Anew(proc[p], Upgraded(proc[p]))]
    BY <1>1, <2>1, <2>4
  <2>5. ASSUME NEW m, proc' = [proc EXCEPT ![p] = IF Upgraded(proc[p]) = {m}
                              THEN [unsure EXCEPT !.stage = "declare"]
                              ELSE Anew(unsure, Upgraded(proc[p]) \ {m})]
        PROVE  \E s : Becomes(p, s)
    <3>1. \/ proc' = [proc EXCEPT ![p] = [unsure EXCEPT !.stage = "declare"]]
          \/ proc' = [proc EXCEPT ![p] = Anew(unsure, Upgraded(proc[p]) \ {m})]
      BY <2>5
    <3> QED BY <2>1, <2>2, <3>1
  <2> QED BY <2>3, <2>4, <2>5
<1> QED BY <1>3, <1>4, <1>5, <1>6, <1>7, <1>8, <1>9, <1>10
-----------------------------------------------------------------------------
(***************************************************************************)
(* The inductive invariant: who holds the locks, that a direct dependency  *)
(* has no parents, and that no write that is left, of a direct dependency  *)
(* in the manifest it was planned from, makes it a transitive or removes   *)
(* it.                                                                     *)
(***************************************************************************)
Holds(p) ==
    /\ proc[p].stage \in {"waiting"} \cup Locked => mutator = p
    /\ proc[p].stage \in Locked => holder = p

Tame(entry) == entry.direct => entry.via = {}
TameTable(table) == DOMAIN table = Modules /\ \A m \in Modules : Tame(table[m])

Planned(r) ==
    /\ TameTable(r.read)
    /\ r.stage \notin {"trim", "resolve"} => r.base = r.read
    /\ r.stage \in Writing =>
          \A m \in DOMAIN r.todo :
              /\ m \in Modules /\ Tame(r.todo[m])
              /\ r.base[m].direct => r.todo[m].direct

Inv ==
    /\ Shaped /\ TameTable(manifest) /\ surprises \in Nat
    /\ \A p \in Procs : Holds(p) /\ Planned(proc[p])

\* What a step of p must do for Inv to hold after it: only p is left to look at.
LocksKept(p) ==
    \A q \in Procs \ {p} : (mutator = q => mutator' = q) /\ (holder = q => holder' = q)

LEMMA OneAtATime ==
  ASSUME Inv, NEW p \in Procs, Shaped', Alone(p), LocksKept(p),
         TameTable(manifest)', (surprises \in Nat)', Holds(p)', Planned(proc[p])'
  PROVE  Inv'
<1> SUFFICES ASSUME NEW q \in Procs \ {p}
             PROVE  (Holds(q) /\ Planned(proc[q]))'
  BY DEF Inv
<1>1. Holds(q) /\ Planned(proc[q]) /\ Same(proc'[q], proc[q])
  BY DEF Inv, Alone
<1>2. Holds(q)'
  BY <1>1 DEF Holds, Same, LocksKept
<1>3. Planned(proc[q])'
  BY <1>1 DEF Planned, Same
<1> QED BY <1>2, <1>3

LEMMA TameEntries ==
  /\ Tame(Gone) /\ ~ Gone.direct
  /\ \A v : Tame(Direct(v)) /\ Direct(v).direct
  /\ \A v, parents : Tame(Transitive(v, parents)) /\ ~ Transitive(v, parents).direct
  BY DEF Tame, Gone, Direct, Transitive

LEMMA IdleIsPlanned == Fields \subseteq DOMAIN Idle /\ Idle.stage = "idle" /\ Planned(Idle)
<1>1. Fields \subseteq DOMAIN Idle /\ Idle.stage = "idle"
      /\ Idle.read = [m \in Modules |-> Gone] /\ Idle.base = Idle.read
  BY DEF Fields, Idle
<1> QED BY <1>1, TameEntries DEF Planned, TameTable, Writing

LEMMA Starting == Init => Inv
<1> SUFFICES ASSUME Init PROVE Inv
  OBVIOUS
<1>1. Shaped /\ \A p \in Procs : proc[p] = Idle
  BY IdleIsPlanned DEF Init, Shaped
<1>2. TameTable(manifest)
  <2>1. manifest \in [Modules -> Entries \cup {Gone}]
    BY StartsAssumption DEF Init
  <2>2. \A entry \in Entries \cup {Gone} : Tame(entry)
    BY TameEntries DEF Entries
  <2> QED BY <2>1, <2>2 DEF TameTable
<1>3. \A p \in Procs : Holds(p) /\ Planned(proc[p])
  BY <1>1, IdleIsPlanned DEF Holds, Locked, Walking, Writing
<1> QED BY <1>1, <1>2, <1>3 DEF Init, Inv

-----------------------------------------------------------------------------
(***************************************************************************)
(* Starting, the locks and the end of a command.                           *)
(***************************************************************************)
LEMMA StartKeeps ==
  ASSUME Inv, NEW p \in Procs, Start(p)
  PROVE  Inv'
<1> USE DEF Shaped, Fields
<1>1. PICK r : /\ proc' = [proc EXCEPT ![p] = r]
               /\ Fields \subseteq DOMAIN r /\ r.stage = "parsed"
               /\ r.read = manifest /\ r.base = manifest
  <2>1. CASE \E request \in Requests :
              proc' = [proc EXCEPT ![p] = [Idle EXCEPT !.stage = "parsed", !.cmd = "add",
                          !.dep = request[1], !.version = request[2], !.read = manifest,
                          !.base = manifest, !.sure = TRUE, !.clean = TRUE]]
    <3>1. PICK request \in Requests :
              proc' = [proc EXCEPT ![p] = [Idle EXCEPT !.stage = "parsed", !.cmd = "add",
                          !.dep = request[1], !.version = request[2], !.read = manifest,
                          !.base = manifest, !.sure = TRUE, !.clean = TRUE]]
      BY <2>1
    <3> DEFINE r == [Idle EXCEPT !.stage = "parsed", !.cmd = "add",
                          !.dep = request[1], !.version = request[2], !.read = manifest,
                          !.base = manifest, !.sure = TRUE, !.clean = TRUE]
    <3>2. /\ Fields \subseteq DOMAIN r /\ r.stage = "parsed"
          /\ r.read = manifest /\ r.base = manifest
      BY DEF Idle
    <3> HIDE DEF r
    <3> QED BY <3>1, <3>2, Zenon DEF r
  <2>2. CASE proc' = [proc EXCEPT ![p] = [Idle EXCEPT !.stage = "parsed", !.cmd = "sync",
                          !.read = manifest, !.base = manifest, !.clean = TRUE]]
    <3> DEFINE r == [Idle EXCEPT !.stage = "parsed", !.cmd = "sync",
                          !.read = manifest, !.base = manifest, !.clean = TRUE]
    <3>1. /\ Fields \subseteq DOMAIN r /\ r.stage = "parsed"
          /\ r.read = manifest /\ r.base = manifest
      BY DEF Idle
    <3> HIDE DEF r
    <3> QED BY <2>2, <3>1, Zenon DEF r
  <2> QED BY <2>1, <2>2 DEF Start
<1>2. Shaped' /\ Alone(p) /\ proc'[p] = r
  BY <1>1 DEF Inv, Alone, Same
<1>3. Holds(p)' /\ Planned(proc[p])' /\ TameTable(manifest)'
  BY <1>1, <1>2 DEF Inv, Start, Holds, Planned, Locked, Walking, Writing
<1>4. LocksKept(p) /\ surprises' \in Nat
  BY DEF Start, LocksKept, Inv
<1> QED BY <1>2, <1>3, <1>4, OneAtATime

LEMMA MutationLockKeeps ==
  ASSUME Inv, NEW p \in Procs, AcquireMutationLock(p)
  PROVE  Inv'
<1>1. TameTable(manifest)' /\ surprises' \in Nat /\ Planned(proc[p])
  BY DEF AcquireMutationLock, Inv, env
<1>2. CASE mutator = None
  <2>1. Shaped' /\ Alone(p) /\ proc'[p] = [proc[p] EXCEPT !.stage = "waiting"]
    BY <1>2 DEF AcquireMutationLock, Inv, Shaped, Fields, Alone, Same
  <2>2. Planned(proc[p])' /\ Holds(p)'
    BY <1>1, <1>2, <2>1 DEF AcquireMutationLock, Inv, Shaped, Fields, Planned, Holds,
                            Locked, Walking, Writing
  <2>3. LocksKept(p)
    BY <1>2, ProcsAssumption DEF AcquireMutationLock, LocksKept, None
  <2> QED BY <1>1, <2>1, <2>2, <2>3, OneAtATime
<1>3. CASE mutator # None
  <2>1. Shaped' /\ Alone(p) /\ proc'[p] = Idle
    BY <1>3, IdleIsPlanned DEF AcquireMutationLock, Inv, Shaped, Alone, Same
  <2>2. Planned(proc[p])' /\ Holds(p)'
    BY <2>1, IdleIsPlanned DEF Holds, Planned, Locked, Walking, Writing
  <2>3. LocksKept(p)
    BY <1>3 DEF AcquireMutationLock, LocksKept
  <2> QED BY <1>1, <2>1, <2>2, <2>3, OneAtATime
<1> QED BY <1>2, <1>3

LEMMA TargetLockKeeps ==
  ASSUME Inv, NEW p \in Procs, AcquireTargetLock(p)
  PROVE  Inv'
<1>1. TameTable(manifest)' /\ surprises' \in Nat /\ Planned(proc[p]) /\ Holds(p)
  BY DEF AcquireTargetLock, Inv, env
<1>2. PICK stage \in {"fetch", "scan"} : proc' = [proc EXCEPT ![p].stage = stage]
  BY DEF AcquireTargetLock
<1>3. Shaped' /\ Alone(p) /\ proc'[p] = [proc[p] EXCEPT !.stage = stage]
  BY <1>2 DEF Inv, Shaped, Fields, Alone, Same
<1>4. Planned(proc[p])' /\ Holds(p)'
  BY <1>1, <1>3 DEF AcquireTargetLock, Inv, Shaped, Fields, Planned, Holds,
                    Locked, Walking, Writing
<1>5. LocksKept(p)
  BY ProcsAssumption DEF AcquireTargetLock, LocksKept, None
<1> QED BY <1>1, <1>3, <1>4, <1>5, OneAtATime

LEMMA LeaveKeeps ==
  ASSUME Inv, NEW p \in Procs, Leave(p), UNCHANGED <<env, manifest>>
  PROVE  Inv'
<1>1. Shaped' /\ Alone(p) /\ proc'[p] = Idle
  BY IdleIsPlanned DEF Leave, Inv, Shaped, Alone, Same
<1>2. Planned(proc[p])' /\ Holds(p)'
  BY <1>1, IdleIsPlanned DEF Holds, Planned, Locked, Walking, Writing
<1>3. LocksKept(p) /\ TameTable(manifest)' /\ surprises' \in Nat
  BY DEF Leave, LocksKept, Inv, env
<1> QED BY <1>1, <1>2, <1>3, OneAtATime

-----------------------------------------------------------------------------
(***************************************************************************)
(* The graph walk and the writes.                                          *)
(***************************************************************************)
LEMMA InnerKeeps ==
  ASSUME Inv, NEW p \in Procs, Shaped', Alone(p), Inner(p), (surprises \in Nat)'
  PROVE  Inv'
<1>1. Holds(p) /\ Planned(proc[p])
  BY DEF Inv
<1>2. Holds(p)' /\ Planned(proc[p])'
  BY <1>1 DEF Inner, Holds, Planned, Locked, Walking, Writing
<1> QED BY <1>2, OneAtATime DEF Inv, Inner, LocksKept

\* A stage of writes begins: what it plans.
Plans(p, stage, base, todo) ==
    /\ proc'[p].stage = stage /\ proc'[p].read = proc[p].read
    /\ proc'[p].base = base /\ proc'[p].todo = todo

LEMMA UpsertsArePlanned ==
  ASSUME NEW r, NEW m \in DOMAIN UpsertWrites(r)
  PROVE  m \in Modules /\ Tame(UpsertWrites(r)[m])
         /\ (r.read[m].direct => UpsertWrites(r)[m].direct)
  BY TameEntries DEF UpsertWrites, Transitives, WasDirect

LEMMA CleanupsArePlanned ==
  ASSUME NEW r, TameTable(r.read), NEW m \in DOMAIN CleanupWrites(r)
  PROVE  m \in Modules /\ Tame(CleanupWrites(r)[m]) /\ ~ r.read[m].direct
  BY TameEntries DEF CleanupWrites, Keys, TameTable, Tame

LEMMA TrimsArePlanned ==
  ASSUME NEW table, TameTable(table), NEW m \in DOMAIN TrimWrites(table)
  PROVE  m \in Modules /\ Tame(TrimWrites(table)[m]) /\ ~ table[m].direct
  BY TameEntries DEF TrimWrites, Keys, TameTable, Tame

LEMMA ResolvesArePlanned ==
  ASSUME NEW table, NEW imported, NEW m \in DOMAIN ResolveWrites(table, imported)
  PROVE  m \in Modules /\ Tame(ResolveWrites(table, imported)[m]) /\ ~ table[m].direct
  BY TameEntries DEF ResolveWrites, Keys

LEMMA WriteStages ==
  ASSUME Inv, NEW p \in Procs, NEW stage \in Writing, NEW base, NEW todo,
         proc[p].stage \in Locked, Plans(p, stage, base, todo),
         Shaped', Alone(p), UNCHANGED <<mutator, holder, surprises>>, TameTable(manifest)',
         stage \notin {"trim", "resolve"} => base = proc[p].read,
         \A m \in DOMAIN todo : /\ m \in Modules /\ Tame(todo[m])
                                /\ base[m].direct => todo[m].direct
  PROVE  Inv'
<1>1. Holds(p) /\ Planned(proc[p]) /\ surprises \in Nat
  BY DEF Inv
<1>2. Holds(p)' /\ Planned(proc[p])'
  BY <1>1 DEF Plans, Holds, Planned, Locked
<1>3. LocksKept(p)
  BY DEF LocksKept
<1> QED BY <1>1, <1>2, <1>3, OneAtATime

LEMMA DeclareKeeps ==
  ASSUME Inv, NEW p \in Procs, Declare(p)
  PROVE  Inv'
<1> DEFINE r == proc[p]
           todo == UpsertWrites(r)
<1>1. proc' = DirtyBut(p, [proc EXCEPT ![p].stage = "upsert", ![p].todo = todo])
      /\ manifest' = [manifest EXCEPT ![r.dep] = Direct(r.versions[r.dep])]
      /\ r.stage = "declare"
  BY DEF Declare
<1> HIDE DEF todo
<1>2. Shaped' /\ Alone(p) /\ Plans(p, "upsert", r.base, todo)
  BY <1>1 DEF DirtyBut, Inv, Shaped, Fields, Alone, Same, Plans
<1>3. TameTable(manifest)'
  BY <1>1, TameEntries DEF Inv, TameTable
<1>4. r.base = r.read
  BY <1>1 DEF Inv, Planned
<1>5. \A m \in DOMAIN todo : /\ m \in Modules /\ Tame(todo[m])
                             /\ r.base[m].direct => todo[m].direct
  BY <1>4, UpsertsArePlanned DEF todo
<1>6. r.stage \in Locked /\ "upsert" \in Writing /\ UNCHANGED <<mutator, holder, surprises>>
  BY <1>1 DEF Declare, env, Locked, Walking, Writing
<1> QED BY <1>2, <1>3, <1>4, <1>5, <1>6, WriteStages

LEMMA WriteKeeps ==
  ASSUME Inv, NEW p \in Procs, Write(p)
  PROVE  Inv'
<1> DEFINE r == proc[p]
<1>1. PICK m \in DOMAIN r.todo :
          \/ Leave(p) /\ UNCHANGED manifest
          \/ /\ manifest' = [manifest EXCEPT ![m] = r.todo[m]]
             /\ proc' = DirtyBut(p, [proc EXCEPT ![p].todo =
                                        [n \in DOMAIN r.todo \ {m} |-> r.todo[n]]])
             /\ UNCHANGED <<mutator, holder>>
  BY Zenon DEF Write
<1>2. Planned(r) /\ r.stage \in Writing /\ UNCHANGED env
  BY DEF Write, Inv
<1>3. CASE Leave(p) /\ UNCHANGED manifest
  BY <1>2, <1>3, LeaveKeeps
<1>4. CASE /\ manifest' = [manifest EXCEPT ![m] = r.todo[m]]
           /\ proc' = DirtyBut(p, [proc EXCEPT ![p].todo =
                                        [n \in DOMAIN r.todo \ {m} |-> r.todo[n]]])
           /\ UNCHANGED <<mutator, holder>>
  <2> DEFINE todo == [n \in DOMAIN r.todo \ {m} |-> r.todo[n]]
  <2>1. \A n \in DOMAIN todo : /\ n \in Modules /\ Tame(todo[n])
                               /\ r.base[n].direct => todo[n].direct
    BY <1>2 DEF Planned
  <2> HIDE DEF todo
  <2>2. Shaped' /\ Alone(p) /\ Plans(p, r.stage, r.base, todo)
    BY <1>4 DEF DirtyBut, Inv, Shaped, Fields, Alone, Same, Plans, todo
  <2>3. TameTable(manifest)'
    BY <1>2, <1>4 DEF Inv, TameTable, Planned
  <2>4. r.stage \notin {"trim", "resolve"} => r.base = r.read
    BY <1>2 DEF Planned
  <2>5. r.stage \in Locked /\ UNCHANGED <<mutator, holder, surprises>>
    BY <1>2, <1>4 DEF env, Locked
  <2> QED BY <1>2, <2>1, <2>2, <2>3, <2>4, <2>5, WriteStages
<1> QED BY <1>1, <1>3, <1>4

LEMMA BeginCleanupKeeps ==
  ASSUME Inv, NEW p \in Procs, BeginCleanup(p)
  PROVE  Inv'
<1> DEFINE r == proc[p]
           todo == CleanupWrites(r)
<1>1. proc' = [proc EXCEPT ![p].stage = "cleanup", ![p].todo = todo] /\ r.stage = "upsert"
  BY DEF BeginCleanup
<1> HIDE DEF todo
<1>2. Shaped' /\ Alone(p) /\ Plans(p, "cleanup", r.base, todo)
  BY <1>1 DEF Inv, Shaped, Fields, Alone, Same, Plans
<1>3. r.base = r.read /\ TameTable(r.read) /\ TameTable(manifest)'
  BY <1>1 DEF Inv, Planned, BeginCleanup
<1>4. \A m \in DOMAIN todo : /\ m \in Modules /\ Tame(todo[m])
                             /\ r.base[m].direct => todo[m].direct
  BY <1>3, CleanupsArePlanned DEF todo
<1> QED BY <1>1, <1>2, <1>3, <1>4, WriteStages DEF BeginCleanup, env, Locked, Writing

LEMMA BeginTrimKeeps ==
  ASSUME Inv, NEW p \in Procs, BeginTrim(p)
  PROVE  Inv'
<1> DEFINE r == proc[p]
           todo == TrimWrites(manifest)
<1>1. /\ proc' = [proc EXCEPT ![p] = [Idle EXCEPT !.stage = "trim", !.cmd = r.cmd,
                                     !.dep = r.dep, !.read = r.read, !.scanned = r.scanned,
                                     !.clean = r.clean, !.base = manifest, !.todo = todo]]
      /\ r.stage \in {"hygiene", "cleanup"}
  BY DEF BeginTrim
<1> HIDE DEF todo
<1>2. Shaped' /\ Alone(p) /\ Plans(p, "trim", manifest, todo)
  BY <1>1 DEF Inv, Shaped, Fields, Alone, Same, Plans, Idle
<1>3. TameTable(manifest) /\ TameTable(manifest)'
  BY DEF Inv, BeginTrim
<1>4. \A m \in DOMAIN todo : /\ m \in Modules /\ Tame(todo[m])
                             /\ manifest[m].direct => todo[m].direct
  BY <1>3, TrimsArePlanned DEF todo
<1> QED BY <1>1, <1>2, <1>3, <1>4, WriteStages DEF BeginTrim, env, Locked, Writing

LEMMA BeginResolveKeeps ==
  ASSUME Inv, NEW p \in Procs, BeginResolve(p)
  PROVE  Inv'
<1> DEFINE r == proc[p]
           todo == ResolveWrites(manifest, r.scanned)
<1>1. /\ proc' = [proc EXCEPT ![p].stage = "resolve", ![p].base = manifest, ![p].todo = todo]
      /\ r.stage = "trim"
  BY DEF BeginResolve
<1> HIDE DEF todo
<1>2. Shaped' /\ Alone(p) /\ Plans(p, "resolve", manifest, todo)
  BY <1>1 DEF Inv, Shaped, Fields, Alone, Same, Plans
<1>3. TameTable(manifest)'
  BY DEF Inv, BeginResolve
<1>4. \A m \in DOMAIN todo : /\ m \in Modules /\ Tame(todo[m])
                             /\ manifest[m].direct => todo[m].direct
  BY ResolvesArePlanned DEF todo
<1> QED BY <1>1, <1>2, <1>3, <1>4, WriteStages DEF BeginResolve, env, Locked, Writing

-----------------------------------------------------------------------------
(***************************************************************************)
(* Steps of no command, and all of them together.                          *)
(***************************************************************************)
LEMMA OthersKeep ==
  ASSUME Inv, OtherTakesTarget \/ OtherLeavesTarget \/ Edit
  PROVE  Inv'
<1>1. /\ Shaped /\ TameTable(manifest) /\ surprises \in Nat
      /\ \A p \in Procs : Holds(p) /\ Planned(proc[p])
  BY DEF Inv
<1>2. CASE OtherTakesTarget \/ OtherLeavesTarget
  <2>1. Shaped' /\ TameTable(manifest)' /\ surprises' \in Nat /\ UNCHANGED <<proc, mutator>>
    BY <1>1, <1>2 DEF OtherTakesTarget, OtherLeavesTarget, Shaped, env
  <2>2. \A p \in Procs : holder = p => FALSE
    BY <1>2, ProcsAssumption DEF OtherTakesTarget, OtherLeavesTarget, None
  <2>3. \A p \in Procs : Holds(p)' /\ Planned(proc[p])'
    BY <1>1, <2>1, <2>2 DEF Holds
  <2> QED BY <2>1, <2>3 DEF Inv
<1>3. CASE Edit
  <2>1. Shaped' /\ \A p \in Procs : Same(proc'[p], proc[p])
    BY <1>1, <1>3 DEF Edit, Shaped, Fields, Same
  <2>2. \A p \in Procs : Holds(p)' /\ Planned(proc[p])'
    BY <1>1, <1>3, <2>1 DEF Edit, Same, Holds, Planned
  <2>3. TameTable(manifest)' /\ surprises' \in Nat
    BY <1>1, <1>3, TameEntries DEF Edit, Surprise, TameTable
  <2> QED BY <2>1, <2>2, <2>3 DEF Inv
<1> QED BY <1>2, <1>3

LEMMA StutterKeeps ==
  ASSUME Inv, UNCHANGED vars
  PROVE  Inv'
  BY DEF vars, Inv, Shaped, Holds

LEMMA WorkKeeps ==
  ASSUME Inv, NEW p \in Procs, Work(p)
  PROVE  Inv'
<1>1. CASE \/ Fetch(p) \/ ReconcileModule(p) \/ ReconcileDrift(p) \/ WalkImport(p)
           \/ EndWalk(p) \/ ExpandModule(p) \/ ExpandDrift(p) \/ Scan(p)
  <2>1. Shaped' /\ Alone(p) /\ Inner(p)
    BY <1>1, InnerSteps DEF Inv
  <2>2. CASE ReconcileModule(p)
    <3>1. Surprise \/ UNCHANGED surprises
      BY <2>2, Zenon DEF ReconcileModule
    <3>2. surprises \in Nat
      BY DEF Inv
    <3>3. surprises' \in Nat
      BY <3>1, <3>2 DEF Surprise
    <3> QED BY <2>1, <3>3, InnerKeeps
  <2>3. CASE ExpandModule(p)
    <3>1. Surprise \/ UNCHANGED surprises
      BY <2>3, Zenon DEF ExpandModule
    <3>2. surprises \in Nat
      BY DEF Inv
    <3>3. surprises' \in Nat
      BY <3>1, <3>2 DEF Surprise
    <3> QED BY <2>1, <3>3, InnerKeeps
  <2>4. CASE Fetch(p) \/ ReconcileDrift(p) \/ WalkImport(p) \/ EndWalk(p) \/ Scan(p)
    <3>1. UNCHANGED surprises
      BY <2>4 DEF env, Fetch, ReconcileDrift, WalkImport, EndWalk, Scan
    <3> QED BY <2>1, <3>1, InnerKeeps DEF Inv
  <2>5. CASE ExpandDrift(p)
    <3>1. Surprise \/ UNCHANGED surprises
      BY <2>5, Zenon DEF ExpandDrift
    <3>2. surprises \in Nat
      BY DEF Inv
    <3>3. surprises' \in Nat
      BY <3>1, <3>2 DEF Surprise
    <3> QED BY <2>1, <3>3, InnerKeeps
  <2> QED BY <1>1, <2>2, <2>3, <2>4, <2>5
<1>2. CASE Finish(p)
  BY <1>2, LeaveKeeps DEF Finish
<1> QED
  BY <1>1, <1>2, MutationLockKeeps, TargetLockKeeps, DeclareKeeps, WriteKeeps,
     BeginCleanupKeeps, BeginTrimKeeps, BeginResolveKeeps DEF Work

LEMMA Stepping == Inv /\ [Next]_vars => Inv'
<1> SUFFICES ASSUME Inv, [Next]_vars PROVE Inv'
  OBVIOUS
<1>1. ASSUME NEW p \in Procs, Quit(p) PROVE Inv'
  BY <1>1, LeaveKeeps DEF Quit
<1> QED BY <1>1, StartKeeps, WorkKeeps, OthersKeep, StutterKeeps DEF Next

LEMMA Invariant == Spec => []Inv
  BY Starting, Stepping, PTL DEF Spec

\* OneMutation: with whatever commands, kills and failures, the process that is past the locks
\* holds both of them, and so is the only one that writes the manifest or target/ (lock.rs).
THEOREM NobodyElseWrites == Spec => []OneMutation
<1>1. Inv => OneMutation
  BY DEF Inv, Holds, OneMutation
<1> QED BY <1>1, Invariant, PTL

LEMMA KeepsDirect ==
  ASSUME Inv, [Next]_vars, NEW m \in Modules, manifest[m].direct, ~ manifest'[m].direct,
         surprises' = surprises
  PROVE  \E p \in Procs : mutator = p /\ ~ proc[p].base[m].direct
<1>1. manifest' # manifest
  OBVIOUS
<1>2. ~ Edit
  BY DEF Edit, Surprise, Inv
<1>3. PICK p \in Procs : Declare(p) \/ Write(p)
  <2>1. ASSUME NEW p \in Procs, Work(p) PROVE Declare(p) \/ Write(p)
    BY <1>1, <2>1 DEF Work, AcquireMutationLock, AcquireTargetLock, Fetch, ReconcileModule,
       ReconcileDrift, WalkImport, EndWalk, ExpandModule, ExpandDrift, BeginCleanup, Scan,
       BeginTrim, BeginResolve, Finish
  <2> QED BY <1>1, <1>2, <2>1 DEF Next, vars, Start, Quit, OtherTakesTarget, OtherLeavesTarget
<1>4. TameTable(manifest) /\ Holds(p) /\ Planned(proc[p])
  BY DEF Inv
<1>5. CASE Declare(p)
  BY <1>4, <1>5, TameEntries DEF Declare, TameTable
<1>6. CASE Write(p)
  <2>1. PICK n \in DOMAIN proc[p].todo : manifest' = [manifest EXCEPT ![n] = proc[p].todo[n]]
    BY <1>1, <1>6 DEF Write
  <2>2. n = m /\ ~ proc[p].todo[m].direct
    BY <1>4, <2>1 DEF TameTable
  <2>3. proc[p].stage \in Writing
    BY <1>6 DEF Write
  <2>4. mutator = p /\ ~ proc[p].base[m].direct
    BY <1>4, <2>2, <2>3 DEF Holds, Planned, Locked
  <2> QED BY <2>4
<1> QED BY <1>3, <1>5, <1>6

\* DirectStaysDirect: whatever a command planned before it had the locks, and though it is
\* killed or somebody edits the file in between, a dependency stops to be direct only if it was
\* not direct in the manifest that the command last parsed (add.rs).
THEOREM DirectDepsAreLeftAlone == Spec => DirectStaysDirect
<1> DEFINE Kept ==
      \A m \in Modules :
          manifest[m].direct /\ ~ manifest'[m].direct /\ surprises' = surprises
            => \E p \in Procs : mutator = p /\ ~ proc[p].base[m].direct
<1>1. Inv /\ [Next]_vars => [Kept]_vars
  BY KeepsDirect
<1>2. DirectStaysDirect <=> [][Kept]_vars
  BY DEF DirectStaysDirect
<1> HIDE DEF Kept
<1> QED BY <1>1, <1>2, Invariant, PTL DEF Spec
=============================================================================
