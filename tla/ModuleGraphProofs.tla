------------------------- MODULE ModuleGraphProofs -------------------------
(***************************************************************************)
(* Theorems about ModuleGraph, for any modules and imports: the counters   *)
(* of the topological sort are exact, and its result never has a module    *)
(* before one that it imports.                                             *)
(***************************************************************************)
EXTENDS ModuleGraph, FiniteSetTheorems, TLAPS

-----------------------------------------------------------------------------
(* The graph that the visit builds: it is closed under imports when there  *)
(* is nothing left to visit, and a module without folder imports nothing.  *)

GraphInv ==
  /\ program.root = Entry /\ \A n \in Nodes : program.snap[n] \in SourcesOf[n]
  /\ visited \cup toVisit \subseteq Ids /\ IsFiniteSet(visited)
  /\ DOMAIN edges \subseteq visited
  /\ \A m \in DOMAIN edges : edges[m] = ImportsOf(m)
  /\ \A m \in DOMAIN edges : edges[m] \subseteq visited \cup toVisit
  /\ \A m \in visited \ DOMAIN edges : ImportsOf(m) = {}
  /\ phase # "visiting" => toVisit = {}

LEMMA ImportsAreIds ==
  ASSUME program.root = Entry, \A n \in Nodes : program.snap[n] \in SourcesOf[n],
         NEW m \in Ids
  PROVE  /\ ImportsOf(m) \subseteq Ids
         /\ ~Exists(m) => ImportsOf(m) = {}
  BY SourceAssumption, NodeAssumption, AbsentAssumption
     DEF Ids, Nodes, ImportsOf, Imports, Source, Exists

LEMMA InitGraph == Init => GraphInv
<1> SUFFICES ASSUME Init PROVE GraphInv
  OBVIOUS
<1>1. program.root = Entry /\ \A n \in Nodes : program.snap[n] \in SourcesOf[n]
  BY DEF Init, Programs
<1>2. IsFiniteSet(visited) /\ DOMAIN edges = {} /\ visited = {} /\ toVisit \subseteq Ids
  BY FS_EmptySet DEF Init, EmptyMap, Ids, Nodes
<1> QED BY <1>1, <1>2 DEF Init, GraphInv

LEMMA StepGraph == GraphInv /\ [Next]_vars => GraphInv'
<1> SUFFICES ASSUME GraphInv, [Next]_vars PROVE GraphInv'
  OBVIOUS
<1>1. ASSUME NEW m \in Ids, Visit(m) PROVE GraphInv'
  <2>1. /\ visited' = visited \cup {m} /\ UNCHANGED <<program, phase>>
        /\ phase = "visiting"
    BY <1>1 DEF Visit
  <2>2. IsFiniteSet(visited')
    BY <2>1, FS_AddElement DEF GraphInv
  <2>3. ImportsOf(m) \subseteq Ids /\ (~Exists(m) => ImportsOf(m) = {})
    BY ImportsAreIds DEF GraphInv
  <2>4. \A n : ImportsOf(n)' = ImportsOf(n)
    BY <2>1 DEF ImportsOf, Imports, Source
  <2>5. CASE Exists(m) /\ edges' = Put(edges, m, ImportsOf(m))
             /\ toVisit' = (toVisit \ {m}) \cup NewImports(m)
    <3>1. /\ DOMAIN edges' = DOMAIN edges \cup {m}
          /\ edges'[m] = ImportsOf(m)
          /\ \A n \in DOMAIN edges \ {m} : edges'[n] = edges[n]
      BY <2>5 DEF Put
    <3>2. ImportsOf(m) \subseteq visited' \cup toVisit'
      BY <2>1, <2>5 DEF NewImports
    <3>3. visited' \cup toVisit' \subseteq Ids
      BY <2>1, <2>3, <2>5 DEF GraphInv, NewImports
    <3>4. visited \cup toVisit \subseteq visited' \cup toVisit'
      BY <2>1, <2>5
    <3> QED BY <2>1, <2>2, <2>4, <3>1, <3>2, <3>3, <3>4 DEF GraphInv
  <2>6. CASE ~Exists(m) /\ toVisit' = toVisit \ {m} /\ UNCHANGED edges
    BY <2>1, <2>2, <2>3, <2>4, <2>6 DEF GraphInv
  <2> QED BY <1>1, <2>5, <2>6 DEF Visit
<1>2. CASE UNCHANGED <<program, visit>> /\ (phase = "visiting" => toVisit = {} \/ UNCHANGED phase)
           /\ (phase # "visiting" => phase' # "visiting")
  <2>1. \A n : ImportsOf(n)' = ImportsOf(n)
    BY <1>2 DEF ImportsOf, Imports, Source
  <2> QED BY <1>2, <2>1 DEF GraphInv, visit
<1>3. ASSUME NEW m \in Ids, Sort(m) \/ StartSearch(m) PROVE GraphInv'
  BY <1>2, <1>3 DEF Sort, StartSearch
<1>4. CASE CountImports
  BY <1>2, <1>4 DEF CountImports
<1>5. CASE EndSort \/ EndSearch
  BY <1>2, <1>5 DEF EndSort, EndSearch
<1>6. CASE SearchNode
  BY <1>2, <1>6 DEF SearchNode
<1>7. CASE UNCHANGED vars
  BY <1>2, <1>7 DEF vars
<1> QED BY <1>1, <1>3, <1>4, <1>5, <1>6, <1>7 DEF Next

-----------------------------------------------------------------------------
(* The sort.                                                               *)

(* The modules not yet sorted that import n. *)
Waiting(n, sorted) == {k \in DOMAIN edges \ sorted : n \in edges[k]}

Imported == UNION {edges[k] : k \in DOMAIN edges}

(* InDegreeExact, and which modules have a counter. *)
Counted ==
  /\ DOMAIN inDegree = DOMAIN edges \cup Imported
  /\ \A n \in DOMAIN inDegree : inDegree[n] = Cardinality(Waiting(n, ToSet(order)))
  /\ queue = {n \in DOMAIN inDegree \ ToSet(order) : inDegree[n] = 0}

(* Modules come once, after all those that import them. *)
Placed ==
  /\ order \in Seq(visited)
  /\ \A i, j \in DOMAIN order : i # j => order[i] # order[j]
  /\ \A i \in DOMAIN order : \A k \in DOMAIN edges :
       order[i] \in edges[k] => \E j \in DOMAIN order : j < i /\ order[j] = k

SortInv ==
  /\ phase = "visiting" => order = <<>>
  /\ phase = "sorting" => Counted
  /\ phase \in {"sorting", "searching"} => Placed
  /\ ImportsComeFirst

LEMMA WaitingIsFinite ==
  ASSUME GraphInv, NEW n, NEW sorted
  PROVE  IsFiniteSet(Waiting(n, sorted)) /\ Cardinality(Waiting(n, sorted)) \in Nat
<1>1. IsFiniteSet(Waiting(n, sorted))
  BY FS_Subset DEF GraphInv, Waiting
<1> QED BY <1>1, FS_CardinalityType

(* Sorting m takes 1 off what it imports, and leaves the rest. *)
LEMMA SortedOne ==
  ASSUME GraphInv, NEW m, NEW n, NEW sorted, m \notin sorted
  PROVE  Cardinality(Waiting(n, sorted \cup {m})) =
           IF m \in DOMAIN edges /\ n \in edges[m]
             THEN Cardinality(Waiting(n, sorted)) - 1
             ELSE Cardinality(Waiting(n, sorted))
<1>1. Waiting(n, sorted \cup {m}) = Waiting(n, sorted) \ {m}
  BY DEF Waiting
<1>2. m \in Waiting(n, sorted) <=> m \in DOMAIN edges /\ n \in edges[m]
  BY DEF Waiting
<1>3. IsFiniteSet(Waiting(n, sorted))
  BY WaitingIsFinite
<1>4. CASE m \in Waiting(n, sorted)
  BY <1>1, <1>2, <1>3, <1>4, FS_RemoveElement
<1>5. CASE m \notin Waiting(n, sorted)
  <2>1. Waiting(n, sorted) \ {m} = Waiting(n, sorted)
    BY <1>5
  <2> QED BY <1>1, <1>2, <1>5, <2>1
<1> QED BY <1>4, <1>5

LEMMA AppendPlaces ==
  ASSUME NEW S, NEW s \in Seq(S), NEW m \in S
  PROVE  /\ Append(s, m) \in Seq(S) /\ Len(Append(s, m)) = Len(s) + 1
         /\ DOMAIN Append(s, m) = DOMAIN s \cup {Len(s) + 1}
         /\ Append(s, m)[Len(s) + 1] = m
         /\ \A i \in DOMAIN s : i < Len(s) + 1 /\ i \in Nat /\ Append(s, m)[i] = s[i]
         /\ ToSet(Append(s, m)) = ToSet(s) \cup {m}
<1>1. /\ Append(s, m) \in Seq(S) /\ Len(Append(s, m)) = Len(s) + 1
      /\ DOMAIN Append(s, m) = DOMAIN s \cup {Len(s) + 1}
      /\ Append(s, m)[Len(s) + 1] = m
      /\ \A i \in DOMAIN s : i < Len(s) + 1 /\ i \in Nat /\ Append(s, m)[i] = s[i]
  OBVIOUS
<1>2. ToSet(Append(s, m)) = ToSet(s) \cup {m}
  BY <1>1 DEF ToSet
<1> QED BY <1>1, <1>2

(* What is in the queue is imported by sorted modules only. *)
LEMMA ReadyToSort ==
  ASSUME GraphInv, Counted, NEW m \in DOMAIN inDegree, inDegree[m] = 0
  PROVE  \A k \in DOMAIN edges : m \in edges[k] => k \in ToSet(order)
<1>1. Cardinality(Waiting(m, ToSet(order))) = 0
  BY DEF Counted
<1>2. Waiting(m, ToSet(order)) = {}
  BY <1>1, WaitingIsFinite, FS_EmptySet
<1> QED BY <1>2 DEF Waiting

LEMMA CountKeeps ==
  ASSUME GraphInv, SortInv, CountImports
  PROVE  SortInv'
<1>1. order = <<>> /\ order' = order /\ phase' = "sorting" /\ UNCHANGED edges
  BY DEF CountImports, SortInv, visit
<1>2. ToSet(order) = {} /\ DOMAIN order = {}
  BY <1>1 DEF ToSet
<1>3. \A n : {k \in DOMAIN edges : n \in edges[k]} = Waiting(n, ToSet(order))
  BY <1>2 DEF Waiting
<1>4. Counted'
  BY <1>1, <1>2, <1>3 DEF CountImports, Importers, Counted, Waiting, Imported, ToSet
<1>5. Placed'
  BY <1>1, <1>2 DEF Placed
<1> QED BY <1>1, <1>4, <1>5 DEF SortInv, ImportsComeFirst

LEMMA SortKeeps ==
  ASSUME GraphInv, SortInv, NEW m \in Ids, Sort(m)
  PROVE  SortInv'
<1> DEFINE sorted == ToSet(order)
<1>1. /\ phase = "sorting" /\ Counted /\ Placed /\ m \in queue
      /\ order' = Append(order, m) /\ UNCHANGED <<phase, visited, edges, toVisit>>
  BY DEF Sort, SortInv, visit
<1>2. m \in DOMAIN inDegree /\ m \notin sorted /\ inDegree[m] = 0
  BY <1>1 DEF Counted
<1>3. m \in visited
  BY <1>1, <1>2 DEF Counted, Imported, GraphInv
<1>4. /\ order' \in Seq(visited) /\ DOMAIN order' = DOMAIN order \cup {Len(order) + 1}
      /\ order'[Len(order) + 1] = m
      /\ \A i \in DOMAIN order : i < Len(order) + 1 /\ i \in Nat /\ order'[i] = order[i]
      /\ ToSet(order') = sorted \cup {m}
  BY <1>1, <1>3, AppendPlaces DEF Placed
<1>6. \A k \in DOMAIN edges : m \in edges[k] => k \in sorted
  BY <1>1, <1>2, ReadyToSort
<1>7. Placed'
  <2>1. \A i \in DOMAIN order : order[i] # m
    BY <1>2 DEF ToSet
  <2>2. \A i, j \in DOMAIN order' : i # j => order'[i] # order'[j]
    BY <1>1, <1>4, <2>1 DEF Placed
  <2>3. ASSUME NEW i \in DOMAIN order', NEW k \in DOMAIN edges, order'[i] \in edges[k]
        PROVE  \E j \in DOMAIN order' : j < i /\ order'[j] = k
    <3>1. CASE i \in DOMAIN order
      BY <1>1, <1>4, <2>3, <3>1 DEF Placed
    <3>2. CASE i = Len(order) + 1
      <4>1. PICK j \in DOMAIN order : order[j] = k
        BY <1>4, <1>6, <2>3, <3>2 DEF ToSet
      <4> QED BY <1>4, <3>2, <4>1
    <3> QED BY <1>4, <3>1, <3>2
  <2> QED BY <1>1, <1>4, <2>2, <2>3 DEF Placed
<1>8. Counted'
  <2> DEFINE imports == IF m \in DOMAIN edges THEN edges[m] ELSE {}
  <2>1. /\ inDegree' = [n \in DOMAIN inDegree |->
                          IF n \in imports THEN inDegree[n] - 1 ELSE inDegree[n]]
        /\ queue' = (queue \ {m}) \cup {n \in imports : inDegree'[n] = 0}
    BY DEF Sort
  <2>2. \A n \in DOMAIN inDegree :
          inDegree'[n] = Cardinality(Waiting(n, sorted \cup {m}))
    BY <1>1, <1>2, <2>1, SortedOne DEF Counted
  <2>3. \A n \in DOMAIN inDegree : inDegree[n] \in Nat /\ inDegree'[n] \in Nat
    BY <1>1, <2>2, WaitingIsFinite DEF Counted
  <2>4. imports \subseteq DOMAIN inDegree
    BY <1>1 DEF Counted, Imported
  <2>5. imports \cap (sorted \cup {m}) = {}
    <3>1. ASSUME NEW n \in imports, n \in sorted \cup {m} PROVE FALSE
      <4>1. m \in DOMAIN edges /\ n \in edges[m]
        BY <3>1
      <4>2. CASE n = m
        BY <1>2, <1>6, <4>1, <4>2
      <4>3. CASE n \in sorted
        <5>1. PICK i \in DOMAIN order : order[i] = n
          BY <4>3 DEF ToSet
        <5>2. PICK j \in DOMAIN order : order[j] = m
          BY <1>1, <4>1, <5>1 DEF Placed
        <5> QED BY <1>2, <5>2 DEF ToSet
      <4> QED BY <3>1, <4>2, <4>3
    <3> QED BY <3>1
  <2>6. queue' = {n \in DOMAIN inDegree \ (sorted \cup {m}) : inDegree'[n] = 0}
    <3>1. ASSUME NEW n \in DOMAIN inDegree \ (sorted \cup {m}), inDegree'[n] = 0
          PROVE  n \in queue'
      <4>1. CASE n \in imports
        BY <2>1, <3>1, <4>1
      <4>2. CASE n \notin imports
        <5>1. inDegree[n] = 0
          BY <2>1, <3>1, <4>2
        <5>2. n \in queue \ {m}
          BY <1>1, <3>1, <5>1 DEF Counted
        <5> QED BY <2>1, <5>2
      <4> QED BY <4>1, <4>2
    <3>2. ASSUME NEW n \in queue'
          PROVE  n \in DOMAIN inDegree \ (sorted \cup {m}) /\ inDegree'[n] = 0
      <4>1. CASE n \in imports /\ inDegree'[n] = 0
        BY <2>4, <2>5, <4>1
      <4>2. CASE n \in queue \ {m}
        <5>1. n \in DOMAIN inDegree \ sorted /\ inDegree[n] = 0
          BY <1>1, <4>2 DEF Counted
        <5>2. n \notin imports
          BY <2>1, <2>3, <5>1
        <5> QED BY <2>1, <4>2, <5>1, <5>2
      <4> QED BY <2>1, <3>2, <4>1, <4>2
    <3> QED BY <3>1, <3>2
  <2>7. DOMAIN inDegree' = DOMAIN inDegree
    BY <2>1
  <2> HIDE DEF imports
  <2> QED BY <1>1, <1>4, <2>2, <2>6, <2>7 DEF Counted, Waiting, Imported
<1> QED BY <1>1, <1>7, <1>8 DEF SortInv, ImportsComeFirst

LEMMA ReverseOf ==
  ASSUME NEW S, NEW s \in Seq(S)
  PROVE  /\ DOMAIN Reverse(s) = DOMAIN s
         /\ \A i \in DOMAIN s : /\ Len(s) - i + 1 \in DOMAIN s
                                /\ Reverse(s)[i] = s[Len(s) - i + 1]
  BY DEF Reverse

(* What is sorted before all that it imports, reversed, comes after it. *)
LEMMA ReversedIsRight ==
  ASSUME GraphInv, Placed, phase # "visiting", order' = Result(order),
         UNCHANGED <<program, edges>>
  PROVE  ImportsComeFirst'
<1> SUFFICES ASSUME NEW i \in DOMAIN order', NEW j \in DOMAIN order'
             PROVE  /\ i # j => order'[i] # order'[j]
                    /\ order'[j] \in ImportsOf(order'[i]) => j < i
  BY DEF ImportsComeFirst, ImportsOf, Imports, Source
<1> DEFINE n == Len(order)
           ri == n - i + 1
           rj == n - j + 1
<1>1. /\ i \in DOMAIN order /\ j \in DOMAIN order /\ ri \in DOMAIN order /\ rj \in DOMAIN order
      /\ order'[i] = order[ri] /\ order'[j] = order[rj]
  BY ReverseOf DEF Placed, Result
<1>2. n \in Nat /\ DOMAIN order = 1 .. n
  BY DEF Placed
<1>3. /\ i \in Int /\ j \in Int /\ (i # j => ri # rj) /\ (ri < rj => j < i)
  BY <1>1, <1>2
<1> HIDE DEF n, ri, rj
<1>4. i # j => order'[i] # order'[j]
  BY <1>1, <1>3 DEF Placed
<1>5. ASSUME order'[j] \in ImportsOf(order'[i]) PROVE j < i
  <2>1. order[rj] \in ImportsOf(order[ri])
    BY <1>1, <1>5
  <2>2. order[ri] \in visited
    BY <1>1, <1>2 DEF Placed
  <2>3. order[ri] \in DOMAIN edges /\ order[rj] \in edges[order[ri]]
    BY <2>1, <2>2 DEF GraphInv
  <2>4. PICK k \in DOMAIN order : k < rj /\ order[k] = order[ri]
    BY <1>1, <2>3 DEF Placed
  <2>5. k = ri
    BY <1>1, <2>4 DEF Placed
  <2> QED BY <1>3, <2>4, <2>5
<1> QED BY <1>4, <1>5

LEMMA StepSort == GraphInv /\ SortInv /\ [Next]_vars => SortInv'
<1> SUFFICES ASSUME GraphInv, SortInv, [Next]_vars PROVE SortInv'
  OBVIOUS
<1>1. ASSUME NEW m \in Ids, Visit(m) PROVE SortInv'
  BY <1>1 DEF Visit, sort, SortInv, ImportsComeFirst
<1>2. ASSUME NEW m \in Ids, Sort(m) PROVE SortInv'
  BY <1>2, SortKeeps
<1>3. CASE CountImports
  BY <1>3, CountKeeps
<1>4. ASSUME phase \in {"sorting", "searching"}, phase' = "done", order' = Result(order),
             UNCHANGED <<program, visit>>
      PROVE  SortInv'
  <2>1. Placed
    BY <1>4 DEF SortInv
  <2>2. ImportsComeFirst'
    BY <1>4, <2>1, ReversedIsRight DEF visit
  <2> QED BY <1>4, <2>2 DEF SortInv
<1>5. ASSUME phase \in {"sorting", "searching"}, phase' = "searching",
             UNCHANGED <<visit, order>>
      PROVE  SortInv'
  BY <1>5 DEF SortInv, Placed, ImportsComeFirst, visit
<1>6. CASE EndSort
  BY <1>4, <1>5, <1>6 DEF EndSort
<1>7. CASE EndSearch
  BY <1>4, <1>7 DEF EndSearch
<1>8. ASSUME NEW m \in Ids, StartSearch(m) PROVE SortInv'
  BY <1>5, <1>8 DEF StartSearch, sort
<1>9. CASE SearchNode
  BY <1>5, <1>9 DEF SearchNode, sort
<1>10. CASE UNCHANGED vars
  <2>1. ImportsComeFirst'
    BY <1>10 DEF vars, sort, SortInv, ImportsComeFirst, ImportsOf, Imports, Source
  <2> QED BY <1>10, <2>1
          DEF vars, visit, sort, SortInv, Counted, Waiting, Imported, Placed
<1> QED BY <1>1, <1>2, <1>3, <1>6, <1>7, <1>8, <1>9, <1>10 DEF Next

LEMMA InitSort == Init => SortInv
  BY DEF Init, SortInv, ImportsComeFirst

LEMMA Invariance == Spec => [](GraphInv /\ SortInv)
  BY InitGraph, InitSort, StepGraph, StepSort, PTL DEF Spec

(* Each counter is the number of modules not yet sorted that import the    *)
(* module, so that no decrement, which the code does not check, goes below *)
(* zero; the queue holds exactly the modules that are ready.               *)
THEOREM CountersAreExact == Spec => []InDegreeExact
<1>1. GraphInv /\ SortInv => InDegreeExact
  BY DEF SortInv, Counted, Waiting, InDegreeExact
<1> QED BY <1>1, Invariance, PTL

(* The modules are analysed once each, after all they import that is in    *)
(* the result, whatever cycles there are and however many imports.         *)
THEOREM ImportsAreAnalysedFirst == Spec => []ImportsComeFirst
<1>1. GraphInv /\ SortInv => ImportsComeFirst
  BY DEF SortInv
<1> QED BY <1>1, Invariance, PTL

-----------------------------------------------------------------------------
(* What is visited is what the entry reaches, and what is sorted is what   *)
(* Program calls Ordered.                                                  *)

VisitInv ==
  /\ Entry \in visited \cup toVisit
  /\ visited \cup toVisit \subseteq Reachable(program) \cup {Entry, GoDep}
  /\ visited \cup toVisit \subseteq {Entry} \cup Imported
  /\ DOMAIN edges = {m \in visited : Exists(m)}
  /\ notFound = {m \in visited : ~Exists(m)}

OrderInv ==
  /\ phase = "sorting" => ToSet(order) \cap Modules \subseteq Ordered(program)
  /\ phase \in {"searching", "done"} => OrdersTheAcyclic /\ notFound = Missing(program)
                                        /\ ToSet(order) \cap Modules = Ordered(program)

LEMMA ReversedSet ==
  ASSUME NEW S, NEW s \in Seq(S)
  PROVE  ToSet(Result(s)) = ToSet(s)
<1>1. \A i \in DOMAIN s : Len(s) - (Len(s) - i + 1) + 1 = i
  OBVIOUS
<1> QED BY <1>1, ReverseOf DEF ToSet, Result

LEMMA ReachesImports ==
  ASSUME NEW g, NEW n \in Reachable(g) \cup {Entry}, NEW i \in Imports(g, n) \cap Modules
  PROVE  i \in Reachable(g)
  BY DEF Reachable

LEMMA InitVisit == Init => VisitInv /\ OrderInv
  BY DEF Init, VisitInv, OrderInv, EmptyMap

LEMMA StepVisit == GraphInv /\ VisitInv /\ [Next]_vars => VisitInv'
<1> SUFFICES ASSUME GraphInv, VisitInv, [Next]_vars PROVE VisitInv'
  OBVIOUS
<1>1. ASSUME NEW m \in Ids, Visit(m) PROVE VisitInv'
  <2>1. /\ m \in toVisit /\ visited' = visited \cup {m} /\ UNCHANGED program
        /\ toVisit' \subseteq toVisit \cup ImportsOf(m)
        /\ toVisit \subseteq toVisit' \cup {m}
        /\ notFound' = IF Exists(m) THEN notFound ELSE notFound \cup {m}
    BY <1>1 DEF Visit, NewImports
  <2>2. \A n : Exists(n)' = Exists(n)
    BY <2>1 DEF Exists, Source
  <2>3. notFound' = {n \in visited' : ~Exists(n)}
    BY <2>1 DEF VisitInv
  <2>7. edges' = IF Exists(m) THEN Put(edges, m, ImportsOf(m)) ELSE edges
    BY <1>1 DEF Visit
  <2>8. DOMAIN edges' = {n \in visited' : Exists(n)}
    BY <2>1, <2>7 DEF VisitInv, Put
  <2>9. visited' \cup toVisit' \subseteq {Entry} \cup Imported'
    <3>1. \A n \in DOMAIN edges : n \in DOMAIN edges' /\ edges'[n] = edges[n]
      BY <2>7 DEF Put, GraphInv
    <3>2. Imported \subseteq Imported'
      BY <3>1 DEF Imported
    <3>3. ImportsOf(m) \subseteq Imported'
      <4>1. CASE Exists(m)
        <5>1. m \in DOMAIN edges' /\ edges'[m] = ImportsOf(m)
          BY <2>7, <4>1 DEF Put
        <5> QED BY <5>1 DEF Imported
      <4>2. CASE ~Exists(m)
        BY <4>2, ImportsAreIds DEF GraphInv
      <4> QED BY <4>1, <4>2
    <3> QED BY <2>1, <3>2, <3>3 DEF VisitInv
  <2>4. ImportsOf(m) \subseteq Reachable(program) \cup {GoDep}
    <3>1. m \in Reachable(program) \cup {Entry, GoDep}
      BY <2>1 DEF VisitInv
    <3>2. CASE m = GoDep
      BY <3>2 DEF ImportsOf
    <3>3. CASE m # GoDep
      <4>1. ImportsOf(m) = Imports(program, m) /\ m \in Nodes
        BY <3>3 DEF ImportsOf, Ids
      <4>2. Imports(program, m) \subseteq Modules \cup {GoDep}
        BY <4>1, SourceAssumption DEF GraphInv, Imports, Source, Nodes
      <4> QED BY <3>1, <3>3, <4>1, <4>2, ReachesImports
    <3> QED BY <3>2, <3>3
  <2>5. visited' \cup toVisit' \subseteq Reachable(program) \cup {Entry, GoDep}
    BY <2>1, <2>4 DEF VisitInv
  <2>6. Entry \in visited' \cup toVisit'
    BY <2>1 DEF VisitInv
  <2> QED BY <2>1, <2>2, <2>3, <2>5, <2>6, <2>8, <2>9 DEF VisitInv
<1>2. ASSUME UNCHANGED <<program, visit>> PROVE VisitInv'
  <2>1. \A n : Exists(n)' = Exists(n)
    BY <1>2 DEF Exists, Source
  <2> QED BY <1>2, <2>1 DEF VisitInv, Imported, visit
<1>3. ASSUME NEW m \in Ids, Sort(m) \/ StartSearch(m) PROVE VisitInv'
  BY <1>2, <1>3 DEF Sort, StartSearch
<1>4. CASE CountImports \/ EndSort \/ SearchNode \/ EndSearch \/ UNCHANGED vars
  BY <1>2, <1>4 DEF CountImports, EndSort, EndSearch, SearchNode, vars
<1> QED BY <1>1, <1>3, <1>4 DEF Next

(* When the visit has ended. *)
LEMMA VisitedAll ==
  ASSUME GraphInv, VisitInv, phase # "visiting"
  PROVE  /\ visited \cap Modules = Reachable(program) /\ Entry \in visited
         /\ notFound = Missing(program)
         /\ \A n \in visited : \A i \in ImportsOf(n) : n \in DOMAIN edges /\ i \in edges[n]
<1>1. toVisit = {}
  BY DEF GraphInv
<1>2. \A n \in visited : \A i \in ImportsOf(n) :
        n \in DOMAIN edges /\ i \in edges[n] /\ i \in visited
  BY <1>1 DEF GraphInv
<1>3. Entry \in visited /\ GoDep \notin Modules /\ Entry \notin Modules /\ Entry # GoDep
  BY <1>1, NodeAssumption DEF VisitInv, Nodes
<1>4. Reachable(program) \subseteq visited \cap Modules
  <2> DEFINE X == visited \cap Modules
  <2>1. \A n \in X \cup {Entry} : Imports(program, n) \cap Modules \subseteq X
    BY <1>2, <1>3 DEF ImportsOf
  <2> QED BY <2>1 DEF Reachable
<1>5. visited \cap Modules = Reachable(program)
  BY <1>1, <1>3, <1>4 DEF VisitInv
<1>6. notFound = Missing(program)
  BY <1>5, NodeAssumption DEF VisitInv, Missing, Exists
<1> QED BY <1>2, <1>3, <1>5, <1>6

LEMMA SortedIsOrdered ==
  ASSUME GraphInv, VisitInv, SortInv, OrderInv, NEW m \in Ids, Sort(m)
  PROVE  ToSet(order') \cap Modules \subseteq Ordered(program)
<1>1. phase = "sorting" /\ Counted /\ Placed /\ order' = Append(order, m) /\ m \in queue
  BY DEF Sort, SortInv
<1>2. m \in DOMAIN inDegree /\ inDegree[m] = 0 /\ m \in visited
  BY <1>1 DEF Counted, Imported, GraphInv
<1>3. ToSet(order') = ToSet(order) \cup {m}
  BY <1>1, <1>2, AppendPlaces DEF Placed
<1>4. ASSUME m \in Modules PROVE m \in Ordered(program)
  <2>1. m \in Reachable(program)
    BY <1>1, <1>2, <1>4, VisitedAll
  <2>2. ASSUME NEW X \in SUBSET Reachable(program),
               \A k \in Reachable(program) :
                 (\A n \in Reachable(program) : k \in Imports(program, n) => n \in X)
                   => k \in X
        PROVE  m \in X
    <3>1. ASSUME NEW n \in Reachable(program), m \in Imports(program, n) PROVE n \in X
      <4>1. n \in visited \cap Modules
        BY <1>1, VisitedAll
      <4>2. m \in ImportsOf(n)
        BY <3>1, <4>1, NodeAssumption DEF ImportsOf, Nodes
      <4>3. n \in DOMAIN edges /\ m \in edges[n]
        BY <1>1, <4>1, <4>2, VisitedAll
      <4>4. n \in ToSet(order)
        BY <1>1, <1>2, <4>3, ReadyToSort
      <4>5. n \in Ordered(program)
        BY <1>1, <4>1, <4>4 DEF OrderInv
      <4> QED BY <2>2, <4>5 DEF Ordered
    <3> QED BY <2>1, <2>2, <3>1
  <2> QED BY <2>1, <2>2 DEF Ordered
<1> QED BY <1>1, <1>3, <1>4 DEF OrderInv

(* An empty queue: what is not sorted waits for something that is not. *)
LEMMA OrderedIsSorted ==
  ASSUME GraphInv, VisitInv, SortInv, phase = "sorting", queue = {}
  PROVE  Ordered(program) \subseteq ToSet(order)
<1>1. Counted /\ visited \cap Modules = Reachable(program) /\ Entry \in visited
  BY VisitedAll DEF SortInv
<1> DEFINE X == ToSet(order) \cap Reachable(program)
<1>2. ASSUME NEW k \in DOMAIN inDegree, \A n \in DOMAIN edges : k \in edges[n] => n \in ToSet(order)
      PROVE  k \in ToSet(order)
  <2>1. Waiting(k, ToSet(order)) = {}
    BY <1>2 DEF Waiting
  <2>2. inDegree[k] = 0
    BY <1>1, <2>1, FS_EmptySet DEF Counted
  <2> QED BY <1>1, <2>2 DEF Counted
<1>3. ASSUME NEW n \in DOMAIN edges, NEW k \in Modules, k \in edges[n]
      PROVE  /\ k \in Imports(program, n) /\ k \in DOMAIN inDegree
             /\ n \in Reachable(program) \cup {Entry}
  <2>1. n \in visited /\ k \in ImportsOf(n)
    BY <1>3 DEF GraphInv
  <2>2. n # GoDep /\ k \in Imports(program, n)
    BY <2>1 DEF ImportsOf
  <2>3. n \in Reachable(program) \cup {Entry}
    BY <2>1, <2>2 DEF VisitInv
  <2> QED BY <1>1, <1>3, <2>2, <2>3 DEF Counted, Imported
<1>4. Entry \in ToSet(order)
  <2>1. \A n \in DOMAIN edges : Entry \notin edges[n]
    <3>1. ASSUME NEW n \in DOMAIN edges, Entry \in edges[n] PROVE FALSE
      <4>1. n \in Ids /\ Entry \in ImportsOf(n)
        BY <3>1 DEF GraphInv
      <4>2. n \in Nodes /\ Entry \in Imports(program, n)
        BY <4>1 DEF ImportsOf, Ids
      <4>3. Source(program, n) \in SourcesOf[IF n = Entry THEN Entry ELSE n]
        BY <4>2 DEF Source, GraphInv, Nodes
      <4> QED BY <4>2, <4>3, SourceAssumption, NodeAssumption DEF Imports, Nodes
    <3> QED BY <3>1
  <2>2. Entry \in DOMAIN edges
    BY <1>1, NodeAssumption DEF VisitInv, Exists
  <2> QED BY <1>1, <1>2, <2>1, <2>2 DEF Counted
<1>5. ASSUME NEW k \in Reachable(program),
             \A n \in Reachable(program) : k \in Imports(program, n) => n \in X
      PROVE  k \in X
  <2>1. k \in visited /\ k \in Modules
    BY <1>1
  <2>2. \A n \in DOMAIN edges : k \in edges[n] => n \in ToSet(order)
    BY <1>3, <1>4, <1>5, <2>1
  <2>3. k \in DOMAIN inDegree
    BY <1>1, <2>1, NodeAssumption DEF VisitInv, Counted
  <2> QED BY <1>2, <2>2, <2>3
<1> QED BY <1>5 DEF Ordered

LEMMA StepOrder ==
  GraphInv /\ VisitInv /\ SortInv /\ OrderInv /\ [Next]_vars => OrderInv'
<1> SUFFICES ASSUME GraphInv, VisitInv, SortInv, OrderInv, [Next]_vars PROVE OrderInv'
  OBVIOUS
<1>1. ASSUME NEW m \in Ids, Visit(m) PROVE OrderInv'
  BY <1>1 DEF Visit, OrderInv
<1>2. ASSUME NEW m \in Ids, Sort(m) PROVE OrderInv'
  BY <1>2, SortedIsOrdered DEF Sort, OrderInv
<1>3. CASE CountImports
  <2>1. ToSet(order') = {} /\ phase' = "sorting"
    BY <1>3 DEF CountImports, SortInv, ToSet
  <2> QED BY <2>1 DEF OrderInv
<1>4. CASE EndSort
  <2>1. /\ ToSet(order) \cap Modules = Ordered(program) /\ notFound = Missing(program)
        /\ phase' \in {"searching", "done"} /\ UNCHANGED <<program, notFound>>
    BY <1>4, OrderedIsSorted, VisitedAll DEF EndSort, OrderInv, visit, Ordered, Reachable
  <2>2. ToSet(order') = ToSet(order)
    BY <1>4, ReversedSet DEF EndSort, SortInv, Placed
  <2> QED BY <2>1, <2>2 DEF OrderInv, OrdersTheAcyclic
<1>5. CASE EndSearch
  <2>1. ToSet(order') = ToSet(order)
    BY <1>5, ReversedSet DEF EndSearch, SortInv, Placed
  <2> QED BY <1>5, <2>1 DEF EndSearch, visit, OrderInv, OrdersTheAcyclic
<1>6. ASSUME UNCHANGED <<program, phase, notFound, order>> PROVE OrderInv'
  BY <1>6 DEF OrderInv, OrdersTheAcyclic
<1>7. ASSUME NEW m \in Ids, StartSearch(m) PROVE OrderInv'
  BY <1>6, <1>7 DEF StartSearch, visit, sort
<1>8. CASE SearchNode \/ UNCHANGED vars
  BY <1>6, <1>8 DEF SearchNode, visit, sort, vars
<1> QED BY <1>1, <1>2, <1>3, <1>4, <1>5, <1>7, <1>8 DEF Next

(* The result has exactly the modules that are neither on an import cycle  *)
(* nor imported from one, and what is reported missing is what the entry   *)
(* reaches and has no folder: what BuildCache takes for granted.           *)
THEOREM OrderIsWhatProgramSays == Spec => []OrdersTheAcyclic
<1>1. OrderInv => OrdersTheAcyclic
  BY DEF OrderInv, OrdersTheAcyclic
<1> QED BY <1>1, InitGraph, InitSort, InitVisit, StepGraph, StepSort, StepVisit, StepOrder,
           PTL DEF Spec
=============================================================================
