---------------------------- MODULE ModuleGraph ----------------------------
(***************************************************************************)
(* semantics::module_graph: the visit of the folders of a program from its *)
(* entry, the topological sort of what it found (kahn.rs), and the search  *)
(* for import cycles when the sort leaves modules out.  A HashSet is       *)
(* iterated in any order.                                                  *)
(*                                                                         *)
(* A go: import is a node without a folder and without imports; an import  *)
(* that is rejected (prelude, an invalid path, an undeclared package) is   *)
(* dropped by collect_imports and not part of a source's imports.          *)
(***************************************************************************)
EXTENDS Program, SequencesExt

CONSTANT Rank   \* module id |-> its place in the order of strings

Ids == Nodes \cup {GoDep}

ASSUME RankAssumption ==
  /\ Rank \in [Ids -> Nat]
  /\ \A m, n \in Ids : Rank[m] = Rank[n] => m = n
ASSUME AbsentAssumption ==
  \A m \in Modules : \A s \in SourcesOf[m] : s.files = {} => s.imports = {}

VARIABLES
  program,    \* what the loader returns, fixed
  phase,      \* "visiting", "sorting", "searching" or "done"
  toVisit, visited, notFound,
  edges,      \* visited module with a folder |-> its imports
  inDegree,   \* module |-> how many unsorted modules import it
  queue,      \* modules of in-degree 0 to be sorted
  order,      \* importers first, reversed at the end
  starts,     \* modules find_cycles has not yet started from
  stack,      \* its stack of nodes, each with the path that led there
  onStack, searched,
  cycles      \* the cycles found

visit  == <<toVisit, visited, notFound, edges>>
sort   == <<inDegree, queue, order>>
search == <<starts, stack, onStack, searched, cycles>>
vars   == <<program, phase, visit, sort, search>>

ImportsOf(n) == IF n = GoDep THEN {} ELSE Imports(program, n)

(* Mutant: a go: import is looked for on disk. *)
ExistsOnDisk(n) == n \in Nodes /\ (n \in Modules => Source(program, n).files # {})

Exists(n) == n \in Modules => Source(program, n).files # {}

Init ==
  /\ program \in Programs({b \in [Nodes -> AllSources] :
                             \A n \in Nodes : b[n] \in SourcesOf[n]})
  /\ program.root = Entry
  /\ phase = "visiting"
  /\ toVisit = {Entry} /\ visited = {} /\ notFound = {}
  /\ edges = EmptyMap
  /\ inDegree = EmptyMap /\ queue = {} /\ order = <<>>
  /\ starts = {} /\ stack = <<>> /\ onStack = {} /\ searched = {}
  /\ cycles = {}

(* Mutant: modules already visited are visited again. *)
AllImports(m) == ImportsOf(m)

NewImports(m) == ImportsOf(m) \ (visited \cup {m})

(* One turn of the loop of build_module_graph.  A module pushed twice is   *)
(* skipped the second time.                                                *)
Visit(m) ==
  /\ phase = "visiting"
  /\ m \in toVisit
  /\ visited' = visited \cup {m}
  /\ \/ /\ Exists(m)
        /\ edges' = Put(edges, m, ImportsOf(m))
        /\ toVisit' = (toVisit \ {m}) \cup NewImports(m)
        /\ UNCHANGED notFound
     \/ /\ ~Exists(m)
        /\ notFound' = notFound \cup {m}
        /\ toVisit' = toVisit \ {m}
        /\ UNCHANGED edges
  /\ UNCHANGED <<program, phase, sort, search>>

(* Mutant: an import of a module by itself does not count. *)
ImportersBut(n) == Cardinality({k \in DOMAIN edges \ {n} : n \in edges[k]})

Importers(n) == Cardinality({k \in DOMAIN edges : n \in edges[k]})

(* topological_sort counts the imports of the modules in edges only: a     *)
(* module that was not found has no entry there.                           *)
CountImports ==
  /\ phase = "visiting"
  /\ toVisit = {}
  /\ phase' = "sorting"
  /\ inDegree' = [n \in DOMAIN edges \cup UNION {edges[k] : k \in DOMAIN edges} |->
                    Importers(n)]
  /\ queue' = {n \in DOMAIN inDegree' : inDegree'[n] = 0}
  /\ UNCHANGED <<program, visit, order, search>>

(* The queue is sorted and its last element taken. *)
Sort(m) ==
  LET imports == IF m \in DOMAIN edges THEN edges[m] ELSE {} IN
  /\ phase = "sorting"
  /\ m \in queue
  /\ \A k \in queue : Rank[k] <= Rank[m]
  /\ order' = Append(order, m)
  /\ inDegree' = [n \in DOMAIN inDegree |->
                    IF n \in imports THEN inDegree[n] - 1 ELSE inDegree[n]]
  /\ queue' = (queue \ {m}) \cup {n \in imports : inDegree'[n] = 0}
  /\ UNCHANGED <<program, phase, visit, search>>

(* Mutant: importers stay first. *)
AsSorted(s) == s

Result(s) == Reverse(s)

(* Mutant: includes the modules that were not found. *)
LeftOutOfVisit == visited \ ToSet(order)

LeftOut == DOMAIN edges \ ToSet(order)

(* Modules were left out if fewer were sorted than have a folder. *)
EndSort ==
  /\ phase = "sorting"
  /\ queue = {}
  /\ \/ /\ Len(order) < Cardinality(DOMAIN edges)
        /\ phase' = "searching"
        /\ starts' = LeftOut
        /\ UNCHANGED order
     \/ /\ Len(order) >= Cardinality(DOMAIN edges)
        /\ phase' = "done"
        /\ order' = Result(order)
        /\ UNCHANGED starts
  /\ UNCHANGED <<program, visit, inDegree, queue, stack, onStack, searched,
                 cycles>>

StartSearch(s) ==
  /\ phase = "searching"
  /\ stack = <<>>
  /\ s \in starts
  /\ starts' = starts \ {s}
  /\ \/ /\ s \in searched
        /\ UNCHANGED <<stack, onStack>>
     \/ /\ s \notin searched
        /\ stack' = <<[node |-> s, path |-> <<s>>]>>
        /\ onStack' = {}
  /\ UNCHANGED <<program, phase, visit, sort, searched, cycles>>

(* Mutant: misses the node where the cycle starts. *)
TailOfCycle(path, import) ==
  SubSeq(path, SelectInSeq(path, LAMBDA n : n = import) + 1, Len(path)) \o <<import>>

(* The cycle an import of the end of a path closes, and its nodes. *)
CycleOf(path, import) ==
  SubSeq(path, SelectInSeq(path, LAMBDA n : n = import), Len(path)) \o <<import>>

SearchNode ==
  LET top     == Last(stack)
      imports == IF top.node \in DOMAIN edges THEN edges[top.node] ELSE {}
      closing == imports \cap ToSet(top.path)
  IN
  /\ phase = "searching"
  /\ stack # <<>>
  /\ \/ /\ top.node \in onStack
        /\ stack' = Front(stack)
        /\ UNCHANGED <<onStack, searched, cycles>>
     \/ /\ top.node \notin onStack
        /\ onStack' = onStack \cup {top.node}
        /\ searched' = searched \cup {top.node}
        /\ cycles' = cycles \cup {CycleOf(top.path, i) : i \in closing}
        /\ \E pushed \in SetToSeqs(imports \ (closing \cup searched')) :
             stack' = Front(stack) \o
               [i \in DOMAIN pushed |->
                  [node |-> pushed[i], path |-> Append(top.path, pushed[i])]]
  /\ UNCHANGED <<program, phase, visit, sort, starts>>

EndSearch ==
  /\ phase = "searching"
  /\ stack = <<>> /\ starts = {}
  /\ phase' = "done"
  /\ order' = Result(order)
  /\ UNCHANGED <<program, visit, inDegree, queue, search>>

Next ==
  \/ \E m \in Ids : Visit(m) \/ Sort(m) \/ StartSearch(m)
  \/ CountImports
  \/ EndSort
  \/ SearchNode
  \/ EndSearch

(* The loops of one thread: a step that can be taken is taken. *)
Spec == Init /\ [][Next]_vars /\ WF_vars(Next)

-----------------------------------------------------------------------------
TypeOK ==
  /\ phase \in {"visiting", "sorting", "searching", "done"}
  /\ toVisit \subseteq Ids /\ visited \subseteq Ids /\ notFound \subseteq Modules
  /\ DOMAIN edges \subseteq visited
  /\ \A m \in DOMAIN edges : edges[m] \subseteq Ids
  /\ DOMAIN inDegree \subseteq Ids
  /\ \A n \in DOMAIN inDegree : inDegree[n] \in Nat
  /\ queue \subseteq DOMAIN inDegree
  /\ order \in Seq(Ids)
  /\ starts \subseteq DOMAIN edges
  /\ \A i \in DOMAIN stack : /\ stack[i].node \in Ids
                             /\ stack[i].path \in Seq(Ids)
  /\ onStack \subseteq Ids /\ searched \subseteq Ids

(* The counters of the sort, unsigned and decremented unchecked, are exact *)
(* at every step: each is the number of modules not yet sorted that import *)
(* the module, and the queue holds the unsorted modules that reached zero. *)
InDegreeExact ==
  phase = "sorting" =>
    /\ \A n \in DOMAIN inDegree :
         inDegree[n] =
           Cardinality({k \in DOMAIN edges \ ToSet(order) : n \in edges[k]})
    /\ queue = {n \in DOMAIN inDegree \ ToSet(order) : inDegree[n] = 0}

(* analyze takes the modules in the order of the result: no module comes   *)
(* twice, and none comes before a module it imports, even when a cycle     *)
(* keeps some of its imports out of the result.                            *)
ImportsComeFirst ==
  phase = "done" =>
    \A i, j \in DOMAIN order :
      /\ i # j => order[i] # order[j]
      /\ order[j] \in ImportsOf(order[i]) => j < i

(* The result orders exactly the modules that are on no import cycle and   *)
(* imported from none; BuildCache relies on it.                            *)
OrdersTheAcyclic ==
  phase = "done" =>
    /\ ToSet(order) \cap Modules = Ordered(program)
    /\ notFound = Missing(program)

Reaches(m, n) ==
  \A X \in SUBSET Ids :
    /\ ImportsOf(m) \subseteq X
    /\ \A k \in X : ImportsOf(k) \subseteq X
    => n \in X

(* Every cycle reported exists, and, if every import has a folder, every   *)
(* module on a cycle shares one with a module of a reported cycle.         *)
CyclesExact ==
  /\ \A c \in cycles :
       /\ Len(c) > 1 /\ c[1] = c[Len(c)]
       /\ \A i \in 1 .. Len(c) - 1 : c[i + 1] \in ImportsOf(c[i])
  /\ phase = "done" /\ notFound = {} =>
       \A m \in visited : Reaches(m, m) =>
         \E c \in cycles : Reaches(m, c[1]) /\ Reaches(c[1], m)

(* The construction of the graph ends, whatever the imports. *)
Termination == <>(phase = "done")
=============================================================================
