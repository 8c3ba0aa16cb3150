------------------------- MODULE ModuleGraphSearchProofs -------------------------
(***************************************************************************)
(* Theorems about the search for import cycles of ModuleGraph: the cycles  *)
(* it reports exist, and it misses none of the knots of modules that       *)
(* import each other.                                                      *)
(***************************************************************************)
EXTENDS ModuleGraphProofs

-----------------------------------------------------------------------------
(* The types of the sort and of the stack.                                 *)

SortTypes ==
  /\ phase \in {"visiting", "sorting", "searching", "done"}
  /\ DOMAIN inDegree \subseteq Ids
  /\ \A n \in DOMAIN inDegree : inDegree[n] \in Nat
  /\ queue \subseteq DOMAIN inDegree
  /\ order \in Seq(Ids)

(* A path of imports to the node, through no module twice. *)
LeadsTo(path, node) ==
  /\ path \in Seq(visited) /\ Len(path) > 0 /\ path[Len(path)] = node
  /\ \A i, j \in DOMAIN path : i # j => path[i] # path[j]
  /\ \A i \in 1 .. Len(path) - 1 : path[i + 1] \in ImportsOf(path[i])

StackInv ==
  /\ stack \in Seq([node : visited, path : Seq(visited)])
  /\ \A e \in DOMAIN stack : LeadsTo(stack[e].path, stack[e].node)
  /\ starts \subseteq DOMAIN edges /\ searched \subseteq visited
  /\ onStack \subseteq searched
  /\ phase \in {"visiting", "sorting"} =>
       starts = {} /\ stack = <<>> /\ searched = {} /\ cycles = {}

(* A cycle of imports. *)
Closes(c) ==
  /\ Len(c) > 1 /\ c[1] = c[Len(c)]
  /\ \A i \in 1 .. Len(c) - 1 : c[i + 1] \in ImportsOf(c[i])

CyclesInv == \A c \in cycles : Closes(c)

(* What the sort left out has been searched or will be. *)
StartsInv ==
  phase = "searching" =>
    DOMAIN edges \ ToSet(order) \subseteq
      starts \cup searched \cup {stack[e].node : e \in DOMAIN stack}

-----------------------------------------------------------------------------
(* The knot of a module on a cycle: the modules it shares a cycle with.    *)

Knot(m) == {k \in Ids : Reaches(m, k) /\ Reaches(k, m)}

(* The search of a knot K is under way: it entered K at r, none of the     *)
(* modules of K it has searched imports r, and what they import in K is    *)
(* searched or on the stack above depth, where every path goes through r.  *)
Entered(K, r, depth) ==
  /\ depth <= Len(stack)
  /\ \A e \in depth + 1 .. Len(stack) : r \in ToSet(stack[e].path)
  /\ \A u \in K \cap searched :
       /\ r \notin ImportsOf(u)
       /\ \A i \in ImportsOf(u) \cap K :
            i \in searched \/ \E e \in depth + 1 .. Len(stack) : stack[e].node = i

Caught(K) == \E c \in cycles : c[1] \in K

(* A knot that the search has reached. *)
Followed(K) ==
  K \cap searched # {} =>
    Caught(K) \/ \E r \in K \cap searched, depth \in Nat : Entered(K, r, depth)

KnotInv ==
  phase = "searching" => \A m \in visited : Reaches(m, m) => Followed(Knot(m))

(* The second part of CyclesExact. *)
MissesNone ==
  phase = "done" /\ notFound = {} =>
    \A m \in visited : Reaches(m, m) => Caught(Knot(m))

-----------------------------------------------------------------------------
(* What the operators of the library return.                               *)

LEMMA FrontOf ==
  ASSUME NEW S, NEW s \in Seq(S), s # <<>>
  PROVE  /\ Front(s) \in Seq(S) /\ Len(Front(s)) = Len(s) - 1
         /\ Len(s) \in DOMAIN s /\ Last(s) = s[Len(s)] /\ Last(s) \in S
         /\ \A i \in 1 .. Len(s) - 1 : i \in DOMAIN s /\ Front(s)[i] = s[i]
<1>1. Len(s) \in Nat /\ Len(s) > 0 /\ DOMAIN s = 1 .. Len(s)
  OBVIOUS
<1>2. Last(s) = s[Len(s)] /\ Last(s) \in S
  BY <1>1 DEF Last
<1>3. Front(s) = SubSeq(s, 1, Len(s) - 1)
  BY DEF Front
<1>4. Front(s) \in Seq(S) /\ Len(Front(s)) = Len(s) - 1
  BY <1>1, <1>3
<1>5. \A i \in 1 .. Len(s) - 1 : i \in DOMAIN s /\ Front(s)[i] = s[i]
  BY <1>1, <1>3
<1> QED BY <1>1, <1>2, <1>4, <1>5

(* A permutation of a set, the way SetToSeqs gives it, has all of it. *)
LEMMA PushedAll ==
  ASSUME NEW S, IsFiniteSet(S), NEW pushed \in SetToSeqs(S)
  PROVE  pushed \in Seq(S) /\ \A x \in S : \E i \in DOMAIN pushed : pushed[i] = x
<1> DEFINE D == 1 .. Cardinality(S)
<1>1. Cardinality(S) \in Nat
  BY FS_CardinalityType
<1>2. pushed \in [D -> S] /\ \A i, j \in D : i # j => pushed[i] # pushed[j]
  BY DEF SetToSeqs
<1>3. pushed \in Injection(D, S)
  BY <1>2 DEF Injection, IsInjective
<1>4. Cardinality(D) = Cardinality(S)
  BY <1>1, FS_Interval
<1>5. pushed \in Surjection(D, S)
  BY <1>3, <1>4, FS_Injection
<1>6. \A x \in S : \E i \in D : pushed[i] = x
  BY <1>5 DEF Surjection
<1> QED BY <1>1, <1>2, <1>6

LEMMA CycleIsOnPath ==
  ASSUME NEW path, NEW node, LeadsTo(path, node), node \in visited,
         NEW i \in ImportsOf(node) \cap ToSet(path)
  PROVE  Closes(CycleOf(path, i)) /\ CycleOf(path, i)[1] = i
<1>1. PICK j \in DOMAIN path : path[j] = i
  BY DEF ToSet
<1>2. path \in Seq(visited) /\ j \in 1 .. Len(path) /\ Len(path) \in Nat
  BY <1>1 DEF LeadsTo
<1>3. {k \in 1 .. Len(path) : path[k] = i} = {j}
  BY <1>1, <1>2 DEF LeadsTo
<1>4. CycleOf(path, i) = SubSeq(path, j, Len(path)) \o <<i>>
  BY <1>3 DEF CycleOf, SelectInSeq, Min
<1> DEFINE part == SubSeq(path, j, Len(path))
           c == part \o <<i>>
           last == Len(path) - j + 1
<1>5. /\ part \in Seq(visited) /\ Len(part) = last
      /\ \A k \in 1 .. last : part[k] = path[j + k - 1]
  BY <1>2
<1>6. last \in Nat /\ last > 0
  BY <1>2
<1> HIDE DEF part, last
<1>7. /\ Len(c) = last + 1 /\ c[last + 1] = i
      /\ \A k \in 1 .. last : c[k] = part[k]
  BY <1>5, <1>6
<1> HIDE DEF c
<1>8. \A k \in 1 .. last : c[k] = path[j + k - 1]
  BY <1>5, <1>7
<1>9. c[1] = i
  BY <1>1, <1>2, <1>6, <1>8
<1>10. ASSUME NEW k \in 1 .. Len(c) - 1 PROVE c[k + 1] \in ImportsOf(c[k])
  <2>1. CASE k = last
    <3>1. j + last - 1 = Len(path)
      BY <1>2 DEF last
    <3>2. c[k] = node /\ c[k + 1] = i
      BY <1>6, <1>7, <1>8, <2>1, <3>1 DEF LeadsTo
    <3> QED BY <3>2
  <2>2. CASE k # last
    <3>1. k \in 1 .. last /\ k + 1 \in 1 .. last
      BY <1>6, <1>7, <1>10, <2>2
    <3>2. c[k] = path[j + k - 1] /\ c[k + 1] = path[j + (k + 1) - 1]
      BY <1>8, <3>1
    <3>3. j + k - 1 \in 1 .. Len(path) - 1 /\ j + (k + 1) - 1 = (j + k - 1) + 1
      BY <1>2, <3>1 DEF last
    <3> QED BY <3>2, <3>3 DEF LeadsTo
  <2> QED BY <2>1, <2>2
<1>11. CycleOf(path, i) = c
  BY <1>4 DEF c, part
<1>12. Len(c) > 1 /\ c[1] = c[Len(c)]
  BY <1>6, <1>7, <1>9
<1> QED BY <1>9, <1>10, <1>11, <1>12 DEF Closes

-----------------------------------------------------------------------------
(* Reaching.                                                               *)

GraphOfIds == \A k \in Ids : ImportsOf(k) \subseteq Ids

LEMMA ImportsStayIds == GraphInv => GraphOfIds
  BY ImportsAreIds DEF GraphInv, GraphOfIds

LEMMA ReachesImport ==
  ASSUME NEW m, NEW n \in ImportsOf(m)
  PROVE  Reaches(m, n)
  BY DEF Reaches

LEMMA ReachesOn ==
  ASSUME NEW l, NEW m, NEW n, Reaches(l, m), Reaches(m, n)
  PROVE  Reaches(l, n)
  BY DEF Reaches

(* What only modules of X lead to, for a set X closed under imports. *)
LEMMA ReachesWithin ==
  ASSUME NEW m, NEW n, Reaches(m, n), NEW X \in SUBSET Ids,
         ImportsOf(m) \subseteq X, \A k \in X : ImportsOf(k) \subseteq X
  PROVE  n \in X
  BY DEF Reaches

LEMMA ModuleIsInItsKnot ==
  ASSUME NEW m \in Ids, Reaches(m, m)
  PROVE  m \in Knot(m)
  BY DEF Knot

LEMMA KnotsReach ==
  ASSUME NEW m, NEW k \in Knot(m), NEW n \in Knot(m)
  PROVE  Reaches(k, n)
  BY ReachesOn DEF Knot

(* Between two modules of a knot there are only modules of the knot. *)
LEMMA KnotIsConvex ==
  ASSUME NEW m, NEW r \in Knot(m), NEW k \in Ids, NEW i \in Ids \cap ImportsOf(k),
         Reaches(r, k), i \in Knot(m)
  PROVE  k \in Knot(m)
<1>1. Reaches(m, r) /\ Reaches(i, m)
  BY DEF Knot
<1>2. Reaches(m, k)
  BY <1>1, ReachesOn
<1>3. Reaches(k, m)
  BY <1>1, ReachesImport, ReachesOn
<1> QED BY <1>2, <1>3 DEF Knot

(* A knot cannot be searched to its end without a cycle: what r leads to   *)
(* would be searched, and none of it would lead back to r.                 *)
LEMMA NoWayOut ==
  ASSUME GraphOfIds, NEW m, NEW r \in Knot(m) \cap searched,
         \A u \in Knot(m) \cap searched :
           r \notin ImportsOf(u) /\ ImportsOf(u) \cap Knot(m) \subseteq searched
  PROVE  FALSE
<1> DEFINE X == {n \in Ids : Reaches(r, n) /\ (n \in Knot(m) => n \in searched /\ n # r)}
<1>1. r \in Ids /\ Knot(m) \subseteq Ids
  BY DEF Knot
<1>2. ImportsOf(r) \subseteq X
  BY <1>1, ReachesImport DEF GraphOfIds
<1>3. ASSUME NEW k \in X, NEW i \in ImportsOf(k) PROVE i \in X
  <2>1. i \in Ids /\ Reaches(r, i)
    BY <1>3, ReachesImport, ReachesOn DEF GraphOfIds
  <2>2. ASSUME i \in Knot(m) PROVE i \in searched /\ i # r
    <3>1. k \in Knot(m)
      BY <1>3, <2>1, <2>2, KnotIsConvex
    <3> QED BY <1>3, <2>2, <3>1
  <2> QED BY <2>1, <2>2
<1>4. Reaches(r, r)
  BY KnotsReach
<1>5. r \in X
  BY <1>2, <1>3, <1>4, ReachesWithin
<1> QED BY <1>5

LEMMA EnteredInside ==
  ASSUME GraphOfIds, NEW m, NEW r \in Knot(m) \cap searched, NEW depth \in Nat,
         stack \in Seq([node : visited, path : Seq(visited)]),
         Entered(Knot(m), r, depth)
  PROVE  depth \in 0 .. Len(stack) - 1 /\ Len(stack) \in Nat
<1>1. Len(stack) \in Nat
  OBVIOUS
<1>2. CASE depth = Len(stack)
  <2>1. depth + 1 .. Len(stack) = {}
    BY <1>1, <1>2
  <2> QED BY <2>1, NoWayOut DEF Entered
<1>3. depth <= Len(stack)
  BY DEF Entered
<1> QED BY <1>1, <1>2, <1>3

-----------------------------------------------------------------------------
(* The types.                                                              *)

LEMMA InitTypes == Init => SortTypes
  BY DEF Init, SortTypes, EmptyMap

LEMMA StepTypes == GraphInv /\ SortInv /\ SortTypes /\ [Next]_vars => SortTypes'
<1> SUFFICES ASSUME GraphInv, SortInv, SortTypes, [Next]_vars PROVE SortTypes'
  OBVIOUS
<1>1. visited \subseteq Ids
  BY DEF GraphInv
<1>2. CASE CountImports
  <2>1. /\ phase' = "sorting" /\ order' = order
        /\ inDegree' = [n \in DOMAIN edges \cup Imported |-> Importers(n)]
        /\ queue' = {n \in DOMAIN inDegree' : inDegree'[n] = 0}
    BY <1>2 DEF CountImports, Imported
  <2>2. DOMAIN edges \cup Imported \subseteq Ids
    BY <1>2 DEF GraphInv, Imported, CountImports
  <2>3. \A n : Importers(n) \in Nat
    <3>1. \A n : Importers(n) = Cardinality(Waiting(n, {}))
      BY DEF Importers, Waiting
    <3> QED BY <3>1, WaitingIsFinite
  <2> QED BY <2>1, <2>2, <2>3 DEF SortTypes
<1>3. ASSUME NEW m \in Ids, Sort(m) PROVE SortTypes'
  <2>1. Counted' /\ Placed' /\ phase' = "sorting"
    BY <1>3, SortKeeps DEF Sort, SortInv
  <2>2. GraphInv'
    BY StepGraph
  <2>3. DOMAIN inDegree' = DOMAIN inDegree /\ queue' \subseteq DOMAIN inDegree'
    BY <1>3, <2>1 DEF Sort, Counted
  <2>4. \A n \in DOMAIN inDegree' : inDegree'[n] \in Nat
    <3>1. \A n \in DOMAIN inDegree' : inDegree'[n] = Cardinality(Waiting(n, ToSet(order)))'
      BY <2>1 DEF Counted
    <3>2. \A n : Cardinality(Waiting(n, ToSet(order)))' \in Nat
      <4> TAKE n
      <4>1. IsFiniteSet(Waiting(n, ToSet(order))')
        BY <2>2, FS_Subset DEF GraphInv, Waiting
      <4> QED BY <4>1, FS_CardinalityType
    <3> QED BY <3>1, <3>2
  <2>5. order' \in Seq(Ids)
    BY <1>1, <1>3, AppendPlaces DEF SortTypes, Sort
  <2> QED BY <2>1, <2>3, <2>4, <2>5 DEF SortTypes
<1>4. CASE EndSort \/ EndSearch
  <2>1. Reverse(order) \in Seq(Ids)
    BY DEF Reverse, SortTypes
  <2> QED BY <1>4, <2>1 DEF EndSort, EndSearch, Result, SortTypes
<1>5. ASSUME UNCHANGED <<phase, sort>> PROVE SortTypes'
  BY <1>5 DEF SortTypes, sort
<1>6. ASSUME NEW m \in Ids, Visit(m) \/ StartSearch(m) PROVE SortTypes'
  BY <1>5, <1>6 DEF Visit, StartSearch
<1>7. CASE SearchNode \/ UNCHANGED vars
  BY <1>5, <1>7 DEF SearchNode, vars
<1> QED BY <1>2, <1>3, <1>4, <1>6, <1>7 DEF Next

-----------------------------------------------------------------------------
(* A step of the search.                                                   *)

StackEntry == [node : visited, path : Seq(visited)]

LEMMA ImportsAreVisited ==
  ASSUME GraphInv, phase # "visiting", NEW n \in visited
  PROVE  /\ ImportsOf(n) \subseteq visited /\ IsFiniteSet(ImportsOf(n))
         /\ ImportsOf(n) = IF n \in DOMAIN edges THEN edges[n] ELSE {}
<1>1. ImportsOf(n) \subseteq visited
  BY DEF GraphInv
<1> QED BY <1>1, FS_Subset DEF GraphInv

(* The top of the stack, u, is searched: the stack from height on is made  *)
(* anew, of imports of u that are not on the path.                         *)
Expands(u, path, height) ==
  /\ UNCHANGED <<program, phase, visit, sort, starts>> /\ phase = "searching"
  /\ height \in Nat \ {0} /\ height = Len(stack)
  /\ stack[height].node = u /\ stack[height].path = path
  /\ u \in visited /\ LeadsTo(path, u)
  /\ searched' = searched \cup {u} /\ onStack' = onStack \cup {u}
  /\ cycles' = cycles \cup {CycleOf(path, i) : i \in ImportsOf(u) \cap ToSet(path)}
  /\ stack' \in Seq(StackEntry) /\ height - 1 <= Len(stack')
  /\ \A e \in 1 .. height - 1 : stack'[e] = stack[e]
  /\ \A e \in height .. Len(stack') :
       /\ stack'[e].node \in ImportsOf(u) \ ToSet(path)
       /\ stack'[e].path = Append(path, stack'[e].node)
  /\ \A i \in ImportsOf(u) :
       \/ i \in ToSet(path) \/ i \in searched'
       \/ \E e \in height .. Len(stack') : stack'[e].node = i

LEMMA SearchExpands ==
  ASSUME GraphInv, StackInv, SearchNode, Last(stack).node \notin onStack
  PROVE  Expands(Last(stack).node, Last(stack).path, Len(stack))
<1> DEFINE top == Last(stack)
           u == top.node
           height == Len(stack)
           imports == ImportsOf(u)
           closing == imports \cap ToSet(top.path)
           rest == imports \ (closing \cup searched')
<1>1. /\ phase = "searching" /\ stack # <<>> /\ stack \in Seq(StackEntry)
      /\ UNCHANGED <<program, phase, visit, sort, starts>>
  BY DEF SearchNode, StackInv, StackEntry
<1>2. /\ height \in Nat \ {0} /\ stack[height] = top /\ top \in StackEntry
      /\ Front(stack) \in Seq(StackEntry) /\ Len(Front(stack)) = height - 1
      /\ \A e \in 1 .. height - 1 : Front(stack)[e] = stack[e]
  BY <1>1, FrontOf
<1>3. u \in visited /\ top.path \in Seq(visited) /\ LeadsTo(top.path, u)
  BY <1>1, <1>2 DEF StackEntry, StackInv
<1>4. /\ imports \subseteq visited /\ IsFiniteSet(imports)
      /\ imports = IF u \in DOMAIN edges THEN edges[u] ELSE {}
  BY <1>1, <1>3, ImportsAreVisited
<1>5. /\ onStack' = onStack \cup {u} /\ searched' = searched \cup {u}
      /\ cycles' = cycles \cup {CycleOf(top.path, i) : i \in closing}
      /\ \E pushed \in SetToSeqs(rest) :
           stack' = Front(stack) \o
             [i \in DOMAIN pushed |->
                [node |-> pushed[i], path |-> Append(top.path, pushed[i])]]
  BY <1>4 DEF SearchNode
<1>6. PICK pushed \in SetToSeqs(rest) :
        stack' = Front(stack) \o
          [i \in DOMAIN pushed |->
             [node |-> pushed[i], path |-> Append(top.path, pushed[i])]]
  BY <1>5
<1>7. IsFiniteSet(rest) /\ rest \subseteq visited
  BY <1>4, FS_Subset
<1> HIDE DEF rest, imports, closing
<1>8. pushed \in Seq(rest) /\ \A x \in rest : \E i \in DOMAIN pushed : pushed[i] = x
  BY <1>7, PushedAll
<1> DEFINE new == [i \in DOMAIN pushed |->
                     [node |-> pushed[i], path |-> Append(top.path, pushed[i])]]
           length == Len(pushed)
<1>9. length \in Nat /\ DOMAIN pushed = 1 .. length /\ \A i \in 1 .. length : pushed[i] \in rest
  BY <1>8
<1>10. ASSUME NEW i \in 1 .. length
       PROVE  /\ new[i] \in StackEntry /\ new[i].node = pushed[i]
              /\ new[i].path = Append(top.path, pushed[i])
  <2>1. pushed[i] \in visited
    BY <1>7, <1>9
  <2>2. Append(top.path, pushed[i]) \in Seq(visited)
    BY <1>3, <2>1
  <2> QED BY <1>9, <2>1, <2>2 DEF StackEntry
<1>11. new \in [1 .. length -> StackEntry]
  BY <1>9, <1>10
<1>12. new \in Seq(StackEntry) /\ Len(new) = length /\ stack' = Front(stack) \o new
  BY <1>6, <1>9, <1>11
<1> HIDE DEF new, length
<1>13. /\ stack' \in Seq(StackEntry) /\ Len(stack') = height - 1 + length
       /\ \A e \in 1 .. height - 1 : stack'[e] = stack[e]
       /\ \A i \in 1 .. length : stack'[height - 1 + i] = new[i]
  BY <1>2, <1>9, <1>12
<1>14. ASSUME NEW e \in height .. Len(stack')
       PROVE  /\ stack'[e].node \in rest
              /\ stack'[e].path = Append(top.path, stack'[e].node)
  <2>1. e - height + 1 \in 1 .. length /\ height - 1 + (e - height + 1) = e
    BY <1>2, <1>9, <1>13
  <2>2. stack'[e] = new[e - height + 1]
    BY <1>13, <2>1
  <2> QED BY <1>9, <1>10, <2>1, <2>2
<1>15. ASSUME NEW x \in rest PROVE \E e \in height .. Len(stack') : stack'[e].node = x
  <2>1. PICK i \in 1 .. length : pushed[i] = x
    BY <1>8, <1>9
  <2>2. stack'[height - 1 + i].node = x
    BY <1>10, <1>13, <2>1
  <2>3. height - 1 + i \in height .. Len(stack')
    BY <1>2, <1>9, <1>13
  <2> QED BY <2>2, <2>3
<1>16. height - 1 <= Len(stack')
  BY <1>2, <1>9, <1>13
<1> USE DEF rest, closing, imports
<1> QED BY <1>1, <1>2, <1>3, <1>5, <1>13, <1>14, <1>15, <1>16 DEF Expands

(* The top of the stack, u, has been searched already. *)
Pops(u, height) ==
  /\ UNCHANGED <<program, phase, visit, sort, starts, searched, onStack, cycles>>
  /\ phase = "searching" /\ u \in searched
  /\ height \in Nat \ {0} /\ height = Len(stack) /\ stack[height].node = u
  /\ stack' \in Seq(StackEntry) /\ Len(stack') = height - 1
  /\ \A e \in 1 .. height - 1 : stack'[e] = stack[e]

LEMMA SearchPops ==
  ASSUME StackInv, SearchNode, Last(stack).node \in onStack
  PROVE  Pops(Last(stack).node, Len(stack))
<1>1. /\ UNCHANGED <<program, phase, visit, sort, starts, searched, onStack, cycles>>
      /\ phase = "searching" /\ stack # <<>> /\ stack' = Front(stack)
      /\ stack \in Seq(StackEntry) /\ Last(stack).node \in searched
  BY DEF SearchNode, StackInv, StackEntry
<1>2. /\ Len(stack) \in Nat \ {0} /\ stack[Len(stack)] = Last(stack)
      /\ Front(stack) \in Seq(StackEntry) /\ Len(Front(stack)) = Len(stack) - 1
      /\ \A e \in 1 .. Len(stack) - 1 : Front(stack)[e] = stack[e]
  BY <1>1, FrontOf
<1> QED BY <1>1, <1>2 DEF Pops

-----------------------------------------------------------------------------
(* Paths and cycles.                                                       *)

LEMMA SameGraph ==
  ASSUME UNCHANGED program
  PROVE  /\ \A n : ImportsOf(n)' = ImportsOf(n)
         /\ \A m, n : Reaches(m, n)' = Reaches(m, n)
         /\ \A m : Knot(m)' = Knot(m)
         /\ \A c : Closes(c)' = Closes(c)
<1>1. \A n : ImportsOf(n)' = ImportsOf(n)
  BY DEF ImportsOf, Imports, Source
<1>2. \A m, n : Reaches(m, n)' = Reaches(m, n)
  BY <1>1 DEF Reaches
<1>3. \A m : Knot(m)' = Knot(m)
  BY <1>2 DEF Knot
<1>4. \A c : Closes(c)' = Closes(c)
  BY <1>1 DEF Closes
<1> QED BY <1>1, <1>2, <1>3, <1>4

(* For a step that leaves the graph, and a new stack of paths. *)
LEMMA PathsStay ==
  ASSUME UNCHANGED <<program, visited>>,
         stack' \in Seq(StackEntry),
         \A e \in DOMAIN stack' : LeadsTo(stack'[e].path, stack'[e].node)
  PROVE  /\ stack' \in Seq([node : visited, path : Seq(visited)])'
         /\ \A e \in DOMAIN stack' : LeadsTo(stack[e].path, stack[e].node)'
<1>1. \A n : ImportsOf(n)' = ImportsOf(n)
  BY SameGraph
<1>2. ASSUME NEW e \in DOMAIN stack'
      PROVE  LeadsTo(stack[e].path, stack[e].node)'
  <2>1. LeadsTo(stack'[e].path, stack'[e].node)
    BY <1>2
  <2> QED BY <1>1, <2>1 DEF LeadsTo
<1> QED BY <1>2 DEF StackEntry

LEMMA PathGoesOn ==
  ASSUME NEW path, NEW node, LeadsTo(path, node),
         NEW i \in (ImportsOf(node) \cap visited) \ ToSet(path)
  PROVE  LeadsTo(Append(path, i), i)
<1> DEFINE longer == Append(path, i)
<1>1. path \in Seq(visited) /\ Len(path) \in Nat \ {0} /\ path[Len(path)] = node
  BY DEF LeadsTo
<1>2. /\ longer \in Seq(visited) /\ Len(longer) = Len(path) + 1
      /\ DOMAIN longer = DOMAIN path \cup {Len(path) + 1}
      /\ longer[Len(path) + 1] = i
      /\ \A k \in DOMAIN path : longer[k] = path[k]
  BY <1>1, AppendPlaces
<1> HIDE DEF longer
<1>3. \A k \in DOMAIN path : path[k] # i
  BY DEF ToSet
<1>4. \A j, k \in DOMAIN longer : j # k => longer[j] # longer[k]
  BY <1>2, <1>3 DEF LeadsTo
<1>5. ASSUME NEW k \in 1 .. Len(longer) - 1 PROVE longer[k + 1] \in ImportsOf(longer[k])
  <2>1. k \in DOMAIN path /\ longer[k] = path[k]
    BY <1>1, <1>2
  <2>2. CASE k = Len(path)
    BY <1>1, <1>2, <2>1, <2>2
  <2>3. CASE k # Len(path)
    <3>1. k \in 1 .. Len(path) - 1 /\ k + 1 \in DOMAIN path
      BY <1>1, <1>2, <2>3
    <3> QED BY <1>2, <2>1, <3>1 DEF LeadsTo
  <2> QED BY <2>2, <2>3
<1>6. LeadsTo(longer, i)
  BY <1>1, <1>2, <1>4, <1>5 DEF LeadsTo
<1> QED BY <1>6 DEF longer

LEMMA ExpandKeepsPaths ==
  ASSUME GraphInv, StackInv, CyclesInv, NEW u, NEW path, NEW height,
         Expands(u, path, height)
  PROVE  StackInv' /\ CyclesInv'
<1>1. /\ UNCHANGED <<program, visited, edges, starts, phase>> /\ phase = "searching"
      /\ stack' \in Seq(StackEntry) /\ height \in Nat \ {0} /\ height = Len(stack)
      /\ u \in visited /\ LeadsTo(path, u)
  BY DEF Expands, visit
<1>2. ASSUME NEW e \in DOMAIN stack' PROVE LeadsTo(stack'[e].path, stack'[e].node)
  <2>1. e \in 1 .. Len(stack')
    BY <1>1
  <2>2. CASE e \in 1 .. height - 1
    <3>1. stack'[e] = stack[e]
      BY <2>2 DEF Expands
    <3>2. e \in DOMAIN stack
      BY <1>1, <2>2 DEF StackInv
    <3> QED BY <3>1, <3>2 DEF StackInv
  <2>3. CASE e \in height .. Len(stack')
    <3>1. /\ stack'[e].node \in ImportsOf(u) \ ToSet(path)
          /\ stack'[e].path = Append(path, stack'[e].node)
      BY <2>3 DEF Expands
    <3>2. stack'[e].node \in visited
      BY <1>1, <3>1, ImportsAreVisited
    <3> QED BY <1>1, <3>1, <3>2, PathGoesOn
  <2> QED BY <1>1, <2>1, <2>2, <2>3
<1>3. /\ stack' \in Seq([node : visited, path : Seq(visited)])'
      /\ \A e \in DOMAIN stack' : LeadsTo(stack[e].path, stack[e].node)'
  BY <1>1, <1>2, PathsStay
<1>4. searched' = searched \cup {u} /\ onStack' = onStack \cup {u}
  BY DEF Expands
<1>5. StackInv'
  BY <1>1, <1>3, <1>4 DEF StackInv
<1>6. \A i \in ImportsOf(u) \cap ToSet(path) : Closes(CycleOf(path, i))
  BY <1>1, CycleIsOnPath
<1>7. CyclesInv'
  BY <1>1, <1>6, SameGraph DEF CyclesInv, Expands
<1> QED BY <1>5, <1>7

LEMMA PopKeepsPaths ==
  ASSUME StackInv, CyclesInv, NEW u, NEW height, Pops(u, height)
  PROVE  StackInv' /\ CyclesInv'
<1>1. /\ UNCHANGED <<program, visited, edges, starts, phase, searched, onStack, cycles>>
      /\ stack' \in Seq(StackEntry) /\ height \in Nat \ {0} /\ height = Len(stack)
      /\ Len(stack') = height - 1
      /\ \A e \in 1 .. height - 1 : stack'[e] = stack[e]
  BY DEF Pops, visit
<1>2. stack \in Seq(StackEntry)
  BY DEF StackInv, StackEntry
<1>3. DOMAIN stack = 1 .. Len(stack) /\ DOMAIN stack' = 1 .. Len(stack')
  BY <1>1, <1>2
<1>4. \A e \in DOMAIN stack' : e \in 1 .. height - 1 /\ e \in DOMAIN stack
  BY <1>1, <1>3
<1>5. \A e \in DOMAIN stack' : LeadsTo(stack'[e].path, stack'[e].node)
  BY <1>1, <1>4 DEF StackInv
<1>6. /\ stack' \in Seq([node : visited, path : Seq(visited)])'
      /\ \A e \in DOMAIN stack' : LeadsTo(stack[e].path, stack[e].node)'
  BY <1>1, <1>5, PathsStay
<1>7. StackInv'
  BY <1>1, <1>6 DEF StackInv
<1> QED BY <1>1, <1>7, SameGraph DEF CyclesInv

LEMMA InitPaths == Init => StackInv /\ CyclesInv
  BY DEF Init, StackInv, CyclesInv, EmptyMap

LEMMA StepPaths ==
  GraphInv /\ SortTypes /\ StackInv /\ CyclesInv /\ [Next]_vars => StackInv' /\ CyclesInv'
<1> SUFFICES ASSUME GraphInv, SortTypes, StackInv, CyclesInv, [Next]_vars
             PROVE  StackInv' /\ CyclesInv'
  OBVIOUS
<1>1. ASSUME phase \in {"visiting", "sorting"}, UNCHANGED <<stack, onStack, searched, cycles>>,
             starts' \subseteq DOMAIN edges',
             phase' \in {"visiting", "sorting"} => starts' = {}
      PROVE  StackInv' /\ CyclesInv'
  BY <1>1 DEF StackInv, CyclesInv
<1>2. ASSUME NEW m \in Ids, Visit(m) \/ Sort(m) PROVE StackInv' /\ CyclesInv'
  <2>1. /\ phase \in {"visiting", "sorting"} /\ UNCHANGED search
    BY <1>2 DEF Visit, Sort
  <2> QED BY <1>1, <2>1 DEF StackInv, search
<1>3. CASE CountImports
  BY <1>1, <1>3 DEF CountImports, StackInv, search
<1>4. CASE EndSort
  BY <1>1, <1>4 DEF EndSort, StackInv, visit, LeftOut
<1>5. ASSUME NEW s \in Ids, StartSearch(s) PROVE StackInv' /\ CyclesInv'
  <2>1. /\ UNCHANGED <<program, phase, visit, searched, cycles>> /\ phase = "searching"
        /\ s \in visited /\ starts' = starts \ {s} /\ starts \subseteq DOMAIN edges
        /\ searched \subseteq visited
    BY <1>5 DEF StartSearch, StackInv, GraphInv
  <2>2. CyclesInv'
    BY <2>1, SameGraph DEF CyclesInv
  <2>3. CASE UNCHANGED <<stack, onStack>>
    <3>1. UNCHANGED <<program, visited, edges>>
      BY <2>1 DEF visit
    <3>2. stack' \in Seq(StackEntry)
      BY <2>3 DEF StackInv, StackEntry
    <3>3. \A e \in DOMAIN stack' : LeadsTo(stack'[e].path, stack'[e].node)
      BY <2>3 DEF StackInv
    <3>4. /\ stack' \in Seq([node : visited, path : Seq(visited)])'
          /\ \A e \in DOMAIN stack' : LeadsTo(stack[e].path, stack[e].node)'
      BY <3>1, <3>2, <3>3, PathsStay
    <3> QED BY <2>1, <2>2, <2>3, <3>1, <3>4 DEF StackInv
  <2>4. CASE stack' = <<[node |-> s, path |-> <<s>>]>> /\ onStack' = {}
    <3>1. LeadsTo(<<s>>, s)
      BY <2>1 DEF LeadsTo
    <3>2. stack' \in Seq(StackEntry)
      BY <2>1, <2>4 DEF StackEntry
    <3>3. \A e \in DOMAIN stack' : stack'[e].node = s /\ stack'[e].path = <<s>>
      BY <2>4
    <3>4. /\ stack' \in Seq([node : visited, path : Seq(visited)])'
          /\ \A e \in DOMAIN stack' : LeadsTo(stack[e].path, stack[e].node)'
      BY <2>1, <3>1, <3>2, <3>3, PathsStay DEF visit
    <3> QED BY <2>1, <2>2, <2>4, <3>4 DEF StackInv, visit
  <2> QED BY <1>5, <2>3, <2>4 DEF StartSearch
<1>6. CASE SearchNode
  BY <1>6, SearchExpands, SearchPops, ExpandKeepsPaths, PopKeepsPaths
<1>7. CASE EndSearch \/ UNCHANGED vars
  <2>1. /\ UNCHANGED <<program, visited, edges, starts, stack, searched, onStack, cycles>>
        /\ phase' = phase \/ (phase = "searching" /\ phase' = "done")
    BY <1>7 DEF EndSearch, vars, visit, search
  <2>2. /\ stack' \in Seq(StackEntry)
        /\ \A e \in DOMAIN stack' : LeadsTo(stack'[e].path, stack'[e].node)
    BY <2>1 DEF StackInv, StackEntry
  <2>3. /\ stack' \in Seq([node : visited, path : Seq(visited)])'
        /\ \A e \in DOMAIN stack' : LeadsTo(stack[e].path, stack[e].node)'
    BY <2>1, <2>2, PathsStay
  <2> QED BY <2>1, <2>3, SameGraph DEF StackInv, CyclesInv
<1> QED BY <1>2, <1>3, <1>4, <1>5, <1>6, <1>7 DEF Next

-----------------------------------------------------------------------------
(* Knots.                                                                  *)

(* What is on a cycle is never sorted: something it is imported from would *)
(* have to be sorted before.                                               *)
LEMMA CyclicIsNotSorted ==
  ASSUME GraphInv, Placed, phase # "visiting", NEW m \in visited, Reaches(m, m)
  PROVE  m \notin ToSet(order)
<1> SUFFICES ASSUME NEW j \in DOMAIN order, order[j] = m PROVE FALSE
  BY DEF ToSet
<1> DEFINE first == {order[k] : k \in {k \in DOMAIN order : k <= j}}
           X == visited \ first
<1>1. DOMAIN order = 1 .. Len(order) /\ Len(order) \in Nat
  BY DEF Placed
<1>2. ASSUME NEW n \in visited, NEW i \in ImportsOf(n), i \in first
      PROVE  n \in first /\ n # m
  <2>1. PICK k \in DOMAIN order : order[k] = i /\ k <= j
    BY <1>2
  <2>2. n \in DOMAIN edges /\ i \in edges[n]
    BY ImportsAreVisited
  <2>3. PICK l \in DOMAIN order : l < k /\ order[l] = n
    BY <2>1, <2>2 DEF Placed
  <2>4. l <= j /\ l # j
    BY <1>1, <2>1, <2>3
  <2> QED BY <2>3, <2>4 DEF Placed
<1>3. m \in first
  BY <1>1
<1>4. visited \subseteq Ids
  BY DEF GraphInv
<1>5. ImportsOf(m) \subseteq X
  BY <1>2, ImportsAreVisited
<1>6. \A n \in X : ImportsOf(n) \subseteq X
  BY <1>2, ImportsAreVisited
<1> HIDE DEF first
<1>7. m \in X
  BY <1>4, <1>5, <1>6, ReachesWithin
<1> QED BY <1>3, <1>7

LEMMA ExpandFollows ==
  ASSUME GraphInv, StackInv, NEW u, NEW path, NEW height, Expands(u, path, height),
         NEW m \in visited, Reaches(m, m), Followed(Knot(m))
  PROVE  Followed(Knot(m))'
<1> DEFINE K == Knot(m)
<1>1. /\ UNCHANGED <<program, visited>> /\ u \in visited /\ LeadsTo(path, u)
      /\ height \in Nat \ {0} /\ height = Len(stack)
      /\ stack[height].node = u /\ stack[height].path = path
      /\ searched' = searched \cup {u} /\ height - 1 <= Len(stack') /\ Len(stack') \in Nat
      /\ \A e \in 1 .. height - 1 : stack'[e] = stack[e]
      /\ \A e \in height .. Len(stack') : stack'[e].path = Append(path, stack'[e].node)
      /\ \A i \in ImportsOf(u) :
           \/ i \in ToSet(path) \/ i \in searched'
           \/ \E e \in height .. Len(stack') : stack'[e].node = i
  BY DEF Expands, visit
<1>2. /\ K' = K /\ \A n : ImportsOf(n)' = ImportsOf(n)
  BY <1>1, SameGraph
<1>3. path \in Seq(visited) /\ u \in ToSet(path)
  BY DEF LeadsTo, ToSet, Expands
<1>4. cycles \subseteq cycles'
      /\ \A i \in ImportsOf(u) \cap ToSet(path) : \E c \in cycles' : c[1] = i
  <2>1. \A i \in ImportsOf(u) \cap ToSet(path) : CycleOf(path, i)[1] = i
    BY <1>1, CycleIsOnPath
  <2> QED BY <2>1 DEF Expands
<1> HIDE DEF K
<1>5. CASE Caught(K)
  BY <1>2, <1>4, <1>5 DEF Followed, Caught, K
<1>6. CASE u \in K /\ ImportsOf(u) \cap ToSet(path) \cap K # {}
  <2>1. \E c \in cycles' : c[1] \in K
    BY <1>4, <1>6
  <2> QED BY <1>2, <2>1 DEF Followed, Caught, K
<1>7. \A x \in ToSet(path) : \A e \in height .. Len(stack') : x \in ToSet(stack'[e].path)
  <2> TAKE x \in ToSet(path)
  <2>1. ASSUME NEW e \in height .. Len(stack') PROVE x \in ToSet(stack'[e].path)
    <3>1. PICK k \in DOMAIN path : path[k] = x
      BY DEF ToSet
    <3>2. stack'[e].path = Append(path, stack'[e].node)
      BY <1>1
    <3>3. k \in DOMAIN stack'[e].path /\ stack'[e].path[k] = x
      BY <1>3, <3>1, <3>2
    <3> QED BY <3>3 DEF ToSet
  <2> QED BY <2>1
<1>8. ASSUME NEW r \in K \cap searched, NEW depth \in Nat, Entered(K, r, depth),
             u \in K => ImportsOf(u) \cap ToSet(path) \cap K = {}
      PROVE  Followed(K)'
  <2>1. depth \in 0 .. height - 1
    BY <1>1, <1>8, EnteredInside, ImportsStayIds DEF StackInv, K
  <2>2. \A e \in depth + 1 .. height : r \in ToSet(stack[e].path)
    BY <1>1, <1>8 DEF Entered
  <2>3. r \in ToSet(path)
    BY <1>1, <2>1, <2>2
  <2>4. \A e \in depth + 1 .. Len(stack') : r \in ToSet(stack'[e].path)
    <3> TAKE e \in depth + 1 .. Len(stack')
    <3>1. CASE e <= height - 1
      <4>1. stack'[e] = stack[e] /\ e \in depth + 1 .. height
        BY <1>1, <2>1, <3>1
      <4> QED BY <2>2, <4>1
    <3>2. CASE e >= height
      <4>1. e \in height .. Len(stack')
        BY <1>1, <2>1, <3>2
      <4> QED BY <1>7, <2>3, <4>1
    <3> QED BY <1>1, <2>1, <3>1, <3>2
  <2>5. \A e \in height .. Len(stack') : e \in depth + 1 .. Len(stack')
    BY <1>1, <2>1
  <2>6. ASSUME NEW v \in K \cap searched'
        PROVE  /\ r \notin ImportsOf(v)
               /\ \A i \in ImportsOf(v) \cap K :
                    i \in searched' \/ \E e \in depth + 1 .. Len(stack') : stack'[e].node = i
    <3>1. CASE v = u
      <4>1. ImportsOf(u) \cap ToSet(path) \cap K = {}
        BY <1>8, <2>6, <3>1
      <4> QED BY <1>1, <2>3, <2>5, <3>1, <4>1
    <3>2. CASE v \in searched
      <4>1. r \notin ImportsOf(v)
        BY <1>8, <2>6, <3>2 DEF Entered
      <4>2. ASSUME NEW i \in ImportsOf(v) \cap K
            PROVE  i \in searched' \/ \E e \in depth + 1 .. Len(stack') : stack'[e].node = i
        <5>1. i \in searched \/ \E e \in depth + 1 .. height : stack[e].node = i
          BY <1>1, <1>8, <2>6, <3>2 DEF Entered
        <5>2. CASE i \in searched
          BY <1>1, <5>2
        <5>3. ASSUME NEW e \in depth + 1 .. height, stack[e].node = i
              PROVE  i \in searched' \/ \E f \in depth + 1 .. Len(stack') : stack'[f].node = i
          <6>1. CASE e = height
            BY <1>1, <5>3, <6>1
          <6>2. CASE e # height
            <7>1. e \in 1 .. height - 1 /\ e \in depth + 1 .. Len(stack')
              BY <1>1, <2>1, <5>3, <6>2
            <7> QED BY <1>1, <5>3, <7>1
          <6> QED BY <6>1, <6>2
        <5> QED BY <5>1, <5>2, <5>3
      <4> QED BY <4>1, <4>2
    <3> QED BY <1>1, <2>6, <3>1, <3>2
  <2>7. r \in K' \cap searched' /\ depth <= Len(stack')
    BY <1>1, <1>2, <2>1
  <2>8. Entered(K, r, depth)'
    BY <1>2, <2>4, <2>6, <2>7 DEF Entered
  <2> QED BY <2>7, <2>8 DEF Followed, K
<1>9. ASSUME K \cap searched = {}, u \in K,
             ImportsOf(u) \cap ToSet(path) \cap K = {}
      PROVE  Followed(K)'
  <2> DEFINE depth == height - 1
  <2>1. depth \in Nat /\ depth + 1 = height /\ depth <= Len(stack')
    BY <1>1
  <2>2. \A e \in height .. Len(stack') : u \in ToSet(stack'[e].path)
    BY <1>3, <1>7
  <2>3. K' \cap searched' = {u}
    BY <1>1, <1>2, <1>9
  <2>4. u \notin ImportsOf(u)
    BY <1>3, <1>9
  <2>5. \A i \in ImportsOf(u) \cap K :
          i \in searched' \/ \E e \in height .. Len(stack') : stack'[e].node = i
    BY <1>1, <1>9
  <2> HIDE DEF depth
  <2>6. Entered(K, u, depth)'
    BY <1>2, <2>1, <2>2, <2>3, <2>4, <2>5 DEF Entered
  <2> QED BY <2>1, <2>3, <2>6 DEF Followed, K
<1>10. CASE K \cap searched = {} /\ u \notin K
  BY <1>1, <1>2, <1>10 DEF Followed, K
<1> QED BY <1>5, <1>6, <1>8, <1>9, <1>10 DEF Followed, K

LEMMA PopFollows ==
  ASSUME GraphInv, StackInv, NEW u, NEW height, Pops(u, height),
         NEW m \in visited, Reaches(m, m), Followed(Knot(m))
  PROVE  Followed(Knot(m))'
<1> DEFINE K == Knot(m)
<1>1. /\ UNCHANGED <<program, searched, cycles>> /\ u \in searched
      /\ height \in Nat \ {0} /\ height = Len(stack) /\ stack[height].node = u
      /\ Len(stack') = height - 1 /\ \A e \in 1 .. height - 1 : stack'[e] = stack[e]
  BY DEF Pops
<1>2. K' = K /\ \A n : ImportsOf(n)' = ImportsOf(n)
  BY <1>1, SameGraph
<1> HIDE DEF K
<1>3. CASE Caught(K)
  BY <1>1, <1>2, <1>3 DEF Followed, Caught, K
<1>4. ASSUME NEW r \in K \cap searched, NEW depth \in Nat, Entered(K, r, depth)
      PROVE  Followed(K)'
  <2>1. depth \in 0 .. height - 1
    BY <1>1, <1>4, EnteredInside, ImportsStayIds DEF StackInv, K
  <2>2. \A e \in depth + 1 .. Len(stack') :
          e \in depth + 1 .. Len(stack) /\ stack'[e] = stack[e]
    BY <1>1, <2>1
  <2>3. \A e \in depth + 1 .. Len(stack') : r \in ToSet(stack'[e].path)
    BY <1>4, <2>2 DEF Entered
  <2>4. ASSUME NEW v \in K \cap searched, NEW i \in ImportsOf(v) \cap K
        PROVE  i \in searched \/ \E e \in depth + 1 .. Len(stack') : stack'[e].node = i
    <3>1. i \in searched \/ \E e \in depth + 1 .. Len(stack) : stack[e].node = i
      BY <1>4, <2>4 DEF Entered
    <3>2. ASSUME NEW e \in depth + 1 .. Len(stack), stack[e].node = i
          PROVE  i \in searched \/ \E f \in depth + 1 .. Len(stack') : stack'[f].node = i
      <4>1. CASE e = height
        BY <1>1, <3>2, <4>1
      <4>2. CASE e # height
        <5>1. e \in depth + 1 .. Len(stack')
          BY <1>1, <2>1, <3>2, <4>2
        <5> QED BY <2>2, <3>2, <5>1
      <4> QED BY <4>1, <4>2
    <3> QED BY <3>1, <3>2
  <2>5. \A v \in K \cap searched : r \notin ImportsOf(v)
    BY <1>4 DEF Entered
  <2>6. depth <= Len(stack')
    BY <1>1, <2>1
  <2>7. Entered(K, r, depth)'
    BY <1>1, <1>2, <2>3, <2>4, <2>5, <2>6 DEF Entered
  <2>8. r \in K' \cap searched'
    BY <1>1, <1>2, <1>4
  <2> QED BY <2>7, <2>8 DEF Followed, K
<1>5. CASE K \cap searched = {}
  BY <1>1, <1>2, <1>5 DEF Followed, K
<1> QED BY <1>3, <1>4, <1>5 DEF Followed, K

(* Where the stack is empty, the knots that were reached are caught. *)
LEMMA CaughtAtRest ==
  ASSUME GraphInv, StackInv, stack = <<>>,
         NEW m \in visited, Followed(Knot(m)), Knot(m) \cap searched # {}
  PROVE  Caught(Knot(m))
<1>1. ASSUME NEW r \in Knot(m) \cap searched, NEW depth \in Nat,
             Entered(Knot(m), r, depth)
      PROVE  FALSE
  <2>1. depth \in 0 .. Len(stack) - 1 /\ Len(stack) = 0
    BY <1>1, EnteredInside, ImportsStayIds DEF StackInv
  <2> QED BY <2>1
<1> QED BY <1>1 DEF Followed

KnotsInv == StartsInv /\ KnotInv /\ MissesNone

LEMMA InitKnots == Init => KnotsInv
  BY DEF Init, KnotsInv, StartsInv, KnotInv, MissesNone

(* If every import has a folder and all that has one was sorted, there is  *)
(* no cycle.                                                               *)
LEMMA SortedAll ==
  ASSUME GraphInv, VisitInv, Placed, phase # "visiting", notFound = {},
         Len(order) >= Cardinality(DOMAIN edges), NEW m \in visited
  PROVE  ~ Reaches(m, m)
<1>1. DOMAIN edges = visited /\ IsFiniteSet(visited)
  BY DEF GraphInv, VisitInv
<1>2. order \in Seq(visited) /\ Len(order) \in Nat /\ DOMAIN order = 1 .. Len(order)
  BY DEF Placed
<1>3. order \in Injection(1 .. Len(order), visited)
  BY <1>2 DEF Placed, Injection, IsInjective
<1>4. /\ Cardinality(1 .. Len(order)) <= Cardinality(visited)
      /\ Cardinality(1 .. Len(order)) = Cardinality(visited)
           => order \in Surjection(1 .. Len(order), visited)
  BY <1>1, <1>3, FS_Injection
<1>5. Cardinality(1 .. Len(order)) = Len(order) /\ Cardinality(visited) \in Nat
  <2>1. Cardinality(1 .. Len(order)) = IF 1 > Len(order) THEN 0 ELSE Len(order) - 1 + 1
    BY <1>2, FS_Interval
  <2>2. Cardinality(visited) \in Nat
    BY <1>1, FS_CardinalityType
  <2> QED BY <1>2, <2>1, <2>2
<1>6. Cardinality(DOMAIN edges) = Cardinality(visited)
  BY <1>1
<1>7. Cardinality(1 .. Len(order)) = Cardinality(visited)
  BY <1>2, <1>4, <1>5, <1>6
<1>8. order \in Surjection(1 .. Len(order), visited)
  BY <1>4, <1>7
<1>9. m \in ToSet(order)
  BY <1>2, <1>8 DEF Surjection, ToSet
<1> QED BY <1>9, CyclicIsNotSorted

LEMMA EndSortKnots ==
  ASSUME GraphInv, VisitInv, SortInv, StackInv, EndSort
  PROVE  KnotsInv'
<1>1. /\ UNCHANGED <<program, visited, notFound, edges, stack, searched, cycles>>
      /\ phase = "sorting" /\ Placed /\ searched = {}
  BY DEF EndSort, visit, SortInv, StackInv
<1>2. Cardinality(DOMAIN edges) \in Nat /\ Len(order) \in Nat
  BY <1>1, FS_Subset, FS_CardinalityType DEF GraphInv, Placed
<1>3. CASE Len(order) < Cardinality(DOMAIN edges)
  <2>1. phase' = "searching" /\ starts' = DOMAIN edges \ ToSet(order) /\ order' = order
    BY <1>2, <1>3 DEF EndSort, LeftOut
  <2> QED BY <1>1, <2>1 DEF KnotsInv, StartsInv, KnotInv, MissesNone, Followed
<1>4. CASE Len(order) >= Cardinality(DOMAIN edges)
  <2>1. phase' = "done"
    BY <1>2, <1>4 DEF EndSort
  <2>2. notFound' = {} => \A m \in visited' : ~ Reaches(m, m)'
    BY <1>1, <1>4, SortedAll, SameGraph
  <2> QED BY <2>1, <2>2 DEF KnotsInv, StartsInv, KnotInv, MissesNone
<1> QED BY <1>3, <1>4 DEF EndSort

LEMMA StartKnots ==
  ASSUME GraphInv, StackInv, KnotsInv, NEW s \in Ids, StartSearch(s)
  PROVE  KnotsInv'
<1>1. /\ UNCHANGED <<program, phase, visited, edges, order, searched, cycles>>
      /\ phase = "searching" /\ stack = <<>> /\ starts' = starts \ {s}
  BY DEF StartSearch, visit, sort
<1>2. StartsInv'
  <2>1. CASE s \in searched /\ UNCHANGED stack
    BY <1>1, <2>1 DEF KnotsInv, StartsInv
  <2>2. CASE stack' = <<[node |-> s, path |-> <<s>>]>>
    <3>1. s \in {stack'[e].node : e \in DOMAIN stack'}
      BY <2>2
    <3>2. {stack[e].node : e \in DOMAIN stack} = {}
      BY <1>1
    <3> QED BY <1>1, <3>1, <3>2 DEF KnotsInv, StartsInv
  <2> QED BY <2>1, <2>2 DEF StartSearch
<1>3. ASSUME NEW m \in visited, Reaches(m, m), Knot(m) \cap searched # {}
      PROVE  Caught(Knot(m))
  <2>1. Followed(Knot(m))
    BY <1>1, <1>3 DEF KnotsInv, KnotInv
  <2> QED BY <1>1, <1>3, <2>1, CaughtAtRest
<1>4. KnotInv'
  BY <1>1, <1>3, SameGraph DEF KnotInv, Followed, Caught
<1> QED BY <1>1, <1>2, <1>4 DEF KnotsInv, MissesNone

LEMMA SearchKnots ==
  ASSUME GraphInv, StackInv, KnotsInv, SearchNode
  PROVE  KnotsInv'
<1>1. stack \in Seq(StackEntry)
  BY DEF StackInv, StackEntry
<1>2. ASSUME NEW u, NEW path, NEW height, Expands(u, path, height) PROVE KnotsInv'
  <2>1. /\ UNCHANGED <<program, phase, visited, edges, order, starts>>
        /\ phase = "searching" /\ height \in Nat \ {0} /\ height = Len(stack)
        /\ stack[height].node = u /\ searched' = searched \cup {u}
        /\ stack' \in Seq(StackEntry) /\ height - 1 <= Len(stack')
        /\ \A e \in 1 .. height - 1 : stack'[e] = stack[e]
    BY <1>2 DEF Expands, visit, sort
  <2>2. ASSUME NEW e \in DOMAIN stack
        PROVE  stack[e].node \in searched' \cup {stack'[f].node : f \in DOMAIN stack'}
    <3>1. CASE e = height
      BY <2>1, <3>1
    <3>2. CASE e # height
      <4>1. e \in 1 .. height - 1 /\ e \in DOMAIN stack'
        BY <1>1, <2>1, <3>2
      <4> QED BY <2>1, <4>1
    <3> QED BY <3>1, <3>2
  <2>3. StartsInv'
    BY <2>1, <2>2 DEF KnotsInv, StartsInv
  <2>4. \A m \in visited : Reaches(m, m) => Followed(Knot(m))'
    BY <1>2, <2>1, ExpandFollows DEF KnotsInv, KnotInv
  <2>5. KnotInv'
    BY <2>1, <2>4, SameGraph DEF KnotInv
  <2> QED BY <2>1, <2>3, <2>5 DEF KnotsInv, MissesNone
<1>3. ASSUME NEW u, NEW height, Pops(u, height) PROVE KnotsInv'
  <2>1. /\ UNCHANGED <<program, phase, visited, edges, order, starts, searched>>
        /\ phase = "searching" /\ height \in Nat \ {0} /\ height = Len(stack)
        /\ stack[height].node = u /\ u \in searched
        /\ stack' \in Seq(StackEntry) /\ Len(stack') = height - 1
        /\ \A e \in 1 .. height - 1 : stack'[e] = stack[e]
    BY <1>3 DEF Pops, visit, sort
  <2>2. ASSUME NEW e \in DOMAIN stack
        PROVE  stack[e].node \in searched \cup {stack'[f].node : f \in DOMAIN stack'}
    <3>1. CASE e = height
      BY <2>1, <3>1
    <3>2. CASE e # height
      <4>1. e \in 1 .. height - 1 /\ e \in DOMAIN stack'
        BY <1>1, <2>1, <3>2
      <4> QED BY <2>1, <4>1
    <3> QED BY <3>1, <3>2
  <2>3. StartsInv'
    BY <2>1, <2>2 DEF KnotsInv, StartsInv
  <2>4. \A m \in visited : Reaches(m, m) => Followed(Knot(m))'
    BY <1>3, <2>1, PopFollows DEF KnotsInv, KnotInv
  <2>5. KnotInv'
    BY <2>1, <2>4, SameGraph DEF KnotInv
  <2> QED BY <2>1, <2>3, <2>5 DEF KnotsInv, MissesNone
<1> QED BY <1>2, <1>3, SearchExpands, SearchPops

LEMMA EndKnots ==
  ASSUME GraphInv, VisitInv, SortInv, StackInv, KnotsInv, EndSearch
  PROVE  KnotsInv'
<1>1. /\ UNCHANGED <<program, visited, notFound, edges, searched, cycles>>
      /\ phase = "searching" /\ phase' = "done" /\ stack = <<>> /\ starts = {} /\ Placed
  BY DEF EndSearch, visit, search, SortInv
<1>2. ASSUME notFound = {}, NEW m \in visited, Reaches(m, m) PROVE Caught(Knot(m))
  <2>1. m \in DOMAIN edges \ ToSet(order)
    BY <1>1, <1>2, CyclicIsNotSorted DEF VisitInv
  <2>2. {stack[e].node : e \in DOMAIN stack} = {}
    BY <1>1
  <2>3. m \in searched
    BY <1>1, <2>1, <2>2 DEF KnotsInv, StartsInv
  <2>4. m \in Knot(m)
    BY <1>2, ModuleIsInItsKnot DEF GraphInv
  <2>5. Followed(Knot(m))
    BY <1>1, <1>2 DEF KnotsInv, KnotInv
  <2> QED BY <1>1, <2>3, <2>4, <2>5, CaughtAtRest
<1> QED BY <1>1, <1>2, SameGraph DEF KnotsInv, StartsInv, KnotInv, MissesNone, Caught

LEMMA StepKnots ==
  GraphInv /\ VisitInv /\ SortInv /\ StackInv /\ KnotsInv /\ [Next]_vars => KnotsInv'
<1> SUFFICES ASSUME GraphInv, VisitInv, SortInv, StackInv, KnotsInv, [Next]_vars
             PROVE  KnotsInv'
  OBVIOUS
<1>1. ASSUME phase' \in {"visiting", "sorting"} PROVE KnotsInv'
  BY <1>1 DEF KnotsInv, StartsInv, KnotInv, MissesNone
<1>2. ASSUME NEW m \in Ids, Visit(m) \/ Sort(m) PROVE KnotsInv'
  BY <1>1, <1>2 DEF Visit, Sort
<1>3. CASE CountImports
  BY <1>1, <1>3 DEF CountImports
<1>4. CASE UNCHANGED vars
  <2>1. UNCHANGED <<program, phase, visited, notFound, edges, order, starts, stack,
                    searched, cycles>>
    BY <1>4 DEF vars, visit, sort, search
  <2>2. StartsInv'
    BY <2>1 DEF KnotsInv, StartsInv
  <2>3. \A n : ImportsOf(n)' = ImportsOf(n)
    BY <2>1, SameGraph
  <2>4. \A K : Followed(K)' = Followed(K)
    BY <2>1, <2>3 DEF Followed, Caught, Entered
  <2>5. KnotInv'
    BY <2>1, <2>4, SameGraph DEF KnotsInv, KnotInv
  <2>6. MissesNone'
    BY <2>1, SameGraph DEF KnotsInv, MissesNone, Caught
  <2> QED BY <2>2, <2>5, <2>6 DEF KnotsInv
<1> QED BY <1>2, <1>3, <1>4, EndSortKnots, StartKnots, SearchKnots, EndKnots DEF Next

-----------------------------------------------------------------------------
LEMMA SearchInvariance ==
  Spec => [](GraphInv /\ SortInv /\ VisitInv /\ SortTypes /\ StackInv /\ CyclesInv /\ KnotsInv)
  BY InitGraph, InitSort, InitVisit, InitTypes, InitPaths, InitKnots, StepGraph, StepSort,
     StepVisit, StepTypes, StepPaths, StepKnots, PTL DEF Spec

(* The types of the visit, of the counters and of the stack of the search. *)
THEOREM Types == Spec => []TypeOK
<1>1. ASSUME GraphInv, VisitInv, SortTypes, StackInv PROVE TypeOK
  <2>1. visited \subseteq Ids /\ toVisit \subseteq Ids /\ DOMAIN edges \subseteq visited
        /\ \A m \in DOMAIN edges : edges[m] \subseteq Ids
    BY <1>1 DEF GraphInv
  <2>2. notFound \subseteq Modules
    BY <1>1 DEF VisitInv, Exists
  <2>3. \A e \in DOMAIN stack : stack[e].node \in visited /\ stack[e].path \in Seq(visited)
    <3>1. stack \in Seq(StackEntry)
      BY <1>1 DEF StackInv, StackEntry
    <3>2. \A e \in DOMAIN stack : stack[e] \in StackEntry
      BY <3>1
    <3> QED BY <3>2 DEF StackEntry
  <2>4. \A e \in DOMAIN stack : stack[e].node \in Ids /\ stack[e].path \in Seq(Ids)
    BY <2>1, <2>3
  <2>5. starts \subseteq DOMAIN edges /\ onStack \subseteq Ids /\ searched \subseteq Ids
    BY <1>1, <2>1 DEF StackInv
  <2> QED BY <1>1, <2>1, <2>2, <2>4, <2>5 DEF TypeOK, SortTypes
<1> QED BY <1>1, SearchInvariance, PTL

(* The search for cycles reports only cycles that exist, and if every      *)
(* import has a folder, one of each knot of modules that import each       *)
(* other, wherever it enters the knot and in whatever order it goes on.    *)
THEOREM CyclesAreExact == Spec => []CyclesExact
<1>1. CyclesInv /\ KnotsInv => CyclesExact
  BY DEF CyclesInv, Closes, KnotsInv, MissesNone, Caught, Knot, CyclesExact
<1> QED BY <1>1, SearchInvariance, PTL
=============================================================================
