------------------------------ MODULE Program ------------------------------
(***************************************************************************)
(* A Lisette program as a compilation sees it: the contents the loader     *)
(* returned for each folder, which folder is the entry, the imports        *)
(* between modules, and what the compiler computes from a module and the   *)
(* interfaces of its imports.  BuildCache (with a cache) and CleanCompile  *)
(* (without one) share it.                                                 *)
(***************************************************************************)
EXTENDS Naturals, FiniteSets

CONSTANTS
  Modules,      \* user modules that can be imported
  Entry,        \* the entry module, ENTRY_MODULE_ID
  GoDep,        \* a third-party go: import
  SourcesOf,    \* node |-> the contents its folder may have
  Files,        \* names of .lis files
  None          \* no value

Nodes == Modules \cup {Entry}
AllSources == UNION {SourcesOf[n] : n \in Nodes}

(***************************************************************************)
(* A source is the content of a module's folder.  "text" tells apart       *)
(* contents that agree on the rest; "methods" are the private methods the  *)
(* module itself does not call, "requires" the pairs <<module, method>> of *)
(* the methods it relies on to satisfy an interface, "declares" the        *)
(* methods of its public interfaces.                                       *)
(***************************************************************************)
ASSUME SourceAssumption ==
  /\ DOMAIN SourcesOf = Nodes
  /\ \A n \in Nodes : \A s \in SourcesOf[n] :
       /\ s.files \subseteq Files
       /\ s.imports \subseteq Modules \cup {GoDep}
       /\ \A r \in s.requires : r[1] \in s.imports \cap Modules
       /\ s.quality \in {"clean", "warning", "error", "syntax", "emit_error"}
ASSUME NodeAssumption == Entry \notin Modules /\ GoDep \notin Nodes

(* Maps that grow while a session proceeds. *)
EmptyMap == [m \in {} |-> None]
Put(map, m, x) == [k \in DOMAIN map \cup {m} |-> IF k = m THEN x ELSE map[k]]

(* A program: the folder analysed as the entry, and every folder's content. *)
Programs(snapshots) == [root : Nodes, snap : snapshots]

Source(g, n) == IF n = Entry THEN g.snap[g.root] ELSE g.snap[n]

Imports(g, n) == Source(g, n).imports

(* The edges of the graph: a third-party import the locator cannot resolve *)
(* is reported and left out.                                               *)
Resolved(g, n, go) ==
  IF go = None THEN Imports(g, n) \ {GoDep} ELSE Imports(g, n)

(* What the graph construction visits from the entry. *)
Reachable(g) ==
  {m \in Modules : \A X \in SUBSET Modules :
     (\A n \in X \cup {Entry} : Imports(g, n) \cap Modules \subseteq X)
     => m \in X}

(* What topological_sort orders: the modules all of whose importers it has *)
(* ordered.  The rest is on an import cycle or imported from one.          *)
Ordered(g) ==
  LET visited == Reachable(g) IN
  {m \in visited : \A X \in SUBSET visited :
     (\A k \in visited :
        (\A n \in visited : k \in Imports(g, n) => n \in X) => k \in X)
     => m \in X}

Missing(g) == {m \in Reachable(g) : Source(g, m).files = {}}

(* A module's content together with what stands for each of its imports:   *)
(* a hash when deps holds hashes, the inferred definitions when it holds   *)
(* the definitions of the imports.                                         *)
Digest(s, deps) == [source |-> s, deps |-> deps]

(* The definitions inference gives node n: named after the node, and a     *)
(* function of its content, of the typedefs go and of the definitions      *)
(* known of its imports.                                                   *)
Definitions(g, n, go, known) ==
  [module |-> n,
   tree |-> Digest(Source(g, n),
     [d \in Resolved(g, n, go) |->
        IF d = GoDep THEN go
        ELSE IF d \in DOMAIN known THEN known[d].tree ELSE None])]

(* What inference and the checks report of a module with these definitions. *)
HasErrors(t) ==
  \/ t.source.quality \in {"error", "syntax"}
  \/ \E r \in t.source.requires :
       t.deps[r[1]] # None /\ r[2] \notin t.deps[r[1]].source.methods

(* The entry is inferred in every session and registered last.             *)
DefinitionsOf(g, n, go, known) ==
  IF n = Entry THEN Definitions(g, Entry, go, known) ELSE known[n]

(* What inference gives each module when nothing is known beforehand: the  *)
(* definitions a compilation from scratch computes.  Imports among ordered *)
(* modules are acyclic, so the recursion ends.                             *)
CleanDefinitions(g, go) ==
  LET clean[m \in Ordered(g)] ==
        [module |-> m,
         tree |-> Digest(Source(g, m),
           [d \in Resolved(g, m, go) |->
              IF d = GoDep THEN go
              ELSE IF d \in Ordered(g) THEN clean[d].tree ELSE None])]
  IN  clean

(* Whether an analysis that infers the nodes of K reports an error: an     *)
(* import cycle, an import without a folder, a third-party import without  *)
(* a typedef, or an error in a node of K.                                  *)
AnalysisErrors(g, go, known, K) ==
  \/ Ordered(g) # Reachable(g)
  \/ Missing(g) # {}
  \/ go = None /\ \E n \in Reachable(g) \cup {Entry} : GoDep \in Imports(g, n)
  \/ \E n \in K : HasErrors(DefinitionsOf(g, n, go, known).tree)

(* The private methods of m that a module of K uses to satisfy an          *)
(* interface: Facts.interface_satisfied_methods once K is inferred.        *)
UsedMethods(g, m, K) ==
  {x \in Source(g, m).methods :
     \E k \in K : <<m, x>> \in Source(g, k).requires}

(* An unused private method is a warning of its module. *)
HasWarnings(g, m, K) ==
  \/ Source(g, m).quality = "warning"
  \/ Source(g, m).methods # UsedMethods(g, m, K)

(* GlobalEmitData.exported_method_names, restricted to what n defines. *)
ExportedMethods(g, n) ==
  Source(g, n).methods \cap
    UNION {Source(g, k).declares : k \in Ordered(g) \cup {Entry}}
=============================================================================
