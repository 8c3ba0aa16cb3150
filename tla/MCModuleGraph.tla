--------------------------- MODULE MCModuleGraph ---------------------------
(* ModuleGraph for TLC: every import graph of three modules, any of which  *)
(* may be missing, below entries with one, two or three imports.           *)
EXTENDS ModuleGraph, TLC

CONSTANTS main, a, b, c, go, f

Folder(files, imports) ==
  [text |-> "", files |-> files, imports |-> imports, methods |-> {},
   requires |-> {}, declares |-> {}, quality |-> "clean"]

AllGraphs ==
  (main :> {Folder({f}, {a, go}), Folder({f}, {a, b}), Folder({f}, {a, b, c})}) @@
  [m \in {a, b, c} |->
     {Folder({}, {})} \cup {Folder({f}, s) : s \in SUBSET {a, b, c}}]

MCRank == (a :> 1) @@ (b :> 2) @@ (c :> 3) @@ (main :> 4) @@ (go :> 5)
=============================================================================
