---------------------------- MODULE MCBuildCache ----------------------------
(* Instances of BuildCache for TLC: a project with an entry and the modules *)
(* "a", "b" and, in one instance, "c".                                      *)
EXTENDS BuildCache, TLC

CONSTANTS p1, p2, f, g, go, v1, v2, c1, c2

Folder(text, files, imports) ==
  [text |-> text, files |-> files, imports |-> imports, methods |-> {},
   requires |-> {}, declares |-> {}, quality |-> "clean"]

Absent == Folder("none", {}, {})

MCModules == {"a", "b"}
MixedModules == {"a", "b", "c"}
MCCacheFile == [m \in Modules |-> m]

(* Projects in which modules break each other: b loses the method a needs  *)
(* for an interface; c changes below b, comes to import a, or comes not to *)
(* emit.                                                                   *)
MixedSources ==
  ("main" :> {Folder("main", {f}, {"a", "b"})}) @@
  ("a" :> {[Folder("a", {f}, {"b"}) EXCEPT !.requires = {<<"b", "String">>}]}) @@
  ("b" :> {[Folder("b1", {f}, {"c"}) EXCEPT !.methods = {"String"}],
           Folder("b2", {f}, {"c"})}) @@
  ("c" :> {Folder("c1", {f}, {}), Folder("c2", {f}, {"a"}),
           [Folder("c3", {f}, {}) EXCEPT !.quality = "emit_error"]})

(* Projects without private methods behind interfaces: files come and go,  *)
(* an import disappears, a module is deleted or has a warning, main.lis    *)
(* does not parse, or imports a third-party Go package.                    *)
BuildSources ==
  ("main" :> {Folder("main1", {f}, {"a", go}), Folder("main2", {f}, {"b"}),
              [Folder("main3", {f}, {}) EXCEPT !.quality = "syntax"]}) @@
  ("a" :> {Folder("a1", {f, g}, {"b"}), Folder("a2", {f}, {"b"})}) @@
  ("b" :> {Folder("b1", {f}, {}),
           [Folder("b2", {f}, {}) EXCEPT !.quality = "warning"],
           Absent})

(* One module with two contents, the second with a file less. *)
EditSources ==
  ("main" :> {Folder("main", {f}, {"a"})}) @@
  ("a" :> {Folder("a1", {f, g}, {}), Folder("a2", {f}, {})}) @@
  ("b" :> {Absent})

(* a relies on a private method of b, which has a warning of its own. *)
MethodSources ==
  ("main" :> {Folder("main", {f}, {"a", "b"})}) @@
  ("a" :> {[Folder("a", {f}, {"b"}) EXCEPT !.requires = {<<"b", "String">>}]}) @@
  ("b" :> {[Folder("b", {f}, {}) EXCEPT !.methods = {"String"},
                                       !.quality = "warning"]})

(* a imports b, which imports a third-party Go package. *)
GoSources ==
  ("main" :> {Folder("main", {f}, {"a"})}) @@
  ("a" :> {Folder("a", {f}, {"b"})}) @@
  ("b" :> {Folder("b", {f}, {go})})

(* a relies on a method b may lose, and b imports a third-party package.   *)
UnlockedSources ==
  ("main" :> {Folder("main", {f}, {"a"})}) @@
  ("a" :> {[Folder("a", {f}, {"b"}) EXCEPT !.requires = {<<"b", "String">>}]}) @@
  ("b" :> {[Folder("b1", {f}, {go}) EXCEPT !.methods = {"String"}],
           Folder("b2", {f}, {})})

MCSymmetry == Permutations(Procs)
=============================================================================
