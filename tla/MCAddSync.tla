----------------------------- MODULE MCAddSync -----------------------------
(***************************************************************************)
(* Three modules of two versions for AddSync.  What they require: a chain  *)
(* that the newer version of its head does without; a triangle in which a  *)
(* module met late raises the version of one met before, which then needs  *)
(* nothing of what it needed; a circle.                                    *)
(***************************************************************************)
EXTENDS AddSync, TLC

MCModules == 1..3

\* Requirements r is a set of <<m, v, n, w>>: m@v requires n@w.
WorldOf(r) ==
    [m \in MCModules |-> [v \in 1..2 |-> [n \in MCModules |->
        IF \E w \in 1..2 : <<m, v, n, w>> \in r
        THEN CHOOSE w \in 1..2 : <<m, v, n, w>> \in r ELSE 0]]]

Chain == WorldOf({<<1, 1, 2, 1>>, <<1, 1, 3, 1>>, <<2, 1, 3, 1>>, <<2, 2, 3, 1>>})
Triangle == WorldOf({<<1, 2, 2, 1>>, <<1, 2, 3, 1>>,
                     <<3, 1, 2, 2>>, <<3, 2, 2, 2>>, <<2, 1, 3, 1>>})
Circle == WorldOf({<<1, 2, 2, 1>>, <<2, 1, 3, 1>>, <<3, 1, 2, 2>>,
                   <<2, 2, 3, 2>>, <<3, 2, 2, 1>>})

Empty == [m \in MCModules |-> Gone]
\* What `lis add` of module 1 leaves in the world Chain.
Added == (1 :> Direct(1)) @@ (2 :> Transitive(1, {1})) @@ (3 :> Transitive(1, {1, 2}))
MCStarts == {<<Chain, Added>>, <<Triangle, Empty>>, <<Circle, Empty>>}

MCRequests == {<<1, 2>>, <<3, 1>>}
MCImports == {{}, {2}}
=============================================================================
