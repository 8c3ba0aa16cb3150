---------------------------- MODULE CleanCompile ----------------------------
(***************************************************************************)
(* What an analysis promises, whatever is cached: the definitions of every *)
(* module are inferred, after those of its imports, from the one program   *)
(* the loader returned, and the program is accepted exactly if nothing in  *)
(* it is an error.  There is no cache, no lock and no disk here; a session *)
(* may be dropped at any point.                                            *)
(***************************************************************************)
EXTENDS Program

CONSTANTS
  Sessions,     \* concurrent sessions
  Snapshots,    \* what loaders may return
  Typedefs      \* contents the typedef of GoDep may have

VARIABLES
  status,       \* "none", "analyzing", "accepted" or "rejected"
  prog,         \* the program under analysis
  resolved,     \* the typedef GoDep resolves to, or None
  defs          \* analysed module |-> its definitions

vars == <<status, prog, resolved, defs>>

Init ==
  /\ status = [s \in Sessions |-> "none"]
  /\ prog = [s \in Sessions |-> None]
  /\ resolved = [s \in Sessions |-> None]
  /\ defs = [s \in Sessions |-> EmptyMap]

(* A command stops at once if the entry has a syntax error. *)
Begin(s) ==
  /\ status[s] = "none"
  /\ prog' \in [Sessions -> Programs(Snapshots) \cup {None}]
  /\ \E g \in {prog'[s]} : g # None /\ prog' = [prog EXCEPT ![s] = g]
  /\ \E go \in Typedefs \cup {None} : resolved' = [resolved EXCEPT ![s] = go]
  /\ \/ status' = [status EXCEPT ![s] = "analyzing"]
     \/ /\ Source(prog'[s], Entry).quality = "syntax"
        /\ status' = [status EXCEPT ![s] = "rejected"]
  /\ UNCHANGED defs

Infer(s, m) ==
  /\ status[s] = "analyzing"
  /\ m \in Ordered(prog[s])
  /\ m \notin DOMAIN defs[s]
  /\ Imports(prog[s], m) \cap Ordered(prog[s]) \subseteq DOMAIN defs[s]
  /\ defs' = [defs EXCEPT ![s] =
               Put(@, m, Definitions(prog[s], m, resolved[s], @))]
  /\ UNCHANGED <<status, prog, resolved>>

Conclude(s) ==
  /\ status[s] = "analyzing"
  /\ Ordered(prog[s]) \subseteq DOMAIN defs[s]
  /\ status' = [status EXCEPT ![s] =
       IF AnalysisErrors(prog[s], resolved[s], defs[s],
                         Ordered(prog[s]) \cup {Entry})
         THEN "rejected" ELSE "accepted"]
  /\ UNCHANGED <<prog, resolved, defs>>

End(s) ==
  /\ status' = [status EXCEPT ![s] = "none"]
  /\ prog' = [prog EXCEPT ![s] = None]
  /\ resolved' = [resolved EXCEPT ![s] = None]
  /\ defs' = [defs EXCEPT ![s] = EmptyMap]

Next ==
  \E s \in Sessions :
    \/ Begin(s)
    \/ \E m \in Modules : Infer(s, m)
    \/ Conclude(s)
    \/ End(s)

Spec == Init /\ [][Next]_vars
=============================================================================
