---------------------------- MODULE MCLspServer ----------------------------
(* Instances of LspServer for TLC: two files of one project. *)
EXTENDS LspServer

CONSTANTS d1, d2
=============================================================================
