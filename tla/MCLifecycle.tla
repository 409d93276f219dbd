---------------------------- MODULE MCLifecycle ----------------------------
(***************************************************************************)
(* Lifecycle for TLC: a schema of three required tables, the table of      *)
(* sessions and two indexes.                                               *)
(***************************************************************************)
EXTENDS Lifecycle
=============================================================================
