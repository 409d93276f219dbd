---------------------------- MODULE MCFleetTable ----------------------------
(***************************************************************************)
(* FleetTable for TLC: one page and an entity, two requests at a time.     *)
(* What other pages ask for is asked for by None.                          *)
(***************************************************************************)
EXTENDS FleetTable
=============================================================================
