------------------------ MODULE MCOverwatchBroadcast ------------------------
(***************************************************************************)
(* An instance of OverwatchBroadcast: two entities with a key each.        *)
(***************************************************************************)
EXTENDS OverwatchBroadcast

CONSTANTS e1, e2, k1, k2

TwoEntities == [k \in Key |-> IF k = k1 THEN e1 ELSE e2]
=============================================================================
