------------------------------ MODULE MCInvites ------------------------------
(***************************************************************************)
(* An instance of Invites: the administrator, whom the bootstrap may       *)
(* invite twice, and a user whom the administrator invites.                *)
(***************************************************************************)
EXTENDS Invites, TLC

CONSTANTS admin, guest, i1, i2, i3

Invitee == [i \in Invite |-> IF i = i3 THEN guest ELSE admin]

Symmetry == Permutations(Request) \cup Permutations({i1, i2})
=============================================================================
