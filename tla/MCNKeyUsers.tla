----------------------------- MODULE MCNKeyUsers -----------------------------
(***************************************************************************)
(* An instance of NKeyUsers: the keys of one organization.                 *)
(***************************************************************************)
EXTENDS NKeyUsers

CONSTANTS o1

InOneOrg == [k \in Key |-> o1]
=============================================================================
