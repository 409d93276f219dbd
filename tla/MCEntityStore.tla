--------------------------- MODULE MCEntityStore ---------------------------
(***************************************************************************)
(* Instances of EntityStore: the entities of one organization.             *)
(***************************************************************************)
EXTENDS EntityStore

CONSTANTS o1

InOneOrg == [e \in Entity |-> o1]

\* Devices delete keys.
Gone == {NoEntry}
=============================================================================
