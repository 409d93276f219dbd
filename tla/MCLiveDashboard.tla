--------------------------- MODULE MCLiveDashboard ---------------------------
(***************************************************************************)
(* An instance of LiveDashboard: one organization and its entities, every  *)
(* key of a device named after one of them.                                *)
(***************************************************************************)
EXTENDS LiveDashboard

CONSTANTS o1

InOneOrg == [e \in Entity |-> o1]

\* A device deletes a key, or puts a value of its own without a name.
BlankOrGone == {NoEntry, Entry(0, 0)}

AnyOwner == [k \in DeviceKey |-> CHOOSE e \in Entity : TRUE]
=============================================================================
