------------------------------ MODULE KeyAccess ------------------------------
(***************************************************************************)
(* What the admin of API keys promises of the users the NATS server        *)
(* accepts: each is given and taken on its own, at once, by a request      *)
(* about its key (HandleCreateAPIKey: "register it with the NATS server";  *)
(* HandleRevokeAPIKey: "the NKey is also removed"), as if there were no    *)
(* options to clone, change, reload and keep as a whole.                   *)
(***************************************************************************)
CONSTANT Key

VARIABLES
  issued,   \* keys that have been created
  valid,    \* those of them that are neither revoked nor gone
  pending,  \* keys whose creation is under way
  users,    \* keys the server accepts
  up        \* whether the server is up

Init == issued = {} /\ valid = {} /\ pending = {} /\ users = {} /\ up = TRUE

Issue(k) ==
  /\ up /\ k \notin issued
  /\ issued' = issued \cup {k} /\ valid' = valid \cup {k} /\ pending' = pending \cup {k}
  /\ UNCHANGED <<users, up>>

\* Once and for all: no key becomes valid again.
Invalidate(ks) ==
  /\ up /\ valid' = valid \ ks
  /\ UNCHANGED <<issued, pending, users, up>>

\* A user is given only by the creation of its key ...
Give(k) ==
  /\ k \in pending
  /\ users' = users \cup {k}
  /\ UNCHANGED <<issued, valid, pending, up>>

\* ... which may also fail to, ...
Settle(k) ==
  /\ k \in pending
  /\ pending' = pending \ {k}
  /\ UNCHANGED <<issued, valid, users, up>>

\* ... and taken only from a key that is valid no more.
Take(k) ==
  /\ k \in issued \ valid
  /\ users' = users \ {k}
  /\ UNCHANGED <<issued, valid, pending, up>>

Stop ==
  /\ up /\ up' = FALSE
  /\ users' = {} /\ pending' = {}
  /\ UNCHANGED <<issued, valid>>

Start(ks) ==
  /\ ~up /\ up' = TRUE
  /\ users' = ks
  /\ UNCHANGED <<issued, valid, pending>>

Next ==
  \/ \E k \in Key : Issue(k) \/ Give(k) \/ Settle(k) \/ Take(k)
  \/ \E ks \in SUBSET Key : Invalidate(ks)
  \/ Stop
  \/ \E ks \in SUBSET valid : Start(ks)

Spec == Init /\ [][Next]_<<issued, valid, pending, users, up>>
=============================================================================
