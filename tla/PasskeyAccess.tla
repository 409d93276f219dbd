---------------------------- MODULE PasskeyAccess ----------------------------
(***************************************************************************)
(* What the passkey ceremonies promise: there is no way to a session with  *)
(* full access that does not go through a credential of its user           *)
(* (cmd/microlith/main.go, bootstrapAdmin: "there is no zero-credential    *)
(* login path").                                                           *)
(***************************************************************************)
CONSTANTS User, Session, Nobody

VARIABLES
  enrolled,  \* users with a credential
  access     \* the user each session has full access as, or nobody

Init == enrolled = {} /\ access = [s \in Session |-> Nobody]

Enroll(u) == enrolled' = enrolled \cup {u} /\ UNCHANGED access

\* Access is only ever given to a user who is enrolled by then.
Grant(s, u) ==
  /\ access[s] = Nobody /\ u \in enrolled
  /\ access' = [access EXCEPT ![s] = u] /\ UNCHANGED enrolled

Withdraw(s) == access' = [access EXCEPT ![s] = Nobody] /\ UNCHANGED enrolled

\* A user's credentials go with the user, and not before the sessions.
Remove(us) ==
  /\ \A s \in Session : access[s] \notin us
  /\ enrolled' = enrolled \ us /\ UNCHANGED access

Next ==
  \/ \E u \in User : Enroll(u)
  \/ \E s \in Session : Withdraw(s) \/ \E u \in User : Grant(s, u)
  \/ \E us \in SUBSET User : Remove(us)

Spec == Init /\ [][Next]_<<enrolled, access>>
=============================================================================
