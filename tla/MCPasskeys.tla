----------------------------- MODULE MCPasskeys -----------------------------
(***************************************************************************)
(* Passkeys for TLC.  User ids, ceremony keys, session tokens and requests *)
(* are interchangeable.                                                    *)
(***************************************************************************)
EXTENDS Passkeys, TLC

Interchangeable ==
  Permutations(User) \cup Permutations(Session) \cup Permutations(Ceremony)
    \cup Permutations(Request)
=============================================================================
