------------------------------ MODULE Passkeys ------------------------------
(***************************************************************************)
(* Passkey ceremonies and the sessions they give.  A ceremony is a row     *)
(* that begins with one request and is taken by the one that finishes it;  *)
(* registering adds a credential and turns the session of a first set-up   *)
(* into one with full access, logging in writes the credential's sign      *)
(* count and gives a session (web/handlers/auth.go, auth.service.go,       *)
(* api/middleware/auth.go).  A handler is a sequence of statements, and    *)
(* requests of one or several browsers interleave between them.            *)
(*                                                                         *)
(* The authenticator makes one credential per registration, which bears    *)
(* the name of its ceremony here, and counts its signatures.               *)
(***************************************************************************)
EXTENDS Naturals, FiniteSets

CONSTANTS
  User,        \* user ids
  Session,     \* session tokens, each given out once (32 random bytes)
  Ceremony,    \* ceremony keys, each given out once
  Request,     \* finishing requests served at the same time
  None,
  MaxSign,     \* bound: signatures of an authenticator
  MaxFail      \* bound: statements that fail

ASSUME PasskeyAssumption ==
  /\ None \notin User \cup Session \cup Ceremony
  /\ MaxSign \in Nat /\ MaxFail \in Nat

VARIABLES
  users,     \* users that have a row
  needs,     \* users flagged needs_passkey_setup
  kind,      \* kind[k]: none, login, register, or gone
  ref,       \* the user a ceremony was begun for
  expired,   \* ceremonies past expires_at
  rows,      \* rows[k]: rows of the credential that was made for k
  count,     \* the sign count in those rows
  signed,    \* the authenticator's own count
  sess,      \* sess[s]: none, setup, full, or gone
  holder,    \* the user of a session
  pc,        \* the step each request is at
  by,        \* the session it came with (a registration)
  cer,       \* the ceremony of its cookie
  with,      \* the credential its answer is signed with (a log-in)
  sign,      \* the sign count of the answer, then the one to store
  fails

request == <<pc, by, cer, with, sign>>
vars == <<users, needs, kind, ref, expired, rows, count, signed, sess, holder,
          pc, by, cer, with, sign, fails>>

CredentialsOf(u) == {k \in Ceremony : ref[k] = u /\ rows[k] > 0}
Enrolled         == {u \in User : CredentialsOf(u) # {}}
Registering(p)   == by[p] # None
Higher(m, n)     == IF m > n THEN m ELSE n

Init ==
  /\ users = User /\ needs = User
  /\ kind = [k \in Ceremony |-> "none"] /\ ref = [k \in Ceremony |-> None] /\ expired = {}
  /\ rows = [k \in Ceremony |-> 0] /\ count = rows /\ signed = rows
  /\ sess = [s \in Session |-> "none"] /\ holder = [s \in Session |-> None]
  /\ pc = [p \in Request |-> "idle"] /\ by = [p \in Request |-> None]
  /\ cer = [p \in Request |-> None] /\ with = [p \in Request |-> None]
  /\ sign = [p \in Request |-> 0] /\ fails = 0

Fail == fails < MaxFail /\ fails' = fails + 1

Goto(p, step) == pc' = [pc EXCEPT ![p] = step] /\ UNCHANGED <<by, cer, with, sign>>

Answer(p) ==
  /\ pc' = [pc EXCEPT ![p] = "idle"] /\ by' = [by EXCEPT ![p] = None]
  /\ cer' = [cer EXCEPT ![p] = None] /\ with' = [with EXCEPT ![p] = None]
  /\ sign' = [sign EXCEPT ![p] = 0]

-----------------------------------------------------------------------------
(* Beginnings.                                                             *)

BeginCeremony(k, what, u) ==
  /\ kind[k] = "none" /\ u \in users
  /\ kind' = [kind EXCEPT ![k] = what] /\ ref' = [ref EXCEPT ![k] = u]
  /\ UNCHANGED <<users, needs, expired, rows, count, signed, sess, holder, request, fails>>

\* Without a credential the challenge is a fake one, and nothing is stored.
LoginBegin(k, u) == u \in Enrolled /\ BeginCeremony(k, "login", u)

RegisterBegin(k, s) == sess[s] \in {"setup", "full"} /\ BeginCeremony(k, "register", holder[s])

\* CreateSessionForUser for an invited user, whom another invitation may bring
\* here again; the foreign key asks for the row.
SetupSession(s, u) ==
  /\ sess[s] = "none" /\ u \in users
  /\ sess' = [sess EXCEPT ![s] = "setup"] /\ holder' = [holder EXCEPT ![s] = u]
  /\ UNCHANGED <<users, needs, kind, ref, expired, rows, count, signed, request, fails>>

\* The browser sends the authenticator's answer to a log-in.
LoginFinish(p, k, c) ==
  /\ pc[p] = "idle" /\ ref[k] # None /\ kind[k] \in {"login", "gone"}
  /\ ref[c] = ref[k] /\ rows[c] > 0 /\ signed[c] < MaxSign
  /\ signed' = [signed EXCEPT ![c] = @ + 1]
  /\ pc' = [pc EXCEPT ![p] = "take"] /\ UNCHANGED by
  /\ cer' = [cer EXCEPT ![p] = k] /\ with' = [with EXCEPT ![p] = c]
  /\ sign' = [sign EXCEPT ![p] = signed[c] + 1]
  /\ UNCHANGED <<users, needs, kind, ref, expired, rows, count, sess, holder, fails>>

\* The same for a registration, with a session; also the answer to a ceremony
\* that was taken before.
RegisterFinish(p, k, s) ==
  /\ pc[p] = "idle" /\ ref[k] # None /\ sess[s] \in {"setup", "full"}
  /\ pc' = [pc EXCEPT ![p] = "count"] /\ by' = [by EXCEPT ![p] = s]
  /\ cer' = [cer EXCEPT ![p] = k] /\ UNCHANGED <<with, sign>>
  /\ UNCHANGED <<users, needs, kind, ref, expired, rows, count, signed, sess, holder, fails>>

-----------------------------------------------------------------------------
(* The steps of a finishing request.                                       *)

\* The guard of a first set-up: a look at the credentials, then at the flag.
CountCredentials(p) ==
  /\ pc[p] = "count"
  /\ \/ Goto(p, IF holder[by[p]] \in Enrolled THEN "flag" ELSE "user") /\ UNCHANGED fails
     \/ Fail /\ Answer(p)
  /\ UNCHANGED <<users, needs, kind, ref, expired, rows, count, signed, sess, holder>>

\* IsPasskeySetup says no when its query fails.
CheckFlag(p) ==
  /\ pc[p] = "flag"
  /\ \/ sess[by[p]] = "setup" /\ Answer(p) /\ UNCHANGED fails
     \/ sess[by[p]] # "setup" /\ Goto(p, "user") /\ UNCHANGED fails
     \/ Fail /\ Goto(p, "user")
  /\ UNCHANGED <<users, needs, kind, ref, expired, rows, count, signed, sess, holder>>

FindUser(p) ==
  /\ pc[p] = "user"
  /\ \/ holder[by[p]] \in users /\ Goto(p, "take") /\ UNCHANGED fails
     \/ holder[by[p]] \notin users /\ Answer(p) /\ UNCHANGED fails
     \/ Fail /\ Answer(p)
  /\ UNCHANGED <<users, needs, kind, ref, expired, rows, count, signed, sess, holder>>

\* GetWebAuthnSession: the SELECT; a row that has expired is deleted, if the
\* DELETE does not fail.
TakeCeremony(p) ==
  LET k == cer[p]
      what == IF Registering(p) THEN "register" ELSE "login"
  IN  /\ pc[p] = "take"
      /\ \/ kind[k] = what /\ k \notin expired /\ Goto(p, "drop") /\ UNCHANGED <<kind, fails>>
         \/ /\ kind[k] = what /\ k \in expired /\ Answer(p)
            /\ kind' = [kind EXCEPT ![k] = "gone"] /\ UNCHANGED fails
         \/ kind[k] # what /\ Answer(p) /\ UNCHANGED <<kind, fails>>
         \/ Fail /\ Answer(p) /\ UNCHANGED kind
      /\ UNCHANGED <<users, needs, ref, expired, rows, count, signed, sess, holder>>

\* What the library checks, among other things: the ceremony was begun for the
\* user who finishes it.
Verifies(p) == Registering(p) => ref[cer[p]] = holder[by[p]]

\* ... and the DELETE, whose error is ignored; then the library verifies the answer.
DropCeremony(p) ==
  /\ pc[p] = "drop"
  /\ \/ kind' = [kind EXCEPT ![cer[p]] = "gone"] /\ UNCHANGED fails
     \/ Fail /\ UNCHANGED kind
  /\ \/ ~Registering(p) /\ Goto(p, "load")
     \/ Registering(p) /\ Verifies(p) /\ Goto(p, "add")
     \/ Registering(p) /\ Answer(p)
  /\ UNCHANGED <<users, needs, ref, expired, rows, count, signed, sess, holder>>

\* Mutation: the error is only logged.
AddCredential_Logged(p) ==
  /\ pc[p] = "add" /\ Goto(p, "mark")
  /\ \/ rows' = [rows EXCEPT ![cer[p]] = @ + 1] /\ UNCHANGED fails
     \/ Fail /\ UNCHANGED rows
  /\ UNCHANGED <<users, needs, kind, ref, expired, count, signed, sess, holder>>

\* Mutation: the connections are opened without foreign keys.
AddCredential_NoForeignKey(p) ==
  /\ pc[p] = "add"
  /\ \/ rows' = [rows EXCEPT ![cer[p]] = @ + 1] /\ Goto(p, "mark") /\ UNCHANGED fails
     \/ Fail /\ Answer(p) /\ UNCHANGED rows
  /\ UNCHANGED <<users, needs, kind, ref, expired, count, signed, sess, holder>>

AddCredential(p) ==
  /\ pc[p] = "add"
  /\ \/ /\ holder[by[p]] \in users
        /\ rows' = [rows EXCEPT ![cer[p]] = @ + 1] /\ Goto(p, "mark") /\ UNCHANGED fails
     \/ holder[by[p]] \notin users /\ Answer(p) /\ UNCHANGED <<rows, fails>>
     \/ Fail /\ Answer(p) /\ UNCHANGED rows
  /\ UNCHANGED <<users, needs, kind, ref, expired, count, signed, sess, holder>>

\* MarkPasskeySetupComplete; an error is only logged.
MarkComplete(p) ==
  /\ pc[p] = "mark" /\ Goto(p, "clear")
  /\ \/ needs' = needs \ {holder[by[p]]} /\ UNCHANGED fails
     \/ Fail /\ UNCHANGED needs
  /\ UNCHANGED <<users, kind, ref, expired, rows, count, signed, sess, holder>>

\* Mutation: the row is written back, also one that was deleted.
ClearSetup_Upsert(p) ==
  /\ pc[p] = "clear" /\ Answer(p)
  /\ sess' = [sess EXCEPT ![by[p]] = "full"]
  /\ UNCHANGED <<users, needs, kind, ref, expired, rows, count, signed, holder, fails>>

\* ClearPasskeySetup; the same.
ClearSetup(p) ==
  /\ pc[p] = "clear" /\ Answer(p)
  /\ \/ sess' = [sess EXCEPT ![by[p]] = IF @ = "setup" THEN "full" ELSE @] /\ UNCHANGED fails
     \/ Fail /\ UNCHANGED sess
  /\ UNCHANGED <<users, needs, kind, ref, expired, rows, count, signed, holder>>

\* Mutation: the stored count is added to the one of the answer.
NewCount_Sum(p) == count[with[p]] + sign[p]

\* The library keeps the stored count when the answer's is not above it.
NewCount(p) == Higher(count[with[p]], sign[p])

\* GetUserByEmail, with the credentials, against which the library verifies the answer.
LoadUser(p) ==
  /\ pc[p] = "load"
  /\ \/ /\ rows[with[p]] > 0 /\ ref[with[p]] \in users
        /\ pc' = [pc EXCEPT ![p] = "store"] /\ sign' = [sign EXCEPT ![p] = NewCount(p)]
        /\ UNCHANGED <<by, cer, with>>
     \/ Answer(p)
  /\ UNCHANGED <<users, needs, kind, ref, expired, rows, count, signed, sess, holder, fails>>

\* UpdateCredentialSignCount writes the credential as a whole; an error is only logged.
StoreCount(p) ==
  /\ pc[p] = "store" /\ Goto(p, "session")
  /\ \/ /\ count' = [count EXCEPT ![with[p]] = IF rows[with[p]] > 0 THEN sign[p] ELSE @]
        /\ UNCHANGED fails
     \/ Fail /\ UNCHANGED count
  /\ UNCHANGED <<users, needs, kind, ref, expired, rows, signed, sess, holder>>

GiveSession(p, s) ==
  /\ pc[p] = "session" /\ sess[s] = "none" /\ ref[with[p]] \in users
  /\ sess' = [sess EXCEPT ![s] = "full"] /\ holder' = [holder EXCEPT ![s] = ref[with[p]]]
  /\ Answer(p)
  /\ UNCHANGED <<users, needs, kind, ref, expired, rows, count, signed, fails>>

GiveSessionFails(p) ==
  /\ pc[p] = "session" /\ Answer(p)
  /\ \/ ref[with[p]] \notin users /\ UNCHANGED fails
     \/ Fail
  /\ UNCHANGED <<users, needs, kind, ref, expired, rows, count, signed, sess, holder>>

Step(p) ==
  \/ CountCredentials(p) \/ CheckFlag(p) \/ FindUser(p) \/ TakeCeremony(p) \/ DropCeremony(p)
  \/ AddCredential(p) \/ MarkComplete(p) \/ ClearSetup(p)
  \/ LoadUser(p) \/ StoreCount(p) \/ GiveSessionFails(p) \/ \E s \in Session : GiveSession(p, s)

-----------------------------------------------------------------------------
Expire(k) ==
  /\ kind[k] \in {"login", "register"} /\ k \notin expired /\ expired' = expired \cup {k}
  /\ UNCHANGED <<users, needs, kind, ref, rows, count, signed, sess, holder, request, fails>>

\* HandleLogout, or the clean-up of a session that has expired.
DestroySession(s) ==
  /\ sess[s] \in {"setup", "full"} /\ sess' = [sess EXCEPT ![s] = "gone"]
  /\ UNCHANGED <<users, needs, kind, ref, expired, rows, count, signed, holder, request, fails>>

\* Mutation: sessions are deleted by no one and forbid nothing.
MayRemove_Always == TRUE

\* A session keeps its user.
MayRemove == \A s \in Session : sess[s] \notin {"setup", "full"}

\* The organization is deleted: its users and their credentials go by cascade.
RemoveUsers ==
  /\ users # {} /\ MayRemove
  /\ users' = {} /\ needs' = {} /\ rows' = [k \in Ceremony |-> 0]
  /\ UNCHANGED <<kind, ref, expired, count, signed, sess, holder, request, fails>>

Next ==
  \/ \E k \in Ceremony : \/ Expire(k)
                         \/ \E u \in User : LoginBegin(k, u)
                         \/ \E s \in Session : RegisterBegin(k, s)
  \/ \E s \in Session : DestroySession(s) \/ \E u \in User : SetupSession(s, u)
  \/ \E p \in Request :
       \/ Step(p)
       \/ \E k \in Ceremony : \/ \E c \in Ceremony : LoginFinish(p, k, c)
                              \/ \E s \in Session : RegisterFinish(p, k, s)
  \/ RemoveUsers

Spec == Init /\ [][Next]_vars
-----------------------------------------------------------------------------
(***************************************************************************)
(* The types, and the foreign keys of db/schema.sql: a credential and a    *)
(* session that is alive have their user, who may be removed between any   *)
(* two statements of a request.                                            *)
(***************************************************************************)
TypeOK ==
  /\ users \in SUBSET User /\ needs \in SUBSET users
  /\ kind \in [Ceremony -> {"none", "login", "register", "gone"}]
  /\ ref \in [Ceremony -> User \cup {None}] /\ expired \in SUBSET Ceremony
  /\ rows \in [Ceremony -> Nat] /\ count \in [Ceremony -> Nat] /\ signed \in [Ceremony -> Nat]
  /\ sess \in [Session -> {"none", "setup", "full", "gone"}]
  /\ holder \in [Session -> User \cup {None}]
  /\ pc \in [Request -> {"idle", "count", "flag", "user", "take", "drop", "add", "mark",
                         "clear", "load", "store", "session"}]
  /\ by \in [Request -> Session \cup {None}] /\ cer \in [Request -> Ceremony \cup {None}]
  /\ with \in [Request -> Ceremony \cup {None}] /\ sign \in [Request -> Nat]
  /\ fails \in 0..MaxFail
  /\ \A k \in Ceremony : rows[k] > 0 => ref[k] \in users
  /\ \A s \in Session : sess[s] \in {"setup", "full"} => holder[s] \in users

(***************************************************************************)
(* A user whose set-up is marked complete has a credential (auth.go,       *)
(* HandlePasskeyRegisterFinish marks after it stored): a failed statement, *)
(* a second registration or a deleted organization in between leaves       *)
(* nobody without one and without the flag that lets him ask for one.      *)
(***************************************************************************)
FlagFollows == users \ needs \subseteq Enrolled

(***************************************************************************)
(* The stored sign count is never ahead of the authenticator's, so that    *)
(* its next genuine answer is not taken for a clone's, although counts are *)
(* read, computed and written back by concurrent log-ins.                  *)
(***************************************************************************)
SignCountNotAhead == \A k \in Ceremony : count[k] <= signed[k]

(***************************************************************************)
(* The ceremonies implement PasskeyAccess: a session gets full access only *)
(* when its user has a credential, and keeps it only as long, whatever     *)
(* requests interleave, statements fail and users are removed.             *)
(***************************************************************************)
FullAccess == [s \in Session |-> IF sess[s] = "full" THEN holder[s] ELSE None]

Access == INSTANCE PasskeyAccess WITH Nobody <- None, enrolled <- Enrolled, access <- FullAccess

AccessSpec == Access!Spec
=============================================================================
