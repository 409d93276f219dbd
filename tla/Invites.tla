------------------------------- MODULE Invites -------------------------------
(***************************************************************************)
(* How a person becomes a user: the bootstrap of the first administrator   *)
(* (cmd/microlith/main.go), invites created and revoked by administrators  *)
(* (web/handlers/admin.go), and the requests that finalize an invite       *)
(* (web/handlers/invite.go), each a sequence of statements on rows that    *)
(* other requests, a deletion of the organization or a crash may change    *)
(* in between.                                                             *)
(*                                                                         *)
(* The bootstrap makes its administrator a user of one organization,       *)
(* "default", an invite is for the organization of the session that        *)
(* creates it, and nothing else adds or moves a user: every user and       *)
(* every invite belongs to that organization, and the answer               *)
(* ORG_MISMATCH is never given.  A user is its email, which is unique: an  *)
(* id that was read earlier is the current one as long as the user is      *)
(* there, because a deleted organization comes back only at a boot, when   *)
(* no request is under way.  Registering a passkey and logging in with one *)
(* are single steps here; module Passkeys has their detail.                *)
(***************************************************************************)
EXTENDS Naturals, FiniteSetsExt

CONSTANTS
  Email,
  Admin,       \* OVERWATCH_ADMIN_EMAIL
  Invite,      \* invite ids, each given out once (uuid)
  EmailOf,     \* whom an invite is for
  Request,     \* finalizations served at the same time
  None,        \* no invite
  MaxSessions, \* bound: sessions, with those that requests will create
  MaxFail,     \* bound: statements that fail
  MaxCrash     \* bound: times the server stops

ASSUME InviteAssumption ==
  /\ Admin \in Email /\ None \notin Invite /\ EmailOf \in [Invite -> Email]
  /\ MaxSessions \in Nat /\ MaxFail \in Nat /\ MaxCrash \in Nat

VARIABLES
  org,       \* whether the organization has a row
  users,     \* users that have a row
  passkey,   \* users with a credential
  invite,    \* invite[i]: none, pending, accepted, revoked, or gone
  expired,   \* invites past expires_at
  setup,     \* number of sessions of each user that need a passkey setup
  full,      \* number of the others
  boot,      \* the step of a boot: down, count, org, user, invite, up
  pc,        \* the step each finalization is at
  inv,       \* the invite each is about
  fails, crashes,
  raced,     \* history: invites revoked while a finalization had read them
  hurt       \* history: users whose way in was taken away

bounds == <<fails, crashes>>
vars == <<org, users, passkey, invite, expired, setup, full, boot, pc, inv, fails,
          crashes, raced, hurt>>

Live       == {"pending", "accepted", "revoked"}
Running    == {r \in Request : pc[r] # "idle"}
Holding(i) == {r \in Running : inv[r] = i}
Who(r)     == EmailOf[inv[r]]
MoreSessions ==
  MapThenSumSet(LAMBDA e : setup[e] + full[e], Email) + Cardinality(Running) < MaxSessions

Init ==
  /\ org = FALSE /\ users = {} /\ passkey = {}
  /\ invite = [i \in Invite |-> "none"] /\ expired = {}
  /\ setup = [e \in Email |-> 0] /\ full = [e \in Email |-> 0] /\ boot = "down"
  /\ pc = [r \in Request |-> "idle"] /\ inv = [r \in Request |-> None]
  /\ fails = 0 /\ crashes = 0 /\ raced = {} /\ hurt = {}

Fail == fails < MaxFail /\ fails' = fails + 1

-----------------------------------------------------------------------------
(* bootstrapAdmin, run by every boot before the web server listens.  An    *)
(* error is logged and the boot goes on.                                   *)

CountUsers ==
  /\ boot = "down" /\ boot' = IF users = {} THEN "org" ELSE "up"
  /\ UNCHANGED <<org, users, passkey, invite, expired, setup, full, pc, inv, bounds, raced, hurt>>

DefaultOrg ==
  /\ boot = "org" /\ boot' = "user" /\ org' = TRUE
  /\ UNCHANGED <<users, passkey, invite, expired, setup, full, pc, inv, bounds, raced, hurt>>

CreateAdmin ==
  /\ boot = "user" /\ boot' = "invite" /\ users' = users \cup {Admin}
  /\ UNCHANGED <<org, passkey, invite, expired, setup, full, pc, inv, bounds, raced, hurt>>

BootInvite(i) ==
  /\ boot = "invite" /\ boot' = "up"
  /\ invite[i] = "none" /\ EmailOf[i] = Admin
  /\ invite' = [invite EXCEPT ![i] = "pending"]
  /\ UNCHANGED <<org, users, passkey, expired, setup, full, pc, inv, bounds, raced, hurt>>

\* At the invite: the administrator is there and is never invited, as later boots count it.
BootFails ==
  /\ boot \in {"down", "org", "user", "invite"} /\ boot' = "up" /\ Fail
  /\ hurt' = IF boot = "invite" THEN hurt \cup {Admin} ELSE hurt
  /\ UNCHANGED <<org, users, passkey, invite, expired, setup, full, pc, inv, crashes, raced>>

-----------------------------------------------------------------------------
(* HandleFinalizeInvite.                                                   *)

\* Mutation: the status of the invite is not looked at.
Usable_AnyStatus(i) == invite[i] \in Live /\ i \notin expired

Usable(i) == invite[i] = "pending" /\ i \notin expired

Goto(r, step) == pc' = [pc EXCEPT ![r] = step]

\* Mutation: the request keeps its invite.
Answer_Keep(r) == Goto(r, "idle") /\ UNCHANGED inv

Answer(r) == Goto(r, "idle") /\ inv' = [inv EXCEPT ![r] = None]

\* Any other invite is answered 404 or 410 and changes nothing.
ReadInvite(r, i) ==
  /\ boot = "up" /\ pc[r] = "idle" /\ MoreSessions
  /\ Usable(i)
  /\ Goto(r, "lookup") /\ inv' = [inv EXCEPT ![r] = i]
  /\ UNCHANGED <<org, users, passkey, invite, expired, setup, full, boot, bounds, raced, hurt>>

\* A failing query counts as "no such user".
LookupUser(r) ==
  /\ pc[r] = "lookup"
  /\ \/ Who(r) \in users /\ Goto(r, "accept") /\ UNCHANGED fails
     \/ Who(r) \notin users /\ Goto(r, "create") /\ UNCHANGED fails
     \/ Fail /\ Goto(r, "create")
  /\ UNCHANGED <<org, users, passkey, invite, expired, setup, full, boot, inv, crashes, raced, hurt>>

\* Mutation: no foreign key from users to organizations.
MayInsertUser_NoForeignKey(r) == Who(r) \notin users

\* What the schema asks of the row: a unique email and an organization.
MayInsertUser(r) == Who(r) \notin users /\ org

CreateUser(r) ==
  /\ pc[r] = "create" /\ MayInsertUser(r)
  /\ users' = users \cup {Who(r)}
  /\ Goto(r, "accept")
  /\ UNCHANGED <<org, passkey, invite, expired, setup, full, boot, inv, bounds, raced, hurt>>

\* Mutation: the error is logged and the request goes on.
CreateUserFails_GoOn(r) ==
  /\ pc[r] = "create" /\ Goto(r, "accept") /\ Fail
  /\ UNCHANGED <<org, users, passkey, invite, expired, setup, full, boot, inv, crashes, raced, hurt>>

CreateUserFails(r) ==
  /\ pc[r] = "create" /\ Answer(r)
  /\ \/ ~MayInsertUser(r) /\ UNCHANGED fails
     \/ Fail
  /\ UNCHANGED <<org, users, passkey, invite, expired, setup, full, boot, crashes, raced, hurt>>

\* The status of the row is whatever it has become since it was read; a row
\* that has gone and a failing statement are only logged.
AcceptInvite(r) ==
  /\ pc[r] = "accept" /\ Goto(r, "session")
  /\ \/ /\ invite' = [invite EXCEPT ![inv[r]] = IF @ = "gone" THEN @ ELSE "accepted"]
        /\ UNCHANGED fails
     \/ Fail /\ UNCHANGED invite
  /\ UNCHANGED <<org, users, passkey, expired, setup, full, boot, inv, crashes, raced, hurt>>

\* Mutation: the session is not marked as one that needs a setup.
AddSession_Full(e) == full' = [full EXCEPT ![e] = @ + 1] /\ UNCHANGED setup

AddSession(e) == setup' = [setup EXCEPT ![e] = @ + 1] /\ UNCHANGED full

CreateSession(r) ==
  /\ pc[r] = "session" /\ Who(r) \in users
  /\ AddSession(Who(r)) /\ Answer(r)
  /\ UNCHANGED <<org, users, passkey, invite, expired, boot, bounds, raced, hurt>>

\* "Account created but session failed": the invite cannot be used again.
CreateSessionFails(r) ==
  /\ pc[r] = "session" /\ Answer(r)
  /\ \/ Who(r) \notin users /\ UNCHANGED <<fails, hurt>>
     \/ Who(r) \in users /\ Fail /\ hurt' = hurt \cup {Who(r)}
  /\ UNCHANGED <<org, users, passkey, invite, expired, setup, full, boot, crashes, raced>>

Step(r) ==
  \/ LookupUser(r) \/ CreateUser(r) \/ CreateUserFails(r) \/ AcceptInvite(r)
  \/ CreateSession(r) \/ CreateSessionFails(r)

-----------------------------------------------------------------------------
(* Administrators, who have a full session, and the other users.           *)

CreateInvite(i) ==
  /\ boot = "up" /\ invite[i] = "none" /\ \E e \in users : full[e] > 0
  /\ invite' = [invite EXCEPT ![i] = "pending"]
  /\ UNCHANGED <<org, users, passkey, expired, setup, full, boot, pc, inv, bounds, raced, hurt>>

LosesWayIn(i) == IF invite[i] = "pending" THEN {EmailOf[i]} ELSE {}

\* Whatever the status.
RevokeInvite(i) ==
  /\ boot = "up" /\ invite[i] \in Live /\ \E e \in users : full[e] > 0
  /\ invite' = [invite EXCEPT ![i] = "revoked"]
  /\ raced' = IF Holding(i) # {} THEN raced \cup {i} ELSE raced
  /\ hurt' = hurt \cup LosesWayIn(i)
  /\ UNCHANGED <<org, users, passkey, expired, setup, full, boot, pc, inv, bounds>>

\* CleanupExpiredInvites has no caller: the status stays.
Expire(i) ==
  /\ invite[i] \in Live /\ i \notin expired
  /\ expired' = expired \cup {i} /\ hurt' = hurt \cup LosesWayIn(i)
  /\ UNCHANGED <<org, users, passkey, invite, setup, full, boot, pc, inv, bounds, raced>>

\* HandlePasskeyRegisterFinish with a session for the setup; with a passkey it answers 409.
RegisterPasskey(e) ==
  /\ boot = "up" /\ setup[e] > 0 /\ e \notin passkey
  /\ passkey' = passkey \cup {e}
  /\ setup' = [setup EXCEPT ![e] = @ - 1] /\ full' = [full EXCEPT ![e] = @ + 1]
  /\ UNCHANGED <<org, users, invite, expired, boot, pc, inv, bounds, raced, hurt>>

LoginPasskey(e) ==
  /\ boot = "up" /\ e \in passkey /\ MoreSessions
  /\ full' = [full EXCEPT ![e] = @ + 1]
  /\ UNCHANGED <<org, users, passkey, invite, expired, setup, boot, pc, inv, bounds, raced, hurt>>

\* A log-out, or the removal of a session that has expired.
EndSession(e) ==
  /\ boot = "up"
  /\ \/ /\ setup[e] > 0 /\ setup' = [setup EXCEPT ![e] = @ - 1]
        /\ hurt' = hurt \cup {e} /\ UNCHANGED full
     \/ /\ full[e] > 0 /\ full' = [full EXCEPT ![e] = @ - 1]
        /\ UNCHANGED <<setup, hurt>>
  /\ UNCHANGED <<org, users, passkey, invite, expired, boot, pc, inv, bounds, raced>>

\* Users, credentials and invites go by cascade; a session has no cascade and
\* keeps its user, and with it the organization.
DeleteOrganization ==
  /\ boot = "up" /\ org /\ \A e \in Email : setup[e] = 0 /\ full[e] = 0
  /\ org' = FALSE /\ users' = {} /\ passkey' = {} /\ hurt' = {}
  /\ invite' = [i \in Invite |-> IF invite[i] = "none" THEN "none" ELSE "gone"]
  /\ UNCHANGED <<expired, setup, full, boot, pc, inv, bounds, raced>>

\* Between the end of the invite and the session a user loses the way in.
Crash ==
  /\ boot # "down" /\ crashes < MaxCrash /\ crashes' = crashes + 1 /\ boot' = "down"
  /\ pc' = [r \in Request |-> "idle"] /\ inv' = [r \in Request |-> None]
  /\ hurt' = hurt \cup {Who(r) : r \in {q \in Request : pc[q] = "session"}}
                  \cup (IF boot = "invite" THEN {Admin} ELSE {})
  /\ UNCHANGED <<org, users, passkey, invite, expired, setup, full, fails, raced>>

-----------------------------------------------------------------------------
BootStep ==
  CountUsers \/ DefaultOrg \/ CreateAdmin \/ BootFails \/ \E i \in Invite : BootInvite(i)

Next ==
  \/ BootStep \/ Crash \/ DeleteOrganization
  \/ \E r \in Request : Step(r) \/ \E i \in Invite : ReadInvite(r, i)
  \/ \E i \in Invite : CreateInvite(i) \/ RevokeInvite(i) \/ Expire(i)
  \/ \E e \in Email : RegisterPasskey(e) \/ LoginPasskey(e) \/ EndSession(e)

Spec == Init /\ [][Next]_vars
-----------------------------------------------------------------------------
TypeOK ==
  /\ org \in BOOLEAN /\ users \in SUBSET Email /\ passkey \in SUBSET Email
  /\ invite \in [Invite -> {"none", "gone"} \cup Live]
  /\ expired \in SUBSET Invite /\ raced \in SUBSET Invite /\ hurt \in SUBSET Email
  /\ setup \in [Email -> Nat] /\ full \in [Email -> Nat]
  /\ boot \in {"down", "org", "user", "invite", "up"}
  /\ pc \in [Request -> {"idle", "lookup", "create", "accept", "session"}]
  /\ inv \in [Request -> Invite \cup {None}]
  /\ \A r \in Request : inv[r] = None <=> pc[r] = "idle"
  /\ fails \in 0..MaxFail /\ crashes \in 0..MaxCrash

(***************************************************************************)
(* The organization of a user exists, and the user got there by an invite  *)
(* that still has its row, or is the bootstrap's administrator: also when  *)
(* the organization is deleted while a finalization that has read the      *)
(* invite is about to create the user.                                     *)
(***************************************************************************)
MembersWereInvited ==
  \A e \in users : /\ org
                   /\ e = Admin \/ \E i \in Invite : EmailOf[i] = e /\ invite[i] \in Live

(***************************************************************************)
(* An accepted invite has made its email a user, with several invites of   *)
(* one email finalized at once, failing in between, and the organization   *)
(* deleted under them.                                                     *)
(***************************************************************************)
AcceptedMeansMember ==
  \A i \in Invite : invite[i] = "accepted" => EmailOf[i] \in users

(***************************************************************************)
(* A revoked invite is never accepted again, by a request that was sent    *)
(* before or after, unless a finalization had read it when it was revoked, *)
(* which the code has no guard against.                                    *)
(***************************************************************************)
RevocationLasts ==
  [][\A i \in Invite : invite[i] = "revoked" /\ i \notin raced
                          => invite'[i] \in {"revoked", "gone"}]_vars

(***************************************************************************)
(* A user without a passkey has a way to register one: an invite that      *)
(* is pending, a finalization that will give a session, or such a session. *)
(* It is lost only by a revocation, an expiry, the end of the session, a   *)
(* session that could not be stored after the invite was accepted, and a   *)
(* stop or an error between the bootstrap's user and its invite: `hurt`    *)
(* names exactly these.                                                    *)
(***************************************************************************)
NobodyStranded ==
  \A e \in users \ (passkey \cup hurt) :
     \/ setup[e] > 0
     \/ e = Admin /\ boot = "invite"
     \/ \E i \in Invite : /\ EmailOf[i] = e
                          /\ invite[i] = "pending" \/ \E r \in Holding(i) : pc[r] = "session"

-----------------------------------------------------------------------------
(* The inductive invariant.  A finalization has read an invite that was    *)
(* pending; since then it may have been accepted, revoked or have gone     *)
(* with the organization.                                                  *)

RequestInv(r) ==
  pc[r] # "idle" =>
    /\ boot = "up" /\ invite[inv[r]] # "none"
    /\ invite[inv[r]] = "gone" => ~org
    /\ invite[inv[r]] = "revoked" => inv[r] \in raced
    /\ pc[r] \in {"accept", "session"} => Who(r) \in users \/ invite[inv[r]] = "gone"

BootInv == boot \in {"user", "invite"} => org

InvitesInv ==
  /\ TypeOK /\ MembersWereInvited /\ AcceptedMeansMember /\ BootInv
  /\ \A r \in Request : RequestInv(r)

\* An invite that was revoked under a request whose user is still to be made
\* has cost the user its way in.
WayInv ==
  \A r \in Request : pc[r] \in {"lookup", "create"} /\ invite[inv[r]] = "revoked"
                      => Who(r) \in users \cup hurt
=============================================================================
