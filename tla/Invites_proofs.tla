--------------------------- MODULE Invites_proofs ---------------------------
(***************************************************************************)
(* The invariants of Invites, for any emails, invites and requests.        *)
(***************************************************************************)
EXTENDS Invites, TLAPS

USE InviteAssumption

Outside ==
  \/ Crash \/ DeleteOrganization
  \/ \E i \in Invite : CreateInvite(i) \/ RevokeInvite(i) \/ Expire(i)
  \/ \E e \in Email : RegisterPasskey(e) \/ LoginPasskey(e) \/ EndSession(e)

-----------------------------------------------------------------------------
LEMMA InvitesInit == Init => InvitesInv
<1> SUFFICES ASSUME Init PROVE InvitesInv
  OBVIOUS
<1>1. TypeOK
  <2>1. fails \in 0..MaxFail /\ crashes \in 0..MaxCrash
    BY DEF Init
  <2> QED
    BY <2>1 DEF Init, TypeOK, Live
<1>2. MembersWereInvited /\ AcceptedMeansMember /\ BootInv /\ \A r \in Request : RequestInv(r)
  BY DEF Init, MembersWereInvited, AcceptedMeansMember, BootInv, RequestInv
<1> QED
  BY <1>1, <1>2 DEF InvitesInv

LEMMA BootTypes == ASSUME TypeOK, BootStep PROVE TypeOK'
<1> USE DEF TypeOK, Fail, Live, bounds
<1>1. CASE CountUsers \/ DefaultOrg \/ CreateAdmin
  BY <1>1 DEF CountUsers, DefaultOrg, CreateAdmin
<1>2. CASE BootFails
  BY <1>2 DEF BootFails
<1>3. CASE \E i \in Invite : BootInvite(i)
  BY <1>3 DEF BootInvite
<1> QED
  BY <1>1, <1>2, <1>3 DEF BootStep

LEMMA RequestTypes ==
  ASSUME TypeOK, NEW r \in Request, Step(r) \/ \E i \in Invite : ReadInvite(r, i)
  PROVE  TypeOK'
<1> USE DEF TypeOK, Goto, Answer, Fail, Who, Live, bounds
<1>0. pc[r] # "idle" => inv[r] \in Invite /\ Who(r) \in Email
  OBVIOUS
<1>1. CASE \E i \in Invite : ReadInvite(r, i)
  BY <1>1 DEF ReadInvite
<1>2. CASE LookupUser(r) \/ CreateUser(r) \/ CreateUserFails(r)
  BY <1>0, <1>2 DEF LookupUser, CreateUser, CreateUserFails
<1>3. CASE AcceptInvite(r)
  BY <1>0, <1>3 DEF AcceptInvite
<1>4. CASE CreateSession(r) \/ CreateSessionFails(r)
  BY <1>0, <1>4 DEF CreateSession, CreateSessionFails, AddSession
<1> QED
  BY <1>1, <1>2, <1>3, <1>4 DEF Step

LEMMA OutsideTypes == ASSUME TypeOK, Outside PROVE TypeOK'
<1> USE DEF TypeOK, Live, bounds
<1>1. CASE Crash
  <2>1. \A r \in Request : pc[r] = "session" => Who(r) \in Email
    BY DEF Who
  <2> QED
    BY <1>1, <2>1 DEF Crash
<1>2. CASE DeleteOrganization
  BY <1>2 DEF DeleteOrganization
<1>3. CASE \E i \in Invite : CreateInvite(i) \/ RevokeInvite(i) \/ Expire(i)
  BY <1>3 DEF CreateInvite, RevokeInvite, Expire, LosesWayIn
<1>4. CASE \E e \in Email : RegisterPasskey(e) \/ LoginPasskey(e) \/ EndSession(e)
  BY <1>4 DEF RegisterPasskey, LoginPasskey, EndSession
<1> QED
  BY <1>1, <1>2, <1>3, <1>4 DEF Outside

-----------------------------------------------------------------------------
LEMMA BootKeeps == ASSUME InvitesInv, BootStep PROVE InvitesInv'
<1> USE DEF InvitesInv, TypeOK, BootInv, Live, Fail, bounds
<1>1. \A r \in Request : pc[r] = "idle" /\ pc'[r] = "idle"
  BY DEF BootStep, CountUsers, DefaultOrg, CreateAdmin, BootInvite, BootFails, RequestInv
<1>2. TypeOK'
  BY BootTypes
<1>3. MembersWereInvited'
  BY DEF BootStep, CountUsers, DefaultOrg, CreateAdmin, BootInvite, BootFails, MembersWereInvited
<1>4. AcceptedMeansMember' /\ BootInv'
  BY DEF BootStep, CountUsers, DefaultOrg, CreateAdmin, BootInvite, BootFails, AcceptedMeansMember
<1> QED
  BY <1>1, <1>2, <1>3, <1>4 DEF RequestInv

LEMMA RequestKeeps ==
  ASSUME InvitesInv, NEW r \in Request, Step(r) \/ \E i \in Invite : ReadInvite(r, i)
  PROVE  InvitesInv'
<1> USE DEF InvitesInv, TypeOK, Goto, Answer, Who, Live
<1>1. TypeOK'
  BY RequestTypes
<1>2. CASE \E i \in Invite : ReadInvite(r, i)
  BY <1>1, <1>2 DEF ReadInvite, Usable, MembersWereInvited, AcceptedMeansMember, BootInv, RequestInv
<1>3. CASE LookupUser(r) \/ CreateUserFails(r)
  BY <1>1, <1>3 DEF LookupUser, CreateUserFails, Fail, MembersWereInvited, AcceptedMeansMember,
                    BootInv, RequestInv
<1>4. CASE CreateUser(r)
  BY <1>1, <1>4 DEF CreateUser, MayInsertUser, MembersWereInvited, AcceptedMeansMember,
                    BootInv, RequestInv
<1>5. CASE AcceptInvite(r)
  <2>1. inv[r] \in Invite /\ RequestInv(r)
    BY <1>5 DEF AcceptInvite
  <2>2. UNCHANGED <<org, users, boot, inv, raced>> /\ pc[r] = "accept"
    BY <1>5 DEF AcceptInvite
  <2>3. \A i \in Invite : \/ invite'[i] = invite[i]
                          \/ i = inv[r] /\ invite[i] # "gone" /\ invite'[i] = "accepted"
    BY <1>5, <2>1 DEF AcceptInvite
  <2>4. \A q \in Request : \/ pc'[q] = pc[q]
                           \/ q = r /\ pc'[q] = "session"
    BY <1>5 DEF AcceptInvite
  <2>5. MembersWereInvited' /\ AcceptedMeansMember' /\ BootInv'
    BY <2>1, <2>2, <2>3 DEF MembersWereInvited, AcceptedMeansMember, BootInv, RequestInv
  <2>6. ASSUME NEW q \in Request PROVE RequestInv(q)'
    BY <2>1, <2>2, <2>3, <2>4 DEF RequestInv
  <2> QED
    BY <1>1, <2>5, <2>6
<1>6. CASE CreateSession(r) \/ CreateSessionFails(r)
  BY <1>1, <1>6 DEF CreateSession, CreateSessionFails, MembersWereInvited, AcceptedMeansMember,
                    BootInv, RequestInv
<1> QED
  BY <1>2, <1>3, <1>4, <1>5, <1>6 DEF Step

LEMMA OutsideKeeps == ASSUME InvitesInv, Outside PROVE InvitesInv'
<1> USE DEF InvitesInv, TypeOK, Who, Live
<1>1. TypeOK'
  BY OutsideTypes
<1>2. CASE Crash
  BY <1>1, <1>2 DEF Crash, MembersWereInvited, AcceptedMeansMember, BootInv, RequestInv
<1>3. CASE DeleteOrganization
  BY <1>1, <1>3 DEF DeleteOrganization, MembersWereInvited, AcceptedMeansMember, BootInv, RequestInv, bounds
<1>4. CASE \E i \in Invite : CreateInvite(i)
  BY <1>1, <1>4 DEF CreateInvite, MembersWereInvited, AcceptedMeansMember, BootInv, RequestInv, bounds
<1>5. CASE \E i \in Invite : RevokeInvite(i)
  <2> PICK i \in Invite : RevokeInvite(i)
    BY <1>5
  <2>1. UNCHANGED <<org, users, boot, pc, inv>> /\ invite[i] \in Live
    BY DEF RevokeInvite
  <2>2. invite' = [invite EXCEPT ![i] = "revoked"]
    BY DEF RevokeInvite
  <2>3. raced \subseteq raced' /\ \A q \in Request : pc[q] # "idle" /\ inv[q] = i => i \in raced'
    BY DEF RevokeInvite, Holding, Running
  <2>4. MembersWereInvited' /\ AcceptedMeansMember' /\ BootInv'
    BY <2>1, <2>2 DEF MembersWereInvited, AcceptedMeansMember, BootInv
  <2>5. ASSUME NEW q \in Request PROVE RequestInv(q)'
    BY <2>1, <2>2, <2>3 DEF RequestInv
  <2> QED
    BY <1>1, <2>4, <2>5
<1>6. CASE \/ \E i \in Invite : Expire(i)
           \/ \E e \in Email : RegisterPasskey(e) \/ LoginPasskey(e) \/ EndSession(e)
  BY <1>1, <1>6 DEF Expire, RegisterPasskey, LoginPasskey, EndSession, MembersWereInvited,
                    AcceptedMeansMember, BootInv, RequestInv, bounds
<1> QED
  BY <1>2, <1>3, <1>4, <1>5, <1>6 DEF Outside

LEMMA StutterKeeps == ASSUME InvitesInv, UNCHANGED vars PROVE InvitesInv'
BY DEF vars, bounds, InvitesInv, TypeOK, MembersWereInvited, AcceptedMeansMember, BootInv,
       RequestInv, Who, Live

-----------------------------------------------------------------------------
(***************************************************************************)
(* The invariant holds in every state: a finalization under way holds an   *)
(* invite that exists or has gone with the organization.                   *)
(***************************************************************************)
THEOREM InvitesInvariant == Spec => []InvitesInv
<1>1. InvitesInv /\ [Next]_vars => InvitesInv'
  BY BootKeeps, RequestKeeps, OutsideKeeps, StutterKeeps DEF Next, Outside
<1> QED
  BY InvitesInit, <1>1, PTL DEF Spec

(***************************************************************************)
(* Every variable keeps its type.                                          *)
(***************************************************************************)
THEOREM InviteTypes == Spec => []TypeOK
BY InvitesInvariant, PTL DEF InvitesInv

(***************************************************************************)
(* Every user was invited, whatever is finalized, deleted or restarted at  *)
(* the same time.                                                          *)
(***************************************************************************)
THEOREM UsersWereInvited == Spec => []MembersWereInvited
BY InvitesInvariant, PTL DEF InvitesInv

(***************************************************************************)
(* An accepted invite has made its email a user, whichever statements      *)
(* failed.                                                                 *)
(***************************************************************************)
THEOREM AcceptedAreUsers == Spec => []AcceptedMeansMember
BY InvitesInvariant, PTL DEF InvitesInv

LEMMA RevokedStep ==
  ASSUME InvitesInv, [Next]_vars,
         NEW i \in Invite, invite[i] = "revoked", i \notin raced
  PROVE  invite'[i] \in {"revoked", "gone"}
<1> USE DEF InvitesInv, TypeOK
<1>1. CASE \E r \in Request : AcceptInvite(r)
  BY <1>1 DEF AcceptInvite, RequestInv
<1>2. CASE \E j \in Invite : CreateInvite(j) \/ RevokeInvite(j) \/ BootInvite(j)
  BY <1>2 DEF CreateInvite, RevokeInvite, BootInvite
<1>3. CASE DeleteOrganization
  BY <1>3 DEF DeleteOrganization
<1>4. CASE UNCHANGED invite
  BY <1>4
<1>5. (\E r \in Request : Step(r) \/ \E j \in Invite : ReadInvite(r, j))
         => UNCHANGED invite \/ \E r \in Request : AcceptInvite(r)
  BY DEF Step, ReadInvite, LookupUser, CreateUser, CreateUserFails, CreateSession, CreateSessionFails
<1>6. BootStep => UNCHANGED invite \/ \E j \in Invite : BootInvite(j)
  BY DEF BootStep, CountUsers, DefaultOrg, CreateAdmin, BootFails
<1>7. Crash \/ (\E e \in Email : RegisterPasskey(e) \/ LoginPasskey(e) \/ EndSession(e))
            \/ (\E j \in Invite : Expire(j)) \/ UNCHANGED vars
        => UNCHANGED invite
  BY DEF Crash, RegisterPasskey, LoginPasskey, EndSession, Expire, vars
<1> QED
  BY <1>1, <1>2, <1>3, <1>4, <1>5, <1>6, <1>7 DEF Next

(***************************************************************************)
(* No request accepts an invite that was revoked before the request read   *)
(* it, for any number of requests.                                         *)
(***************************************************************************)
THEOREM RevokedInvitesStay == Spec => RevocationLasts
<1>1. InvitesInv /\ [Next]_vars
        => [\A i \in Invite : invite[i] = "revoked" /\ i \notin raced
                                 => invite'[i] \in {"revoked", "gone"}]_vars
  BY RevokedStep
<1> QED
  BY InvitesInvariant, <1>1, PTL DEF Spec, RevocationLasts

-----------------------------------------------------------------------------
(* The way in.  InvitesInv does not mention it, and is not needed after a  *)
(* step: each action is looked at from the state before it.                *)

LEMMA WayInit == Init => NobodyStranded /\ WayInv
BY DEF Init, NobodyStranded, WayInv

LEMMA BootWay ==
  ASSUME InvitesInv, NobodyStranded, WayInv, BootStep
  PROVE  NobodyStranded' /\ WayInv'
<1> USE DEF InvitesInv, TypeOK, Holding, Running, Who
<1>1. \A r \in Request : pc[r] = "idle" /\ pc'[r] = "idle"
  BY DEF BootStep, CountUsers, DefaultOrg, CreateAdmin, BootInvite, BootFails, RequestInv
<1>2. CASE CountUsers \/ DefaultOrg \/ CreateAdmin
  BY <1>1, <1>2 DEF CountUsers, DefaultOrg, CreateAdmin, NobodyStranded, WayInv
<1>3. CASE BootFails
  BY <1>1, <1>3 DEF BootFails, NobodyStranded, WayInv
<1>4. CASE \E i \in Invite : BootInvite(i)
  BY <1>1, <1>4 DEF BootInvite, NobodyStranded, WayInv
<1> QED
  BY <1>2, <1>3, <1>4 DEF BootStep

LEMMA RequestWay ==
  ASSUME InvitesInv, NobodyStranded, WayInv,
         NEW r \in Request, Step(r) \/ \E i \in Invite : ReadInvite(r, i)
  PROVE  NobodyStranded' /\ WayInv'
<1> USE DEF InvitesInv, TypeOK, Goto, Answer, Who, Live, Holding, Running
<1>1. CASE \E i \in Invite : ReadInvite(r, i)
  BY <1>1 DEF ReadInvite, Usable, NobodyStranded, WayInv
<1>2. CASE LookupUser(r) \/ CreateUserFails(r)
  BY <1>2 DEF LookupUser, CreateUserFails, NobodyStranded, WayInv
<1>3. CASE CreateUser(r)
  <2>1. inv[r] \in Invite /\ EmailOf[inv[r]] = Who(r) /\ Who(r) \notin users /\ org
    BY <1>3 DEF CreateUser, MayInsertUser
  <2>2. invite[inv[r]] = "pending" \/ Who(r) \in hurt
    BY <1>3, <2>1 DEF CreateUser, RequestInv, AcceptedMeansMember, WayInv
  <2> QED
    BY <1>3, <2>1, <2>2 DEF CreateUser, NobodyStranded, WayInv
<1>4. CASE AcceptInvite(r)
  <2>1. inv[r] \in Invite /\ pc[r] = "accept" /\ pc' = [pc EXCEPT ![r] = "session"]
    BY <1>4 DEF AcceptInvite
  <2>2. UNCHANGED <<users, passkey, hurt, setup, boot, inv>>
    BY <1>4 DEF AcceptInvite
  <2>3. \A i \in Invite : i # inv[r] => invite'[i] = invite[i]
    BY <1>4, <2>1 DEF AcceptInvite
  <2>4. invite'[inv[r]] = "revoked" => invite[inv[r]] = "revoked"
    BY <1>4, <2>1 DEF AcceptInvite
  <2> QED
    BY <2>1, <2>2, <2>3, <2>4 DEF NobodyStranded, WayInv
<1>5. CASE CreateSession(r)
  BY <1>5 DEF CreateSession, AddSession, NobodyStranded, WayInv
<1>6. CASE CreateSessionFails(r)
  BY <1>6 DEF CreateSessionFails, NobodyStranded, WayInv
<1> QED
  BY <1>1, <1>2, <1>3, <1>4, <1>5, <1>6 DEF Step

LEMMA OutsideWay ==
  ASSUME InvitesInv, NobodyStranded, WayInv, Outside
  PROVE  NobodyStranded' /\ WayInv'
<1> USE DEF InvitesInv, TypeOK, Who, Live, Holding, Running
<1>1. CASE Crash
  BY <1>1 DEF Crash, NobodyStranded, WayInv
<1>2. CASE DeleteOrganization
  BY <1>2 DEF DeleteOrganization, NobodyStranded, WayInv
<1>3. CASE \E i \in Invite : CreateInvite(i)
  BY <1>3 DEF CreateInvite, NobodyStranded, WayInv
<1>4. CASE \E i \in Invite : RevokeInvite(i)
  <2> PICK i \in Invite : RevokeInvite(i)
    BY <1>4
  <2>1. UNCHANGED <<users, passkey, setup, boot, pc, inv>> /\ invite[i] \in Live
    BY DEF RevokeInvite
  <2>2. invite' = [invite EXCEPT ![i] = "revoked"]
    BY DEF RevokeInvite
  <2>3. hurt \subseteq hurt' /\ (invite[i] = "pending" => EmailOf[i] \in hurt')
    BY DEF RevokeInvite, LosesWayIn
  <2>4. invite[i] = "accepted" => EmailOf[i] \in users
    BY DEF AcceptedMeansMember
  <2>5. NobodyStranded'
    BY <2>1, <2>2, <2>3 DEF NobodyStranded
  <2>6. WayInv'
    BY <2>1, <2>2, <2>3, <2>4 DEF WayInv
  <2> QED
    BY <2>5, <2>6
<1>5. CASE \E i \in Invite : Expire(i)
  BY <1>5 DEF Expire, NobodyStranded, WayInv
<1>6. CASE \E e \in Email : RegisterPasskey(e) \/ LoginPasskey(e)
  BY <1>6 DEF RegisterPasskey, LoginPasskey, NobodyStranded, WayInv
<1>7. CASE \E e \in Email : EndSession(e)
  BY <1>7 DEF EndSession, NobodyStranded, WayInv
<1> QED
  BY <1>1, <1>2, <1>3, <1>4, <1>5, <1>6, <1>7 DEF Outside

LEMMA StutterWay ==
  ASSUME NobodyStranded, WayInv, UNCHANGED vars PROVE NobodyStranded' /\ WayInv'
BY DEF vars, bounds, NobodyStranded, WayInv, Holding, Running, Who

(***************************************************************************)
(* A user without a passkey has a way to one, unless a revocation, an      *)
(* expiry, the end of a session or one of the named failures took it:      *)
(* no interleaving of finalizations does.                                  *)
(***************************************************************************)
THEOREM NobodyLosesTheWay == Spec => []NobodyStranded
<1>1. InvitesInv /\ NobodyStranded /\ WayInv /\ [Next]_vars => NobodyStranded' /\ WayInv'
  BY BootWay, RequestWay, OutsideWay, StutterWay DEF Next, Outside
<1> QED
  BY InvitesInvariant, WayInit, <1>1, PTL DEF Spec
=============================================================================
