--------------------------- MODULE Passkeys_proofs ---------------------------
(***************************************************************************)
(* Proofs about Passkeys: its invariant, and that the ceremonies implement *)
(* PasskeyAccess, for any number of users, sessions, ceremonies and        *)
(* requests.  The invariant says what a request has established by the     *)
(* step it is at, and what of it is void once the users were removed.      *)
(***************************************************************************)
EXTENDS Passkeys, TLAPS

Live(s) == sess[s] \in {"setup", "full"}

\* Ceremonies that were begun have a user; credentials are users'.
CeremoniesSound ==
  \A k \in Ceremony : /\ kind[k] # "none" <=> ref[k] # None
                      /\ rows[k] > 0 => ref[k] \in users
                      /\ count[k] <= signed[k]

SessionsSound ==
  \A s \in Session : /\ Live(s) => holder[s] \in users
                     /\ sess[s] = "full" => \E k \in Ceremony : ref[k] = holder[s] /\ rows[k] > 0

FlagsSound == \A u \in users \ needs : \E k \in Ceremony : ref[k] = u /\ rows[k] > 0

\* What each step of a request finds.
AtStep(p) ==
  /\ pc[p] = "idle" => by[p] = None /\ with[p] = None
  /\ pc[p] # "idle" => cer[p] # None
  /\ cer[p] # None => ref[cer[p]] # None
  /\ by[p] # None => sess[by[p]] # "none"
  /\ with[p] # None => ref[with[p]] # None /\ sign[p] <= signed[with[p]]
  /\ pc[p] \in {"count", "flag", "user", "add", "mark", "clear"} => by[p] # None
  /\ pc[p] \in {"take", "drop"} /\ by[p] = None => with[p] # None
  /\ pc[p] \in {"load", "store", "session"} => with[p] # None
  /\ pc[p] \in {"add", "mark", "clear"} => ref[cer[p]] = holder[by[p]]
  /\ pc[p] \in {"mark", "clear"} => (holder[by[p]] \in users => rows[cer[p]] > 0)
  /\ pc[p] \in {"store", "session"} => (ref[with[p]] \in users => rows[with[p]] > 0)

RequestsSound == \A p \in Request : AtStep(p)

PasskeysInv == TypeOK /\ CeremoniesSound /\ SessionsSound /\ FlagsSound /\ RequestsSound

LEMMA PasskeysInit == Init => PasskeysInv
  BY PasskeyAssumption DEF Init, PasskeysInv, TypeOK, CeremoniesSound, SessionsSound, FlagsSound,
     RequestsSound, AtStep, Live

(***************************************************************************)
(* The steps of a request.                                                 *)
(***************************************************************************)
LEMMA RequestStep ==
  ASSUME PasskeysInv, NEW p \in Request, Step(p)
  PROVE  PasskeysInv'
<1> USE PasskeyAssumption DEF PasskeysInv, TypeOK, Fail, Goto, Answer, Registering
<1>1. CASE CountCredentials(p)
  BY <1>1 DEF CountCredentials, CeremoniesSound, SessionsSound, FlagsSound, RequestsSound, AtStep, Live
<1>2. CASE CheckFlag(p)
  BY <1>2 DEF CheckFlag, CeremoniesSound, SessionsSound, FlagsSound, RequestsSound, AtStep, Live
<1>3. CASE FindUser(p)
  BY <1>3 DEF FindUser, CeremoniesSound, SessionsSound, FlagsSound, RequestsSound, AtStep, Live
<1>4. CASE TakeCeremony(p)
  BY <1>4 DEF TakeCeremony, CeremoniesSound, SessionsSound, FlagsSound, RequestsSound, AtStep, Live
<1>5. CASE DropCeremony(p)
  <2>1. CASE Answer(p)
    BY <1>5, <2>1 DEF DropCeremony, CeremoniesSound, SessionsSound, FlagsSound, RequestsSound,
       AtStep, Live
  <2>2. CASE Goto(p, "load") \/ (Verifies(p) /\ Goto(p, "add"))
    BY <1>5, <2>2 DEF DropCeremony, Verifies, CeremoniesSound, SessionsSound, FlagsSound,
       RequestsSound, AtStep, Live
  <2> QED
    BY <1>5, <2>1, <2>2 DEF DropCeremony
<1>6. CASE AddCredential(p)
  <2>1. CASE rows' = rows
    BY <1>6, <2>1 DEF AddCredential, CeremoniesSound, SessionsSound, FlagsSound, RequestsSound, AtStep, Live
  <2>2. CASE rows' # rows
    <3>1. /\ cer[p] \in Ceremony /\ by[p] \in Session
          /\ holder[by[p]] \in users /\ ref[cer[p]] = holder[by[p]]
          /\ rows' = [rows EXCEPT ![cer[p]] = @ + 1] /\ pc' = [pc EXCEPT ![p] = "mark"]
          /\ UNCHANGED <<users, needs, kind, ref, expired, count, signed, sess, holder,
                         by, cer, with, sign, fails>>
      BY <1>6, <2>2 DEF AddCredential, RequestsSound, AtStep
    <3>2. \A k \in Ceremony : rows[k] > 0 => rows'[k] > 0
      BY <3>1
    <3>3. rows'[cer[p]] > 0
      BY <3>1
    <3>4. TypeOK'
      BY <3>1
    <3>5. CeremoniesSound' /\ SessionsSound' /\ FlagsSound'
      BY <3>1, <3>2 DEF CeremoniesSound, SessionsSound, FlagsSound, Live
    <3>6. ASSUME NEW q \in Request PROVE AtStep(q)'
      BY <3>1, <3>2, <3>3 DEF RequestsSound, AtStep
    <3> QED
      BY <3>4, <3>5, <3>6 DEF RequestsSound
  <2> QED
    BY <2>1, <2>2
<1>7. CASE MarkComplete(p)
  BY <1>7 DEF MarkComplete, CeremoniesSound, SessionsSound, FlagsSound, RequestsSound, AtStep, Live
<1>8. CASE ClearSetup(p)
  BY <1>8 DEF ClearSetup, CeremoniesSound, SessionsSound, FlagsSound, RequestsSound, AtStep, Live
<1>9. CASE LoadUser(p)
  <2>1. CASE Answer(p)
    BY <1>9, <2>1 DEF LoadUser, CeremoniesSound, SessionsSound, FlagsSound, RequestsSound,
       AtStep, Live
  <2>2. CASE ~Answer(p)
    BY <1>9, <2>2 DEF LoadUser, NewCount, Higher, CeremoniesSound, SessionsSound, FlagsSound,
       RequestsSound, AtStep, Live
  <2> QED
    BY <2>1, <2>2
<1>10. CASE StoreCount(p)
  BY <1>10 DEF StoreCount, CeremoniesSound, SessionsSound, FlagsSound, RequestsSound, AtStep, Live
<1>11. CASE GiveSessionFails(p)
  BY <1>11 DEF GiveSessionFails, CeremoniesSound, SessionsSound, FlagsSound, RequestsSound, AtStep, Live
<1>12. ASSUME NEW s \in Session, GiveSession(p, s)
       PROVE  PasskeysInv'
  BY <1>12 DEF GiveSession, CeremoniesSound, SessionsSound, FlagsSound, RequestsSound, AtStep, Live
<1> QED
  BY <1>1, <1>2, <1>3, <1>4, <1>5, <1>6, <1>7, <1>8, <1>9, <1>10, <1>11, <1>12 DEF Step

(***************************************************************************)
(* Beginnings, ends and removals.                                          *)
(***************************************************************************)
LEMMA OtherStep ==
  ASSUME PasskeysInv,
         \/ \E k \in Ceremony : \/ Expire(k)
                                \/ \E u \in User : LoginBegin(k, u)
                                \/ \E s \in Session : RegisterBegin(k, s)
         \/ \E s \in Session : DestroySession(s) \/ \E u \in User : SetupSession(s, u)
         \/ \E p \in Request, k \in Ceremony :
               (\E c \in Ceremony : LoginFinish(p, k, c)) \/ \E s \in Session : RegisterFinish(p, k, s)
         \/ RemoveUsers
         \/ UNCHANGED vars
  PROVE  PasskeysInv'
<1> USE PasskeyAssumption DEF PasskeysInv, TypeOK, request
<1>1. CASE \E k \in Ceremony : Expire(k)
  BY <1>1 DEF Expire, CeremoniesSound, SessionsSound, FlagsSound, RequestsSound, AtStep, Live
<1>2. CASE \E k \in Ceremony : \/ \E u \in User : LoginBegin(k, u)
                               \/ \E s \in Session : RegisterBegin(k, s)
  BY <1>2 DEF LoginBegin, RegisterBegin, BeginCeremony, CeremoniesSound, SessionsSound, FlagsSound,
     RequestsSound, AtStep, Live
<1>3. CASE \E s \in Session : DestroySession(s) \/ \E u \in User : SetupSession(s, u)
  BY <1>3 DEF DestroySession, SetupSession, CeremoniesSound, SessionsSound, FlagsSound,
     RequestsSound, AtStep, Live
<1>4. CASE \E p \in Request, k \in Ceremony, c \in Ceremony : LoginFinish(p, k, c)
  BY <1>4 DEF LoginFinish, CeremoniesSound, SessionsSound, FlagsSound, RequestsSound, AtStep, Live
<1>5. CASE \E p \in Request, k \in Ceremony, s \in Session : RegisterFinish(p, k, s)
  BY <1>5 DEF RegisterFinish, CeremoniesSound, SessionsSound, FlagsSound, RequestsSound, AtStep, Live
<1>6. CASE RemoveUsers
  BY <1>6 DEF RemoveUsers, MayRemove, CeremoniesSound, SessionsSound, FlagsSound, RequestsSound,
     AtStep, Live
<1>7. CASE UNCHANGED vars
  BY <1>7 DEF vars, CeremoniesSound, SessionsSound, FlagsSound, RequestsSound, AtStep, Live
<1> QED
  BY <1>1, <1>2, <1>3, <1>4, <1>5, <1>6, <1>7

THEOREM PasskeysInvariant == Spec => []PasskeysInv
<1>1. PasskeysInv /\ [Next]_vars => PasskeysInv'
  BY RequestStep, OtherStep DEF Next
<1> QED
  BY PasskeysInit, <1>1, PTL DEF Spec

(***************************************************************************)
(* The variables keep their types, and credentials and live sessions their *)
(* users (auth.go, auth.service.go, db/schema.sql).                        *)
(***************************************************************************)
THEOREM PasskeyTypes == Spec => []TypeOK
<1>1. PasskeysInv => TypeOK
  BY DEF PasskeysInv
<1> QED
  BY PasskeysInvariant, <1>1, PTL

(***************************************************************************)
(* A user whose set-up is marked complete has a credential, with any       *)
(* number of registrations at once.                                        *)
(***************************************************************************)
THEOREM CompleteHasCredential == Spec => []FlagFollows
<1>1. PasskeysInv => FlagFollows
  BY DEF PasskeysInv, TypeOK, FlagsSound, FlagFollows, Enrolled, CredentialsOf
<1> QED
  BY PasskeysInvariant, <1>1, PTL

(***************************************************************************)
(* No interleaving of log-ins stores a sign count above the                *)
(* authenticator's own.                                                    *)
(***************************************************************************)
THEOREM CountBehindAuthenticator == Spec => []SignCountNotAhead
<1>1. PasskeysInv => SignCountNotAhead
  BY DEF PasskeysInv, CeremoniesSound, SignCountNotAhead
<1> QED
  BY PasskeysInvariant, <1>1, PTL

-----------------------------------------------------------------------------
(* The refinement.                                                         *)

LEMMA EnrolledMember ==
  \A u \in User : u \in Enrolled <=> \E k \in Ceremony : ref[k] = u /\ rows[k] > 0
  BY DEF Enrolled, CredentialsOf

LEMMA AccessInit == Init => Access!Init
  BY DEF Init, Access!Init, Enrolled, CredentialsOf, FullAccess

LEMMA SessionsKeepAccess ==
  ASSUME UNCHANGED <<ref, rows, sess, holder>>
  PROVE  UNCHANGED <<Enrolled, FullAccess>>
  BY DEF Enrolled, CredentialsOf, FullAccess

LEMMA AccessRequestStep ==
  ASSUME PasskeysInv, NEW p \in Request, Step(p)
  PROVE  [Access!Next]_<<Enrolled, FullAccess>>
<1> USE PasskeyAssumption DEF PasskeysInv, TypeOK
<1>1. CASE UNCHANGED <<ref, rows, sess, holder>>
  BY <1>1, SessionsKeepAccess
<1>2. CASE AddCredential(p) /\ rows' # rows
  <2>1. /\ cer[p] \in Ceremony /\ by[p] \in Session
        /\ holder[by[p]] \in users /\ ref[cer[p]] = holder[by[p]]
        /\ rows' = [rows EXCEPT ![cer[p]] = @ + 1] /\ UNCHANGED <<ref, sess, holder>>
    BY <1>2 DEF AddCredential, RequestsSound, AtStep
  <2>2. Enrolled' = Enrolled \cup {holder[by[p]]}
    BY <2>1 DEF Enrolled, CredentialsOf
  <2>3. FullAccess' = FullAccess
    BY <2>1 DEF FullAccess
  <2> QED
    BY <2>1, <2>2, <2>3 DEF Access!Next, Access!Enroll
<1>3. CASE ClearSetup(p) /\ sess' # sess
  <2>1. /\ by[p] \in Session /\ cer[p] \in Ceremony /\ sess[by[p]] = "setup"
        /\ sess' = [sess EXCEPT ![by[p]] = "full"] /\ UNCHANGED <<ref, rows, holder, users>>
        /\ rows[cer[p]] > 0 /\ ref[cer[p]] = holder[by[p]] /\ holder[by[p]] \in User
    BY <1>3 DEF ClearSetup, RequestsSound, AtStep, SessionsSound, Live
  <2>2. holder[by[p]] \in Enrolled
    BY <2>1, EnrolledMember
  <2>3. FullAccess' = [FullAccess EXCEPT ![by[p]] = holder[by[p]]] /\ FullAccess[by[p]] = None
    BY <2>1 DEF FullAccess
  <2>4. Enrolled' = Enrolled
    BY <2>1 DEF Enrolled, CredentialsOf
  <2> QED
    BY <2>1, <2>2, <2>3, <2>4 DEF Access!Next, Access!Grant
<1>4. ASSUME NEW s \in Session, GiveSession(p, s)
      PROVE  [Access!Next]_<<Enrolled, FullAccess>>
  <2>1. /\ with[p] \in Ceremony /\ ref[with[p]] \in users /\ rows[with[p]] > 0
        /\ sess' = [sess EXCEPT ![s] = "full"] /\ holder' = [holder EXCEPT ![s] = ref[with[p]]]
        /\ sess[s] = "none" /\ UNCHANGED <<ref, rows>>
    BY <1>4 DEF GiveSession, RequestsSound, AtStep
  <2>2. ref[with[p]] \in Enrolled /\ ref[with[p]] \in User
    BY <2>1, EnrolledMember
  <2>3. FullAccess' = [FullAccess EXCEPT ![s] = ref[with[p]]] /\ FullAccess[s] = None
    BY <2>1 DEF FullAccess
  <2>4. Enrolled' = Enrolled
    BY <2>1 DEF Enrolled, CredentialsOf
  <2> QED
    BY <2>2, <2>3, <2>4 DEF Access!Next, Access!Grant
<1>5. \/ UNCHANGED <<ref, rows, sess, holder>>
      \/ AddCredential(p) /\ rows' # rows
      \/ ClearSetup(p) /\ sess' # sess
      \/ \E s \in Session : GiveSession(p, s)
  BY DEF Step, CountCredentials, CheckFlag, FindUser, TakeCeremony, DropCeremony, AddCredential,
     MarkComplete, ClearSetup, LoadUser, StoreCount, GiveSessionFails
<1> QED
  BY <1>1, <1>2, <1>3, <1>4, <1>5

LEMMA AccessOtherStep ==
  ASSUME PasskeysInv, [Next]_vars, ~\E p \in Request : Step(p)
  PROVE  [Access!Next]_<<Enrolled, FullAccess>>
<1> USE PasskeyAssumption DEF PasskeysInv, TypeOK
<1>1. CASE UNCHANGED <<ref, rows, sess, holder>>
  BY <1>1, SessionsKeepAccess
<1>2. ASSUME NEW k \in Ceremony, NEW what, NEW u, BeginCeremony(k, what, u)
      PROVE  UNCHANGED <<Enrolled, FullAccess>>
  BY <1>2 DEF BeginCeremony, CeremoniesSound, Enrolled, CredentialsOf, FullAccess
<1>3. ASSUME NEW s \in Session, NEW u \in User, SetupSession(s, u)
      PROVE  UNCHANGED <<Enrolled, FullAccess>>
  BY <1>3 DEF SetupSession, Enrolled, CredentialsOf, FullAccess
<1>4. ASSUME NEW s \in Session, DestroySession(s)
      PROVE  Access!Next
  <2>1. Enrolled' = Enrolled
    BY <1>4 DEF DestroySession, Enrolled, CredentialsOf
  <2>2. FullAccess' = [FullAccess EXCEPT ![s] = None]
    BY <1>4 DEF DestroySession, FullAccess
  <2>3. Access!Withdraw(s)
    BY <2>1, <2>2 DEF Access!Withdraw
  <2> QED
    BY <2>3 DEF Access!Next
<1>5. CASE RemoveUsers
  <2>1. Enrolled' = {} /\ FullAccess' = FullAccess
    BY <1>5 DEF RemoveUsers, Enrolled, CredentialsOf, FullAccess
  <2>2. \A s \in Session : FullAccess[s] = None
    BY <1>5 DEF RemoveUsers, MayRemove, FullAccess
  <2>3. Access!Remove(Enrolled)
    BY <2>1, <2>2 DEF Access!Remove, Enrolled
  <2>4. Enrolled \in SUBSET User
    BY DEF Enrolled
  <2> QED
    BY <2>3, <2>4 DEF Access!Next
<1>6. \/ UNCHANGED <<ref, rows, sess, holder>>
      \/ \E k \in Ceremony, what \in {"login", "register"} : \E u : BeginCeremony(k, what, u)
      \/ \E s \in Session : DestroySession(s) \/ \E u \in User : SetupSession(s, u)
      \/ RemoveUsers
  BY DEF Next, vars, Expire, LoginBegin, RegisterBegin, LoginFinish, RegisterFinish
<1> QED
  BY <1>1, <1>2, <1>3, <1>4, <1>5, <1>6

(***************************************************************************)
(* The ceremonies implement PasskeyAccess: every behaviour of the          *)
(* handlers' statements is one in which access follows a credential.       *)
(***************************************************************************)
THEOREM PasskeysImplementAccess == Spec => AccessSpec
<1>1. PasskeysInv /\ [Next]_vars => [Access!Next]_<<Enrolled, FullAccess>>
  BY AccessRequestStep, AccessOtherStep
<1> QED
  BY PasskeysInvariant, AccessInit, <1>1, PTL DEF Spec, AccessSpec, Access!Spec
=============================================================================
