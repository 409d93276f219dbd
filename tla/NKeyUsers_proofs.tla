--------------------------- MODULE NKeyUsers_proofs ---------------------------
(***************************************************************************)
(* The invariants of NKeyUsers, for any keys, organizations and requests.  *)
(***************************************************************************)
EXTENDS NKeyUsers, TLAPS

USE KeyAssumption

Begins(p, k) == CreateKey(p, k) \/ GetNATSPubKey(p, k)

Outside == (\E o \in Org : DeleteOrganization(o)) \/ Crash \/ Restore \/ RestoreFails

-----------------------------------------------------------------------------
LEMMA KeysInit == Init => KeysInv
BY DEF Init, KeysInv, TypeOK, LockInv, CloneInv, OptionsAreCurrent, LockFree, RequestInv,
       LiveKeyHasUser, LiveKeys, InFlight, RevokedKeyHasNoUser

\* The steps of one request, and what begins one.
LEMMA TypeStep ==
  ASSUME KeysInv, NEW p \in Admin, Step(p) \/ \E k \in Key : Begins(p, k)
  PROVE  TypeOK'
<1>1. CASE \E k \in Key : Begins(p, k)
  BY <1>1 DEF KeysInv, TypeOK, Begins, CreateKey, GetNATSPubKey, Fail, Goto, bounds
<1>2. CASE RevokeKey(p) \/ RevokeKeyFails(p) \/ NothingToChange(p)
  BY <1>2 DEF KeysInv, TypeOK, RevokeKey, RevokeKeyFails, NothingToChange, End, Fail, Goto, bounds
<1>3. CASE Clone(p)
  BY <1>3 DEF KeysInv, TypeOK, Clone, LockFree, Changed, Goto, bounds
<1>4. CASE ReloadOptions(p) \/ ReloadOptionsFails(p) \/ KeepOptions(p)
  BY <1>4 DEF KeysInv, TypeOK, ReloadOptions, ReloadOptionsFails, KeepOptions, End, Fail, Goto, bounds
<1> QED
  BY <1>1, <1>2, <1>3, <1>4 DEF Step

LEMMA LockStep ==
  ASSUME KeysInv, NEW p \in Admin, Step(p) \/ \E k \in Key : Begins(p, k)
  PROVE  LockInv' /\ CloneInv' /\ up /\ up'
<1> USE DEF KeysInv, TypeOK, LockInv, CloneInv, OptionsAreCurrent, LockFree
<1>1. CASE \/ \E k \in Key : Begins(p, k)
           \/ RevokeKey(p) \/ RevokeKeyFails(p) \/ NothingToChange(p)
  <2>1. \A q \in Admin \ {p} : /\ pc'[q] = pc[q] /\ key'[q] = key[q] /\ newOpts'[q] = newOpts[q]
                               /\ q \in creating' <=> q \in creating
    <3>1. CASE \E k \in Key : Begins(p, k)
      BY <3>1 DEF Begins, CreateKey, GetNATSPubKey, Goto
    <3>2. CASE RevokeKey(p)
      BY <3>2 DEF RevokeKey, End, Goto
    <3>3. CASE RevokeKeyFails(p) \/ NothingToChange(p)
      BY <3>3 DEF RevokeKeyFails, NothingToChange, End, Goto
    <3> QED
      BY <1>1, <3>1, <3>2, <3>3
  <2>2. /\ pc[p] \notin {"reload", "keep"} /\ pc'[p] \notin {"reload", "keep"}
        /\ UNCHANGED <<opts, users, lock, up>> /\ up
    <3>1. CASE \E k \in Key : Begins(p, k)
      BY <3>1 DEF Begins, CreateKey, GetNATSPubKey, Goto
    <3>2. CASE RevokeKey(p)
      BY <3>2 DEF RevokeKey, End, Goto
    <3>3. CASE RevokeKeyFails(p)
      BY <3>3 DEF RevokeKeyFails, End, Goto
    <3>4. CASE NothingToChange(p)
      BY <3>4 DEF NothingToChange, End, Goto
    <3> QED
      BY <1>1, <3>1, <3>2, <3>3, <3>4
  <2>3. LockInv' /\ up /\ up'
    BY <2>1, <2>2
  <2>4. \A q \in Admin : pc'[q] \in {"reload", "keep"} => q # p /\ Changed(q)' = Changed(q)
    BY <2>1, <2>2 DEF Changed
  <2>5. CloneInv'
    BY <2>1, <2>2, <2>4
  <2> QED
    BY <2>3, <2>5
<1>2. CASE Clone(p)
  BY <1>2 DEF Clone, Changed, Goto
<1>3. CASE ReloadOptions(p)
  BY <1>3 DEF ReloadOptions, Changed, Goto
<1>4. CASE ReloadOptionsFails(p)
  BY <1>4 DEF ReloadOptionsFails, End, Changed, Goto
<1>5. CASE KeepOptions(p)
  BY <1>5 DEF KeepOptions, End, Changed, Goto
<1> QED
  BY <1>1, <1>2, <1>3, <1>4, <1>5 DEF Step

LEMMA RequestStep ==
  ASSUME KeysInv, NEW p \in Admin, Step(p) \/ \E k \in Key : Begins(p, k)
  PROVE  RequestInv'
<1> USE DEF KeysInv, TypeOK, RequestInv
<1>1. CASE \E k \in Key : CreateKey(p, k)
  BY <1>1 DEF CreateKey, Goto, InFlight, bounds
<1>2. CASE \E k \in Key : GetNATSPubKey(p, k)
  BY <1>2 DEF GetNATSPubKey, Goto, Fail
<1>3. CASE RevokeKey(p)
  BY <1>3 DEF RevokeKey, End, Goto, InFlight, bounds
<1>4. CASE RevokeKeyFails(p)
  BY <1>4 DEF RevokeKeyFails, End, Fail, Goto
<1>5. CASE NothingToChange(p)
  BY <1>5 DEF NothingToChange, End, Goto
<1>6. CASE Clone(p) \/ ReloadOptions(p)
  BY <1>6 DEF Clone, ReloadOptions, Goto
<1>7. CASE ReloadOptionsFails(p)
  BY <1>7 DEF ReloadOptionsFails, End, Fail, Goto
<1>8. CASE KeepOptions(p)
  BY <1>8 DEF KeepOptions, End, Goto
<1> QED
  BY <1>1, <1>2, <1>3, <1>4, <1>5, <1>6, <1>7, <1>8 DEF Step, Begins

LEMMA UserStep ==
  ASSUME KeysInv, NEW p \in Admin, Step(p) \/ \E k \in Key : Begins(p, k)
  PROVE  LiveKeyHasUser' /\ RevokedKeyHasNoUser'
<1> USE DEF KeysInv, TypeOK, LiveKeyHasUser, LiveKeys, RevokedKeyHasNoUser, InFlight
<1>1. CASE \E k \in Key : CreateKey(p, k)
  BY <1>1 DEF CreateKey, Goto
<1>2. CASE \E k \in Key : GetNATSPubKey(p, k)
  BY <1>2 DEF GetNATSPubKey, Goto, Fail
<1>3. CASE RevokeKey(p)
  BY <1>3 DEF RevokeKey, RequestInv, End, Goto
<1>4. CASE RevokeKeyFails(p)
  BY <1>4 DEF RevokeKeyFails, End, Fail, Goto
<1>5. CASE NothingToChange(p)
  BY <1>5 DEF NothingToChange, RequestInv, CloneInv, OptionsAreCurrent, LockFree, End, Goto
<1>6. CASE Clone(p)
  BY <1>6 DEF Clone, Goto
<1>7. CASE ReloadOptions(p)
  BY <1>7 DEF ReloadOptions, CloneInv, Changed, Goto
<1>8. CASE ReloadOptionsFails(p)
  BY <1>8 DEF ReloadOptionsFails, End, Fail, Goto
<1>9. CASE KeepOptions(p)
  BY <1>9 DEF KeepOptions, CloneInv, Changed, RequestInv, End, Goto
<1> QED
  BY <1>1, <1>2, <1>3, <1>4, <1>5, <1>6, <1>7, <1>8, <1>9 DEF Step, Begins

-----------------------------------------------------------------------------
\* Organizations, and the server stopping and starting.
LEMMA OutsideStep ==
  ASSUME KeysInv, Outside
  PROVE  KeysInv'
<1>1. CASE \E o \in Org : DeleteOrganization(o)
  <2> USE <1>1 DEF KeysInv, TypeOK, DeleteOrganization, request, bounds
  <2>1. TypeOK' /\ LockInv'
    BY DEF LockInv
  <2>2. CloneInv'
    BY DEF CloneInv, OptionsAreCurrent, LockFree, Changed
  <2>3. RequestInv'
    BY DEF RequestInv
  <2>4. LiveKeyHasUser' /\ RevokedKeyHasNoUser'
    BY DEF LiveKeyHasUser, LiveKeys, RevokedKeyHasNoUser, InFlight
  <2> QED
    BY <2>1, <2>2, <2>3, <2>4
<1>2. CASE Crash
  <2> USE <1>2 DEF KeysInv, TypeOK, Crash
  <2>1. TypeOK'
    <3>1. /\ pc' \in [Admin -> {"idle", "revoke", "change", "reload", "keep"}]
          /\ key' \in [Admin -> Key \cup {None}] /\ newOpts' \in [Admin -> SUBSET Key]
      OBVIOUS
    <3>2. \A q \in Admin : pc'[q] = "idle"
      OBVIOUS
    <3>3. /\ opts' = {} /\ users' = {} /\ lock' = {} /\ creating' = {} /\ found' = {}
          /\ failed' = {} /\ raced' = {} /\ restarts' \in Nat /\ fails' \in Nat /\ up' = FALSE
          /\ UNCHANGED <<row, orgs>>
      OBVIOUS
    <3> QED
      BY <3>1, <3>2, <3>3
  <2>2. LockInv' /\ CloneInv' /\ RequestInv'
    BY DEF LockInv, CloneInv, OptionsAreCurrent, LockFree, RequestInv
  <2>3. LiveKeyHasUser' /\ RevokedKeyHasNoUser'
    BY DEF LiveKeyHasUser, RevokedKeyHasNoUser
  <2> QED
    BY <2>1, <2>2, <2>3
<1>3. CASE Restore \/ RestoreFails
  <2> USE DEF KeysInv, TypeOK, Restore, RestoreFails, request, bounds
  <2>1. /\ UNCHANGED <<row, orgs, lock, pc, key, creating, found, newOpts, restarts, raced>>
        /\ \A q \in Admin : pc[q] = "idle" /\ q \notin lock
        /\ opts' = users' /\ users' \subseteq LiveKeys /\ failed \subseteq failed'
        /\ \A k \in LiveKeys : k \in users' \/ k \in failed'
    BY <1>3 DEF LockInv, ListNKeyData, Fail
  <2>2. TypeOK'
    <3>1. fails' \in Nat /\ failed' \subseteq Key /\ up' = TRUE
      BY <1>3 DEF LiveKeys, Fail
    <3> QED
      BY <2>1, <3>1 DEF LiveKeys
  <2>3. LockInv' /\ CloneInv'
    BY <1>3, <2>1 DEF LockInv, CloneInv, OptionsAreCurrent
  <2>4. RequestInv'
    BY <2>1 DEF RequestInv
  <2>5. LiveKeyHasUser' /\ RevokedKeyHasNoUser'
    BY <2>1 DEF LiveKeyHasUser, LiveKeys, RevokedKeyHasNoUser
  <2> QED
    BY <2>2, <2>3, <2>4, <2>5
<1> QED
  BY <1>1, <1>2, <1>3 DEF Outside

LEMMA KeysStep == KeysInv /\ [Next]_vars => KeysInv'
<1> SUFFICES ASSUME KeysInv, [Next]_vars
             PROVE  KeysInv'
  OBVIOUS
<1>1. ASSUME NEW p \in Admin, Step(p) \/ \E k \in Key : Begins(p, k)
      PROVE  KeysInv'
  BY <1>1, TypeStep, LockStep, RequestStep, UserStep DEF KeysInv
<1>2. CASE Outside
  BY <1>2, OutsideStep
<1>3. CASE UNCHANGED vars
  BY <1>3 DEF vars, KeysInv, TypeOK, LockInv, CloneInv, OptionsAreCurrent, LockFree, Changed,
              RequestInv, LiveKeyHasUser, LiveKeys, RevokedKeyHasNoUser, InFlight
<1> QED
  BY <1>1, <1>2, <1>3 DEF Next, Begins, Outside

\* The lock, the clones and the rows in step: of AddNKeyUser, RemoveNKeyUser
\* and the handlers that call them.
THEOREM KeysInvariant == Spec => []KeysInv
BY KeysInit, KeysStep, PTL DEF Spec

\* The types of the keys, the options and the requests.
THEOREM KeysTypes == Spec => []TypeOK
<1>1. KeysInv => TypeOK
  BY DEF KeysInv
<1> QED
  BY <1>1, KeysInvariant, PTL

\* AddNKeyUser and RemoveNKeyUser leave the lock with the options they keep
\* being those the server runs with, also when the reload fails.
THEOREM OptionsKept == Spec => []OptionsAreCurrent
<1>1. KeysInv => OptionsAreCurrent
  BY DEF KeysInv, LockInv, CloneInv
<1> QED
  BY <1>1, KeysInvariant, PTL

\* No change of one key's user loses another key's.
THEOREM NoUserLost == Spec => []LiveKeyHasUser
<1>1. KeysInv => LiveKeyHasUser
  BY DEF KeysInv
<1> QED
  BY <1>1, KeysInvariant, PTL

\* HandleRevokeAPIKey removes the user, but for failures and the race with the
\* creation of the key.
THEOREM RevokedUsersGo == Spec => []RevokedKeyHasNoUser
<1>1. KeysInv => RevokedKeyHasNoUser
  BY DEF KeysInv
<1> QED
  BY <1>1, KeysInvariant, PTL

\* ... and it stays removed, whatever clone is installed and over restarts.
THEOREM UsersStayRemoved == Spec => RevocationLasts
<1> DEFINE Lasts == \A k \in Key : row[k] = "revoked" /\ k \notin users
                                   /\ InFlight(k) \cap creating = {} => k \notin users'
<1>1. ASSUME KeysInv, Next
      PROVE  Lasts
  <2>1. ASSUME NEW p \in Admin, Step(p) \/ \E k \in Key : Begins(p, k)
        PROVE  Lasts
    <3>1. CASE ReloadOptions(p)
      <4>1. users' = Changed(p) /\ opts = users /\ pc[p] # "idle"
        BY <1>1, <3>1 DEF KeysInv, CloneInv, ReloadOptions
      <4> QED
        BY <4>1 DEF Changed, InFlight
    <3>2. CASE ~ReloadOptions(p)
      BY <2>1, <3>2 DEF Step, Begins, CreateKey, GetNATSPubKey, RevokeKey, RevokeKeyFails,
                        NothingToChange, Clone, ReloadOptionsFails, KeepOptions
    <3> QED
      BY <3>1, <3>2
  <2>2. CASE Outside
    BY <2>2 DEF Outside, DeleteOrganization, Crash, Restore, RestoreFails, ListNKeyData, LiveKeys
  <2> QED
    BY <1>1, <2>1, <2>2 DEF Next, Begins, Outside
<1>2. KeysInv /\ [Next]_vars => [Lasts]_vars
  BY <1>1
<1> QED
  BY <1>2, KeysInvariant, PTL DEF Spec, RevocationLasts

-----------------------------------------------------------------------------
(* The refinement of KeyAccess.                                            *)

access == <<Issued, LiveKeys, Pending, users, up>>

LEMMA AccessInit == Init => Access!Init
BY DEF Init, Access!Init, LiveKeys, Issued, Pending

\* A request that goes on or ends leaves the keys being created as they are,
\* or its own is one no more.
LEMMA AccessSettles ==
  ASSUME KeysInv, NEW p \in Admin,
         \A q \in Admin \ {p} : key'[q] = key[q] /\ (q \in creating' <=> q \in creating),
         p \in creating' => p \in creating /\ key'[p] = key[p],
         creating' \subseteq Admin
  PROVE  \/ Pending' = Pending
         \/ p \in creating /\ key[p] \in Pending /\ Pending' = Pending \ {key[p]}
<1> USE DEF KeysInv, TypeOK, Pending
<1>1. CASE p \in creating \ creating'
  <2>1. Pending' = {key[q] : q \in creating \ {p}}
    BY <1>1
  <2>2. CASE \E q \in creating \ {p} : key[q] = key[p]
    <3>1. Pending = {key[q] : q \in creating \ {p}}
      BY <2>2
    <3> QED
      BY <2>1, <3>1
  <2>3. CASE ~\E q \in creating \ {p} : key[q] = key[p]
    <3>1. {key[q] : q \in creating \ {p}} = {key[q] : q \in creating} \ {key[p]}
      BY <2>3
    <3> QED
      BY <1>1, <2>1, <3>1
  <2> QED
    BY <2>2, <2>3
<1>2. CASE p \notin creating \ creating'
  <2>1. \A q \in Admin : q \in creating' <=> q \in creating
    BY <1>2
  <2>2. creating' = creating
    BY <2>1
  <2>3. \A q \in creating : key'[q] = key[q]
    BY <1>2, <2>2
  <2> QED
    BY <2>2, <2>3
<1> QED
  BY <1>1, <1>2

\* The steps that end a request, and those before the options are replaced.
LEMMA AccessEnds ==
  ASSUME KeysInv, NEW p \in Admin,
         \/ RevokeKeyFails(p) \/ NothingToChange(p) \/ Clone(p)
         \/ ReloadOptionsFails(p) \/ KeepOptions(p)
  PROVE  [Access!Next]_access
<1> USE DEF KeysInv, TypeOK
<1>1. \A q \in Admin \ {p} : key'[q] = key[q] /\ (q \in creating' <=> q \in creating)
  BY DEF RevokeKeyFails, NothingToChange, Clone, ReloadOptionsFails, KeepOptions, End
<1>2. (p \in creating' => p \in creating /\ key'[p] = key[p]) /\ creating' \subseteq Admin
  BY DEF RevokeKeyFails, NothingToChange, Clone, ReloadOptionsFails, KeepOptions, End
<1>3. UNCHANGED <<row, users, up>>
  BY DEF RevokeKeyFails, NothingToChange, Clone, ReloadOptionsFails, KeepOptions
<1>4. UNCHANGED <<Issued, LiveKeys>>
  BY <1>3 DEF Issued, LiveKeys
<1>5. CASE Pending' = Pending
  BY <1>3, <1>4, <1>5 DEF access
<1>6. CASE p \in creating /\ key[p] \in Pending /\ Pending' = Pending \ {key[p]}
  <2>1. PICK k \in Key : k = key[p]
    BY <1>6 DEF RequestInv
  <2>2. Access!Settle(k)
    BY <1>3, <1>4, <1>6, <2>1 DEF Access!Settle
  <2> QED
    BY <2>2 DEF Access!Next
<1> QED
  BY <1>1, <1>2, <1>5, <1>6, AccessSettles

\* The reload gives or takes the user of the request's key, and no other.
LEMMA AccessReload ==
  ASSUME KeysInv, NEW p \in Admin, ReloadOptions(p)
  PROVE  Access!Next
<1> USE DEF KeysInv, TypeOK
<1>1. users' = Changed(p) /\ opts = users /\ key[p] \in Key /\ UNCHANGED <<row, key, creating, up>>
  BY DEF CloneInv, ReloadOptions
<1>2. UNCHANGED <<Issued, LiveKeys, Pending>>
  BY <1>1 DEF Issued, LiveKeys, Pending
<1>3. CASE p \in creating
  <2>1. Access!Give(key[p])
    BY <1>1, <1>2, <1>3 DEF Access!Give, Changed, Pending
  <2> QED
    BY <1>1, <2>1 DEF Access!Next
<1>4. CASE p \notin creating
  <2>1. key[p] \in Issued \ LiveKeys
    BY <1>1, <1>4 DEF RequestInv, ReloadOptions, Issued, LiveKeys
  <2>2. Access!Take(key[p])
    BY <1>1, <1>2, <1>4, <2>1 DEF Access!Take, Changed
  <2> QED
    BY <1>1, <2>2 DEF Access!Next
<1> QED
  BY <1>3, <1>4

\* The rows: a key is issued once, and never valid again.
LEMMA AccessRows ==
  ASSUME KeysInv,
         \/ \E p \in Admin : RevokeKey(p) \/ \E k \in Key : Begins(p, k)
         \/ \E o \in Org : DeleteOrganization(o)
  PROVE  [Access!Next]_access
<1> USE DEF KeysInv, TypeOK
<1>1. ASSUME NEW p \in Admin, NEW k \in Key, CreateKey(p, k)
      PROVE  Access!Next
  <2>1. /\ Issued' = Issued \cup {k} /\ LiveKeys' = LiveKeys \cup {k} /\ k \notin Issued
        /\ up /\ UNCHANGED <<users, up>>
    BY <1>1 DEF CreateKey, Issued, LiveKeys
  <2>2. p \notin creating /\ creating' = creating \cup {p} /\ key' = [key EXCEPT ![p] = k]
    BY <1>1 DEF CreateKey, RequestInv
  <2>3. Pending' = Pending \cup {k}
    BY <2>2 DEF Pending
  <2>4. Access!Issue(k)
    BY <2>1, <2>3 DEF Access!Issue
  <2> QED
    BY <2>4 DEF Access!Next
<1>2. ASSUME NEW p \in Admin, NEW k \in Key, GetNATSPubKey(p, k)
      PROVE  UNCHANGED access
  <2>1. UNCHANGED <<row, users, up, creating>> /\ p \notin creating /\ key' = [key EXCEPT ![p] = k]
    BY <1>2 DEF GetNATSPubKey, RequestInv
  <2>2. Pending' = Pending
    BY <2>1 DEF Pending
  <2> QED
    BY <2>1, <2>2 DEF access, Issued, LiveKeys
<1>3. ASSUME NEW p \in Admin, RevokeKey(p)
      PROVE  Access!Next
  <2>1. /\ p \notin creating /\ creating' = creating /\ UNCHANGED <<users, up>> /\ up
        /\ \A q \in Admin \ {p} : key'[q] = key[q]
    <3>1. p \notin creating /\ UNCHANGED <<users, up>> /\ up
      BY <1>3 DEF RevokeKey, RequestInv, LockInv
    <3>2. CASE p \in found
      BY <1>3, <3>1, <3>2 DEF RevokeKey
    <3>3. CASE p \notin found
      <4>1. creating' = creating \ {p} /\ key' = [key EXCEPT ![p] = None]
        BY <1>3, <3>3 DEF RevokeKey, End
      <4> QED
        BY <3>1, <4>1
    <3> QED
      BY <3>1, <3>2, <3>3
  <2>2. Pending' = Pending
    BY <2>1 DEF Pending
  <2>3. key[p] \in Key /\ row[key[p]] # "none" /\ row' = [row EXCEPT ![key[p]] = "revoked"]
    BY <1>3 DEF RevokeKey, RequestInv
  <2>4. Issued' = Issued /\ LiveKeys' = LiveKeys \ {key[p]}
    BY <2>3 DEF Issued, LiveKeys
  <2>5. Access!Invalidate({key[p]})
    BY <2>1, <2>2, <2>4 DEF Access!Invalidate
  <2> QED
    BY <2>3, <2>5 DEF Access!Next
<1>4. ASSUME NEW o \in Org, DeleteOrganization(o)
      PROVE  Access!Next
  <2> DEFINE ks == {k \in Key : row[k] # "none" /\ OrgOf[k] = o}
  <2>1. /\ Issued' = Issued /\ LiveKeys' = LiveKeys \ ks
        /\ Pending' = Pending /\ UNCHANGED <<users, up>> /\ up
    BY <1>4 DEF DeleteOrganization, Issued, LiveKeys, Pending, request
  <2>2. Access!Invalidate(ks)
    BY <2>1 DEF Access!Invalidate
  <2> QED
    BY <2>2 DEF Access!Next
<1> QED
  BY <1>1, <1>2, <1>3, <1>4 DEF Begins

LEMMA AccessRestart ==
  ASSUME KeysInv, Crash \/ Restore \/ RestoreFails
  PROVE  Access!Next
<1>1. UNCHANGED <<Issued, LiveKeys>>
  BY DEF Crash, Restore, RestoreFails, Issued, LiveKeys
<1>2. CASE Crash
  <2>1. Pending' = {}
    BY <1>2 DEF Crash, Pending
  <2>2. Access!Stop
    BY <1>1, <1>2, <2>1 DEF Crash, Access!Stop
  <2> QED
    BY <2>2 DEF Access!Next
<1>3. CASE Restore \/ RestoreFails
  <2>1. ~up /\ up' = TRUE /\ users' \in SUBSET LiveKeys /\ UNCHANGED <<key, creating>>
    BY <1>3 DEF Restore, RestoreFails, ListNKeyData, request
  <2>2. Pending' = Pending
    BY <2>1 DEF Pending
  <2>3. Access!Start(users')
    BY <1>1, <2>1, <2>2 DEF Access!Start
  <2> QED
    BY <2>1, <2>3 DEF Access!Next
<1> QED
  BY <1>2, <1>3

\* AddNKeyUser and RemoveNKeyUser, which replace all options at once, and the
\* handlers that call them implement KeyAccess: one user at a time is given
\* by the creation of its key or taken from a key that is no longer valid.
THEOREM KeysImplementAccess == Spec => AccessSpec
<1>1. KeysInv /\ [Next]_vars => [Access!Next]_<<Issued, LiveKeys, Pending, users, up>>
  <2> SUFFICES ASSUME KeysInv, [Next]_vars PROVE [Access!Next]_access
    BY DEF access
  <2>1. CASE UNCHANGED vars
    BY <2>1 DEF vars, access, Issued, LiveKeys, Pending
  <2>2. CASE Next
    BY <2>2, AccessEnds, AccessReload, AccessRows, AccessRestart DEF Next, Step, Begins
  <2> QED
    BY <2>1, <2>2
<1> QED
  BY KeysInvariant, AccessInit, <1>1, PTL DEF Spec, AccessSpec, Access!Spec
=============================================================================
