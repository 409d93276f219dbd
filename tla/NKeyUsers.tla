------------------------------ MODULE NKeyUsers ------------------------------
(***************************************************************************)
(* API keys and the NATS users that belong to them.  A key is a row of     *)
(* SQLite (api/services/apikey.service.go); its user is an entry of the    *)
(* options the embedded NATS server runs with (embedded-nats/nats.go),     *)
(* which live in memory and are replaced as a whole: clone, change,        *)
(* ReloadOptions, keep the clone, all under a mutex.  The admin handlers   *)
(* write the row first and the options next; a start of the server gives   *)
(* the users back from the rows (web/server.go).                           *)
(*                                                                         *)
(* Every key here has NATS permissions; the others have no user.           *)
(***************************************************************************)
EXTENDS Naturals

CONSTANTS
  Key,         \* key ids, each given out once (uuid), each with its NKey
  Org,         \* organizations
  OrgOf,       \* the organization a key is created in
  Admin,       \* admin requests served at the same time
  None,        \* no key
  MaxFail,     \* bound: steps that fail
  MaxRestart   \* bound: times the server stops

ASSUME KeyAssumption ==
  /\ OrgOf \in [Key -> Org] /\ None \notin Key
  /\ MaxFail \in Nat /\ MaxRestart \in Nat

VARIABLES
  row,       \* row[k]: none, live, revoked, or gone with its organization
  orgs,      \* organizations that have a row
  opts,      \* NKeys in serverOpts
  users,     \* NKeys the running server accepts
  lock,      \* the request that holds mu, if any
  pc,        \* the step each request is at
  key,       \* the key each request is about
  creating,  \* requests that create their key; the others revoke it
  found,     \* requests that have found the public key of theirs
  newOpts,   \* NKeys in the clone of each request
  up,        \* whether the server is up
  fails, restarts,
  failed,    \* history: keys a step on which failed since the start
  raced      \* history: keys revoked before their creation was done

request == <<pc, key, creating, found, newOpts>>
bounds  == <<fails, restarts>>
vars == <<row, orgs, opts, users, lock, pc, key, creating, found, newOpts, up,
          fails, restarts, failed, raced>>

InFlight(k) == {p \in Admin : pc[p] # "idle" /\ key[p] = k}
LiveKeys    == {k \in Key : row[k] = "live"}

\* Mutation: adding and removing take a read lock.
LockFree_ReadLock == TRUE

LockFree == lock = {}

Init ==
  /\ row = [k \in Key |-> "none"] /\ orgs = Org
  /\ opts = {} /\ users = {} /\ lock = {}
  /\ pc = [p \in Admin |-> "idle"] /\ key = [p \in Admin |-> None]
  /\ creating = {} /\ found = {} /\ newOpts = [p \in Admin |-> {}]
  /\ up = TRUE /\ fails = 0 /\ restarts = 0 /\ failed = {} /\ raced = {}

-----------------------------------------------------------------------------
(* The steps of a request.                                                 *)

Goto(p, step) == pc' = [pc EXCEPT ![p] = step]

End(p) ==
  /\ Goto(p, "idle")
  /\ key' = [key EXCEPT ![p] = None] /\ newOpts' = [newOpts EXCEPT ![p] = {}]
  /\ creating' = creating \ {p} /\ found' = found \ {p}

Fail(ks) ==
  /\ fails < MaxFail /\ fails' = fails + 1
  /\ failed' = failed \cup ks

\* HandleCreateAPIKey: the row.
CreateKey(p, k) ==
  /\ up /\ pc[p] = "idle" /\ row[k] = "none" /\ OrgOf[k] \in orgs
  /\ row' = [row EXCEPT ![k] = "live"]
  /\ key' = [key EXCEPT ![p] = k] /\ creating' = creating \cup {p}
  /\ Goto(p, "change")
  /\ UNCHANGED <<orgs, opts, users, lock, found, newOpts, up, bounds, failed, raced>>

\* HandleRevokeAPIKey: the public key is looked up first, as after an error
\* (there is no such row, or the query fails) the request goes on without it.
GetNATSPubKey(p, k) ==
  /\ up /\ pc[p] = "idle" /\ row[k] # "none"
  /\ key' = [key EXCEPT ![p] = k] /\ Goto(p, "revoke")
  /\ \/ /\ found' = IF row[k] # "gone" THEN found \cup {p} ELSE found
        /\ UNCHANGED <<fails, failed>>
     \/ Fail({k}) /\ UNCHANGED found
  /\ UNCHANGED <<row, orgs, opts, users, lock, creating, newOpts, up, restarts, raced>>

RevokeKey(p) ==
  /\ pc[p] = "revoke" /\ row[key[p]] # "gone"
  /\ row' = [row EXCEPT ![key[p]] = "revoked"]
  /\ raced' = IF \E q \in InFlight(key[p]) : q \in creating
              THEN raced \cup {key[p]} ELSE raced
  /\ IF p \in found THEN Goto(p, "change") /\ UNCHANGED <<key, creating, found, newOpts>>
                    ELSE End(p)
  /\ UNCHANGED <<orgs, opts, users, lock, up, bounds, failed>>

\* The row is gone (not found), or the update fails: the request ends there.
RevokeKeyFails(p) ==
  /\ pc[p] = "revoke"
  /\ IF row[key[p]] = "gone" THEN UNCHANGED <<fails, failed>> ELSE Fail({key[p]})
  /\ End(p)
  /\ UNCHANGED <<row, orgs, opts, users, lock, up, restarts, raced>>

\* Mutation: the options are not cloned before the user is added.
Changed_FromNothing(p) == IF p \in creating THEN {key[p]} ELSE opts \ {key[p]}

\* Mutation: the filter keeps the user that is to go.
Changed_NoFilter(p) == IF p \in creating THEN opts \cup {key[p]} ELSE opts

\* AddNKeyUser and RemoveNKeyUser: the options with or without the user.
Changed(p) == IF p \in creating THEN opts \cup {key[p]} ELSE opts \ {key[p]}

\* A user that is there already, or not there, is nothing to reload for.
NothingToChange(p) ==
  /\ pc[p] = "change" /\ LockFree
  /\ p \in creating <=> key[p] \in opts
  /\ End(p)
  /\ UNCHANGED <<row, orgs, opts, users, lock, up, bounds, failed, raced>>

Clone(p) ==
  /\ pc[p] = "change" /\ LockFree
  /\ ~(p \in creating <=> key[p] \in opts)
  /\ lock' = lock \cup {p}
  /\ newOpts' = [newOpts EXCEPT ![p] = Changed(p)]
  /\ Goto(p, "reload")
  /\ UNCHANGED <<row, orgs, opts, users, key, creating, found, up, bounds, failed, raced>>

ReloadOptions(p) ==
  /\ pc[p] = "reload"
  /\ users' = newOpts[p]
  /\ Goto(p, "keep")
  /\ UNCHANGED <<row, orgs, opts, lock, key, creating, found, newOpts, up, bounds, failed, raced>>

\* Mutation: an error returns without unlocking.
ReloadOptionsFails_KeepLock(p) ==
  /\ pc[p] = "reload" /\ Fail({key[p]})
  /\ End(p)
  /\ UNCHANGED <<row, orgs, opts, users, lock, up, restarts, raced>>

\* Mutation: the clone is kept although the server has refused it.
ReloadOptionsFails_KeepClone(p) ==
  /\ pc[p] = "reload" /\ Fail({key[p]})
  /\ lock' = lock \ {p} /\ opts' = newOpts[p]
  /\ End(p)
  /\ UNCHANGED <<row, orgs, users, up, restarts, raced>>

\* Only logged: the row stays as it has been written.
ReloadOptionsFails(p) ==
  /\ pc[p] = "reload" /\ Fail({key[p]})
  /\ lock' = lock \ {p}
  /\ End(p)
  /\ UNCHANGED <<row, orgs, opts, users, up, restarts, raced>>

KeepOptions(p) ==
  /\ pc[p] = "keep"
  /\ opts' = newOpts[p]
  /\ lock' = lock \ {p}
  /\ End(p)
  /\ UNCHANGED <<row, orgs, users, up, bounds, failed, raced>>

-----------------------------------------------------------------------------
\* The keys of an organization go with it (ON DELETE CASCADE), nobody tells
\* the NATS server.
DeleteOrganization(o) ==
  /\ up /\ o \in orgs
  /\ orgs' = orgs \ {o}
  /\ row' = [k \in Key |-> IF row[k] # "none" /\ OrgOf[k] = o THEN "gone" ELSE row[k]]
  /\ UNCHANGED <<opts, users, lock, request, up, bounds, failed, raced>>

Crash ==
  /\ up /\ restarts < MaxRestart
  /\ restarts' = restarts + 1
  /\ up' = FALSE
  /\ opts' = {} /\ users' = {} /\ lock' = {}
  /\ pc' = [p \in Admin |-> "idle"] /\ key' = [p \in Admin |-> None]
  /\ creating' = {} /\ found' = {} /\ newOpts' = [p \in Admin |-> {}]
  /\ failed' = {} /\ raced' = {}
  /\ UNCHANGED <<row, orgs, fails>>

\* Mutation: revoked keys are listed, too.
ListNKeyData_All == {k \in Key : row[k] \in {"live", "revoked"}}

ListNKeyData == LiveKeys

\* NewServer, before any request: ListNKeyData and RestoreNKeyUsers.
Restore ==
  /\ ~up /\ up' = TRUE
  /\ opts' = ListNKeyData /\ users' = ListNKeyData
  /\ UNCHANGED <<row, orgs, lock, request, bounds, failed, raced>>

\* Reading the rows or the reload fails, which is at most logged: there is no
\* user, or, as ListNKeyData does not ask whether it has read all rows, some.
RestoreFails ==
  /\ ~up /\ up' = TRUE
  /\ \E some \in SUBSET LiveKeys :
       /\ opts' = some /\ users' = some
       /\ Fail(LiveKeys \ some)
  /\ UNCHANGED <<row, orgs, lock, request, restarts, raced>>

-----------------------------------------------------------------------------
Step(p) ==
  \/ RevokeKey(p) \/ RevokeKeyFails(p) \/ NothingToChange(p) \/ Clone(p)
  \/ ReloadOptions(p) \/ ReloadOptionsFails(p) \/ KeepOptions(p)

Next ==
  \/ \E p \in Admin, k \in Key : CreateKey(p, k) \/ GetNATSPubKey(p, k)
  \/ \E p \in Admin : Step(p)
  \/ \E o \in Org : DeleteOrganization(o)
  \/ Crash \/ Restore \/ RestoreFails

Spec == Init /\ [][Next]_vars

\* A request's goroutine keeps running, and sync.Mutex hands the lock to one
\* that has waited long.
Fairness == \A p \in Admin : SF_vars(Step(p))

FairSpec == Spec /\ Fairness

-----------------------------------------------------------------------------
TypeOK ==
  /\ row \in [Key -> {"none", "live", "revoked", "gone"}] /\ orgs \subseteq Org
  /\ opts \subseteq Key /\ users \subseteq Key
  /\ lock \subseteq Admin /\ \A p, q \in lock : p = q
  /\ pc \in [Admin -> {"idle", "revoke", "change", "reload", "keep"}]
  /\ key \in [Admin -> Key \cup {None}] /\ \A p \in Admin : pc[p] # "idle" => key[p] \in Key
  /\ creating \subseteq Admin /\ found \subseteq Admin
  /\ newOpts \in [Admin -> SUBSET Key]
  /\ up \in BOOLEAN /\ fails \in Nat /\ restarts \in Nat
  /\ failed \subseteq Key /\ raced \subseteq Key

\* serverOpts says what the running server does whenever nobody is changing
\* it, also after a reload that failed.
OptionsAreCurrent == LockFree => opts = users

\* No key loses its user to another's: one that is live has its user unless a
\* request on it is under way or has failed.
LiveKeyHasUser ==
  up => \A k \in LiveKeys : k \in users \/ k \in failed \/ InFlight(k) # {}

\* A revoked key has no user, unless a request on it is under way or has
\* failed, or it was revoked before its creation was done.
RevokedKeyHasNoUser ==
  \A k \in users : row[k] = "revoked" => k \in failed \/ k \in raced \/ InFlight(k) # {}

\* Once a revoked key has no user and is no longer being created, it never has
\* one again, whatever clone another request works on and over restarts.
RevocationLasts ==
  [][\A k \in Key : row[k] = "revoked" /\ k \notin users /\ InFlight(k) \cap creating = {}
                    => k \notin users']_vars

\* The clones, reloads and failures of concurrent requests amount to giving
\* and taking one user at a time, as KeyAccess promises.
Issued  == {k \in Key : row[k] # "none"}
Pending == {key[p] : p \in creating}

Access == INSTANCE KeyAccess WITH issued <- Issued, valid <- LiveKeys, pending <- Pending

AccessSpec == Access!Spec

(* What LiveKeyHasUser, RevokedKeyHasNoUser and RevocationLasts rest on, for *)
(* the proof.                                                              *)

\* The lock is held from the clone to the end, and by nobody while the server
\* is down.
LockInv ==
  /\ \A p \in Admin : p \in lock <=> pc[p] \in {"reload", "keep"}
  /\ ~up => opts = {} /\ users = {} /\ \A p \in Admin : pc[p] = "idle"

\* Whoever holds the lock has a clone of what the server runs with, changed by
\* one key, and the server runs with it after the reload.
CloneInv ==
  /\ OptionsAreCurrent
  /\ \A p \in Admin :
       /\ pc[p] = "reload" => opts = users /\ newOpts[p] = Changed(p)
       /\ pc[p] = "keep" => users = newOpts[p] /\ newOpts[p] = Changed(p)

\* How the rows follow the requests.
RequestInv ==
  \A p \in Admin :
    /\ p \in creating => pc[p] \in {"change", "reload", "keep"}
    /\ p \in creating /\ row[key[p]] = "revoked" => key[p] \in raced
    /\ p \notin creating /\ pc[p] \in {"change", "reload", "keep"} =>
         row[key[p]] \in {"revoked", "gone"}
    /\ pc[p] = "revoke" /\ p \notin found => row[key[p]] = "gone" \/ key[p] \in failed
    /\ pc[p] # "idle" => row[key[p]] # "none"

KeysInv ==
  TypeOK /\ LockInv /\ CloneInv /\ RequestInv /\ LiveKeyHasUser /\ RevokedKeyHasNoUser

\* Every admin request ends, whatever fails while it holds the lock.
RequestsEnd == \A p \in Admin : pc[p] # "idle" ~> pc[p] = "idle"
=============================================================================
