----------------------------- MODULE EntityStore -----------------------------
(***************************************************************************)
(* The two stores of an entity and the requests that write both:           *)
(* api/services/entity.service.go and organization.service.go keep the     *)
(* rows of SQLite and then, with no transaction around the two, the key of *)
(* the entity in the KV bucket; a renamed organization is copied into the  *)
(* keys of its entities by a goroutine; a start of the server completes    *)
(* the bucket from the rows (workers/registry.go).                         *)
(*                                                                         *)
(* Every write of fields or of a name is named by the tick it happened at. *)
(* Devices are NATS clients of the same process and write the bucket too:  *)
(* nothing in the server restricts what they put into the key of an entity,*)
(* nor that they delete it.                                                *)
(* SQLite is used through one connection (MaxOpenConns: 1), which a query  *)
(* holds until its rows are closed.                                        *)
(***************************************************************************)
EXTENDS Naturals, FiniteSets

CONSTANTS
  Entity,     \* entity ids, each given out once (uuid)
  Org,        \* organization ids, likewise
  OrgOf,      \* the organization an entity is created in
  Handler,    \* API requests on entities served at the same time
  DeviceValue, \* what devices put into the keys of entities
  MaxTick,    \* bound: writes of fields and names
  MaxFail,    \* bound: calls to NATS and to SQLite that fail
  MaxCrash    \* bound: times the server stops

\* A key holds the fields of the row (0: a placeholder, or what only a device
\* knows), the name of the organization (0: none).
KeyValue == [there : BOOLEAN, fields : Nat, org : Nat]
NoEntry  == [there |-> FALSE, fields |-> 0, org |-> 0]

Entry(f, o) == [there |-> TRUE, fields |-> f, org |-> o]

ASSUME StoreAssumption ==
  /\ DeviceValue \subseteq {v \in KeyValue : v.there \/ v = NoEntry}
  /\ OrgOf \in [Entity -> Org] /\ Entity \cap Org = {}
  /\ MaxTick \in Nat /\ MaxFail \in Nat /\ MaxCrash \in Nat

VARIABLES
  tick,      \* last tick given out
  created,   \* ids given out
  name,      \* name[o]: the row of organization o, 0 if there is none
  db,        \* db[e]: the fields in the row of e, 0 if there is none
  kv,        \* kv[e]: the key of e in the bucket, NoEntry if there is none
  pc,        \* the step each request is at
  req,       \* what each request works on
  renames,   \* syncOrgNameToKV goroutines that wait for the connection
  sync,      \* the one that holds it, if held
  phase,     \* whether the server is down, booting or up
  bootTodo,  \* rows InitializeKVStoreFromDB has not reached
  fails, crashes,
  failed,    \* history: entities a request or the boot failed on, or whose key a
             \* device deleted, since the server last stopped
  disturbed  \* history: entities with overlapping, failed or unfinished work, or
             \* whose key a device changed

vars == <<tick, created, name, db, kv, pc, req, renames, sync, phase,
          bootTodo, fails, crashes, failed, disturbed>>

rows     == <<tick, created, name, db>>
requests == <<pc, req>>
server   == <<phase, bootTodo, crashes>>

NoRequest == [entity |-> "none", fields |-> 0, saved |-> NoEntry]
NoSync    == [held |-> FALSE, org |-> "none", name |-> 0,
              todo |-> {}, cur |-> {}, saved |-> NoEntry]

\* Mutation: more than one connection.
ConnFree_ManyConnections == TRUE

ConnFree == ~sync.held

InFlight(e) == {p \in Handler : pc[p] # "idle" /\ req[p].entity = e}
Renaming(o) == (\E r \in renames : r.org = o) \/ (sync.held /\ sync.org = o)

Init ==
  /\ tick = 0 /\ created = {}
  /\ name = [o \in Org |-> 0] /\ db = [e \in Entity |-> 0]
  /\ kv = [e \in Entity |-> NoEntry]
  /\ pc = [p \in Handler |-> "idle"] /\ req = [p \in Handler |-> NoRequest]
  /\ renames = {} /\ sync = NoSync
  /\ phase = "up" /\ bootTodo = {} /\ fails = 0 /\ crashes = 0
  /\ failed = {} /\ disturbed = {}

-----------------------------------------------------------------------------
(* Organizations.                                                          *)

CanQuery == phase = "up" /\ ConnFree

CreateOrganization(o) ==
  /\ CanQuery /\ o \notin created /\ tick < MaxTick
  /\ tick' = tick + 1
  /\ created' = created \cup {o}
  /\ name' = [name EXCEPT ![o] = tick + 1]
  /\ UNCHANGED <<db, kv, requests, renames, sync, server, fails, failed, disturbed>>

\* A new name is copied into the keys by a goroutine of its own.
UpdateOrganization(o) ==
  /\ CanQuery /\ name[o] # 0 /\ tick < MaxTick
  /\ tick' = tick + 1
  /\ name' = [name EXCEPT ![o] = tick + 1]
  /\ renames' = renames \cup {[org |-> o, name |-> tick + 1]}
  /\ disturbed' = disturbed \cup
       {e \in created \cap Entity : OrgOf[e] = o /\ (InFlight(e) # {} \/ Renaming(o))}
  /\ UNCHANGED <<created, db, kv, requests, sync, server, fails, failed>>

\* The rows of its entities are deleted with it (ON DELETE CASCADE), their
\* keys are not.
DeleteOrganization(o) ==
  /\ CanQuery /\ name[o] # 0
  /\ name' = [name EXCEPT ![o] = 0]
  /\ db' = [e \in Entity |-> IF OrgOf[e] = o THEN 0 ELSE db[e]]
  /\ UNCHANGED <<tick, created, kv, requests, renames, sync, server, fails,
                 failed, disturbed>>

\* syncOrgNameToKV: the query keeps the connection until its rows are read.
SyncStart(r) ==
  /\ phase = "up" /\ ConnFree /\ r \in renames
  /\ renames' = renames \ {r}
  /\ sync' = [NoSync EXCEPT !.held = TRUE, !.org = r.org, !.name = r.name,
                            !.todo = {e \in Entity : db[e] # 0 /\ OrgOf[e] = r.org}]
  /\ UNCHANGED <<rows, kv, requests, server, fails, failed, disturbed>>

\* The key of the next row is read; a row without a key is passed over.
SyncGet(e) ==
  /\ sync.held /\ sync.cur = {} /\ e \in sync.todo
  /\ sync' = IF kv[e] = NoEntry
             THEN [sync EXCEPT !.todo = @ \ {e}]
             ELSE [sync EXCEPT !.cur = {e}, !.saved = kv[e]]
  /\ UNCHANGED <<rows, kv, requests, renames, server, fails, failed, disturbed>>

\* Mutation: the entry in hand is not let go.
SyncNext_KeepEntry(e) == [sync EXCEPT !.todo = @ \ {e}]

SyncNext(e) == [sync EXCEPT !.todo = @ \ {e}, !.cur = {}, !.saved = NoEntry]

\* The Get fails, or what it returns cannot be read: the loop goes on with the
\* next row.
SyncGetFails(e) ==
  /\ sync.held /\ sync.cur = {} /\ e \in sync.todo /\ fails < MaxFail
  /\ fails' = fails + 1
  /\ sync' = [sync EXCEPT !.todo = @ \ {e}]
  /\ disturbed' = disturbed \cup {e}
  /\ UNCHANGED <<rows, kv, requests, renames, server, failed>>

SyncPut(e) ==
  /\ e \in sync.cur
  /\ kv' = [kv EXCEPT ![e] = Entry(sync.saved.fields, sync.name)]
  /\ sync' = SyncNext(e)
  /\ UNCHANGED <<rows, requests, renames, server, fails, failed, disturbed>>

\* A failed Put is logged, and the loop goes on.
SyncPutFails(e) ==
  /\ e \in sync.cur /\ fails < MaxFail
  /\ fails' = fails + 1
  /\ sync' = SyncNext(e)
  /\ disturbed' = disturbed \cup {e}
  /\ UNCHANGED <<rows, kv, requests, renames, server, failed>>

\* The query fails, or its rows break off, which nobody asks for: what is left
\* keeps the old name.
SyncBreaksOff ==
  /\ sync.held /\ sync.cur = {} /\ sync.todo # {} /\ fails < MaxFail
  /\ fails' = fails + 1
  /\ sync' = NoSync
  /\ disturbed' = disturbed \cup sync.todo
  /\ UNCHANGED <<rows, kv, requests, renames, server, failed>>

\* Mutation: the rows are never closed.
SyncEnd_KeepConnection ==
  /\ sync.held /\ sync.todo = {}
  /\ UNCHANGED vars

SyncEnd ==
  /\ sync.held /\ sync.todo = {}
  /\ sync' = NoSync
  /\ UNCHANGED <<rows, kv, requests, renames, server, fails, failed, disturbed>>

-----------------------------------------------------------------------------
(* Requests on entities.  Begin: request p writes f to the row of e.       *)

Begin(p, e, f, step) ==
  /\ CanQuery /\ pc[p] = "idle"
  /\ db' = [db EXCEPT ![e] = f]
  /\ pc' = [pc EXCEPT ![p] = step]
  /\ req' = [req EXCEPT ![p] = [NoRequest EXCEPT !.entity = e, !.fields = f]]
  /\ disturbed' = IF InFlight(e) # {} \/ Renaming(OrgOf[e])
                  THEN disturbed \cup {e} ELSE disturbed
  /\ UNCHANGED <<name, kv, renames, sync, server, fails, failed>>

CreateEntity(p, e) ==
  /\ e \notin created /\ name[OrgOf[e]] # 0 /\ tick < MaxTick
  /\ tick' = tick + 1
  /\ created' = created \cup {e}
  /\ Begin(p, e, tick + 1, "publish")

UpdateEntity(p, e) ==
  /\ db[e] # 0 /\ tick < MaxTick
  /\ tick' = tick + 1
  /\ Begin(p, e, tick + 1, "reread")
  /\ UNCHANGED created

\* The row is gone: what is left to do is to publish and to remove the key.
DeleteEntity(p, e) ==
  /\ db[e] # 0
  /\ Begin(p, e, 0, "publish")
  /\ UNCHANGED <<tick, created>>

Continue(p, step) ==
  /\ pc' = [pc EXCEPT ![p] = step]
  /\ UNCHANGED <<rows, kv, renames, sync, server, fails, failed, disturbed>>

End(p) ==
  /\ pc' = [pc EXCEPT ![p] = "idle"]
  /\ req' = [req EXCEPT ![p] = NoRequest]

\* UpdateEntity reads back the row it has updated, which may be gone by now:
\* then the request ends with "not found" and does nothing else.
Reread(p) ==
  /\ pc[p] = "reread" /\ ConnFree /\ db[req[p].entity] # 0
  /\ req' = [req EXCEPT ![p].fields = db[req[p].entity]]
  /\ Continue(p, "publish")

RereadNotFound(p) ==
  /\ pc[p] = "reread" /\ ConnFree /\ db[req[p].entity] = 0
  /\ End(p)
  /\ UNCHANGED <<rows, kv, renames, sync, server, fails, failed, disturbed>>

\* applyEntitySideEffects: first the event, then the bucket.
Publish(p) ==
  /\ pc[p] = "publish"
  /\ UNCHANGED req
  /\ Continue(p, IF req[p].fields = 0 THEN "remove" ELSE "get")

\* syncToKV: the key is read to keep what devices have put there; an error is
\* taken for a key that does not exist.
GetEntry(p) ==
  /\ pc[p] = "get"
  /\ req' = [req EXCEPT ![p].saved = kv[req[p].entity]]
  /\ Continue(p, IF kv[req[p].entity].org = 0 THEN "orgname" ELSE "put")

GetEntryFails(p) ==
  /\ pc[p] = "get" /\ fails < MaxFail
  /\ fails' = fails + 1
  /\ pc' = [pc EXCEPT ![p] = "orgname"]
  /\ UNCHANGED <<rows, kv, req, renames, sync, server, failed, disturbed>>

ReadOrgName(p) ==
  /\ pc[p] = "orgname" /\ ConnFree
  /\ req' = [req EXCEPT ![p].saved.org = name[OrgOf[req[p].entity]]]
  /\ Continue(p, "put")

\* The name cannot be read: the key is put without one.
ReadOrgNameFails(p) ==
  /\ pc[p] = "orgname" /\ fails < MaxFail
  /\ fails' = fails + 1
  /\ pc' = [pc EXCEPT ![p] = "put"]
  /\ disturbed' = disturbed \cup {req[p].entity}
  /\ UNCHANGED <<rows, kv, req, renames, sync, server, failed>>

\* Mutation: the fields the key already had win.
PutEntry_KeepFields(p) ==
  /\ pc[p] = "put"
  /\ LET r == req[p] IN
     kv' = [kv EXCEPT ![r.entity] =
              Entry(IF r.saved.there THEN r.saved.fields ELSE r.fields, r.saved.org)]
  /\ End(p)
  /\ UNCHANGED <<rows, renames, sync, server, fails, failed, disturbed>>

PutEntry(p) ==
  /\ pc[p] = "put"
  /\ LET r == req[p] IN
     kv' = [kv EXCEPT ![r.entity] = Entry(r.fields, r.saved.org)]
  /\ End(p)
  /\ UNCHANGED <<rows, renames, sync, server, fails, failed, disturbed>>

RemoveEntry(p) ==
  /\ pc[p] = "remove"
  /\ kv' = [kv EXCEPT ![req[p].entity] = NoEntry]
  /\ End(p)
  /\ UNCHANGED <<rows, renames, sync, server, fails, failed, disturbed>>

\* Reading the row back, publishing, the Put or the Delete fails: the request
\* ends there with an error, and the row stays as it has been written.  (A Put
\* that is carried out although its answer is lost is this step and then the
\* write of a device.)
SideEffectFails(p) ==
  /\ pc[p] \in {"reread", "publish", "put", "remove"} /\ fails < MaxFail
  /\ fails' = fails + 1
  /\ failed' = failed \cup {req[p].entity}
  /\ disturbed' = disturbed \cup {req[p].entity}
  /\ End(p)
  /\ UNCHANGED <<rows, kv, renames, sync, server>>

-----------------------------------------------------------------------------
(* Devices: they know the id of an entity once it is given out.            *)

DeviceWrite(e, v) ==
  /\ phase # "down" /\ e \in created
  /\ kv' = [kv EXCEPT ![e] = v]
  /\ disturbed' = IF v = kv[e] THEN disturbed ELSE disturbed \cup {e}
  /\ failed' = IF kv[e].there /\ ~v.there THEN failed \cup {e} ELSE failed
  /\ UNCHANGED <<rows, requests, renames, sync, server, fails>>

Devices == \E e \in Entity, v \in DeviceValue : DeviceWrite(e, v)

-----------------------------------------------------------------------------
(* The server stopping and starting.                                       *)

Crash ==
  /\ phase # "down" /\ crashes < MaxCrash
  /\ crashes' = crashes + 1
  /\ phase' = "down" /\ bootTodo' = {}
  /\ pc' = [p \in Handler |-> "idle"] /\ req' = [p \in Handler |-> NoRequest]
  /\ renames' = {} /\ sync' = NoSync
  /\ failed' = {}
  /\ disturbed' = disturbed \cup
       {e \in created \cap Entity : InFlight(e) # {} \/ Renaming(OrgOf[e])}
  /\ UNCHANGED <<rows, kv, fails>>

\* NewManager: InitializeKVStoreFromDB comes before any request is served.
Boot ==
  /\ phase = "down"
  /\ phase' = "booting"
  /\ bootTodo' = {e \in Entity : db[e] # 0}
  /\ UNCHANGED <<rows, kv, requests, renames, sync, fails, crashes, failed, disturbed>>

\* Mutation: an existing bucket is taken to be complete.
BootEntry_SkipWhenNotEmpty(e) ==
  /\ e \in bootTodo
  /\ bootTodo' = bootTodo \ {e}
  /\ kv' = IF \E d \in Entity : kv[d].there THEN kv
           ELSE [kv EXCEPT ![e] = Entry(0, name[OrgOf[e]])]
  /\ UNCHANGED <<rows, requests, renames, sync, phase, crashes, fails, failed, disturbed>>

\* An existing key is left alone; Create does not replace one that is put
\* in the meantime.
BootEntry(e) ==
  /\ e \in bootTodo
  /\ bootTodo' = bootTodo \ {e}
  /\ kv' = IF kv[e].there THEN kv
           ELSE [kv EXCEPT ![e] = Entry(0, name[OrgOf[e]])]
  /\ UNCHANGED <<rows, requests, renames, sync, phase, crashes, fails, failed, disturbed>>

\* A row that cannot be read or a key that cannot be created is logged, and
\* the loop goes on with the next.
BootEntryFails(e) ==
  /\ e \in bootTodo /\ fails < MaxFail
  /\ fails' = fails + 1
  /\ bootTodo' = bootTodo \ {e}
  /\ failed' = failed \cup {e}
  /\ UNCHANGED <<rows, kv, requests, renames, sync, phase, crashes, disturbed>>

\* The query fails, or its rows break off: NewManager logs it and goes on.
BootBreaksOff ==
  /\ bootTodo # {} /\ fails < MaxFail
  /\ fails' = fails + 1
  /\ bootTodo' = {}
  /\ failed' = failed \cup bootTodo
  /\ UNCHANGED <<rows, kv, requests, renames, sync, phase, crashes, disturbed>>

BootDone ==
  /\ phase = "booting" /\ bootTodo = {}
  /\ phase' = "up"
  /\ UNCHANGED <<rows, kv, requests, renames, sync, bootTodo, crashes, fails, failed, disturbed>>

-----------------------------------------------------------------------------
Organizations ==
  \E o \in Org : CreateOrganization(o) \/ UpdateOrganization(o) \/ DeleteOrganization(o)

Sync ==
  \/ \E r \in renames : SyncStart(r)
  \/ \E e \in Entity : SyncGet(e) \/ SyncGetFails(e) \/ SyncPut(e) \/ SyncPutFails(e)
  \/ SyncBreaksOff \/ SyncEnd

Request(p) == \E e \in Entity : CreateEntity(p, e) \/ UpdateEntity(p, e) \/ DeleteEntity(p, e)

Step(p) ==
  \/ Reread(p) \/ RereadNotFound(p) \/ Publish(p) \/ GetEntry(p) \/ GetEntryFails(p)
  \/ ReadOrgName(p) \/ ReadOrgNameFails(p) \/ PutEntry(p) \/ RemoveEntry(p)
  \/ SideEffectFails(p)

Booting ==
  \/ Boot \/ BootBreaksOff \/ BootDone
  \/ \E e \in Entity : BootEntry(e) \/ BootEntryFails(e)

Next ==
  \/ Organizations
  \/ Sync
  \/ \E p \in Handler : Request(p) \/ Step(p)
  \/ Devices
  \/ Crash
  \/ Booting

Spec == Init /\ [][Next]_vars

\* A goroutine that is not waiting for the connection keeps running; one that
\* waits gets it in the end, as database/sql serves those who wait in turn.
Fairness == WF_vars(Sync) /\ \A p \in Handler : WF_vars(Step(p))

FairSpec == Spec /\ Fairness

-----------------------------------------------------------------------------
TypeOK ==
  /\ tick \in Nat /\ created \subseteq Entity \cup Org
  /\ name \in [Org -> Nat] /\ db \in [Entity -> Nat]
  /\ kv \in [Entity -> KeyValue] /\ (\A e \in Entity : kv[e].there \/ kv[e] = NoEntry)
  /\ pc \in [Handler -> {"idle", "reread", "publish", "get", "orgname", "put", "remove"}]
  /\ req \in [Handler -> [entity : Entity \cup {"none"}, fields : Nat, saved : KeyValue]]
  /\ \A p \in Handler : pc[p] # "idle" => req[p].entity \in Entity
  /\ renames \subseteq [org : Org, name : Nat]
  /\ sync \in [held : BOOLEAN, org : Org \cup {"none"}, name : Nat,
               todo : SUBSET Entity, cur : SUBSET Entity, saved : KeyValue]
  /\ sync.cur \subseteq sync.todo /\ (sync.held \/ sync = NoSync)
  /\ phase \in {"up", "down", "booting"} /\ bootTodo \subseteq Entity
  /\ fails \in Nat /\ crashes \in Nat
  /\ failed \subseteq Entity /\ disturbed \subseteq Entity

\* The bucket is complete: an entity with a row has a key, unless a request
\* on it is still under way, or a call for it has failed or a device deleted its
\* key since the server started.
RowHasKey ==
  phase = "up" => \A e \in Entity :
    db[e] # 0 /\ ~kv[e].there => e \in failed \/ InFlight(e) # {}

\* The goroutine that copies a new name cannot bring back the key of an
\* entity that is deleted meanwhile: the one connection, which it holds, keeps
\* the rows, and with them the keys it is about to put, from being deleted by
\* a request; devices may delete them.
RenameRevivesNoKey == \A e \in sync.cur : db[e] # 0 /\ (kv[e].there \/ e \in failed)

\* When nothing is under way, the key of an entity says what its row and its
\* organization's say, and there is none without a row; but for entities with
\* requests (or copies of a name) that overlapped, failed or were cut short,
\* those whose key a device has changed, and those of an organization that was
\* deleted.
UndisturbedKeyCurrent ==
  phase = "up" => \A e \in (created \cap Entity) \ disturbed :
    /\ InFlight(e) = {} /\ ~Renaming(OrgOf[e]) /\ name[OrgOf[e]] # 0
    => IF db[e] = 0 THEN kv[e] = NoEntry
       ELSE kv[e].there /\ kv[e].fields = db[e] /\ kv[e].org = name[OrgOf[e]]

(* What RowHasKey and RenameRevivesNoKey rest on, for the proof. *)

\* An id is given out once: a row that is gone does not come back.
IdInv ==
  /\ \A e \in Entity : db[e] # 0 => e \in created
  /\ \A p \in Handler : pc[p] # "idle" => req[p].entity \in created

\* Only an entity without a row has its key removed.
RemovalInv ==
  \A p \in Handler :
    pc[p] = "remove" \/ (pc[p] = "publish" /\ req[p].fields = 0) => db[req[p].entity] = 0

\* Nothing runs while the server is down or boots, and a boot leaves no row
\* behind that it has not failed on.
BootInv ==
  /\ phase # "up" => ~sync.held /\ renames = {} /\ \A p \in Handler : pc[p] = "idle"
  /\ phase = "booting" =>
       \A e \in Entity : db[e] # 0 => e \in bootTodo \/ kv[e].there \/ e \in failed
  /\ phase # "booting" => bootTodo = {}

\* While a name is copied the rows stay as the query found them.
SyncInv == \A e \in sync.todo : db[e] # 0

StoreInv ==
  TypeOK /\ IdInv /\ RemovalInv /\ BootInv /\ SyncInv /\ RenameRevivesNoKey /\ RowHasKey

(* What UndisturbedKeyCurrent rests on, for the proof. *)

\* Ids of organizations and their entities, and who has a key at all.
OrgInv ==
  /\ \A o \in Org : name[o] # 0 => o \in created
  /\ \A e \in Entity : e \in created => OrgOf[e] \in created
  /\ \A e \in Entity : e \notin created => kv[e] = NoEntry
  /\ \A e \in bootTodo : db[e] # 0
  /\ \A e \in sync.todo : OrgOf[e] = sync.org

Undisturbed(e) == e \in created /\ e \notin disturbed /\ name[OrgOf[e]] # 0

\* The copy of a name to e that is under way is the only one, is not mixed with
\* a request, and has the last name.
RenameInv(e) ==
  LET o == OrgOf[e] IN
  /\ InFlight(e) # {} => ~Renaming(o)
  /\ \A r \in renames : r.org = o => r.name = name[o] /\ ~(sync.held /\ sync.org = o)
  /\ sync.held /\ sync.org = o => sync.name = name[o]

\* The request on e has what is in the row, and once it puts the name as well.
WorkInv(p, e) ==
  /\ req[p].fields = db[e]
  /\ pc[p] \in {"reread", "get", "orgname", "put"} => db[e] # 0
  /\ pc[p] = "remove" => db[e] = 0
  /\ db[e] # 0 => kv[e] = NoEntry \/ (kv[e].there /\ kv[e].org = name[OrgOf[e]])
  /\ pc[p] = "put" => req[p].saved.org = name[OrgOf[e]]

\* Without a request on e its key is right, but for a name still to be copied.
RestInv(e) ==
  IF db[e] = 0 THEN kv[e] = NoEntry
  ELSE /\ kv[e].there /\ kv[e].fields = db[e]
       /\ e \in sync.cur => sync.saved.fields = db[e]
       /\ \/ kv[e].org = name[OrgOf[e]]
          \/ e \in sync.todo \/ \E r \in renames : r.org = OrgOf[e]

KeyInv(e) ==
  Undisturbed(e) =>
    /\ RenameInv(e)
    /\ \A p, q \in InFlight(e) : p = q
    /\ \A p \in InFlight(e) : WorkInv(p, e)
    /\ InFlight(e) = {} => RestInv(e)

KeysInv == OrgInv /\ \A e \in Entity : KeyInv(e)

\* Every request is answered: holding the connection for a whole copy of a
\* name, with calls to the bucket in between, blocks nobody for ever.
RequestsEnd == \A p \in Handler : pc[p] # "idle" ~> pc[p] = "idle"

\* "Update static fields from DB entity" (syncToKV): at rest, with no failure,
\* no restart and no device that writes it, the key of an entity has the fields
\* of its row.
KeyHasLastFields ==
  /\ phase = "up" /\ renames = {} /\ ~sync.held /\ fails = 0 /\ crashes = 0
  /\ \A p \in Handler : pc[p] = "idle"
  => \A e \in Entity : db[e] # 0 => kv[e].fields = db[e]
=============================================================================
