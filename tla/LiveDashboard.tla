---------------------------- MODULE LiveDashboard ----------------------------
(***************************************************************************)
(* From the rows of SQLite to the cards of a dashboard: EntityStore, whose *)
(* requests, copies of names and boots write the keys of the bucket, and   *)
(* OverwatchBroadcast, whose watcher reads the bucket, in one process.     *)
(*                                                                         *)
(* EntityStore says what a key holds, OverwatchBroadcast only names it by  *)
(* the revision of the write; content has what was written at each         *)
(* revision.  The key of the state of an entity is its id                  *)
(* (shared.EntityKey); devices write further keys, named after it.         *)
(***************************************************************************)
EXTENDS EntityStore, Sequences

CONSTANTS
  DeviceKey,   \* keys <entity id>.mavlink, .detections.objects, ...
  Owner,       \* the entity id such a key begins with
  Client,      \* SSE connections
  QueueCap,    \* overwatchClientQueueSize
  MaxRev,      \* bound: writes to the bucket
  MaxRestarts  \* bound: times the watcher is lost, alone or with the process

VARIABLES
  content,     \* what each revision of the bucket has put: fields and name
  bucket, rev, stream, restarts, wpc, upd, todo, draining, entityData,
  entityState, subscribers, toLoad, loaded, page, cancelled, queue, dirty,
  removed, shown, total, dashTotal, lossy

Key      == Entity \cup DeviceKey
EntityOf == [k \in Key |-> IF k \in Entity THEN k ELSE Owner[k]]

Feed == INSTANCE OverwatchBroadcast WITH kv <- bucket, pc <- page

feedVars == <<bucket, rev, stream, restarts, wpc, upd, todo, draining,
              entityData, entityState, subscribers, toLoad, loaded, page,
              cancelled, queue, dirty, removed, shown, total, dashTotal, lossy>>
liveVars == <<vars, feedVars, content>>

\* What the constants of the feed have to be here.
LiveAssumption ==
  /\ IsFiniteSet(Entity) /\ IsFiniteSet(DeviceKey)
  /\ Owner \in [DeviceKey -> Entity] /\ DeviceKey \cap Entity = {}
  /\ QueueCap \in Nat \ {0} /\ MaxRev \in Nat /\ MaxRestarts \in Nat

LiveInit == Init /\ Feed!Init /\ content = <<>>

-----------------------------------------------------------------------------
(* The store.                                                              *)

\* The key of e is put by a request, by the copy of a name or by a boot.
PutsKey(e) ==
  \/ \E p \in Handler : req[p].entity = e /\ PutEntry(p)
  \/ SyncPut(e)
  \/ BootEntry(e) /\ ~kv[e].there

Put(e) ==
  /\ PutsKey(e)
  /\ Feed!KVPut(e)
  /\ content' = Append(content, kv'[e])

Remove(p) ==
  /\ RemoveEntry(p)
  /\ Feed!KVDelete(req[p].entity)
  /\ content' = Append(content, NoEntry)

\* Every other step of the store leaves the bucket alone.
LeavesBucket ==
  \/ Organizations
  \/ \E r \in renames : SyncStart(r)
  \/ \E e \in Entity : SyncGet(e) \/ SyncGetFails(e) \/ SyncPutFails(e)
  \/ SyncBreaksOff \/ SyncEnd
  \/ \E p \in Handler :
       \/ Request(p) \/ Reread(p) \/ RereadNotFound(p) \/ Publish(p) \/ GetEntry(p)
       \/ GetEntryFails(p) \/ ReadOrgName(p) \/ ReadOrgNameFails(p) \/ SideEffectFails(p)
  \/ Boot \/ BootBreaksOff \/ BootDone
  \/ \E e \in Entity : BootEntryFails(e) \/ (BootEntry(e) /\ kv[e].there)

Store ==
  \/ \E e \in Entity : Put(e)
  \/ \E p \in Handler : Remove(p)
  \/ LeavesBucket /\ UNCHANGED <<feedVars, content>>

-----------------------------------------------------------------------------
(* The devices, through the NATS server of the process: they write keys of *)
(* their own, and whatever they like, telemetry that leaves fields and     *)
(* name as they are (v = kv[e]) included, into the keys of entities.       *)

DeviceWritesOwn(k) ==
  /\ phase # "down"
  /\ Feed!KVPut(k) \/ Feed!KVDelete(k)
  /\ content' = Append(content, NoEntry)
  /\ UNCHANGED vars

DeviceWritesEntity(e, v) ==
  /\ DeviceWrite(e, v)
  /\ IF v.there THEN Feed!KVPut(e) ELSE Feed!KVDelete(e)
  /\ content' = Append(content, v)

DeviceWrites ==
  \/ \E k \in DeviceKey : DeviceWritesOwn(k)
  \/ \E e \in Entity : \E v \in DeviceValue \cup {kv[e]} : DeviceWritesEntity(e, v)

-----------------------------------------------------------------------------
(* The feed, once the server answers requests; and the process ending.     *)

FeedStep ==
  \/ Feed!Watch \/ Feed!WatchStop
  \/ \E k \in Key : Feed!LoadKey(k)
  \/ \E c \in Client : \/ Feed!Subscribe(c) \/ Feed!Loop(c)
                       \/ Feed!Cancel(c) \/ Feed!Unsubscribe(c) \/ Feed!Leave(c)

Stop == Crash /\ Feed!Crash /\ UNCHANGED content

LiveNext ==
  \/ Store
  \/ DeviceWrites
  \/ phase = "up" /\ FeedStep /\ UNCHANGED <<vars, content>>
  \/ Stop

LiveSpec == LiveInit /\ [][LiveNext]_liveVars

-----------------------------------------------------------------------------
\* The bucket of the feed is that of the store.
BucketAgrees ==
  /\ content \in Seq(KeyValue) /\ Len(content) = rev
  /\ \A e \in Entity :
       LET last == bucket[e] IN
       IF kv[e].there
       THEN last.op = "put" /\ last.rev \in 1 .. rev /\ content[last.rev] = kv[e]
       ELSE last.op # "put"

\* What an operator sees is what the database says: when nothing is under way
\* for an entity nor for a client, the card of the entity has the fields of
\* its row and the name of its organization, and there is none without a row.
\* But for what the store leaves behind of overlapping, failed or interrupted
\* requests, what devices have put in its place, and the last card of a client
\* that was drained.
CardShowsRow ==
  phase = "up" => \A e \in (created \cap Entity) \ disturbed, c \in subscribers :
    /\ InFlight(e) = {} /\ ~Renaming(OrgOf[e]) /\ name[OrgOf[e]] # 0
    /\ Feed!AtRest(c)
    => LET value == shown[c][e][e] IN
       IF db[e] = 0 THEN value = 0 \/ c \in lossy
       ELSE value \in 1 .. rev /\ content[value] = Entry(db[e], name[OrgOf[e]])
=============================================================================
