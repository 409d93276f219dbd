------------------------- MODULE OverwatchBroadcast -------------------------
(***************************************************************************)
(* The live dashboard feed of pkg/services/web/handlers/overwatch.go: one  *)
(* shared watcher of the KV bucket CONSTELLATION_GLOBAL_STATE keeps a copy *)
(* of it grouped by entity, and fans every change out to the SSE clients   *)
(* through one bounded channel per client.  A client that falls behind has *)
(* its channel drained and is told to take a full snapshot instead.        *)
(*                                                                         *)
(* A value written to the bucket is named by the revision the bucket gives *)
(* it.  The state of an entity is the map of its keys to the values they   *)
(* hold (what mergeOverwatchEntityData is computed from), 0 for no key.    *)
(***************************************************************************)
EXTENDS Naturals, Sequences, FiniteSets

CONSTANTS
  Entity,      \* entity ids
  Key,         \* keys of the bucket
  EntityOf,    \* the entity parseOverwatchKVKey finds in a key
  Client,      \* SSE connections, each reusable once it has closed
  QueueCap,    \* overwatchClientQueueSize
  MaxRev,      \* bound: writes to the bucket
  MaxRestarts  \* bound: times the watcher is lost, alone or with the process

ASSUME ConstantsAssumption ==
  /\ IsFiniteSet(Entity)
  /\ IsFiniteSet(Key)
  /\ EntityOf \in [Key -> Entity]
  /\ QueueCap \in Nat \ {0}
  /\ MaxRev \in Nat
  /\ MaxRestarts \in Nat

VARIABLES
  kv,           \* kv[k]: the last entry of key k in the bucket
  rev,          \* last revision the bucket gave out
  stream,       \* watcher.Updates(): entries not yet read by the watch loop
  restarts,     \* times the watcher was lost, alone or with the process
  wpc,          \* where the watch goroutine is; "off" until started is set
  upd,          \* the update applyEntry returned, FullSnapshot for none
  todo,         \* subscribers broadcast has not sent upd to yet
  draining,     \* the subscriber sendOverwatchUpdate is draining, if any
  entityData,   \* the broadcaster's copy: value of every key, 0 if absent
  entityState,  \* merged state of every entity, Gone if absent
  subscribers,  \* clients whose channel is registered
  toLoad,       \* keys loadInitialState still has to Get
  loaded,       \* values loadInitialState has read so far
  pc,           \* where the handler of each client is
  cancelled,    \* clients whose request context is done
  queue,        \* channel of each client
  dirty,        \* dirtyStates of each client, Gone if absent
  removed,      \* removedEntities of each client
  shown,        \* knownEntities of each client with the card it displays
  total,        \* totalEntities of each client's loop
  dashTotal,    \* TotalEntities signal last sent to the dashboard
  lossy         \* history: clients drained since they connected

bucketVars == <<kv, rev>>
watchVars  == <<stream, restarts, wpc, upd, todo, draining>>
copyVars   == <<entityData, entityState>>
loadVars   == <<toLoad, loaded>>
clientVars == <<dirty, removed, shown, total, dashTotal>>
vars == <<bucketVars, watchVars, copyVars, loadVars, clientVars,
          subscribers, pc, cancelled, queue, lossy>>

Gone  == [k \in Key |-> 0]
State == [Key -> Nat]

\* mergeOverwatchEntityData: what entity e looks like, from its keys' values
Merge(data, e) == [k \in Key |-> IF EntityOf[k] = e THEN data[k] ELSE 0]

Live(state) == {e \in Entity : state[e] # Gone}

\* Mutation: the total is the one before the change.
Update_TotalBefore(e, st, n) ==
  [full |-> FALSE, entity |-> e, state |-> st, total |-> Cardinality(Live(entityState))]

Update(e, st, n) == [full |-> FALSE, entity |-> e, state |-> st, total |-> n]
FullSnapshot     == [full |-> TRUE]
Message == [full : {FALSE}, entity : Entity, state : State, total : Nat]
             \cup {FullSnapshot}

Entry == [key : Key, op : {"none", "put", "del"}, rev : Nat]

BucketValue(k) == IF kv[k].op = "put" THEN kv[k].rev ELSE 0
LiveKeys       == {k \in Key : kv[k].op = "put"}

Started    == wpc # "off"
Watching   == wpc \in {"up", "applied", "sending"}
ReadLocked == wpc = "sending"              \* broadcast holds mu.RLock
StartFree  == \A c \in Client : pc[c] # "loading"   \* startMu is free

NoStates == [e \in Entity |-> Gone]

Init ==
  /\ kv = [k \in Key |-> [key |-> k, op |-> "none", rev |-> 0]]
  /\ rev = 0
  /\ stream = <<>> /\ restarts = 0 /\ wpc = "off"
  /\ upd = FullSnapshot /\ todo = {} /\ draining = {}
  /\ entityData = Gone /\ entityState = NoStates
  /\ subscribers = {} /\ toLoad = {} /\ loaded = Gone
  /\ pc = [c \in Client |-> "off"] /\ cancelled = {}
  /\ queue = [c \in Client |-> <<>>]
  /\ dirty = [c \in Client |-> NoStates]
  /\ removed = [c \in Client |-> {}]
  /\ shown = [c \in Client |-> NoStates]
  /\ total = [c \in Client |-> 0]
  /\ dashTotal = [c \in Client |-> 0]
  /\ lossy = {}

-----------------------------------------------------------------------------
(* The bucket.  Its writers are the API services and edge devices.         *)

Write(k, op) ==
  LET entry == [key |-> k, op |-> op, rev |-> rev + 1] IN
  /\ rev < MaxRev
  /\ rev' = rev + 1
  /\ kv' = [kv EXCEPT ![k] = entry]
  /\ stream' = IF Watching THEN Append(stream, entry) ELSE stream
  /\ UNCHANGED <<restarts, wpc, upd, todo, draining, copyVars, loadVars,
                 clientVars, subscribers, pc, cancelled, queue, lossy>>

KVPut(k)    == Write(k, "put")
KVDelete(k) == Write(k, "del")

\* Mutation: the watcher is created with IgnoreDeletes.
Replays_IgnoreDeletes ==
  LET written == {kv[k] : k \in LiveKeys} IN
  {s \in [1 .. Cardinality(written) -> written] :
     /\ \A w \in written : \E i \in DOMAIN s : s[i] = w
     /\ \A i, j \in DOMAIN s : i < j => s[i].rev < s[j].rev}

\* WatchAll first delivers the last entry of every key ever written, delete
\* markers included, in the order they were written.
Replays ==
  LET written == {kv[k] : k \in {j \in Key : kv[j].op # "none"}} IN
  {s \in [1 .. Cardinality(written) -> written] :
     /\ \A w \in written : \E i \in DOMAIN s : s[i] = w
     /\ \A i, j \in DOMAIN s : i < j => s[i].rev < s[j].rev}

-----------------------------------------------------------------------------
(* Connecting: Subscribe, and the Start it calls first.                    *)

Connect(c) ==
  /\ pc[c] \in {"off", "refused"}
  /\ pc' = [pc EXCEPT ![c] = "starting"]
  /\ UNCHANGED <<bucketVars, watchVars, copyVars, loadVars, clientVars,
                 subscribers, cancelled, queue, lossy>>

\* Mutation: the channel is registered first, the snapshot is taken later.
AlreadyStarted_RegisterEarly(c) ==
  /\ pc[c] = "starting" /\ StartFree /\ Started /\ ~ReadLocked
  /\ pc' = [pc EXCEPT ![c] = "registering"]
  /\ subscribers' = subscribers \cup {c}
  /\ UNCHANGED <<bucketVars, watchVars, copyVars, loadVars, clientVars,
                 cancelled, queue, lossy>>

AlreadyStarted(c) ==
  /\ pc[c] = "starting" /\ StartFree /\ Started
  /\ pc' = [pc EXCEPT ![c] = "registering"]
  /\ UNCHANGED <<bucketVars, watchVars, copyVars, loadVars, clientVars,
                 subscribers, cancelled, queue, lossy>>

\* GetAllKVEntries lists the keys ...
StartLoad(c) ==
  /\ pc[c] = "starting" /\ StartFree /\ ~Started
  /\ LiveKeys # {}
  /\ pc' = [pc EXCEPT ![c] = "loading"]
  /\ toLoad' = LiveKeys
  /\ UNCHANGED <<bucketVars, watchVars, copyVars, loaded, clientVars,
                 subscribers, cancelled, queue, lossy>>

\* An error of Keys(), which an empty bucket always is, is returned by Start
\* and the handler answers 503.
StartFails(c) ==
  /\ pc[c] = "starting" /\ StartFree /\ ~Started
  /\ pc' = [pc EXCEPT ![c] = "refused"]
  /\ UNCHANGED <<bucketVars, watchVars, copyVars, loadVars, clientVars,
                 subscribers, cancelled, queue, lossy>>

\* ... and Gets them one by one, skipping one that is gone by then or whose
\* Get fails.
LoadKey(k) ==
  /\ k \in toLoad
  /\ toLoad' = toLoad \ {k}
  /\ loaded' \in {loaded, [loaded EXCEPT ![k] = BucketValue(k)]}
  /\ UNCHANGED <<bucketVars, watchVars, copyVars, clientVars,
                 subscribers, pc, cancelled, queue, lossy>>

FinishLoad(c) ==
  /\ pc[c] = "loading" /\ toLoad = {}
  /\ entityData' = loaded
  /\ entityState' = [e \in Entity |-> Merge(loaded, e)]
  /\ wpc' = "down"
  /\ loaded' = Gone
  /\ pc' = [pc EXCEPT ![c] = "registering"]
  /\ UNCHANGED <<bucketVars, stream, restarts, upd, todo, draining, toLoad,
                 clientVars, subscribers, cancelled, queue, lossy>>

\* Under mu: register the channel and take the snapshot; then the handler
\* queues the snapshot and flushes it before entering its loop.
Register(c) ==
  /\ pc[c] = "registering" /\ ~ReadLocked
  /\ subscribers' = subscribers \cup {c}
  /\ shown' = [shown EXCEPT ![c] = entityState]
  /\ total' = [total EXCEPT ![c] = Cardinality(Live(entityState))]
  /\ dashTotal' = [dashTotal EXCEPT ![c] = Cardinality(Live(entityState))]
  /\ pc' = [pc EXCEPT ![c] = "loop"]
  /\ UNCHANGED <<bucketVars, watchVars, copyVars, loadVars, dirty, removed,
                 cancelled, queue, lossy>>

-----------------------------------------------------------------------------
(* The watch goroutine.                                                    *)

WatchStart ==
  /\ wpc = "down"
  /\ wpc' = "up"
  /\ stream' \in Replays
  /\ UNCHANGED <<bucketVars, restarts, upd, todo, draining, copyVars, loadVars,
                 clientVars, subscribers, pc, cancelled, queue, lossy>>

\* The channel of the watcher is closed: watch restarts it after a second.
WatchStop ==
  /\ wpc = "up" /\ restarts < MaxRestarts
  /\ restarts' = restarts + 1
  /\ wpc' = "down"
  /\ stream' = <<>>
  /\ UNCHANGED <<bucketVars, upd, todo, draining, copyVars, loadVars,
                 clientVars, subscribers, pc, cancelled, queue, lossy>>

\* applyEntry of a delete marker for an entity with no data: nothing to say.
ApplyNothing ==
  /\ wpc = "up" /\ stream # <<>>
  /\ Head(stream).op = "del"
  /\ Merge(entityData, EntityOf[Head(stream).key]) = Gone
  /\ stream' = Tail(stream)
  /\ UNCHANGED <<bucketVars, restarts, wpc, upd, todo, draining, copyVars,
                 loadVars, clientVars, subscribers, pc, cancelled, queue, lossy>>

\* applyEntry of any other entry; an entity left with no key is removed.
Apply ==
  /\ wpc = "up" /\ stream # <<>>
  /\ LET entry == Head(stream)
         e     == EntityOf[entry.key]
     IN  /\ \/ entry.op = "put"
            \/ Merge(entityData, e) # Gone
         /\ entityData' = [entityData EXCEPT ![entry.key] =
                             IF entry.op = "put" THEN entry.rev ELSE 0]
         /\ entityState' = [entityState EXCEPT ![e] = Merge(entityData', e)]
         /\ upd' = Update(e, entityState'[e], Cardinality(Live(entityState')))
  /\ stream' = Tail(stream)
  /\ wpc' = "applied"
  /\ UNCHANGED <<bucketVars, restarts, todo, draining, loadVars, clientVars,
                 subscribers, pc, cancelled, queue, lossy>>

BroadcastBegin ==
  /\ wpc = "applied"
  /\ wpc' = "sending"
  /\ todo' = subscribers
  /\ UNCHANGED <<bucketVars, stream, restarts, upd, draining, copyVars, loadVars,
                 clientVars, subscribers, pc, cancelled, queue, lossy>>

\* Mutation: off by one in the room left.
Send_OffByOne(c) ==
  /\ c \in todo /\ draining = {} /\ Len(queue[c]) <= QueueCap
  /\ queue' = [queue EXCEPT ![c] = Append(@, upd)]
  /\ todo' = todo \ {c}
  /\ UNCHANGED <<bucketVars, stream, restarts, wpc, upd, draining, copyVars,
                 loadVars, clientVars, subscribers, pc, cancelled, lossy>>

Send(c) ==
  /\ c \in todo /\ draining = {} /\ Len(queue[c]) < QueueCap
  /\ queue' = [queue EXCEPT ![c] = Append(@, upd)]
  /\ todo' = todo \ {c}
  /\ UNCHANGED <<bucketVars, stream, restarts, wpc, upd, draining, copyVars,
                 loadVars, clientVars, subscribers, pc, cancelled, lossy>>

SendFull(c) ==
  /\ c \in todo /\ draining = {} /\ Len(queue[c]) >= QueueCap
  /\ draining' = {c}
  /\ UNCHANGED <<bucketVars, stream, restarts, wpc, upd, todo, copyVars, loadVars,
                 clientVars, subscribers, pc, cancelled, queue, lossy>>

\* The drain takes one message at a time, while the client may be receiving.
DrainOne(c) ==
  /\ c \in draining /\ queue[c] # <<>>
  /\ queue' = [queue EXCEPT ![c] = Tail(@)]
  /\ UNCHANGED <<bucketVars, watchVars, copyVars, loadVars, clientVars,
                 subscribers, pc, cancelled, lossy>>

\* Mutation: after the drain the new update is sent, not the marker.
DrainDone_SendUpdate(c) ==
  /\ c \in draining /\ queue[c] = <<>>
  /\ queue' = [queue EXCEPT ![c] = <<upd>>]
  /\ todo' = todo \ {c}
  /\ draining' = {}
  /\ lossy' = lossy \cup {c}
  /\ UNCHANGED <<bucketVars, stream, restarts, wpc, upd, copyVars, loadVars,
                 clientVars, subscribers, pc, cancelled>>

DrainDone(c) ==
  /\ c \in draining /\ queue[c] = <<>>
  /\ queue' = [queue EXCEPT ![c] = <<FullSnapshot>>]
  /\ todo' = todo \ {c}
  /\ draining' = {}
  /\ lossy' = lossy \cup {c}
  /\ UNCHANGED <<bucketVars, stream, restarts, wpc, upd, copyVars, loadVars,
                 clientVars, subscribers, pc, cancelled>>

BroadcastEnd ==
  /\ wpc = "sending" /\ todo = {}
  /\ wpc' = "up"
  /\ upd' = FullSnapshot      \* no update in hand
  /\ UNCHANGED <<bucketVars, stream, restarts, todo, draining, copyVars,
                 loadVars, clientVars, subscribers, pc, cancelled, queue, lossy>>

-----------------------------------------------------------------------------
(* The loop of a client's handler.                                         *)

\* Mutation: an entity that comes back stays in removedEntities.
ReceiveUpdate_KeepRemoved(c) ==
  /\ pc[c] = "loop" /\ queue[c] # <<>>
  /\ LET m == Head(queue[c]) IN
     /\ ~m.full
     /\ dirty' = [dirty EXCEPT ![c][m.entity] = m.state]
     /\ removed' = [removed EXCEPT ![c] = IF m.state = Gone
                                          THEN @ \cup {m.entity} ELSE @]
     /\ total' = [total EXCEPT ![c] = m.total]
  /\ queue' = [queue EXCEPT ![c] = Tail(@)]
  /\ UNCHANGED <<bucketVars, watchVars, copyVars, loadVars, shown, dashTotal,
                 subscribers, pc, cancelled, lossy>>

\* queueOverwatchUpdate
ReceiveUpdate(c) ==
  /\ pc[c] = "loop" /\ queue[c] # <<>>
  /\ LET m == Head(queue[c]) IN
     /\ ~m.full
     /\ dirty' = [dirty EXCEPT ![c][m.entity] = m.state]
     /\ removed' = [removed EXCEPT ![c] = IF m.state = Gone
                                          THEN @ \cup {m.entity}
                                          ELSE @ \ {m.entity}]
     /\ total' = [total EXCEPT ![c] = m.total]
  /\ queue' = [queue EXCEPT ![c] = Tail(@)]
  /\ UNCHANGED <<bucketVars, watchVars, copyVars, loadVars, shown, dashTotal,
                 subscribers, pc, cancelled, lossy>>

ReceiveFullSnapshot(c) ==
  /\ pc[c] = "loop" /\ queue[c] # <<>>
  /\ Head(queue[c]).full
  /\ queue' = [queue EXCEPT ![c] = Tail(@)]
  /\ pc' = [pc EXCEPT ![c] = "resync"]
  /\ UNCHANGED <<bucketVars, watchVars, copyVars, loadVars, clientVars,
                 subscribers, cancelled, lossy>>

\* queueFullOverwatchSnapshot: every entity of the snapshot becomes dirty,
\* and of the others only those the client already knows become removed.
TakeSnapshot(c) ==
  /\ pc[c] = "resync"
  /\ dirty' = [dirty EXCEPT ![c] = [e \in Entity |->
                 IF entityState[e] = Gone /\ shown[c][e] = Gone
                 THEN dirty[c][e] ELSE entityState[e]]]
  /\ removed' = [removed EXCEPT ![c] =
                   {e \in Entity : /\ entityState[e] = Gone
                                   /\ e \in removed[c] \/ shown[c][e] # Gone}]
  /\ total' = [total EXCEPT ![c] = Cardinality(Live(entityState))]
  /\ pc' = [pc EXCEPT ![c] = "loop"]
  /\ UNCHANGED <<bucketVars, watchVars, copyVars, loadVars, shown, dashTotal,
                 subscribers, cancelled, queue, lossy>>

\* flushOverwatchUpdates: cards of the dirty entities are patched or added,
\* then those of removed entities that were known are taken away.
Flush(c) ==
  /\ pc[c] = "loop"
  /\ Live(dirty[c]) # {} \/ removed[c] # {}
  /\ shown' = [shown EXCEPT ![c] = [e \in Entity |->
                 IF e \in removed[c] THEN Gone
                 ELSE IF dirty[c][e] # Gone THEN dirty[c][e]
                 ELSE shown[c][e]]]
  /\ dashTotal' = IF Live(dirty[c]) # {} \/ removed[c] \cap Live(shown[c]) # {}
                  THEN [dashTotal EXCEPT ![c] = total[c]] ELSE dashTotal
  /\ dirty' = [dirty EXCEPT ![c] = NoStates]
  /\ removed' = [removed EXCEPT ![c] = {}]
  /\ UNCHANGED <<bucketVars, watchVars, copyVars, loadVars, total,
                 subscribers, pc, cancelled, queue, lossy>>

\* The browser closes the connection: its request context is done.
Cancel(c) ==
  /\ pc[c] \in {"loop", "resync"} /\ c \notin cancelled
  /\ cancelled' = cancelled \cup {c}
  /\ UNCHANGED <<bucketVars, watchVars, copyVars, loadVars, clientVars,
                 subscribers, pc, queue, lossy>>

\* Mutation: the channel is closed without taking mu.
Unsubscribe_NoLock(c) ==
  /\ c \in cancelled \cap subscribers
  /\ subscribers' = subscribers \ {c}
  /\ UNCHANGED <<bucketVars, watchVars, copyVars, loadVars, clientVars,
                 pc, cancelled, queue, lossy>>

\* By the goroutine waiting for the context or by the handler's defer, under
\* mu: forget the channel and close it.
Unsubscribe(c) ==
  /\ c \in cancelled \cap subscribers /\ ~ReadLocked
  /\ subscribers' = subscribers \ {c}
  /\ UNCHANGED <<bucketVars, watchVars, copyVars, loadVars, clientVars,
                 pc, cancelled, queue, lossy>>

\* The handler has returned and the channel is closed.
Leave(c) ==
  /\ pc[c] = "loop" /\ c \in cancelled \ subscribers
  /\ pc' = [pc EXCEPT ![c] = "off"]
  /\ cancelled' = cancelled \ {c}
  /\ lossy' = lossy \ {c}
  /\ queue' = [queue EXCEPT ![c] = <<>>]
  /\ dirty' = [dirty EXCEPT ![c] = NoStates]
  /\ removed' = [removed EXCEPT ![c] = {}]
  /\ shown' = [shown EXCEPT ![c] = NoStates]
  /\ total' = [total EXCEPT ![c] = 0]
  /\ dashTotal' = [dashTotal EXCEPT ![c] = 0]
  /\ UNCHANGED <<bucketVars, watchVars, copyVars, loadVars, subscribers>>

-----------------------------------------------------------------------------
\* The process ends and starts again; the bucket is kept in JetStream's files.
Crash ==
  /\ restarts < MaxRestarts
  /\ restarts' = restarts + 1
  /\ stream' = <<>> /\ wpc' = "off"
  /\ upd' = FullSnapshot /\ todo' = {} /\ draining' = {}
  /\ entityData' = Gone /\ entityState' = NoStates
  /\ subscribers' = {} /\ toLoad' = {} /\ loaded' = Gone
  /\ pc' = [c \in Client |-> "off"] /\ cancelled' = {}
  /\ queue' = [c \in Client |-> <<>>]
  /\ dirty' = [c \in Client |-> NoStates] /\ removed' = [c \in Client |-> {}]
  /\ shown' = [c \in Client |-> NoStates]
  /\ total' = [c \in Client |-> 0] /\ dashTotal' = [c \in Client |-> 0]
  /\ lossy' = {}
  /\ UNCHANGED bucketVars

-----------------------------------------------------------------------------
Bucket == \E k \in Key : KVPut(k) \/ KVDelete(k)

Watch ==
  \/ WatchStart \/ ApplyNothing \/ Apply \/ BroadcastBegin \/ BroadcastEnd
  \/ \E c \in Client : Send(c) \/ SendFull(c) \/ DrainOne(c) \/ DrainDone(c)

Subscribe(c) ==
  \/ Connect(c) \/ AlreadyStarted(c) \/ StartLoad(c) \/ StartFails(c)
  \/ FinishLoad(c) \/ Register(c)

Loop(c) ==
  \/ ReceiveUpdate(c) \/ ReceiveFullSnapshot(c) \/ TakeSnapshot(c) \/ Flush(c)

Next ==
  \/ Bucket
  \/ Watch
  \/ WatchStop
  \/ Crash
  \/ \E k \in Key : LoadKey(k)
  \/ \E c \in Client : Subscribe(c) \/ Loop(c) \/ Cancel(c) \/ Unsubscribe(c) \/ Leave(c)

Spec == Init /\ [][Next]_vars

\* The watch goroutine and the loop of a connected client keep running: the
\* select of the loop picks among its ready cases at random, so a case that
\* stays ready is taken in the end.  Nobody has to write, connect or leave.
Fairness ==
  /\ WF_vars(Watch)
  /\ \A c \in Client :
       /\ WF_vars(ReceiveUpdate(c) \/ ReceiveFullSnapshot(c) \/ TakeSnapshot(c))
       /\ WF_vars(Flush(c))

FairSpec == Spec /\ Fairness

-----------------------------------------------------------------------------
TypeOK ==
  /\ kv \in [Key -> Entry] /\ \A k \in Key : kv[k].key = k
  /\ rev \in Nat
  /\ stream \in Seq(Entry)
  /\ restarts \in Nat
  /\ wpc \in {"off", "down", "up", "applied", "sending"}
  /\ upd \in Message
  /\ todo \subseteq Client /\ draining \subseteq Client
  /\ entityData \in State /\ entityState \in [Entity -> State]
  /\ subscribers \subseteq Client
  /\ toLoad \subseteq Key /\ loaded \in State
  /\ pc \in [Client -> {"off", "starting", "loading", "refused",
                        "registering", "loop", "resync"}]
  /\ cancelled \subseteq Client
  /\ queue \in [Client -> Seq(Message)] /\ \A c \in Client : Len(queue[c]) <= QueueCap
  /\ dirty \in [Client -> [Entity -> State]]
  /\ removed \in [Client -> SUBSET Entity]
  /\ shown \in [Client -> [Entity -> State]]
  /\ total \in [Client -> Nat] /\ dashTotal \in [Client -> Nat]
  /\ lossy \subseteq Client

(* Safety.  Untouched: no message of q concerns e.  Owes: q brings e to st. *)

Untouched(q, e) == \A i \in DOMAIN q : ~q[i].full /\ q[i].entity # e

Owes(q, e, st) ==
  \E i \in DOMAIN q :
    /\ q[i].full \/ (q[i].entity = e /\ q[i].state = st)
    /\ \A j \in DOMAIN q : j > i => q[j].full \/ q[j].entity # e

\* What the client shows for e once it has flushed what it holds.
Local(c, e) ==
  IF dirty[c][e] # Gone THEN dirty[c][e]
  ELSE IF e \in removed[c] THEN Gone
  ELSE shown[c][e]

UpToDate(c, e) ==
  \/ Owes(queue[c], e, entityState[e])
  \/ /\ Untouched(queue[c], e)
     /\ \/ pc[c] = "resync"
        \/ Local(c, e) = entityState[e]
        \/ c \in lossy /\ entityState[e] = Gone

\* No change of the shared copy is lost on its way to a subscriber: whatever
\* the interleaving of the watcher, the drain and the client's loop, what the
\* client holds or its channel still owes it ends at the current state of
\* every entity.  Left out are the update being broadcast, a channel being
\* drained, and, for a client that was drained, an entity already removed.
ViewOrOwed ==
  \A c \in subscribers, e \in Entity :
    \/ c \in draining
    \/ (wpc = "applied" \/ c \in todo) /\ e = upd.entity
    \/ UpToDate(c, e)

(* What ViewOrOwed rests on, for the proof. *)

\* A client's state is fresh until it is registered, which needs a started
\* broadcaster; one client at a time starts it.
ConnectionInv ==
  /\ \A c \in Client :
       /\ pc[c] \notin {"loop", "resync"} =>
            /\ c \notin subscribers /\ c \notin lossy
            /\ queue[c] = <<>> /\ dirty[c] = NoStates /\ removed[c] = {}
       /\ pc[c] = "loading" =>
            wpc = "off" /\ \A d \in Client : pc[d] = "loading" => d = c
       /\ pc[c] \in {"registering", "loop", "resync"} => wpc # "off"

\* broadcast sends the state the copy now has, to registered channels only,
\* draining one at a time.
SenderInv ==
  /\ wpc # "sending" => todo = {}
  /\ draining \subseteq todo /\ \A c, d \in draining : c = d
  /\ todo \subseteq subscribers
  /\ wpc \in {"applied", "sending"} =>
       ~upd.full /\ upd.entity \in Entity /\ upd.state = entityState[upd.entity]

\* Only a drained client has a snapshot to take, and an entity is never both
\* dirty and removed.
ClientInv ==
  \A c \in Client :
    /\ (pc[c] = "resync" \/ \E i \in DOMAIN queue[c] : queue[c][i].full) => c \in lossy
    /\ \A e \in removed[c] : dirty[c][e] = Gone

FeedInv == TypeOK /\ ConnectionInv /\ SenderInv /\ ClientInv /\ ViewOrOwed

\* The shared copy misses no write of the bucket, whether it happened while
\* the copy was loaded, before the watcher started, or between two watchers:
\* the last entry of a key is in the copy or still to be read by the watcher.
BucketTracked ==
  Watching => \A k \in Key :
    \/ \E i \in DOMAIN stream :
         /\ stream[i] = kv[k]
         /\ \A j \in DOMAIN stream : j > i => stream[j].key # k
    \/ /\ \A i \in DOMAIN stream : stream[i].key # k
       /\ entityData[k] = BucketValue(k)

\* What it rests on: a key that was never written is nowhere.
TrackInv ==
  /\ BucketTracked
  /\ \A k \in Key : kv[k].op = "none" =>
       /\ entityData[k] = 0 /\ loaded[k] = 0
       /\ \A i \in DOMAIN stream : stream[i].key # k

\* broadcast never sends on a channel unsubscribe has closed (it would panic).
NoSendOnClosedChannel == todo \cup draining \subseteq subscribers

\* When nothing is under way for a client that was never drained, the number
\* of entities its dashboard displays is that of the shared copy.  (After a
\* drain the snapshot may change no card, and then no total is sent either.)
TotalMatches ==
  \A c \in subscribers \ lossy :
    /\ pc[c] = "loop" /\ wpc = "up" /\ queue[c] = <<>>
    /\ Live(dirty[c]) = {} /\ removed[c] = {}
    => dashTotal[c] = Cardinality(Live(entityState))

\* What it rests on: every update in a channel has the number of entities the
\* client will know of once it has received that update, and the dashboard has
\* the number of its cards.  LiveAfter: e is live after n updates of q, as it
\* was held before if none of them concerns it.
LiveAfter(q, n, e, held) ==
  \/ \E i \in 1 .. n :
       /\ q[i].entity = e /\ q[i].state # Gone
       /\ \A j \in i + 1 .. n : q[j].entity # e
  \/ held /\ \A i \in 1 .. n : q[i].entity # e

SeenLive(c, n) == {e \in Entity : LiveAfter(queue[c], n, e, Local(c, e) # Gone)}

TotalInv ==
  /\ wpc \in {"applied", "sending"} => upd.total = Cardinality(Live(entityState))
  /\ \A c \in subscribers \ (lossy \cup draining) :
       /\ total[c] = Cardinality(SeenLive(c, 0))
       /\ \A n \in DOMAIN queue[c] : queue[c][n].total = Cardinality(SeenLive(c, n))
       /\ dashTotal[c] = Cardinality(Live(shown[c]))

\* What it rests on: no value a client holds or is owed is newer than what the
\* copy, the watcher and the bucket have to say of its key, and among these
\* values the older are further on their way.  0 is no value, of any age.
Older(a, b) == a = 0 \/ b = 0 \/ a <= b

Past(x, k) ==
  /\ Older(x, entityData[k]) /\ x <= kv[k].rev
  /\ \A i \in DOMAIN stream : stream[i].key = k => x <= stream[i].rev

CopyAges ==
  /\ \A k \in Key : kv[k].rev <= rev /\ loaded[k] <= kv[k].rev /\ Past(entityData[k], k)
  /\ \A i \in DOMAIN stream :
       /\ stream[i].rev <= kv[stream[i].key].rev
       /\ \A j \in DOMAIN stream :
            i < j /\ stream[j].key = stream[i].key => stream[i].rev <= stream[j].rev
  /\ ~Watching => stream = <<>>
  /\ \A e \in Entity : entityState[e] = Merge(entityData, e)

CardAges(c) ==
  /\ pc[c] \notin {"loop", "resync"} => shown[c] = NoStates
  /\ \A e \in Entity, k \in Key :
       /\ Past(shown[c][e][k], k) /\ Past(dirty[c][e][k], k)
       /\ Older(shown[c][e][k], dirty[c][e][k])
       /\ \A i \in DOMAIN queue[c] : queue[c][i].entity = e =>
            /\ Past(queue[c][i].state[k], k)
            /\ Older(shown[c][e][k], queue[c][i].state[k])
            /\ Older(dirty[c][e][k], queue[c][i].state[k])
            /\ \A j \in DOMAIN queue[c] : i < j /\ queue[c][j].entity = e =>
                 Older(queue[c][i].state[k], queue[c][j].state[k])

AgeInv == CopyAges /\ \A c \in Client \ lossy : CardAges(c)

\* Until a client is drained, no card goes back to an older value of a key.
CardsNeverGoBack ==
  [][\A c \in Client \ lossy', e \in Entity, k \in Key :
       /\ pc[c] = "loop" /\ pc'[c] = "loop"
       /\ shown[c][e][k] # 0 /\ shown'[c][e][k] # 0
       => shown'[c][e][k] >= shown[c][e][k]]_vars

Connected(c) == pc[c] = "loop" /\ c \notin cancelled

BucketState(e) == [k \in Key |-> IF EntityOf[k] = e THEN BucketValue(k) ELSE 0]

\* Nothing is on its way from the bucket to client c.
AtRest(c) ==
  /\ pc[c] = "loop" /\ wpc = "up" /\ stream = <<>> /\ queue[c] = <<>>
  /\ Live(dirty[c]) = {} /\ removed[c] = {}

\* From end to end: whatever writes, restarts of the watcher and drains lie
\* behind it, a subscriber at rest shows every entity in the last state the
\* bucket has of it, and none that was deleted unless it was drained.
CardsCurrent ==
  \A c \in subscribers, e \in Entity : AtRest(c) =>
    \/ shown[c][e] = BucketState(e)
    \/ c \in lossy /\ BucketState(e) = Gone

\* Once the bucket is quiet, a client that is connected comes to show every
\* entity of the bucket in its last state, and none that was deleted unless
\* the client was drained.
Converges ==
  \A c \in Client :
    <>[](Connected(c) => \A e \in Entity :
           \/ shown[c][e] = BucketState(e)
           \/ c \in lossy /\ BucketState(e) = Gone)

\* What the dashboard promises, "View organizations and entities in
\* real-time": at rest it shows no entity that the shared copy has dropped.
NoGhostCard ==
  \A c \in subscribers :
    Connected(c) /\ AtRest(c) => Live(shown[c]) \subseteq Live(entityState)
=============================================================================
