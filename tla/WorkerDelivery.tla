---------------------------- MODULE WorkerDelivery ----------------------------
(***************************************************************************)
(* The telemetry and the event worker (pkg/services/workers): the loop of  *)
(* base.go on a durable pull consumer of JetStream, the two handlers on    *)
(* the registry of entities they share, the entities the API creates and   *)
(* deletes meanwhile, and the server stopping, crashing and starting.      *)
(*                                                                         *)
(* The entity and the command worker run the same loop with handlers that  *)
(* keep no state, and are left out.                                        *)
(***************************************************************************)
EXTENDS Naturals, Sequences

CONSTANTS
  Entity,
  Message,     \* the messages devices publish, each once
  Kind,        \* what each message is
  StreamOf,    \* the worker whose stream it is published to
  About,       \* the entity it is about
  None,        \* no message
  Batch,       \* messages a Fetch returns at most
  MaxDeliver,  \* deliveries of a message
  MaxExpire,   \* bound: deliveries that expire while they are being handled
  MaxFail,     \* bound: reads of an entity and subscriptions that fail
  MaxRestart   \* bound: times the server stops

Worker == {"telemetry", "events"}

ASSUME DeliveryAssumption ==
  /\ Kind \in [Message -> {"telemetry", "bootsequence", "shutdown", "other", "malformed"}]
  /\ StreamOf \in [Message -> Worker] /\ About \in [Message -> Entity]
  /\ \A m \in Message : IF StreamOf[m] = "telemetry" THEN Kind[m] \in {"telemetry", "malformed"}
                                                     ELSE Kind[m] # "telemetry"
  /\ None \notin Message
  /\ Batch \in Nat \ {0} /\ MaxDeliver \in Nat \ {0}
  /\ MaxExpire \in Nat /\ MaxFail \in Nat /\ MaxRestart \in Nat

VARIABLES
  (* the server's streams and consumers, kept over restarts *)
  sent,      \* published messages
  fresh,     \* fresh[w]: messages not yet delivered, oldest first
  again,     \* again[w]: messages to be delivered again
  count,     \* count[m]: deliveries of m
  acked,     \* acknowledged messages
  givenUp,   \* messages delivered MaxDeliver times and not acknowledged
  (* the workers *)
  step,      \* step[w]: where the goroutine of w is
  hand,      \* hand[w]: the rest of the batch it works on
  sub,       \* sub[w]: the subscription field of w: none, valid or closed
  registry,  \* ids in the registry
  cache,     \* ids in the telemetry worker's cache
  (* entities: their rows, their keys, those created and those a device has
     put a key of so far *)
  rows, keys, created, written,
  (* the process *)
  phase,     \* up, stopping, waiting, stopped, timedout or down
  toStop,    \* workers Manager.Stop has not called Stop of
  restarts, expired, fails,
  (* history *)
  handled,   \* messages a handler has succeeded on
  recent,    \* those it has succeeded on since the server started
  lastEvent  \* lastEvent[e]: the last bootsequence or shutdown published for e

consumer == <<sent, fresh, again, count, acked, givenUp>>
memory   == <<registry, cache>>
entities == <<rows, keys, created, written>>
process  == <<phase, toStop, restarts>>
bounds   == <<expired, fails>>
history  == <<handled, recent, lastEvent>>

vars == <<sent, fresh, again, count, acked, givenUp, step, hand, sub, registry, cache,
          rows, keys, created, written, phase, toStop, restarts, expired, fails,
          handled, recent, lastEvent>>

Members(s) == {s[i] : i \in DOMAIN s}
\* s, which holds nothing twice, without m.
Without(s, m) ==
  IF m \notin Members(s) THEN s
  ELSE LET k == CHOOSE i \in DOMAIN s : s[i] = m
       IN  [i \in 1 .. Len(s) - 1 |-> IF i < k THEN s[i] ELSE s[i + 1]]

Settled    == acked \cup givenUp
Lifecycle  == {m \in Message : Kind[m] \in {"bootsequence", "shutdown"}}
Connected  == phase \in {"up", "stopping", "waiting"}
Cancelled  == phase \in {"waiting", "stopped", "timedout"}
Handling(w) == step[w] \in {"handle", "load", "ack", "nak"}

Init ==
  /\ sent = {} /\ count = [m \in Message |-> 0] /\ acked = {} /\ givenUp = {}
  /\ fresh = [w \in Worker |-> << >>] /\ again = [w \in Worker |-> << >>]
  /\ step = [w \in Worker |-> "start"] /\ hand = [w \in Worker |-> << >>]
  /\ sub = [w \in Worker |-> "none"]
  /\ registry = {} /\ cache = {}
  /\ rows = {} /\ keys = {} /\ created = {} /\ written = {}
  /\ phase = "up" /\ toStop = {} /\ restarts = 0 /\ expired = 0 /\ fails = 0
  /\ handled = {} /\ recent = {}
  /\ lastEvent = [e \in Entity |-> None]

-----------------------------------------------------------------------------
(* Devices and the API.                                                    *)

Publish(m) ==
  /\ Connected /\ m \notin sent
  /\ sent' = sent \cup {m}
  /\ fresh' = [fresh EXCEPT ![StreamOf[m]] = Append(@, m)]
  /\ lastEvent' = IF m \in Lifecycle THEN [lastEvent EXCEPT ![About[m]] = m] ELSE lastEvent
  /\ UNCHANGED <<again, count, acked, givenUp, step, hand, sub, memory, entities, process,
                 bounds, handled, recent>>

\* The API tells the registry nothing: its events have no event_type.
CreateEntity(e) ==
  /\ phase = "up" /\ e \notin created
  /\ created' = created \cup {e}
  /\ rows' = rows \cup {e} /\ keys' = keys \cup {e}
  /\ UNCHANGED <<written, consumer, step, hand, sub, memory, process, bounds, history>>

\* An entity deleted with its organization keeps its key.
DeleteEntity(e) ==
  /\ phase = "up" /\ e \in rows
  /\ rows' = rows \ {e}
  /\ keys' \in {keys, keys \ {e}}
  /\ UNCHANGED <<created, written, consumer, step, hand, sub, memory, process, bounds, history>>

\* A device writes to the bucket itself: the key of any entity it likes.
DevicePut(e) ==
  /\ Connected
  /\ keys' = keys \cup {e} /\ written' = written \cup {e}
  /\ UNCHANGED <<rows, created, consumer, step, hand, sub, memory, process, bounds, history>>

DeviceDelete(e) ==
  /\ Connected /\ e \in keys
  /\ keys' = keys \ {e}
  /\ UNCHANGED <<rows, created, written, consumer, step, hand, sub, memory, process, bounds,
                 history>>

-----------------------------------------------------------------------------
(* The consumer.                                                           *)

\* A delivery that is refused or expires is made again, or it was the last.
Requeue(m) ==
  IF m \in Settled \/ m \in Members(again[StreamOf[m]]) THEN UNCHANGED <<again, givenUp>>
  ELSE IF count[m] < MaxDeliver
       THEN again' = [again EXCEPT ![StreamOf[m]] = Append(@, m)] /\ UNCHANGED givenUp
       ELSE givenUp' = givenUp \cup {m} /\ UNCHANGED again

\* AckWait is over, for a message that no worker has any more or for one that
\* is still being handled.
Expire(m) ==
  /\ Connected
  /\ count[m] > 0 /\ m \notin Settled /\ m \notin Members(again[StreamOf[m]])
  /\ IF m \in Members(hand[StreamOf[m]])
     THEN expired < MaxExpire /\ expired' = expired + 1
     ELSE UNCHANGED expired
  /\ Requeue(m)
  /\ UNCHANGED <<sent, fresh, count, acked, step, hand, sub, memory, entities, process,
                 fails, history>>

-----------------------------------------------------------------------------
(* The loop of a worker: processMessages.                                  *)

Goto(w, s) == step' = [step EXCEPT ![w] = s]

Subscribe(w) ==
  /\ step[w] = "start"
  /\ IF Connected THEN Goto(w, "fetch") /\ sub' = [sub EXCEPT ![w] = "valid"]
                  ELSE Goto(w, "ended") /\ UNCHANGED sub
  /\ UNCHANGED <<consumer, hand, memory, entities, process, bounds, history>>

\* PullSubscribe fails on a connection that is up: the goroutine returns, and
\* nothing starts it again before the process does.
SubscribeFails(w) ==
  /\ step[w] = "start" /\ Connected
  /\ fails < MaxFail /\ fails' = fails + 1
  /\ Goto(w, "ended")
  /\ UNCHANGED <<consumer, hand, sub, memory, entities, process, expired, history>>

\* The context and the subscription are looked at before each Fetch.
BeginFetch(w) ==
  /\ step[w] = "fetch" /\ sub[w] = "valid" /\ ~Cancelled
  /\ Goto(w, "wait")
  /\ UNCHANGED <<consumer, hand, sub, memory, entities, process, bounds, history>>

\* i messages for another time and then, if these were all, j new ones.
Deliver(w, i, j) ==
  /\ i <= Len(again[w]) /\ j <= Len(fresh[w])
  /\ i + j \in 1 .. Batch /\ (j > 0 => i = Len(again[w]))
  /\ again' = [again EXCEPT ![w] = SubSeq(@, i + 1, Len(@))]
  /\ fresh' = [fresh EXCEPT ![w] = SubSeq(@, j + 1, Len(@))]
  /\ LET batch == SubSeq(again[w], 1, i) \o SubSeq(fresh[w], 1, j) IN
     count' = [m \in Message |-> IF m \in Members(batch) THEN count[m] + 1 ELSE count[m]]
  /\ UNCHANGED <<sent, acked, givenUp>>

Fetch(w) ==
  /\ step[w] = "wait" /\ sub[w] = "valid" /\ Connected
  /\ \E i, j \in 0 .. Batch :
       /\ Deliver(w, i, j)
       /\ hand' = [hand EXCEPT ![w] = SubSeq(again[w], 1, i) \o SubSeq(fresh[w], 1, j)]
  /\ Goto(w, "handle")
  /\ UNCHANGED <<sub, memory, entities, process, bounds, history>>

\* The subscription is closed under a Fetch that waits: what the consumer
\* delivers to it arrives nowhere.
FetchCut(w) ==
  /\ step[w] = "wait" /\ sub[w] = "closed" /\ Connected
  /\ \E i, j \in 0 .. Batch : Deliver(w, i, j)
  /\ Goto(w, "ended")
  /\ UNCHANGED <<hand, sub, memory, entities, process, bounds, history>>

\* A Fetch whose subscription or connection is closed returns, and any Fetch
\* times out; one that has timed out begins again unless this ends the loop.
LoopEnds(w) ==
  /\ step[w] \in {"fetch", "wait"} /\ (sub[w] = "closed" \/ Cancelled)
  /\ Goto(w, "ended")
  /\ UNCHANGED <<consumer, hand, sub, memory, entities, process, bounds, history>>

\* The handler of m returns nil.
Succeed(w, m) ==
  /\ Goto(w, "ack")
  /\ handled' = handled \cup {m}
  /\ recent' = recent \cup {m}

\* handleEvent, handleTelemetryMessage: what cannot be parsed is an error.
Reject(w) ==
  /\ step[w] = "handle" /\ Kind[Head(hand[w])] = "malformed"
  /\ Goto(w, "nak")
  /\ UNCHANGED <<consumer, hand, sub, memory, entities, process, bounds, history>>

\* Mutation: shutdown is not told from bootsequence.
RegistryAfter_NeverForget(m) ==
  IF Kind[m] = "other" THEN registry ELSE registry \cup {About[m]}

RegistryAfter(m) ==
  CASE Kind[m] = "bootsequence" -> registry \cup {About[m]}
    [] Kind[m] = "shutdown"     -> registry \ {About[m]}
    [] Kind[m] = "other"        -> registry

HandleEvent ==
  /\ step["events"] = "handle"
  /\ LET m == Head(hand["events"]) IN
     /\ Kind[m] \in {"bootsequence", "shutdown", "other"}
     /\ registry' = RegistryAfter(m)
     /\ Succeed("events", m)
  /\ UNCHANGED <<consumer, hand, sub, cache, entities, process, bounds, lastEvent>>

\* Telemetry of an entity that is not registered is dropped, as handled.
DropTelemetry ==
  /\ step["telemetry"] = "handle"
  /\ LET m == Head(hand["telemetry"]) IN
     /\ Kind[m] # "malformed" /\ About[m] \notin registry
     /\ Succeed("telemetry", m)
  /\ UNCHANGED <<consumer, hand, sub, memory, entities, process, bounds, lastEvent>>

TakeTelemetry ==
  /\ step["telemetry"] = "handle"
  /\ LET m == Head(hand["telemetry"]) IN Kind[m] # "malformed" /\ About[m] \in registry
  /\ Goto("telemetry", "load")
  /\ UNCHANGED <<consumer, hand, sub, memory, entities, process, bounds, history>>

\* getOrCreateEntityState: from the cache, the bucket or the row.
Loadable(e) == e \in cache \cup keys \cup rows

LoadState ==
  /\ step["telemetry"] = "load"
  /\ LET m == Head(hand["telemetry"]) IN
     /\ Loadable(About[m])
     /\ cache' = cache \cup {About[m]}
     /\ Succeed("telemetry", m)
  /\ UNCHANGED <<consumer, hand, sub, registry, entities, process, bounds, lastEvent>>

\* Neither is there, or reading fails.
LoadFails ==
  /\ step["telemetry"] = "load"
  /\ LET e == About[Head(hand["telemetry"])] IN
     /\ e \notin cache
     /\ IF Loadable(e) THEN fails < MaxFail /\ fails' = fails + 1 ELSE UNCHANGED fails
  /\ Goto("telemetry", "nak")
  /\ UNCHANGED <<consumer, hand, sub, memory, entities, process, expired, history>>

\* Mutation: an answer ends the batch.
NextMessage_FetchAgain(w) ==
  /\ hand' = [hand EXCEPT ![w] = Tail(@)]
  /\ Goto(w, "fetch")

NextMessage(w) ==
  /\ hand' = [hand EXCEPT ![w] = Tail(@)]
  /\ Goto(w, IF Len(hand[w]) = 1 THEN "fetch" ELSE "handle")

\* Mutation: every message is acknowledged, also one whose handler failed.
AckDue_Always(w) == step[w] \in {"ack", "nak"}

AckDue(w) == step[w] = "ack"

\* An answer reaches the consumer unless the connection is closed.
Ack(w) ==
  /\ AckDue(w)
  /\ LET m == Head(hand[w]) IN
     IF Connected /\ m \notin givenUp
     THEN /\ acked' = acked \cup {m}
          /\ again' = [again EXCEPT ![w] = Without(@, m)]
     ELSE UNCHANGED <<acked, again>>
  /\ NextMessage(w)
  /\ UNCHANGED <<sent, fresh, count, givenUp, sub, memory, entities, process, bounds, history>>

\* Mutation: a failing handler ends the loop.
Nak_EndLoop(w) ==
  /\ step[w] = "nak"
  /\ IF Connected THEN Requeue(Head(hand[w])) ELSE UNCHANGED <<again, givenUp>>
  /\ hand' = [hand EXCEPT ![w] = << >>] /\ Goto(w, "ended")
  /\ UNCHANGED <<sent, fresh, count, acked, sub, memory, entities, process, bounds, history>>

Nak(w) ==
  /\ step[w] = "nak"
  /\ IF Connected THEN Requeue(Head(hand[w])) ELSE UNCHANGED <<again, givenUp>>
  /\ NextMessage(w)
  /\ UNCHANGED <<sent, fresh, count, acked, sub, memory, entities, process, bounds, history>>

-----------------------------------------------------------------------------
(* Manager.Stop, the end of the process, and its start.                    *)

Stop ==
  /\ phase = "up" /\ restarts < MaxRestart
  /\ restarts' = restarts + 1
  /\ phase' = "stopping" /\ toStop' = Worker
  /\ UNCHANGED <<consumer, step, hand, sub, memory, entities, bounds, history>>

\* A worker that has not subscribed yet has nothing to unsubscribe.
StopWorker(w) ==
  /\ phase = "stopping" /\ w \in toStop
  /\ toStop' = toStop \ {w}
  /\ sub' = IF sub[w] = "valid" THEN [sub EXCEPT ![w] = "closed"] ELSE sub
  /\ UNCHANGED <<consumer, step, hand, memory, entities, phase, restarts, bounds, history>>

\* Mutation: the workers are only unsubscribed.
CancelWorkers_Forgotten ==
  /\ phase = "stopping" /\ toStop = {} /\ (\A w \in Worker : step[w] = "ended")
  /\ phase' = "waiting"
  /\ UNCHANGED <<consumer, step, hand, sub, memory, entities, toStop, restarts, bounds, history>>

CancelWorkers ==
  /\ phase = "stopping" /\ toStop = {}
  /\ phase' = "waiting"
  /\ UNCHANGED <<consumer, step, hand, sub, memory, entities, toStop, restarts, bounds, history>>

\* Mutation: the connection is closed without waiting.
AllEnded_NoWait == TRUE

AllEnded == \A w \in Worker : step[w] = "ended"

WorkersDone ==
  /\ phase = "waiting" /\ AllEnded
  /\ phase' = "stopped"
  /\ UNCHANGED <<consumer, step, hand, sub, memory, entities, toStop, restarts, bounds, history>>

\* The deadline, which the web server may have used up before.
StopTimesOut ==
  /\ phase = "waiting"
  /\ phase' = "timedout"
  /\ UNCHANGED <<consumer, step, hand, sub, memory, entities, toStop, restarts, bounds, history>>

GoDown ==
  /\ phase' = "down" /\ toStop' = {}
  /\ step' = [w \in Worker |-> "start"] /\ hand' = [w \in Worker |-> << >>]
  /\ sub' = [w \in Worker |-> "none"]
  /\ registry' = {} /\ cache' = {}
  /\ recent' = {}
  /\ UNCHANGED <<consumer, entities, bounds, handled, lastEvent>>

Exit == phase \in {"stopped", "timedout"} /\ GoDown /\ UNCHANGED restarts

Crash ==
  /\ phase \notin {"down", "stopped"} /\ restarts < MaxRestart
  /\ restarts' = restarts + 1
  /\ GoDown

\* NewManager: the registry is loaded from the rows, and a boot puts the keys
\* that are missing, but for those whose row or key it fails on.
Start ==
  /\ phase = "down"
  /\ phase' = "up"
  /\ registry' = rows
  /\ \E put \in SUBSET rows : keys' = keys \cup put
  /\ UNCHANGED <<consumer, step, hand, sub, cache, rows, created, written, toStop, restarts,
                 bounds, history>>

-----------------------------------------------------------------------------
WorkerStep(w) ==
  /\ phase # "down"
  /\ \/ Subscribe(w) \/ SubscribeFails(w)
     \/ BeginFetch(w) \/ Fetch(w) \/ FetchCut(w) \/ LoopEnds(w)
     \/ Reject(w) \/ Ack(w) \/ Nak(w)
     \/ w = "events" /\ HandleEvent
     \/ w = "telemetry" /\ (DropTelemetry \/ TakeTelemetry \/ LoadState \/ LoadFails)

StopStep == (\E w \in Worker : StopWorker(w)) \/ CancelWorkers \/ WorkersDone

Next ==
  \/ \E m \in Message : Publish(m) \/ Expire(m)
  \/ \E e \in Entity : CreateEntity(e) \/ DeleteEntity(e) \/ DevicePut(e) \/ DeviceDelete(e)
  \/ \E w \in Worker : WorkerStep(w)
  \/ Stop \/ StopStep \/ StopTimesOut \/ Exit \/ Crash \/ Start

Spec == Init /\ [][Next]_vars

\* The goroutines run, AckWait passes, a stop goes on, and a server that is
\* down is started again (docker-compose.yml: restart: unless-stopped).
Fairness ==
  /\ \A w \in Worker : WF_vars(WorkerStep(w))
  /\ \A m \in Message : WF_vars(Expire(m))
  /\ WF_vars(StopStep) /\ WF_vars(Exit) /\ WF_vars(Start)

FairSpec == Spec /\ Fairness

-----------------------------------------------------------------------------
TypeOK ==
  /\ sent \subseteq Message /\ acked \subseteq Message /\ givenUp \subseteq Message
  /\ fresh \in [Worker -> Seq(Message)] /\ again \in [Worker -> Seq(Message)]
  /\ count \in [Message -> 0 .. MaxDeliver]
  /\ step \in [Worker -> {"start", "fetch", "wait", "handle", "load", "ack", "nak", "ended"}]
  /\ hand \in [Worker -> Seq(Message)] /\ sub \in [Worker -> {"none", "valid", "closed"}]
  /\ \A w \in Worker : Handling(w) <=> hand[w] # << >>
  /\ registry \subseteq Entity /\ cache \subseteq Entity
  /\ rows \subseteq Entity /\ keys \subseteq Entity /\ created \subseteq Entity
  /\ written \subseteq Entity
  /\ phase \in {"up", "stopping", "waiting", "stopped", "timedout", "down"}
  /\ toStop \subseteq Worker
  /\ restarts \in Nat /\ expired \in Nat /\ fails \in Nat
  /\ handled \subseteq Message /\ recent \subseteq Message
  /\ lastEvent \in [Entity -> Message \cup {None}]

\* The workers deliver at least once, as AtLeastOnce says: no message is
\* acknowledged before a handler has succeeded on it, or given up too early.
Delivery == INSTANCE AtLeastOnce
AtLeastOnceSpec == Delivery!Spec

(* What AtLeastOnceSpec rests on, for the proof. *)

Owned(s, w) == \A i \in DOMAIN s : s[i] \in sent /\ StreamOf[s[i]] = w
Distinct(s) == \A i, j \in DOMAIN s : s[i] = s[j] => i = j

\* What is in a queue of the consumer may be delivered again.
QueueInv ==
  \A w \in Worker :
    /\ Owned(fresh[w], w) /\ Distinct(fresh[w])
    /\ Owned(again[w], w) /\ Distinct(again[w])
    /\ \A i \in DOMAIN fresh[w] : count[fresh[w][i]] = 0
    /\ \A i \in DOMAIN again[w] :
         again[w][i] \notin Settled /\ count[again[w][i]] \in 1 .. MaxDeliver - 1

\* What a worker has in hand has been delivered, and what it acknowledges a
\* handler has succeeded on.
HandInv ==
  \A w \in Worker :
    /\ Owned(hand[w], w)
    /\ \A i \in DOMAIN hand[w] : count[hand[w][i]] > 0
    /\ step[w] = "ack" => Head(hand[w]) \in handled

HistoryInv ==
  /\ \A m \in Message : count[m] > 0 => m \in sent
  /\ \A m \in handled \cup givenUp : count[m] > 0
  /\ acked \subseteq handled

DeliveryInv == TypeOK /\ QueueInv /\ HandInv /\ HistoryInv

\* A Stop that ends within its deadline leaves no message half done: what has
\* been handled since the start is settled with the consumer before the
\* connection is closed.
CleanStop == phase = "stopped" => recent \subseteq Settled

\* What it rests on: what has been handled is settled or about to be answered
\* for, and who has ended answers for nothing.
StopInv ==
  /\ phase = "stopped" => AllEnded
  /\ phase = "down" => recent = {}
  /\ phase # "timedout" =>
       \A m \in recent : m \in Settled \/ \E w \in Worker : step[w] = "ack" /\ m = Head(hand[w])

\* The cache holds no entity but those that were created and those a device has
\* put a key of: telemetry, or a boot event for an unknown id, does not make it
\* grow.
CacheOfEntities == cache \subseteq created \cup written
CacheInv ==
  CacheOfEntities /\ rows \subseteq created /\ keys \subseteq created \cup written

\* An entity is registered or not as the last of its events says, if that one
\* was handled since the start and no event of the entity delivered twice.
RegistryFollowsEvents ==
  \A e \in Entity :
    LET m == lastEvent[e] IN
    /\ m \in recent
    /\ \A n \in Lifecycle : About[n] = e => count[n] <= 1
    => (e \in registry <=> Kind[m] = "bootsequence")

\* What it rests on: as long as the events of e are delivered once, the last
\* one is behind the others wherever they still wait, and nothing of e is
\* handled after it.
EventsOf(e) == {m \in Lifecycle : About[m] = e}
Calm(e)     == \A n \in EventsOf(e) : count[n] <= 1

OrderInv(e) ==
  LET last == lastEvent[e]  queue == fresh["events"]  batch == hand["events"] IN
  /\ \A i \in DOMAIN queue :
       queue[i] \in EventsOf(e) \ {last} => \E j \in DOMAIN queue : j > i /\ queue[j] = last
  /\ \A i \in DOMAIN batch :
       batch[i] \in EventsOf(e) \ {last} =>
         last \in Members(queue) \/ \E j \in DOMAIN batch : j > i /\ batch[j] = last
  /\ \A i, j \in DOMAIN batch : batch[i] = batch[j] /\ batch[i] \in EventsOf(e) => i = j
  /\ last \in recent =>
       /\ e \in registry <=> Kind[last] = "bootsequence"
       /\ \A i \in DOMAIN batch : batch[i] = last => i = 1 /\ step["events"] = "ack"

RegistryInv ==
  /\ recent \subseteq handled
  /\ \A e \in Entity : /\ lastEvent[e] \in EventsOf(e) \cup {None}
                       /\ Calm(e) => OrderInv(e)

\* w has ended in a process that goes on.
Deserted(w) == phase = "up" /\ step[w] = "ended" /\ sub[w] = "none"

\* Every published message is acknowledged or given up in the end, unless its
\* worker could not subscribe and the process goes on without it for ever.
EverySettled ==
  \A m \in Message : m \in sent ~> (m \in Settled \/ []Deserted(StreamOf[m]))

\* A stop ends, without the deadline's help.
StopEnds == phase = "stopping" ~> phase = "down"
=============================================================================
