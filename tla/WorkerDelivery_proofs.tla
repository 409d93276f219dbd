------------------------- MODULE WorkerDelivery_proofs -------------------------
(***************************************************************************)
(* WorkerDelivery implements AtLeastOnce, for any messages, any size of a  *)
(* batch, any number of deliveries and of restarts.                        *)
(***************************************************************************)
EXTENDS WorkerDelivery, SequenceTheorems, TLAPS

USE DeliveryAssumption

-----------------------------------------------------------------------------
(* Sequences of messages.                                                  *)

\* What is left of a sequence, and what is taken from it.
LEMMA Rest ==
  ASSUME NEW s \in Seq(Message), NEW i \in 0 .. Len(s)
  PROVE  /\ SubSeq(s, i + 1, Len(s)) \in Seq(Message)
         /\ DOMAIN SubSeq(s, i + 1, Len(s)) = 1 .. Len(s) - i
         /\ \A k \in 1 .. Len(s) - i : SubSeq(s, i + 1, Len(s))[k] = s[k + i] /\ k + i \in DOMAIN s
<1>1. Len(s) \in Nat /\ DOMAIN s = 1 .. Len(s)
  BY LenProperties
<1>2. \A k \in i + 1 .. Len(s) : s[k] \in Message
  BY <1>1, ElementOfSeq
<1>3. /\ SubSeq(s, i + 1, Len(s)) \in Seq(Message)
      /\ Len(SubSeq(s, i + 1, Len(s))) = IF i + 1 <= Len(s) THEN Len(s) - (i + 1) + 1 ELSE 0
      /\ \A k \in 1 .. Len(s) - (i + 1) + 1 : SubSeq(s, i + 1, Len(s))[k] = s[i + 1 + k - 1]
  BY <1>1, <1>2, SubSeqProperties
<1>4. Len(SubSeq(s, i + 1, Len(s))) = Len(s) - i
  <2> DEFINE n == Len(s)
  <2> DEFINE l == Len(SubSeq(s, i + 1, n))
  <2>1. n \in Nat /\ i \in 0 .. n /\ l = IF i + 1 <= n THEN n - (i + 1) + 1 ELSE 0
    BY <1>1, <1>3, Zenon
  <2> HIDE DEF n, l
  <2>2. l = n - i
    BY <2>1
  <2> QED
    BY <2>2, Zenon DEF n, l
<1>5. DOMAIN SubSeq(s, i + 1, Len(s)) = 1 .. Len(s) - i
  BY <1>3, <1>4, LenProperties
<1>6. ASSUME NEW k \in 1 .. Len(s) - i
      PROVE  SubSeq(s, i + 1, Len(s))[k] = s[k + i] /\ k + i \in DOMAIN s
  <2>1. k \in 1 .. Len(s) - (i + 1) + 1 /\ i + 1 + k - 1 = k + i /\ k + i \in 1 .. Len(s)
    BY <1>1
  <2> QED
    BY <1>1, <1>3, <2>1
<1> QED
  BY <1>3, <1>5, <1>6

LEMMA First ==
  ASSUME NEW s \in Seq(Message), NEW i \in 0 .. Len(s)
  PROVE  /\ SubSeq(s, 1, i) \in Seq(Message) /\ Len(SubSeq(s, 1, i)) = i
         /\ \A k \in 1 .. i : SubSeq(s, 1, i)[k] = s[k] /\ k \in DOMAIN s
<1>1. Len(s) \in Nat /\ DOMAIN s = 1 .. Len(s)
  BY LenProperties
<1>2. \A k \in 1 .. i : s[k] \in Message
  BY <1>1, ElementOfSeq
<1>3. /\ SubSeq(s, 1, i) \in Seq(Message)
      /\ Len(SubSeq(s, 1, i)) = IF 1 <= i THEN i - 1 + 1 ELSE 0
      /\ \A k \in 1 .. i - 1 + 1 : SubSeq(s, 1, i)[k] = s[1 + k - 1]
  BY <1>1, <1>2, SubSeqProperties
<1> QED
  BY <1>1, <1>3

\* The batch of a Fetch: i messages of s and then j of t.
IsBatch(b, s, i, t, j) ==
  /\ b \in Seq(Message) /\ Len(b) = i + j /\ DOMAIN b = 1 .. i + j
  /\ \A k \in 1 .. i : b[k] = s[k] /\ k \in DOMAIN s
  /\ \A k \in i + 1 .. i + j : b[k] = t[k - i] /\ k - i \in DOMAIN t

LEMMA BatchOf ==
  ASSUME NEW s \in Seq(Message), NEW t \in Seq(Message),
         NEW i \in 0 .. Len(s), NEW j \in 0 .. Len(t),
         NEW b, b = SubSeq(s, 1, i) \o SubSeq(t, 1, j)
  PROVE  IsBatch(b, s, i, t, j)
<1> DEFINE p == SubSeq(s, 1, i)
<1> DEFINE q == SubSeq(t, 1, j)
<1>1. /\ p \in Seq(Message) /\ Len(p) = i
      /\ \A k \in 1 .. i : p[k] = s[k] /\ k \in DOMAIN s
  BY First
<1>2. /\ q \in Seq(Message) /\ Len(q) = j
      /\ \A k \in 1 .. j : q[k] = t[k] /\ k \in DOMAIN t
  BY First
<1>3. i \in Nat /\ j \in Nat
  BY LenProperties
<1>4. b = p \o q
  BY Zenon
<1> HIDE DEF p, q
<1>5. /\ b \in Seq(Message) /\ Len(b) = i + j
      /\ \A k \in 1 .. i + j : b[k] = IF k <= i THEN p[k] ELSE q[k - i]
  BY <1>1, <1>2, <1>4, ConcatProperties
<1>6. DOMAIN b = 1 .. i + j
  BY <1>5, LenProperties
<1>7. \A k \in 1 .. i : b[k] = s[k] /\ k \in DOMAIN s
  BY <1>1, <1>3, <1>5
<1>8. \A k \in i + 1 .. i + j : b[k] = t[k - i] /\ k - i \in DOMAIN t
  BY <1>2, <1>3, <1>5
<1> QED
  BY <1>5, <1>6, <1>7, <1>8, Zenon DEF IsBatch

\* A sequence without m: the rest of its elements, each at most once again.
LEMMA WithoutOf ==
  ASSUME NEW s \in Seq(Message), NEW m \in Message, Distinct(s)
  PROVE  /\ Without(s, m) \in Seq(Message) /\ Distinct(Without(s, m))
         /\ \A i \in DOMAIN Without(s, m) :
              Without(s, m)[i] # m /\ \E j \in DOMAIN s : Without(s, m)[i] = s[j]
<1>1. Len(s) \in Nat /\ DOMAIN s = 1 .. Len(s) /\ \A i \in 1 .. Len(s) : s[i] \in Message
  BY LenProperties, ElementOfSeq
<1>2. CASE m \notin Members(s)
  BY <1>2 DEF Without, Members
<1>3. CASE m \in Members(s)
  <2> DEFINE k == CHOOSE i \in DOMAIN s : s[i] = m
  <2> DEFINE r == [i \in 1 .. Len(s) - 1 |-> IF i < k THEN s[i] ELSE s[i + 1]]
  <2>1. k \in 1 .. Len(s) /\ s[k] = m
    BY <1>1, <1>3 DEF Members
  <2>2. Without(s, m) = r
    BY <1>3 DEF Without
  <2> HIDE DEF k
  <2>3. Len(s) - 1 \in Nat
    BY <1>1, <2>1
  <2>4. \A i \in 1 .. Len(s) - 1 : r[i] \in Message
    BY <1>1, <2>1, <2>3
  <2>5. r \in Seq(Message)
    BY <2>3, <2>4, SeqDef
  <2>6. DOMAIN r = 1 .. Len(s) - 1
    OBVIOUS
  <2>7. Distinct(r)
    <3> SUFFICES ASSUME NEW i \in DOMAIN r, NEW j \in DOMAIN r, r[i] = r[j]
                 PROVE  i = j
      BY DEF Distinct
    <3> DEFINE at(n) == IF n < k THEN n ELSE n + 1
    <3>1. at(i) \in DOMAIN s /\ r[i] = s[at(i)]
      BY <1>1, <2>1, <2>3, <2>6
    <3>2. at(j) \in DOMAIN s /\ r[j] = s[at(j)]
      BY <1>1, <2>1, <2>3, <2>6
    <3>3. at(i) = at(j)
      <4> HIDE DEF at, r
      <4> QED
        BY <3>1, <3>2 DEF Distinct
    <3> QED
      BY <1>1, <2>1, <2>3, <2>6, <3>3
  <2>8. ASSUME NEW i \in DOMAIN r
        PROVE  r[i] # m /\ \E j \in DOMAIN s : r[i] = s[j]
    <3>1. CASE i < k
      BY <1>1, <2>1, <2>3, <3>1 DEF Distinct
    <3>2. CASE ~(i < k)
      <4>1. i + 1 \in DOMAIN s /\ r[i] = s[i + 1] /\ i + 1 # k
        BY <1>1, <2>1, <2>3, <3>2
      <4> QED
        BY <1>1, <2>1, <4>1 DEF Distinct
    <3> QED
      BY <3>1, <3>2
  <2> QED
    BY <2>2, <2>5, <2>7, <2>8
<1> QED
  BY <1>2, <1>3

\* The first element of a sequence, and what is left.
LEMMA HeadTail ==
  ASSUME NEW s \in Seq(Message), s # << >>
  PROVE  /\ 1 \in DOMAIN s /\ Head(s) = s[1] /\ Head(s) \in Message
         /\ Tail(s) \in Seq(Message)
         /\ Len(s) = 1 <=> Tail(s) = << >>
         /\ \A i \in DOMAIN Tail(s) : i + 1 \in DOMAIN s /\ Tail(s)[i] = s[i + 1]
<1>1. Len(s) \in Nat \ {0} /\ DOMAIN s = 1 .. Len(s)
  BY EmptySeq, LenProperties
<1>2. Head(s) = s[1] /\ Head(s) \in Message
  BY HeadTailProperties
<1>3. /\ Tail(s) \in Seq(Message) /\ Len(Tail(s)) = Len(s) - 1
      /\ \A i \in 1 .. Len(Tail(s)) : Tail(s)[i] = s[i + 1]
  BY HeadTailProperties
<1>4. Len(s) = 1 <=> Tail(s) = << >>
  <2>1. Tail(s) = << >> <=> Len(Tail(s)) = 0
    BY <1>3, EmptySeq, Zenon
  <2>2. Len(Tail(s)) = 0 <=> Len(s) = 1
    BY <1>1, <1>3
  <2> QED
    BY <2>1, <2>2, Zenon
<1>5. DOMAIN Tail(s) = 1 .. Len(s) - 1
  BY <1>3, LenProperties
<1> QED
  BY <1>1, <1>2, <1>3, <1>4, <1>5

-----------------------------------------------------------------------------
(* What the steps have in common.                                          *)

\* Hands keep only what they have, and nobody comes to acknowledge anything.
HandsShrink ==
  \A w \in Worker :
    /\ \A i \in DOMAIN hand'[w] : \E j \in DOMAIN hand[w] : hand'[w][i] = hand[w][j]
    /\ step'[w] = "ack" => step[w] = "ack" /\ hand'[w] = hand[w]

\* Hands that shrink keep their invariant.
LEMMA ShrinkStep ==
  ASSUME TypeOK, HandInv, HandsShrink, sent \subseteq sent', handled \subseteq handled',
         \A m \in Message : count[m] > 0 => count'[m] > 0
  PROVE  HandInv'
<1> SUFFICES ASSUME NEW w \in Worker
             PROVE  /\ \A i \in DOMAIN hand'[w] :
                         hand'[w][i] \in sent' /\ StreamOf[hand'[w][i]] = w
                         /\ count'[hand'[w][i]] > 0
                    /\ step'[w] = "ack" => Head(hand'[w]) \in handled'
  BY DEF HandInv, Owned
<1>1. hand[w] \in Seq(Message)
  BY DEF TypeOK
<1>2. ASSUME NEW i \in DOMAIN hand'[w]
      PROVE  hand'[w][i] \in sent' /\ StreamOf[hand'[w][i]] = w /\ count'[hand'[w][i]] > 0
  <2>1. PICK j \in DOMAIN hand[w] : hand'[w][i] = hand[w][j]
    BY DEF HandsShrink
  <2>2. hand[w][j] \in Message
    BY <1>1, ElementOfSeq, LenProperties
  <2> QED
    BY <2>1, <2>2 DEF HandInv, Owned
<1> QED
  BY <1>2 DEF HandInv, Owned, HandsShrink

\* A step the consumer does not see, and no handler's success, is a stutter.
LEMMA HiddenStep ==
  ASSUME DeliveryInv, UNCHANGED <<consumer, handled>>, HandsShrink
  PROVE  QueueInv' /\ HandInv' /\ HistoryInv' /\ UNCHANGED Delivery!vars
<1>1. HandInv'
  BY ShrinkStep DEF DeliveryInv, consumer
<1>2. QueueInv' /\ HistoryInv'
  BY DEF DeliveryInv, QueueInv, HistoryInv, Owned, Settled, consumer
<1> QED
  BY <1>1, <1>2 DEF consumer, Delivery!vars

\* The type invariant but for what only the consumer and the hands touch.
TypeRest ==
  /\ sub \in [Worker -> {"none", "valid", "closed"}]
  /\ registry \subseteq Entity /\ cache \subseteq Entity
  /\ rows \subseteq Entity /\ keys \subseteq Entity /\ created \subseteq Entity
  /\ written \subseteq Entity
  /\ phase \in {"up", "stopping", "waiting", "stopped", "timedout", "down"}
  /\ toStop \subseteq Worker
  /\ restarts \in Nat /\ expired \in Nat /\ fails \in Nat
  /\ handled \subseteq Message /\ recent \subseteq Message
  /\ lastEvent \in [Entity -> Message \cup {None}]

TypeWork ==
  /\ step \in [Worker -> {"start", "fetch", "wait", "handle", "load", "ack", "nak", "ended"}]
  /\ hand \in [Worker -> Seq(Message)]
  /\ \A w \in Worker : Handling(w) <=> hand[w] # << >>

TypeConsumer ==
  /\ sent \subseteq Message /\ acked \subseteq Message /\ givenUp \subseteq Message
  /\ fresh \in [Worker -> Seq(Message)] /\ again \in [Worker -> Seq(Message)]
  /\ count \in [Message -> 0 .. MaxDeliver]

LEMMA TypeParts == TypeOK <=> TypeRest /\ TypeWork /\ TypeConsumer
BY Zenon DEF TypeOK, TypeRest, TypeWork, TypeConsumer

\* A worker answers for its message and goes on to the next.
LEMMA NextMessageStep ==
  ASSUME TypeWork, NEW w \in Worker, step[w] \in {"ack", "nak"}, NextMessage(w)
  PROVE  TypeWork' /\ HandsShrink
<1>1. hand[w] \in Seq(Message) /\ hand[w] # << >>
  BY DEF TypeWork, Handling
<1>2. /\ Tail(hand[w]) \in Seq(Message)
      /\ Len(hand[w]) = 1 <=> Tail(hand[w]) = << >>
      /\ \A i \in DOMAIN Tail(hand[w]) :
           i + 1 \in DOMAIN hand[w] /\ Tail(hand[w])[i] = hand[w][i + 1]
  BY <1>1, HeadTail
<1> DEFINE s == IF Len(hand[w]) = 1 THEN "fetch" ELSE "handle"
<1>3. /\ s \in {"fetch", "handle"} /\ (s = "handle" <=> Tail(hand[w]) # << >>)
      /\ hand' = [hand EXCEPT ![w] = Tail(hand[w])] /\ step' = [step EXCEPT ![w] = s]
  BY <1>2 DEF NextMessage, Goto
<1> HIDE DEF s
<1>4. TypeWork'
  BY <1>2, <1>3 DEF TypeWork, Handling
<1>5. HandsShrink
  BY <1>2, <1>3 DEF TypeWork, HandsShrink
<1> QED
  BY <1>4, <1>5

-----------------------------------------------------------------------------
(* One lemma for each kind of step.                                        *)

\* The API, the stop and the start: none of them touches the workers.
LEMMA ServerStep ==
  ASSUME DeliveryInv,
         \/ \E e \in Entity : CreateEntity(e) \/ DeleteEntity(e) \/ DevicePut(e)
            \/ DeviceDelete(e)
         \/ Stop \/ StopStep \/ StopTimesOut \/ Start
  PROVE  DeliveryInv' /\ UNCHANGED Delivery!vars
<1>1. TypeRest /\ TypeWork /\ TypeConsumer
  BY TypeParts DEF DeliveryInv
<1>2. UNCHANGED <<consumer, handled, hand, step>>
  BY DEF CreateEntity, DeleteEntity, DevicePut, DeviceDelete, Stop, StopStep, StopWorker,
         CancelWorkers, WorkersDone,
         StopTimesOut, Start, history
<1>3. HandsShrink
  BY <1>2 DEF HandsShrink
<1>4. TypeRest'
  <2>1. CASE \E e \in Entity : CreateEntity(e) \/ DeleteEntity(e) \/ DevicePut(e)
             \/ DeviceDelete(e)
    BY <1>1, <2>1 DEF TypeRest, CreateEntity, DeleteEntity, DevicePut, DeviceDelete, process,
                      memory, bounds, history
  <2>2. CASE Stop \/ StopTimesOut \/ Start
    BY <1>1, <2>2 DEF TypeRest, Stop, StopTimesOut, Start, memory, entities, bounds, history
  <2>3. CASE StopStep
    BY <1>1, <2>3 DEF TypeRest, StopStep, StopWorker, CancelWorkers, WorkersDone, memory,
                      entities, bounds, history
  <2> QED
    BY <2>1, <2>2, <2>3
<1>5. TypeWork' /\ TypeConsumer'
  BY <1>1, <1>2 DEF TypeWork, TypeConsumer, Handling, consumer
<1>6. QueueInv' /\ HandInv' /\ HistoryInv' /\ UNCHANGED Delivery!vars
  BY <1>2, <1>3, HiddenStep
<1> QED
  BY <1>4, <1>5, <1>6, TypeParts DEF DeliveryInv, TypeOK, TypeRest, TypeWork, TypeConsumer

\* A worker that moves on without an answer and without having succeeded.
LEMMA QuietStep ==
  ASSUME DeliveryInv, NEW w \in Worker,
         Subscribe(w) \/ SubscribeFails(w) \/ BeginFetch(w) \/ LoopEnds(w) \/ Reject(w)
         \/ TakeTelemetry \/ LoadFails
  PROVE  DeliveryInv' /\ UNCHANGED Delivery!vars
<1>1. TypeRest /\ TypeWork /\ TypeConsumer
  BY TypeParts DEF DeliveryInv
<1>2. UNCHANGED <<consumer, handled, hand>>
  BY DEF Subscribe, SubscribeFails, BeginFetch, LoopEnds, Reject, TakeTelemetry, LoadFails,
         history
<1>3. HandsShrink /\ TypeWork'
  BY <1>1, <1>2 DEF HandsShrink, TypeWork, Handling, Goto, Subscribe, SubscribeFails,
                    BeginFetch, LoopEnds, Reject,
                    TakeTelemetry, LoadFails, Worker
<1>4. TypeRest'
  BY <1>1 DEF TypeRest, Subscribe, SubscribeFails, BeginFetch, LoopEnds, Reject,
              TakeTelemetry, LoadFails, memory,
              entities, process, bounds, history
<1>5. TypeConsumer'
  BY <1>1, <1>2 DEF TypeConsumer, consumer
<1>6. QueueInv' /\ HandInv' /\ HistoryInv' /\ UNCHANGED Delivery!vars
  BY <1>2, <1>3, HiddenStep
<1> QED
  BY <1>3, <1>4, <1>5, <1>6, TypeParts DEF DeliveryInv, TypeOK, TypeRest, TypeWork, TypeConsumer

\* The end of the process takes the hands.
LEMMA DownStep ==
  ASSUME DeliveryInv, Exit \/ Crash
  PROVE  DeliveryInv' /\ UNCHANGED Delivery!vars
<1>1. TypeRest /\ TypeWork /\ TypeConsumer
  BY TypeParts DEF DeliveryInv
<1>2. GoDown
  BY DEF Exit, Crash
<1>3. TypeRest'
  BY <1>1 DEF TypeRest, Exit, Crash, GoDown, entities, bounds
<1>4. TypeWork'
  <2>1. << >> \in Seq(Message)
    BY EmptySeq
  <2> QED
    BY <1>2, <2>1 DEF TypeWork, Handling, GoDown
<1>5. TypeConsumer'
  BY <1>1, <1>2 DEF TypeConsumer, consumer, GoDown
<1>6. HandsShrink
  <2>1. \A v \in Worker : step'[v] = "start" /\ hand'[v] = << >>
    BY <1>2 DEF GoDown
  <2> QED
    BY <2>1 DEF HandsShrink
<1>7. QueueInv' /\ HandInv' /\ HistoryInv' /\ UNCHANGED Delivery!vars
  BY <1>2, <1>6, HiddenStep DEF GoDown
<1> QED
  BY <1>3, <1>4, <1>5, <1>7, TypeParts DEF DeliveryInv, TypeOK, TypeRest, TypeWork, TypeConsumer

\* The message a worker works on.
LEMMA InHand ==
  ASSUME DeliveryInv, NEW w \in Worker, Handling(w)
  PROVE  /\ Head(hand[w]) \in Message /\ StreamOf[Head(hand[w])] = w
         /\ count[Head(hand[w])] > 0 /\ Head(hand[w]) \in sent
<1>1. hand[w] \in Seq(Message) /\ hand[w] # << >>
  BY DEF DeliveryInv, TypeOK
<1>2. 1 \in DOMAIN hand[w] /\ Head(hand[w]) = hand[w][1] /\ Head(hand[w]) \in Message
  BY <1>1, HeadTail
<1> QED
  BY <1>2 DEF DeliveryInv, HandInv, Owned

\* A handler succeeds.
LEMMA SucceedStep ==
  ASSUME DeliveryInv, HandleEvent \/ DropTelemetry \/ LoadState
  PROVE  DeliveryInv' /\ \E m \in Message : Delivery!Handle(m)
<1>1. TypeRest /\ TypeWork /\ TypeConsumer
  BY TypeParts DEF DeliveryInv
<1>2. PICK w \in Worker : Handling(w) /\ Succeed(w, Head(hand[w]))
  BY DEF HandleEvent, DropTelemetry, LoadState, Handling, Worker
<1> DEFINE m == Head(hand[w])
<1>3. /\ m \in Message /\ count[m] > 0 /\ m \in sent
  BY <1>2, InHand
<1>4. /\ UNCHANGED <<consumer, hand>>
      /\ handled' = handled \cup {m} /\ recent' = recent \cup {m}
      /\ step' = [step EXCEPT ![w] = "ack"]
  BY <1>2 DEF HandleEvent, DropTelemetry, LoadState, Succeed, Goto
<1>5. TypeRest'
  <2>1. About[m] \in Entity
    BY <1>3
  <2>2. \A n \in Message : RegistryAfter(n) \subseteq Entity \/ Kind[n] \in {"telemetry", "malformed"}
    BY <1>1 DEF TypeRest, RegistryAfter
  <2>3. CASE HandleEvent
    <3>1. Head(hand["events"]) \in Message
      BY <2>3, InHand DEF HandleEvent, Handling, Worker
    <3> QED
      BY <1>1, <1>3, <1>4, <2>2, <2>3, <3>1
      DEF TypeRest, HandleEvent, entities, process, bounds
  <2>4. CASE DropTelemetry \/ LoadState
    <3>1. Head(hand["telemetry"]) \in Message
      BY <2>4, InHand DEF DropTelemetry, LoadState, Handling, Worker
    <3>2. About[Head(hand["telemetry"])] \in Entity
      BY <3>1
    <3> QED
      BY <1>1, <1>3, <1>4, <2>4, <3>1, <3>2
      DEF TypeRest, DropTelemetry, LoadState, memory, entities, process, bounds
  <2> QED
    BY <2>3, <2>4
<1>6. TypeWork' /\ TypeConsumer'
  BY <1>1, <1>2, <1>4 DEF TypeWork, TypeConsumer, Handling, consumer
<1>7. QueueInv' /\ HistoryInv'
  BY <1>3, <1>4 DEF DeliveryInv, QueueInv, HistoryInv, Owned, Settled, consumer
<1>8. HandInv'
  BY <1>1, <1>4 DEF DeliveryInv, TypeWork, HandInv, Owned, consumer
<1>9. Delivery!Handle(m)
  BY <1>3, <1>4 DEF Delivery!Handle, consumer
<1> QED
  BY <1>3, <1>5, <1>6, <1>7, <1>8, <1>9, TypeParts
  DEF DeliveryInv, TypeOK, TypeRest, TypeWork, TypeConsumer

\* A new message comes last, and is in no queue yet.
LEMMA PublishStep ==
  ASSUME DeliveryInv, NEW m \in Message, Publish(m)
  PROVE  DeliveryInv' /\ Delivery!Send(m)
<1>1. TypeRest /\ TypeWork /\ TypeConsumer
  BY TypeParts DEF DeliveryInv
<1> DEFINE v == StreamOf[m]
<1> DEFINE q == Append(fresh[v], m)
<1>2. v \in Worker /\ fresh[v] \in Seq(Message) /\ m \notin sent /\ count[m] = 0
  <2>1. v \in Worker /\ fresh[v] \in Seq(Message) /\ m \notin sent /\ count[m] \in 0 .. MaxDeliver
    BY <1>1 DEF TypeConsumer, Publish
  <2> QED
    BY <2>1 DEF DeliveryInv, HistoryInv
<1>3. /\ q \in Seq(Message) /\ DOMAIN q = 1 .. Len(fresh[v]) + 1
      /\ Len(fresh[v]) \in Nat /\ DOMAIN fresh[v] = 1 .. Len(fresh[v])
      /\ \A i \in DOMAIN fresh[v] : q[i] = fresh[v][i]
      /\ q[Len(fresh[v]) + 1] = m
  BY <1>2, AppendProperties, LenProperties
<1>4. /\ fresh' = [fresh EXCEPT ![v] = q] /\ sent' = sent \cup {m}
      /\ UNCHANGED <<again, count, acked, givenUp, step, hand, handled>>
  BY DEF Publish
<1> HIDE DEF v, q
<1>5. TypeConsumer'
  BY <1>1, <1>2, <1>3, <1>4 DEF TypeConsumer
<1>6. TypeWork'
  BY <1>1, <1>4 DEF TypeWork, Handling
<1>7. TypeRest'
  BY <1>1 DEF TypeRest, Publish, memory, entities, process, bounds
<1>8. \A i \in DOMAIN q : (i \in DOMAIN fresh[v] /\ q[i] = fresh[v][i])
                          \/ (i = Len(fresh[v]) + 1 /\ q[i] = m)
  BY <1>3
<1>9. /\ \A i \in DOMAIN fresh[v] : /\ fresh[v][i] \in sent /\ StreamOf[fresh[v][i]] = v
                                    /\ count[fresh[v][i]] = 0
      /\ Distinct(fresh[v])
  BY <1>2 DEF DeliveryInv, QueueInv, Owned
<1>10. Distinct(q)
  BY <1>2, <1>3, <1>8, <1>9 DEF Distinct
<1>11. \A i \in DOMAIN q : q[i] \in sent' /\ StreamOf[q[i]] = v /\ count[q[i]] = 0
  BY <1>2, <1>4, <1>8, <1>9 DEF v
<1>12. QueueInv'
  <2> SUFFICES ASSUME NEW w \in Worker
      PROVE  (/\ Owned(fresh[w], w) /\ Distinct(fresh[w])
              /\ Owned(again[w], w) /\ Distinct(again[w])
              /\ \A i \in DOMAIN fresh[w] : count[fresh[w][i]] = 0
              /\ \A i \in DOMAIN again[w] :
                   again[w][i] \notin Settled /\ count[again[w][i]] \in 1 .. MaxDeliver - 1)'
    BY DEF QueueInv
  <2>1. CASE w = v
    <3>1. fresh'[w] = q
      BY <1>1, <1>4, <2>1 DEF TypeConsumer
    <3> QED
      BY <1>4, <1>10, <1>11, <2>1, <3>1 DEF DeliveryInv, QueueInv, Owned, Settled
  <2>2. CASE w # v
    <3>1. fresh'[w] = fresh[w]
      BY <1>1, <1>4, <2>2 DEF TypeConsumer
    <3> QED
      BY <1>4, <3>1 DEF DeliveryInv, QueueInv, Owned, Settled
  <2> QED
    BY <2>1, <2>2
<1>13. HandInv'
  BY <1>4 DEF DeliveryInv, HandInv, Owned
<1>14. HistoryInv'
  BY <1>4 DEF DeliveryInv, HistoryInv
<1>15. Delivery!Send(m)
  BY <1>2, <1>4 DEF Delivery!Send
<1> QED
  BY <1>5, <1>6, <1>7, <1>12, <1>13, <1>14, <1>15, TypeParts
  DEF DeliveryInv, TypeOK, TypeRest, TypeWork, TypeConsumer

\* What a delivered message that is not settled may meet: another delivery, or
\* none any more.
LEMMA RequeueStep ==
  ASSUME DeliveryInv, NEW m \in Message, count[m] > 0, Requeue(m),
         UNCHANGED <<sent, fresh, count, acked, handled>>
  PROVE  /\ TypeConsumer' /\ QueueInv' /\ HistoryInv'
         /\ Delivery!GiveUp(m) \/ UNCHANGED Delivery!vars
<1>1. TypeConsumer
  BY TypeParts DEF DeliveryInv
<1>2. m \in sent
  BY DEF DeliveryInv, HistoryInv
<1>3. CASE UNCHANGED <<again, givenUp>>
  BY <1>1, <1>3 DEF TypeConsumer, DeliveryInv, QueueInv, HistoryInv, Owned, Settled, Delivery!vars
<1> DEFINE v == StreamOf[m]
<1> DEFINE q == Append(again[v], m)
<1>4. v \in Worker /\ again[v] \in Seq(Message)
  BY <1>1 DEF TypeConsumer
<1>5. CASE /\ m \notin Settled /\ m \notin Members(again[v]) /\ count[m] < MaxDeliver
           /\ again' = [again EXCEPT ![v] = q] /\ UNCHANGED givenUp
  <2>1. /\ q \in Seq(Message) /\ DOMAIN q = 1 .. Len(again[v]) + 1
        /\ Len(again[v]) \in Nat /\ DOMAIN again[v] = 1 .. Len(again[v])
        /\ \A i \in DOMAIN again[v] : q[i] = again[v][i]
        /\ q[Len(again[v]) + 1] = m
    BY <1>4, AppendProperties, LenProperties
  <2>2. StreamOf[m] = v
    OBVIOUS
  <2> HIDE DEF v, q
  <2>3. TypeConsumer'
    BY <1>1, <1>4, <1>5, <2>1 DEF TypeConsumer
  <2>4. \A i \in DOMAIN q : (i \in DOMAIN again[v] /\ q[i] = again[v][i])
                            \/ (i = Len(again[v]) + 1 /\ q[i] = m)
    BY <2>1
  <2>5. /\ \A i \in DOMAIN again[v] : /\ again[v][i] \in sent /\ StreamOf[again[v][i]] = v
                                      /\ again[v][i] # m /\ again[v][i] \notin Settled
                                      /\ count[again[v][i]] \in 1 .. MaxDeliver - 1
        /\ Distinct(again[v])
    BY <1>4, <1>5 DEF DeliveryInv, QueueInv, Owned, Members
  <2>6. Distinct(q)
    BY <2>1, <2>4, <2>5 DEF Distinct
  <2>7. count[m] \in 1 .. MaxDeliver - 1
    BY <1>1, <1>5 DEF TypeConsumer
  <2>8. \A i \in DOMAIN q : /\ q[i] \in sent /\ StreamOf[q[i]] = v /\ q[i] \notin Settled
                            /\ count[q[i]] \in 1 .. MaxDeliver - 1
    BY <1>2, <1>5, <2>2, <2>4, <2>5, <2>7
  <2>9. QueueInv'
    <3> SUFFICES ASSUME NEW w \in Worker
        PROVE  (/\ Owned(fresh[w], w) /\ Distinct(fresh[w])
                /\ Owned(again[w], w) /\ Distinct(again[w])
                /\ \A i \in DOMAIN fresh[w] : count[fresh[w][i]] = 0
                /\ \A i \in DOMAIN again[w] :
                     again[w][i] \notin Settled /\ count[again[w][i]] \in 1 .. MaxDeliver - 1)'
      BY DEF QueueInv
    <3>1. CASE w = v
      <4>1. again'[w] = q
        BY <1>1, <1>5, <3>1 DEF TypeConsumer
      <4> QED
        BY <1>5, <2>6, <2>8, <3>1, <4>1 DEF DeliveryInv, QueueInv, Owned, Settled
    <3>2. CASE w # v
      <4>1. again'[w] = again[w]
        BY <1>1, <1>5, <3>2 DEF TypeConsumer
      <4> QED
        BY <1>5, <4>1 DEF DeliveryInv, QueueInv, Owned, Settled
    <3> QED
      BY <3>1, <3>2
  <2>10. HistoryInv'
    BY <1>5 DEF DeliveryInv, HistoryInv
  <2> QED
    BY <1>5, <2>3, <2>9, <2>10 DEF Delivery!vars
<1>6. CASE /\ m \notin Settled /\ m \notin Members(again[v]) /\ ~(count[m] < MaxDeliver)
           /\ givenUp' = givenUp \cup {m} /\ UNCHANGED again
  <2>1. count[m] = MaxDeliver
    BY <1>1, <1>6 DEF TypeConsumer
  <2>2. TypeConsumer' /\ HistoryInv'
    BY <1>1, <1>6 DEF TypeConsumer, DeliveryInv, HistoryInv
  <2>3. \A w \in Worker : \A i \in DOMAIN again[w] : again[w][i] # m
    BY <2>1 DEF DeliveryInv, QueueInv
  <2>4. QueueInv'
    BY <1>6, <2>3 DEF DeliveryInv, QueueInv, Owned, Settled
  <2>5. Delivery!GiveUp(m)
    BY <1>2, <1>6, <2>1 DEF Delivery!GiveUp, Settled
  <2> QED
    BY <2>2, <2>4, <2>5
<1> QED
  BY <1>3, <1>5, <1>6 DEF Requeue

LEMMA ExpireStep ==
  ASSUME DeliveryInv, NEW m \in Message, Expire(m)
  PROVE  DeliveryInv' /\ (Delivery!GiveUp(m) \/ UNCHANGED Delivery!vars)
<1>1. TypeRest /\ TypeWork /\ TypeConsumer
  BY TypeParts DEF DeliveryInv
<1>2. /\ TypeConsumer' /\ QueueInv' /\ HistoryInv'
      /\ Delivery!GiveUp(m) \/ UNCHANGED Delivery!vars
  BY RequeueStep DEF Expire, history
<1>3. TypeRest' /\ TypeWork'
  BY <1>1 DEF TypeRest, TypeWork, Handling, Expire, memory, entities, process, history
<1>4. HandInv'
  BY DEF DeliveryInv, HandInv, Owned, Expire, history
<1> QED
  BY <1>2, <1>3, <1>4, TypeParts DEF DeliveryInv, TypeOK, TypeRest, TypeWork, TypeConsumer

LEMMA NakStep ==
  ASSUME DeliveryInv, NEW w \in Worker, Nak(w)
  PROVE  DeliveryInv' /\ (UNCHANGED Delivery!vars \/ \E m \in Message : Delivery!GiveUp(m))
<1>1. TypeRest /\ TypeWork /\ TypeConsumer
  BY TypeParts DEF DeliveryInv
<1>2. Head(hand[w]) \in Message /\ count[Head(hand[w])] > 0
  BY InHand DEF Nak, Handling
<1>3. /\ TypeConsumer' /\ QueueInv' /\ HistoryInv'
      /\ Delivery!GiveUp(Head(hand[w])) \/ UNCHANGED Delivery!vars
  <2>1. CASE Connected
    BY <1>2, <2>1, RequeueStep DEF Nak, history
  <2>2. CASE ~Connected
    BY <1>1, <2>2 DEF Nak, history, TypeConsumer, DeliveryInv, QueueInv, HistoryInv, Owned,
                      Settled, Delivery!vars
  <2> QED
    BY <2>1, <2>2
<1>4. TypeWork' /\ HandsShrink
  BY <1>1, NextMessageStep DEF Nak
<1>5. TypeRest'
  BY <1>1 DEF TypeRest, Nak, memory, entities, process, bounds, history
<1>6. HandInv'
  BY <1>4, ShrinkStep DEF DeliveryInv, Nak, history
<1> QED
  BY <1>2, <1>3, <1>4, <1>5, <1>6, TypeParts
  DEF DeliveryInv, TypeOK, TypeRest, TypeWork, TypeConsumer

\* Worker w has got the batch b.
Delivered(w, b) ==
  /\ TypeConsumer' /\ QueueInv' /\ HistoryInv'
  /\ b \in Seq(Message) /\ b # << >>
  /\ \A m \in Members(b) : m \in sent' /\ StreamOf[m] = w /\ count'[m] > 0
  /\ \A m \in Message : count[m] > 0 => count'[m] > 0
  /\ sent' = sent
  /\ Members(b) \in SUBSET Message /\ Delivery!Deliver(Members(b))

\* A delivery takes messages from the queues, each once.
LEMMA DeliverStep ==
  ASSUME DeliveryInv, NEW w \in Worker, NEW i \in 0 .. Batch, NEW j \in 0 .. Batch,
         Deliver(w, i, j), handled' = handled,
         NEW b, b = SubSeq(again[w], 1, i) \o SubSeq(fresh[w], 1, j)
  PROVE  Delivered(w, b)
<1>1. TypeConsumer
  BY TypeParts DEF DeliveryInv
<1> DEFINE a == again[w]
<1> DEFINE f == fresh[w]
<1>2. /\ a \in Seq(Message) /\ f \in Seq(Message)
      /\ Len(a) \in Nat /\ DOMAIN a = 1 .. Len(a) /\ Len(f) \in Nat /\ DOMAIN f = 1 .. Len(f)
  BY <1>1, LenProperties DEF TypeConsumer
<1>3. /\ i \in 0 .. Len(a) /\ j \in 0 .. Len(f) /\ i + j > 0
  BY <1>2 DEF Deliver
<1>4. /\ b \in Seq(Message) /\ Len(b) = i + j /\ DOMAIN b = 1 .. i + j
      /\ \A k \in 1 .. i : b[k] = a[k] /\ k \in DOMAIN a
      /\ \A k \in i + 1 .. i + j : b[k] = f[k - i] /\ k - i \in DOMAIN f
  <2>1. b = SubSeq(a, 1, i) \o SubSeq(f, 1, j)
    BY Zenon
  <2> HIDE DEF a, f
  <2> QED
    <3>1. IsBatch(b, a, i, f, j)
      BY <1>2, <1>3, <2>1, BatchOf
    <3> QED
      BY <3>1, Zenon DEF IsBatch
<1> DEFINE ra == SubSeq(a, i + 1, Len(a))
<1> DEFINE rf == SubSeq(f, j + 1, Len(f))
<1>5. /\ ra \in Seq(Message) /\ DOMAIN ra = 1 .. Len(a) - i
      /\ \A k \in DOMAIN ra : ra[k] = a[k + i] /\ k + i \in DOMAIN a
  BY <1>2, <1>3, Rest
<1>6. /\ rf \in Seq(Message) /\ DOMAIN rf = 1 .. Len(f) - j
      /\ \A k \in DOMAIN rf : rf[k] = f[k + j] /\ k + j \in DOMAIN f
  BY <1>2, <1>3, Rest
<1>7. /\ again' = [again EXCEPT ![w] = ra] /\ fresh' = [fresh EXCEPT ![w] = rf]
      /\ count' = [m \in Message |-> IF m \in Members(b) THEN count[m] + 1 ELSE count[m]]
      /\ UNCHANGED <<sent, acked, givenUp, handled>>
  BY DEF Deliver
<1>8. /\ \A k \in DOMAIN a : /\ a[k] \in Message /\ a[k] \in sent /\ StreamOf[a[k]] = w
                             /\ a[k] \notin Settled /\ count[a[k]] \in 1 .. MaxDeliver - 1
      /\ \A k \in DOMAIN f : /\ f[k] \in Message /\ f[k] \in sent /\ StreamOf[f[k]] = w
                             /\ count[f[k]] = 0
      /\ Distinct(a) /\ Distinct(f)
  BY <1>1, <1>2 DEF DeliveryInv, QueueInv, Owned, TypeConsumer
<1>9. \A m \in Settled : m \in Message /\ count[m] # 0
  BY <1>1 DEF DeliveryInv, HistoryInv, Settled, TypeConsumer
<1> HIDE DEF a, f, ra, rf
<1>10. \A k \in DOMAIN b : \/ \E l \in DOMAIN a : l <= i /\ b[k] = a[l]
                           \/ \E l \in DOMAIN f : l <= j /\ b[k] = f[l]
  <2> SUFFICES ASSUME NEW k \in DOMAIN b
               PROVE  \/ \E l \in DOMAIN a : l <= i /\ b[k] = a[l]
                      \/ \E l \in DOMAIN f : l <= j /\ b[k] = f[l]
    OBVIOUS
  <2>1. CASE k <= i
    BY <1>2, <1>3, <1>4, <2>1
  <2>2. CASE ~(k <= i)
    <3>1. k \in i + 1 .. i + j /\ k - i <= j
      BY <1>2, <1>3, <1>4, <2>2
    <3> QED
      BY <1>4, <3>1
  <2> QED
    BY <2>1, <2>2
<1>11. \A k \in DOMAIN b : /\ b[k] \in Message /\ b[k] \in sent /\ StreamOf[b[k]] = w
                           /\ b[k] \notin Settled /\ count[b[k]] \in 0 .. MaxDeliver - 1
  <2> SUFFICES ASSUME NEW k \in DOMAIN b
               PROVE  /\ b[k] \in Message /\ b[k] \in sent /\ StreamOf[b[k]] = w
                      /\ b[k] \notin Settled /\ count[b[k]] \in 0 .. MaxDeliver - 1
    OBVIOUS
  <2>1. CASE \E l \in DOMAIN a : b[k] = a[l]
    <3>1. PICK l \in DOMAIN a : b[k] = a[l]
      BY <2>1
    <3>2. count[a[l]] \in 1 .. MaxDeliver - 1
      BY <1>8
    <3>3. count[a[l]] \in 0 .. MaxDeliver - 1
      BY <3>2
    <3> QED
      BY <1>8, <3>1, <3>3, Zenon
  <2>2. CASE \E l \in DOMAIN f : b[k] = f[l]
    <3>1. PICK l \in DOMAIN f : b[k] = f[l]
      BY <2>2
    <3>2. count[f[l]] \in 0 .. MaxDeliver - 1
      BY <1>8
    <3>3. f[l] \notin Settled
      BY <1>8, <1>9
    <3> QED
      BY <1>8, <3>1, <3>2, <3>3, Zenon
  <2> QED
    BY <1>10, <2>1, <2>2
<1>12. Members(b) \subseteq Message
  BY <1>11 DEF Members
<1>13. /\ \A k \in DOMAIN ra : ra[k] \notin Members(b)
       /\ \A k \in DOMAIN rf : rf[k] \notin Members(b)
  <2>1. ASSUME NEW k \in DOMAIN ra, NEW l \in DOMAIN b, ra[k] = b[l]
        PROVE  FALSE
    <3>1. ra[k] = a[k + i] /\ k + i \in DOMAIN a /\ k + i > i
      BY <1>2, <1>3, <1>5
    <3>2. CASE \E n \in DOMAIN a : n <= i /\ b[l] = a[n]
      <4>1. PICK n \in DOMAIN a : n <= i /\ b[l] = a[n]
        BY <3>2
      <4>2. n = k + i
        BY <1>8, <2>1, <3>1, <4>1 DEF Distinct
      <4> QED
        BY <1>2, <1>3, <1>5, <3>1, <4>1, <4>2
    <3>3. CASE \E n \in DOMAIN f : n <= j /\ b[l] = f[n]
      BY <1>8, <2>1, <3>1, <3>3
    <3> QED
      BY <1>10, <3>2, <3>3
  <2>2. ASSUME NEW k \in DOMAIN rf, NEW l \in DOMAIN b, rf[k] = b[l]
        PROVE  FALSE
    <3>1. rf[k] = f[k + j] /\ k + j \in DOMAIN f /\ k + j > j
      BY <1>2, <1>3, <1>6
    <3>2. CASE \E n \in DOMAIN f : n <= j /\ b[l] = f[n]
      BY <1>2, <1>3, <1>8, <2>2, <3>1, <3>2 DEF Distinct
    <3>3. CASE \E n \in DOMAIN a : n <= i /\ b[l] = a[n]
      BY <1>8, <2>2, <3>1, <3>3
    <3> QED
      BY <1>10, <3>2, <3>3
  <2> QED
    BY <2>1, <2>2 DEF Members
<1>14. \A k \in DOMAIN b : count'[b[k]] = count[b[k]] + 1
  BY <1>7, <1>11 DEF Members
<1>15. TypeConsumer'
  <2>1. \A m \in Message : IF m \in Members(b) THEN count[m] + 1 \in 0 .. MaxDeliver
                                               ELSE count[m] \in 0 .. MaxDeliver
    <3>1. \A m \in Members(b) : count[m] \in 0 .. MaxDeliver - 1
      BY <1>11 DEF Members
    <3>2. \A m \in Message : count[m] \in 0 .. MaxDeliver
      BY <1>1 DEF TypeConsumer
    <3> QED
      BY <3>1, <3>2
  <2>2. count' \in [Message -> 0 .. MaxDeliver]
    BY <1>7, <2>1
  <2> QED
    BY <1>1, <1>5, <1>6, <1>7, <2>2 DEF TypeConsumer
<1>16. QueueInv'
  <2> SUFFICES ASSUME NEW v \in Worker
      PROVE  (/\ Owned(fresh[v], v) /\ Distinct(fresh[v])
              /\ Owned(again[v], v) /\ Distinct(again[v])
              /\ \A k \in DOMAIN fresh[v] : count[fresh[v][k]] = 0
              /\ \A k \in DOMAIN again[v] :
                   again[v][k] \notin Settled /\ count[again[v][k]] \in 1 .. MaxDeliver - 1)'
    BY DEF QueueInv
  <2>1. CASE v = w
    <3>1. again'[v] = ra /\ fresh'[v] = rf
      BY <1>1, <1>7, <2>1 DEF TypeConsumer
    <3>2. Distinct(ra)
      BY <1>2, <1>3, <1>5, <1>8 DEF Distinct
    <3>3. Distinct(rf)
      BY <1>2, <1>3, <1>6, <1>8 DEF Distinct
    <3>4. \A k \in DOMAIN ra : /\ ra[k] \in sent /\ StreamOf[ra[k]] = v
                               /\ ra[k] \notin Settled /\ count'[ra[k]] \in 1 .. MaxDeliver - 1
      BY <1>5, <1>7, <1>8, <1>13, <2>1
    <3>5. \A k \in DOMAIN rf : /\ rf[k] \in sent /\ StreamOf[rf[k]] = v /\ count'[rf[k]] = 0
      BY <1>6, <1>7, <1>8, <1>13, <2>1
    <3>6. Settled' = Settled /\ sent' = sent
      BY <1>7 DEF Settled
    <3>7. (Owned(fresh[v], v) /\ Distinct(fresh[v]))'
      BY <3>1, <3>3, <3>5, <3>6 DEF Owned, Distinct
    <3>8. (Owned(again[v], v) /\ Distinct(again[v]))'
      BY <3>1, <3>2, <3>4, <3>6 DEF Owned, Distinct
    <3> QED
      BY <3>1, <3>4, <3>5, <3>6, <3>7, <3>8
  <2>2. CASE v # w
    <3>1. again'[v] = again[v] /\ fresh'[v] = fresh[v]
      BY <1>1, <1>7, <2>2 DEF TypeConsumer
    <3>2. /\ again[v] \in Seq(Message) /\ fresh[v] \in Seq(Message)
          /\ \A k \in DOMAIN again[v] : again[v][k] \in Message /\ StreamOf[again[v][k]] = v
          /\ \A k \in DOMAIN fresh[v] : fresh[v][k] \in Message /\ StreamOf[fresh[v][k]] = v
      BY <1>1, ElementOfSeq, LenProperties DEF TypeConsumer, DeliveryInv, QueueInv, Owned
    <3>3. \A m \in Message : StreamOf[m] = v => count'[m] = count[m]
      BY <1>7, <1>11, <2>2 DEF Members
    <3> QED
      BY <1>7, <3>1, <3>2, <3>3 DEF DeliveryInv, QueueInv, Owned, Settled
  <2> QED
    BY <2>1, <2>2
<1>17. \A m \in Message : count[m] > 0 => count'[m] > 0
  BY <1>1, <1>7 DEF TypeConsumer
<1>18. HistoryInv'
  <2>1. \A m \in Message : count'[m] > 0 => m \in sent'
    BY <1>7, <1>11 DEF DeliveryInv, HistoryInv, Members
  <2>2. \A m \in handled \cup givenUp : m \in Message /\ count'[m] > 0
    BY <1>17 DEF DeliveryInv, HistoryInv, TypeOK
  <2> QED
    BY <1>7, <2>1, <2>2 DEF DeliveryInv, HistoryInv
<1>19. Delivery!Deliver(Members(b))
  <2>1. Members(b) \subseteq sent \ (acked \cup givenUp)
    BY <1>11 DEF Members, Settled
  <2>2. \A m \in Members(b) : count[m] < MaxDeliver
    <3>1. \A m \in Members(b) : count[m] \in 0 .. MaxDeliver - 1
      BY <1>11 DEF Members
    <3> QED
      BY <3>1
  <2> QED
    BY <1>7, <2>1, <2>2 DEF Delivery!Deliver
<1>20. b # << >>
  <2>1. Len(b) # 0
    BY <1>2, <1>3, <1>4
  <2> QED
    BY <1>4, <2>1, EmptySeq
<1>21. \A m \in Members(b) : m \in sent' /\ StreamOf[m] = w /\ count'[m] > 0
  BY <1>7, <1>11, <1>14 DEF Members
<1> QED
  BY <1>4, <1>7, <1>11, <1>12, <1>15, <1>16, <1>17, <1>18, <1>19, <1>20, <1>21
  DEF Delivered

\* A delivery that a worker gets, and one that is lost on its way.
LEMMA FetchStep ==
  ASSUME DeliveryInv, NEW w \in Worker, Fetch(w) \/ FetchCut(w)
  PROVE  DeliveryInv' /\ \E S \in SUBSET Message : Delivery!Deliver(S)
<1>1. TypeRest /\ TypeWork /\ TypeConsumer
  BY TypeParts DEF DeliveryInv
<1>2. handled' = handled
  BY DEF Fetch, FetchCut, history
<1>3. TypeRest'
  BY <1>1 DEF TypeRest, Fetch, FetchCut, memory, entities, process, bounds, history
<1>4. CASE Fetch(w)
  <2>1. PICK i \in 0 .. Batch, j \in 0 .. Batch :
          /\ Deliver(w, i, j)
          /\ hand' = [hand EXCEPT ![w] = SubSeq(again[w], 1, i) \o SubSeq(fresh[w], 1, j)]
    BY <1>4 DEF Fetch
  <2>2. PICK b : b = SubSeq(again[w], 1, i) \o SubSeq(fresh[w], 1, j)
    OBVIOUS
  <2>3. /\ TypeConsumer' /\ QueueInv' /\ HistoryInv'
        /\ b \in Seq(Message) /\ b # << >>
        /\ \A k \in DOMAIN b : b[k] \in sent' /\ StreamOf[b[k]] = w /\ count'[b[k]] > 0
        /\ \A m \in Message : count[m] > 0 => count'[m] > 0
        /\ sent' = sent
        /\ Members(b) \in SUBSET Message /\ Delivery!Deliver(Members(b))
    <3>1. Deliver(w, i, j)
      BY <2>1
    <3>2. Delivered(w, b)
      BY <1>2, <2>2, <3>1, DeliverStep
    <3> QED
      BY <3>2 DEF Delivered, Members
  <2>4. hand' = [hand EXCEPT ![w] = b] /\ step' = [step EXCEPT ![w] = "handle"]
    BY <1>4, <2>1, <2>2 DEF Fetch, Goto
  <2>5. TypeWork'
    BY <1>1, <2>3, <2>4 DEF TypeWork, Handling
  <2>6. HandInv'
    <3> SUFFICES ASSUME NEW v \in Worker
                 PROVE  (/\ Owned(hand[v], v)
                         /\ \A k \in DOMAIN hand[v] : count[hand[v][k]] > 0
                         /\ step[v] = "ack" => Head(hand[v]) \in handled)'
      BY DEF HandInv
    <3>1. CASE v = w
      <4>1. hand'[v] = b /\ step'[v] # "ack"
        BY <1>1, <2>4, <3>1 DEF TypeWork
      <4> QED
        BY <2>3, <3>1, <4>1 DEF Owned
    <3>2. CASE v # w
      <4>1. hand'[v] = hand[v] /\ step'[v] = step[v]
        BY <1>1, <2>4, <3>2 DEF TypeWork
      <4>2. \A k \in DOMAIN hand[v] : hand[v][k] \in Message
        BY <1>1, ElementOfSeq, LenProperties DEF TypeWork
      <4> QED
        BY <1>2, <2>3, <4>1, <4>2 DEF DeliveryInv, HandInv, Owned
    <3> QED
      BY <3>1, <3>2
  <2> QED
    BY <1>3, <2>3, <2>5, <2>6, TypeParts
    DEF DeliveryInv, TypeOK, TypeRest, TypeWork, TypeConsumer
<1>5. CASE FetchCut(w)
  <2>1. PICK i \in 0 .. Batch, j \in 0 .. Batch : Deliver(w, i, j)
    BY <1>5 DEF FetchCut
  <2>2. PICK b : b = SubSeq(again[w], 1, i) \o SubSeq(fresh[w], 1, j)
    OBVIOUS
  <2>3. /\ TypeConsumer' /\ QueueInv' /\ HistoryInv'
        /\ \A m \in Message : count[m] > 0 => count'[m] > 0
        /\ sent' = sent
        /\ Members(b) \in SUBSET Message /\ Delivery!Deliver(Members(b))
    <3>1. Delivered(w, b)
      BY <1>2, <2>1, <2>2, DeliverStep
    <3> QED
      BY <3>1 DEF Delivered
  <2>4. hand' = hand /\ step' = [step EXCEPT ![w] = "ended"] /\ step[w] = "wait"
    BY <1>5 DEF FetchCut, Goto
  <2>5. TypeWork' /\ HandsShrink
    BY <1>1, <2>4 DEF TypeWork, Handling, HandsShrink
  <2>6. HandInv'
    BY <1>2, <2>3, <2>5, ShrinkStep DEF DeliveryInv
  <2> QED
    BY <1>3, <2>3, <2>5, <2>6, TypeParts
    DEF DeliveryInv, TypeOK, TypeRest, TypeWork, TypeConsumer
<1> QED
  BY <1>4, <1>5

\* What is acknowledged has been handled, and leaves the queue it may be in.
LEMMA AckStep ==
  ASSUME DeliveryInv, NEW w \in Worker, Ack(w)
  PROVE  DeliveryInv' /\ (UNCHANGED Delivery!vars \/ \E m \in Message : Delivery!Done(m))
<1>1. TypeRest /\ TypeWork /\ TypeConsumer
  BY TypeParts DEF DeliveryInv
<1> DEFINE m == Head(hand[w])
<1>2. m \in Message /\ StreamOf[m] = w /\ count[m] > 0 /\ m \in handled
  BY InHand DEF Ack, AckDue, Handling, DeliveryInv, HandInv
<1>3. TypeWork' /\ HandsShrink
  BY <1>1, NextMessageStep DEF Ack, AckDue
<1>4. UNCHANGED <<sent, fresh, count, givenUp, handled>>
  BY DEF Ack, history
<1>5. TypeRest'
  BY <1>1 DEF TypeRest, Ack, memory, entities, process, bounds, history
<1>6. HandInv'
  BY <1>3, <1>4, ShrinkStep DEF DeliveryInv
<1>7. CASE Connected /\ m \notin givenUp
  <2> DEFINE q == Without(again[w], m)
  <2>1. acked' = acked \cup {m} /\ again' = [again EXCEPT ![w] = q]
    BY <1>7 DEF Ack
  <2>2. again[w] \in Seq(Message) /\ Distinct(again[w])
    BY <1>1 DEF TypeConsumer, DeliveryInv, QueueInv
  <2>3. /\ q \in Seq(Message) /\ Distinct(q)
        /\ \A i \in DOMAIN q : q[i] # m /\ \E j \in DOMAIN again[w] : q[i] = again[w][j]
    BY <1>2, <2>2, WithoutOf
  <2> HIDE DEF m, q
  <2>4. TypeConsumer' /\ HistoryInv'
    BY <1>1, <1>2, <1>4, <2>1, <2>3 DEF TypeConsumer, DeliveryInv, HistoryInv
  <2>5. Settled' = Settled \cup {m}
    BY <1>4, <2>1 DEF Settled
  <2>6. \A i \in DOMAIN q : /\ q[i] \in sent /\ StreamOf[q[i]] = w /\ q[i] \notin Settled'
                            /\ count[q[i]] \in 1 .. MaxDeliver - 1
    BY <2>3, <2>5 DEF DeliveryInv, QueueInv, Owned
  <2>7. QueueInv'
    <3> SUFFICES ASSUME NEW v \in Worker
        PROVE  (/\ Owned(fresh[v], v) /\ Distinct(fresh[v])
                /\ Owned(again[v], v) /\ Distinct(again[v])
                /\ \A i \in DOMAIN fresh[v] : count[fresh[v][i]] = 0
                /\ \A i \in DOMAIN again[v] :
                     again[v][i] \notin Settled /\ count[again[v][i]] \in 1 .. MaxDeliver - 1)'
      BY DEF QueueInv
    <3>1. CASE v = w
      <4>1. again'[v] = q
        BY <1>1, <2>1, <3>1 DEF TypeConsumer
      <4> QED
        BY <1>4, <2>3, <2>6, <3>1, <4>1 DEF DeliveryInv, QueueInv, Owned, Distinct
    <3>2. CASE v # w
      <4>1. again'[v] = again[v]
        BY <1>1, <2>1, <3>2 DEF TypeConsumer
      <4> QED
        BY <1>2, <1>4, <2>5, <3>2, <4>1 DEF DeliveryInv, QueueInv, Owned
    <3> QED
      BY <3>1, <3>2
  <2>8. Delivery!Done(m)
    BY <1>2, <1>4, <1>7, <2>1 DEF Delivery!Done, m
  <2> QED
    BY <1>2, <1>3, <1>5, <1>6, <2>4, <2>7, <2>8, TypeParts
    DEF DeliveryInv, TypeOK, TypeRest, TypeWork, TypeConsumer
<1>8. CASE ~(Connected /\ m \notin givenUp)
  <2>1. UNCHANGED <<acked, again>>
    BY <1>8 DEF Ack
  <2>2. TypeConsumer' /\ QueueInv' /\ HistoryInv' /\ UNCHANGED Delivery!vars
    BY <1>1, <1>4, <2>1 DEF TypeConsumer, DeliveryInv, QueueInv, HistoryInv, Owned, Settled,
                            Delivery!vars
  <2> QED
    BY <1>3, <1>5, <1>6, <2>2, TypeParts
    DEF DeliveryInv, TypeOK, TypeRest, TypeWork, TypeConsumer
<1> QED
  BY <1>7, <1>8

-----------------------------------------------------------------------------
LEMMA DeliveryInit == Init => DeliveryInv /\ Delivery!Init
<1>1. << >> \in Seq(Message) /\ DOMAIN << >> = {}
  BY EmptySeq, LenProperties
<1> QED
  BY <1>1 DEF Init, DeliveryInv, TypeOK, Handling, QueueInv, HandInv, HistoryInv, Owned,
              Distinct, Delivery!Init

LEMMA DeliveryStep ==
  ASSUME DeliveryInv, [Next]_vars
  PROVE  DeliveryInv' /\ [Delivery!Next]_(Delivery!vars)
<1>1. CASE \E m \in Message : Publish(m)
  BY <1>1, PublishStep DEF Delivery!Next
<1>2. CASE \E m \in Message : Expire(m)
  BY <1>2, ExpireStep DEF Delivery!Next
<1>3. CASE (\E e \in Entity : CreateEntity(e) \/ DeleteEntity(e) \/ DevicePut(e)
           \/ DeviceDelete(e))
           \/ Stop \/ StopStep \/ StopTimesOut \/ Start
  BY <1>3, ServerStep
<1>4. CASE Exit \/ Crash
  BY <1>4, DownStep
<1>5. ASSUME NEW w \in Worker, WorkerStep(w)
      PROVE  DeliveryInv' /\ [Delivery!Next]_(Delivery!vars)
  <2>1. CASE Subscribe(w) \/ SubscribeFails(w) \/ BeginFetch(w) \/ LoopEnds(w)
             \/ Reject(w) \/ TakeTelemetry \/ LoadFails
    BY <2>1, QuietStep
  <2>2. CASE Fetch(w) \/ FetchCut(w)
    BY <2>2, FetchStep DEF Delivery!Next
  <2>3. CASE HandleEvent \/ DropTelemetry \/ LoadState
    BY <2>3, SucceedStep DEF Delivery!Next
  <2>4. CASE Ack(w)
    BY <2>4, AckStep DEF Delivery!Next
  <2>5. CASE Nak(w)
    BY <2>5, NakStep DEF Delivery!Next
  <2> QED
    BY <1>5, <2>1, <2>2, <2>3, <2>4, <2>5 DEF WorkerStep
<1>6. CASE UNCHANGED vars
  <2>1. UNCHANGED <<consumer, handled, hand, step>>
    BY <1>6 DEF vars, consumer
  <2>2. HandsShrink
    BY <2>1 DEF HandsShrink
  <2>3. TypeOK'
    BY <1>6 DEF DeliveryInv, TypeOK, Handling, vars
  <2> QED
    BY <2>1, <2>2, <2>3, HiddenStep DEF DeliveryInv
<1> QED
  BY <1>1, <1>2, <1>3, <1>4, <1>5, <1>6 DEF Next

\* What AtLeastOnceSpec rests on holds in every state: of processMessages and
\* of the consumer, whatever stops, crashes or is late.
THEOREM DeliveryInvariant == Spec => []DeliveryInv
<1>1. Init => DeliveryInv
  BY DeliveryInit
<1>2. DeliveryInv /\ [Next]_vars => DeliveryInv'
  BY DeliveryStep
<1> QED
  BY <1>1, <1>2, PTL DEF Spec

\* The types of the workers' state, of the consumers and of the entities.
THEOREM TypeCorrect == Spec => []TypeOK
<1>1. DeliveryInv => TypeOK
  BY DEF DeliveryInv
<1> QED
  BY <1>1, DeliveryInvariant, PTL

\* processMessages, its handlers and the consumer deliver at least once: what
\* is acknowledged has been handled, what is given up has had all its
\* deliveries, and nothing is delivered more often or after it is settled.
THEOREM ImplementsAtLeastOnce == Spec => AtLeastOnceSpec
<1>1. Init => Delivery!Init
  BY DeliveryInit
<1>2. DeliveryInv /\ [Next]_vars => [Delivery!Next]_(Delivery!vars)
  BY DeliveryStep
<1> QED
  BY <1>1, <1>2, DeliveryInvariant, PTL DEF Spec, AtLeastOnceSpec, Delivery!Spec
-----------------------------------------------------------------------------
(* A clean stop, and the cache.                                            *)

\* Answers for what was handled are neither lost nor overtaken by the stop.
LEMMA StopInvStep ==
  ASSUME TypeOK, StopInv, [Next]_vars
  PROVE  StopInv'
<1> DEFINE Answered(m) == m \in Settled \/ \E w \in Worker : step[w] = "ack" /\ m = Head(hand[w])
<1>1. ASSUME UNCHANGED <<phase, recent>>, \A m \in recent : Answered(m) => Answered(m)',
             AllEnded => AllEnded'
      PROVE  StopInv'
  BY <1>1 DEF StopInv
<1>2. CASE \E m \in Message : Publish(m) \/ Expire(m)
  <2>1. /\ UNCHANGED <<phase, recent, acked, step, hand>> /\ givenUp \subseteq givenUp'
    BY <1>2 DEF Publish, Expire, Requeue, process, history
  <2> QED
    BY <1>1, <2>1 DEF Settled, AllEnded
<1>3. CASE \E e \in Entity : CreateEntity(e) \/ DeleteEntity(e) \/ DevicePut(e)
           \/ DeviceDelete(e)
  BY <1>1, <1>3 DEF CreateEntity, DeleteEntity, DevicePut, DeviceDelete, consumer, process,
                    history, Settled, AllEnded
<1>4. ASSUME NEW w \in Worker, WorkerStep(w) PROVE StopInv'
  <2>1. step[w] # "ended" /\ phase # "down"
    BY <1>4 DEF WorkerStep, Subscribe, SubscribeFails, BeginFetch, Fetch, FetchCut, LoopEnds,
                Reject, Ack, AckDue, Nak,
                HandleEvent, DropTelemetry, TakeTelemetry, LoadState, LoadFails
  <2>2. phase # "stopped" /\ ~AllEnded
    BY <2>1 DEF StopInv, AllEnded
  <2>3. CASE Subscribe(w) \/ SubscribeFails(w) \/ BeginFetch(w) \/ Fetch(w)
             \/ FetchCut(w) \/ LoopEnds(w) \/ Reject(w) \/ Nak(w)
             \/ (w = "telemetry" /\ (TakeTelemetry \/ LoadFails))
    <3>1. /\ UNCHANGED <<phase, recent, acked>> /\ givenUp \subseteq givenUp'
          /\ step[w] # "ack"
          /\ \A v \in Worker \ {w} : step'[v] = step[v] /\ hand'[v] = hand[v]
      <4>1. CASE Subscribe(w) \/ SubscribeFails(w) \/ BeginFetch(w) \/ LoopEnds(w) \/ Reject(w)
        BY <4>1 DEF TypeOK, Subscribe, SubscribeFails, BeginFetch, LoopEnds, Reject, Goto,
                    consumer, process, history
      <4>2. CASE Fetch(w) \/ FetchCut(w)
        <5>1. UNCHANGED <<phase, recent, acked, givenUp>> /\ step[w] = "wait"
          BY <4>2 DEF Fetch, FetchCut, Deliver, process, history
        <5>2. \A v \in Worker \ {w} : step'[v] = step[v]
          BY <4>2 DEF TypeOK, Fetch, FetchCut, Goto
        <5>3. \A v \in Worker \ {w} : hand'[v] = hand[v]
          <6>1. CASE Fetch(w)
            <7>1. PICK q : hand' = [hand EXCEPT ![w] = q]
              BY <6>1 DEF Fetch
            <7> QED
              BY <7>1 DEF TypeOK
          <6>2. CASE FetchCut(w)
            BY <6>2 DEF FetchCut
          <6> QED
            BY <4>2, <6>1, <6>2
        <5> QED
          BY <5>1, <5>2, <5>3
      <4>3. CASE Nak(w)
        <5>1. /\ UNCHANGED <<phase, recent, acked>> /\ step[w] = "nak"
              /\ givenUp \subseteq givenUp'
          BY <4>3 DEF Nak, Requeue, process, history
        <5>2. \A v \in Worker \ {w} : step'[v] = step[v] /\ hand'[v] = hand[v]
          BY <4>3 DEF TypeOK, Nak, NextMessage, Goto
        <5> QED
          BY <5>1, <5>2
      <4>4. CASE w = "telemetry" /\ (TakeTelemetry \/ LoadFails)
        BY <4>4 DEF TypeOK, TakeTelemetry, LoadFails, Goto, consumer, process, history
      <4> QED
        BY <2>3, <4>1, <4>2, <4>3, <4>4
    <3> QED
      BY <1>1, <2>2, <3>1 DEF Settled
  <2>4. CASE Ack(w)
    <3> DEFINE m == Head(hand[w])
    <3>1. /\ UNCHANGED <<phase, recent, givenUp>> /\ acked \subseteq acked'
          /\ Connected /\ m \notin givenUp => m \in acked'
          /\ \A v \in Worker \ {w} : step'[v] = step[v] /\ hand'[v] = hand[v]
      BY <2>4 DEF TypeOK, Ack, NextMessage, Goto, process, history
    <3>2. phase # "timedout" => m \in Settled'
      BY <2>1, <2>2, <3>1 DEF Connected, Settled, TypeOK
    <3> QED
      BY <2>1, <2>2, <3>1, <3>2 DEF StopInv, Settled
  <2>5. CASE HandleEvent \/ DropTelemetry \/ LoadState
    <3>1. PICK v \in Worker :
            /\ step[v] # "ack" /\ step' = [step EXCEPT ![v] = "ack"]
            /\ recent' = recent \cup {Head(hand[v])}
            /\ UNCHANGED <<phase, acked, givenUp, hand>>
      BY <2>5 DEF HandleEvent, DropTelemetry, LoadState, Succeed, Goto, Worker, consumer, process
    <3>2. /\ step'[v] = "ack"
          /\ \A u \in Worker : step[u] = "ack" => step'[u] = "ack"
      BY <3>1 DEF TypeOK
    <3> QED
      BY <2>1, <2>2, <3>1, <3>2 DEF StopInv, Settled
  <2> QED
    BY <1>4, <2>3, <2>4, <2>5 DEF WorkerStep
<1>5. CASE Stop \/ StopTimesOut \/ (\E w \in Worker : StopWorker(w)) \/ CancelWorkers \/ Start
  BY <1>5 DEF StopInv, Stop, StopTimesOut, StopWorker, CancelWorkers, Start, consumer, process,
              history, Settled, AllEnded
<1>6. CASE WorkersDone
  BY <1>6 DEF StopInv, WorkersDone, consumer, history, Settled, AllEnded
<1>7. CASE Exit \/ Crash
  BY <1>7 DEF StopInv, Exit, Crash, GoDown
<1>8. CASE UNCHANGED vars
  BY <1>8 DEF vars, StopInv, Settled, AllEnded
<1> QED
  BY <1>2, <1>3, <1>4, <1>5, <1>6, <1>7, <1>8 DEF Next, StopStep

\* A Manager.Stop within its deadline settles all that was handled.
THEOREM StopIsClean == Spec => []CleanStop
<1>1. Init => StopInv
  BY DEF Init, StopInv
<1>2. TypeOK /\ StopInv /\ [Next]_vars => StopInv'
  BY StopInvStep
<1>3. StopInv => CleanStop
  BY DEF StopInv, CleanStop, AllEnded
<1> QED
  BY <1>1, <1>2, <1>3, TypeCorrect, PTL DEF Spec

LEMMA CacheInvStep == CacheInv /\ [Next]_vars => CacheInv'
<1> SUFFICES ASSUME CacheInv, [Next]_vars PROVE CacheInv'
  OBVIOUS
<1> USE DEF CacheInv, CacheOfEntities
<1>1. ASSUME UNCHANGED <<entities, cache>> PROVE CacheInv'
  BY <1>1 DEF entities
<1>2. CASE \E m \in Message : Publish(m) \/ Expire(m)
  BY <1>1, <1>2 DEF Publish, Expire, memory
<1>3. CASE \E e \in Entity : CreateEntity(e) \/ DeleteEntity(e) \/ DevicePut(e)
           \/ DeviceDelete(e)
  BY <1>3 DEF CreateEntity, DeleteEntity, DevicePut, DeviceDelete, memory
<1>4. ASSUME NEW w \in Worker, WorkerStep(w) PROVE CacheInv'
  <2>1. CASE LoadState
    BY <2>1 DEF LoadState, Loadable, entities
  <2>2. CASE ~LoadState
    BY <1>1, <1>4, <2>2
    DEF WorkerStep, Subscribe, SubscribeFails, BeginFetch, Fetch, FetchCut, LoopEnds, Reject,
        Ack, Nak, HandleEvent,
        DropTelemetry, TakeTelemetry, LoadFails, memory
  <2> QED
    BY <2>1, <2>2
<1>5. CASE Stop \/ StopStep \/ StopTimesOut
  BY <1>1, <1>5 DEF Stop, StopStep, StopWorker, CancelWorkers, WorkersDone, StopTimesOut, memory
<1>6. CASE Exit \/ Crash \/ Start
  BY <1>6 DEF Exit, Crash, GoDown, Start, entities
<1>7. CASE UNCHANGED vars
  BY <1>1, <1>7 DEF vars, entities
<1> QED
  BY <1>2, <1>3, <1>4, <1>5, <1>6, <1>7 DEF Next

\* Whatever telemetry comes, the cache does not grow beyond the entities that
\* have been created and those a device has put a key of.
THEOREM CacheBounded == Spec => []CacheOfEntities
<1>1. Init => CacheInv
  BY DEF Init, CacheInv, CacheOfEntities
<1>2. CacheInv => CacheOfEntities
  BY DEF CacheInv
<1> QED
  BY <1>1, <1>2, CacheInvStep, PTL DEF Spec

-----------------------------------------------------------------------------
(* The order of an entity's events.                                        *)

\* What is left of a sequence without its first element, from the other side.
LEMMA TailOf ==
  ASSUME NEW s \in Seq(Message), s # << >>, NEW j \in DOMAIN s, j > 1
  PROVE  j - 1 \in DOMAIN Tail(s) /\ Tail(s)[j - 1] = s[j]
<1>1. Len(s) \in Nat \ {0} /\ DOMAIN s = 1 .. Len(s)
  BY EmptySeq, LenProperties
<1>2. /\ Tail(s) \in Seq(Message) /\ Len(Tail(s)) = Len(s) - 1
      /\ \A i \in 1 .. Len(Tail(s)) : Tail(s)[i] = s[i + 1]
  BY HeadTailProperties
<1>3. DOMAIN Tail(s) = 1 .. Len(s) - 1
  BY <1>2, LenProperties
<1>4. j - 1 \in 1 .. Len(s) - 1 /\ (j - 1) + 1 = j
  BY <1>1
<1> QED
  BY <1>2, <1>3, <1>4

\* An event of an entity is published to the event worker's stream.
LEMMA EventStream ==
  ASSUME NEW e \in Entity, NEW m \in EventsOf(e)
  PROVE  m \in Message /\ StreamOf[m] = "events"
BY DEF EventsOf, Lifecycle, Worker

\* What waits for its first delivery has not been handled.
LEMMA FreshUnhandled ==
  ASSUME DeliveryInv, RegistryInv, NEW w \in Worker, NEW i \in DOMAIN fresh[w]
  PROVE  fresh[w][i] \notin recent
BY DEF DeliveryInv, QueueInv, HistoryInv, RegistryInv

\* Nothing is undelivered.
LEMMA CountsGrow ==
  ASSUME DeliveryInv, [Next]_vars, NEW m \in Message
  PROVE  count[m] \in Nat /\ count'[m] \in Nat /\ count[m] <= count'[m]
<1>1. count \in [Message -> 0 .. MaxDeliver]
  BY DEF DeliveryInv, TypeOK
<1>2. CASE \E w \in Worker : \E i, j \in 0 .. Batch : Deliver(w, i, j)
  BY <1>1, <1>2 DEF Deliver
<1>3. CASE UNCHANGED count
  BY <1>1, <1>3
<1>4. (\E w \in Worker : WorkerStep(w))
        => UNCHANGED count \/ \E w \in Worker : \E i, j \in 0 .. Batch : Deliver(w, i, j)
  BY DEF WorkerStep, Subscribe, SubscribeFails, BeginFetch, Fetch, FetchCut, LoopEnds, Reject,
         Ack, Nak, HandleEvent,
         DropTelemetry, TakeTelemetry, LoadState, LoadFails, consumer
<1>5. (\E m1 \in Message : Publish(m1) \/ Expire(m1)) => UNCHANGED count
  BY DEF Publish, Expire
<1>6. (\E e \in Entity : CreateEntity(e) \/ DeleteEntity(e) \/ DevicePut(e)
      \/ DeviceDelete(e)) \/ Stop \/ StopStep
         \/ StopTimesOut \/ Exit \/ Crash \/ Start \/ UNCHANGED vars
        => UNCHANGED count
  BY DEF CreateEntity, DeleteEntity, DevicePut, DeviceDelete, Stop, StopStep, StopWorker,
         CancelWorkers, WorkersDone,
         StopTimesOut, Exit, Crash, GoDown, Start, vars, consumer
<1> QED
  BY <1>2, <1>3, <1>4, <1>5, <1>6 DEF Next

\* Nothing the order of e depends on has changed.
OrderSame(e) ==
  /\ fresh'["events"] = fresh["events"] /\ hand'["events"] = hand["events"]
  /\ lastEvent'[e] = lastEvent[e]
  /\ lastEvent[e] \in recent' => lastEvent[e] \in recent /\ registry' = registry
  /\ step["events"] = "ack" => step'["events"] = "ack"

LEMMA SameOrder ==
  ASSUME NEW e, OrderInv(e), OrderSame(e)
  PROVE  OrderInv(e)'
BY DEF OrderInv, OrderSame, EventsOf, Lifecycle, Members

-----------------------------------------------------------------------------
\* Publish: the last event of e is behind all others, and not handled yet.
LEMMA PublishOrder ==
  ASSUME DeliveryInv, RegistryInv, NEW e \in Entity, NEW m \in Message, Publish(m), OrderInv(e)
  PROVE  OrderInv(e)'
<1> DEFINE q == fresh["events"]
<1> DEFINE a == Append(q, m)
<1>1. /\ q \in Seq(Message) /\ lastEvent \in [Entity -> Message \cup {None}]
      /\ fresh \in [Worker -> Seq(Message)] /\ "events" \in Worker
  BY DEF DeliveryInv, TypeOK, Worker
<1>2. /\ DOMAIN a = 1 .. Len(q) + 1 /\ Len(q) \in Nat /\ DOMAIN q = 1 .. Len(q)
      /\ \A i \in DOMAIN q : a[i] = q[i]
      /\ a[Len(q) + 1] = m
  BY <1>1, AppendProperties, LenProperties
<1>3. UNCHANGED <<hand, recent, registry, step>>
  BY DEF Publish, memory
<1>4. m \notin recent
  BY DEF Publish, RegistryInv, DeliveryInv, HistoryInv
<1>5. fresh'["events"] = IF StreamOf[m] = "events" THEN a ELSE q
  BY <1>1 DEF Publish
<1> HIDE DEF q, a
<1>6. CASE m \in EventsOf(e)
  <2>1. lastEvent'[e] = m /\ fresh'["events"] = a
    BY <1>1, <1>5, <1>6, EventStream DEF Publish, EventsOf
  <2>2. Len(q) + 1 \in DOMAIN a /\ \A i \in DOMAIN a : a[i] # m => Len(q) + 1 > i
    BY <1>2
  <2> QED
    BY <1>2, <1>3, <1>4, <2>1, <2>2 DEF OrderInv, EventsOf, Lifecycle, Members
<1>7. CASE m \notin EventsOf(e)
  <2>1. lastEvent'[e] = lastEvent[e]
    BY <1>1, <1>7 DEF Publish, EventsOf
  <2>2. \A i \in DOMAIN a : a[i] \in EventsOf(e) => i \in DOMAIN q /\ a[i] = q[i]
    BY <1>2, <1>7
  <2>3. \A i \in DOMAIN q : i \in DOMAIN a /\ a[i] = q[i]
    BY <1>2
  <2> QED
    BY <1>3, <1>5, <2>1, <2>2, <2>3 DEF OrderInv, EventsOf, Lifecycle, Members, q
<1> QED
  BY <1>6, <1>7

\* A delivery to the event worker: while nothing of e comes twice, what comes
\* of e comes from the front of the new messages, and stays in their order.
TakenInOrder(e, b, rest) ==
  LET last == lastEvent[e] IN
  /\ \A i \in DOMAIN rest :
       rest[i] \in EventsOf(e) \ {last} => \E j \in DOMAIN rest : j > i /\ rest[j] = last
  /\ \A i \in DOMAIN b :
       b[i] \in EventsOf(e) \ {last} =>
         last \in Members(rest) \/ \E j \in DOMAIN b : j > i /\ b[j] = last
  /\ \A i, j \in DOMAIN b : b[i] = b[j] /\ b[i] \in EventsOf(e) => i = j
  /\ last \in recent /\ last \in EventsOf(e) => last \notin Members(b)

LEMMA TakeInOrder ==
  ASSUME DeliveryInv, RegistryInv, NEW e \in Entity, OrderInv(e), Calm(e)',
         NEW i \in 0 .. Batch, NEW j \in 0 .. Batch, Deliver("events", i, j),
         NEW b, b = SubSeq(again["events"], 1, i) \o SubSeq(fresh["events"], 1, j)
  PROVE  TakenInOrder(e, b, fresh'["events"]) /\ b \in Seq(Message)
<1> DEFINE w == "events"
<1> DEFINE a == again[w]
<1> DEFINE f == fresh[w]
<1> DEFINE last == lastEvent[e]
<1>1. /\ a \in Seq(Message) /\ f \in Seq(Message) /\ w \in Worker
      /\ fresh \in [Worker -> Seq(Message)] /\ count \in [Message -> 0 .. MaxDeliver]
      /\ Len(a) \in Nat /\ DOMAIN a = 1 .. Len(a) /\ Len(f) \in Nat /\ DOMAIN f = 1 .. Len(f)
  BY LenProperties DEF DeliveryInv, TypeOK, Worker
<1>2. i \in 0 .. Len(a) /\ j \in 0 .. Len(f)
  BY <1>1 DEF Deliver
<1>0. /\ i \in Nat /\ j \in Nat /\ Len(a) \in Nat /\ Len(f) \in Nat /\ i <= Len(a) /\ j <= Len(f)
      /\ DOMAIN f = 1 .. Len(f)
  BY <1>1, <1>2
<1>3. /\ b \in Seq(Message) /\ DOMAIN b = 1 .. i + j
      /\ \A k \in 1 .. i : b[k] = a[k] /\ k \in DOMAIN a
      /\ \A k \in i + 1 .. i + j : b[k] = f[k - i] /\ k - i \in DOMAIN f
  <2>1. b = SubSeq(a, 1, i) \o SubSeq(f, 1, j)
    BY Zenon
  <2> HIDE DEF a, f
  <2>2. IsBatch(b, a, i, f, j)
    BY <1>1, <1>2, <2>1, BatchOf
  <2> QED
    BY <2>2, Zenon DEF IsBatch
<1>dom. DOMAIN b = 1 .. i + j
  BY <1>3
<1> DEFINE r == SubSeq(f, j + 1, Len(f))
<1>4. /\ DOMAIN r = 1 .. Len(f) - j
      /\ \A k \in DOMAIN r : r[k] = f[k + j] /\ k + j \in DOMAIN f
  BY <1>1, <1>2, Rest
<1>5. fresh'[w] = r
  BY <1>1 DEF Deliver
<1>6. count' = [m \in Message |-> IF m \in Members(b) THEN count[m] + 1 ELSE count[m]]
  BY DEF Deliver
<1>7. /\ \A k \in DOMAIN a : a[k] \in Message /\ count[a[k]] \in Nat \ {0}
      /\ \A k \in DOMAIN f : f[k] \notin recent
      /\ Distinct(f)
  <2>1. \A k \in DOMAIN a : a[k] \in Message /\ count[a[k]] \in 1 .. MaxDeliver - 1
    BY <1>1 DEF DeliveryInv, QueueInv
  <2>2. \A k \in DOMAIN f : f[k] \notin recent
    BY <1>1, FreshUnhandled
  <2>3. Distinct(f)
    BY <1>1 DEF DeliveryInv, QueueInv
  <2> QED
    BY <2>1, <2>2, <2>3
<1>8. \A k \in DOMAIN f : f[k] \in EventsOf(e) \ {last} =>
                             \E l \in DOMAIN f : l > k /\ f[l] = last
  BY DEF OrderInv
<1> HIDE DEF a, f, r, last
<1>9. ASSUME NEW k \in DOMAIN b, b[k] \in EventsOf(e)
      PROVE  k \in i + 1 .. i + j /\ k - i \in DOMAIN f /\ b[k] = f[k - i]
  <2>1. CASE k <= i
    <3>0. k \in 1 .. i
      BY <1>0, <1>dom, <2>1
    <3>1. b[k] \in Message /\ count[b[k]] > 0 /\ count[b[k]] \in Nat /\ b[k] \in Members(b)
      BY <1>3, <1>7, <3>0 DEF Members
    <3>2. count'[b[k]] = count[b[k]] + 1
      BY <1>6, <3>1
    <3> QED
      BY <1>9, <3>1, <3>2 DEF Calm, EventsOf
  <2>2. CASE ~(k <= i)
    <3>1. k \in i + 1 .. i + j
      BY <1>0, <1>dom, <2>2
    <3> QED
      BY <1>3, <3>1
  <2> QED
    BY <2>1, <2>2
<1>10. ASSUME NEW k \in DOMAIN r, r[k] \in EventsOf(e) \ {last}
       PROVE  \E l \in DOMAIN r : l > k /\ r[l] = last
  <2>1. PICK l \in DOMAIN f : l > k + j /\ f[l] = last
    BY <1>4, <1>8, <1>10
  <2>2. l - j \in DOMAIN r /\ l - j > k /\ (l - j) + j = l
    BY <1>0, <1>4, <2>1
  <2> QED
    BY <1>4, <2>1, <2>2
<1>11. ASSUME NEW k \in DOMAIN b, b[k] \in EventsOf(e) \ {last}
       PROVE  last \in Members(r) \/ \E l \in DOMAIN b : l > k /\ b[l] = last
  <2>1. k \in i + 1 .. i + j /\ k - i \in DOMAIN f /\ b[k] = f[k - i]
    BY <1>9, <1>11
  <2>2. PICK l \in DOMAIN f : l > k - i /\ f[l] = last
    BY <1>8, <1>11, <2>1
  <2>3. CASE l <= j
    <3>1. l + i \in DOMAIN b /\ l + i \in i + 1 .. i + j /\ l + i > k /\ (l + i) - i = l
      BY <1>0, <1>dom, <2>1, <2>2, <2>3
    <3> QED
      BY <1>3, <2>2, <3>1
  <2>4. CASE ~(l <= j)
    <3>1. l - j \in DOMAIN r /\ (l - j) + j = l
      BY <1>0, <1>4, <2>2, <2>4
    <3> QED
      BY <1>4, <2>2, <3>1 DEF Members
  <2> QED
    BY <2>3, <2>4
<1>12. ASSUME NEW k \in DOMAIN b, NEW l \in DOMAIN b, b[k] = b[l], b[k] \in EventsOf(e)
       PROVE  k = l
  <2>1. /\ k - i \in DOMAIN f /\ b[k] = f[k - i] /\ l - i \in DOMAIN f /\ b[l] = f[l - i]
        /\ k \in Int /\ l \in Int /\ i \in Int
    <3>1. k \in Int /\ l \in Int /\ i \in Int
      BY <1>0, <1>dom
    <3>2. k - i \in DOMAIN f /\ b[k] = f[k - i]
      BY <1>9, <1>12
    <3>3. l - i \in DOMAIN f /\ b[l] = f[l - i]
      BY <1>9, <1>12
    <3> QED
      BY <3>1, <3>2, <3>3
  <2>2. k - i = l - i
    BY <1>7, <1>12, <2>1 DEF Distinct
  <2> QED
    BY <2>1, <2>2
<1>13. ASSUME last \in recent, last \in EventsOf(e), NEW k \in DOMAIN b PROVE b[k] # last
  BY <1>7, <1>9, <1>13
<1>14. last \in recent /\ last \in EventsOf(e) => last \notin Members(b)
  BY <1>13 DEF Members
<1>15. TakenInOrder(e, b, r)
  BY <1>10, <1>11, <1>12, <1>14 DEF TakenInOrder, last
<1> QED
  BY <1>3, <1>5, <1>15

LEMMA FetchOrder ==
  ASSUME DeliveryInv, RegistryInv, NEW e \in Entity, OrderInv(e), Calm(e)',
         Fetch("events") \/ FetchCut("events")
  PROVE  OrderInv(e)'
<1>1. /\ hand \in [Worker -> Seq(Message)]
      /\ step \in [Worker -> {"start", "fetch", "wait", "handle", "load", "ack", "nak", "ended"}]
      /\ "events" \in Worker
  BY DEF DeliveryInv, TypeOK, Worker
<1>2. UNCHANGED <<registry, recent, lastEvent>> /\ lastEvent[e] \in EventsOf(e) \cup {None}
  BY DEF Fetch, FetchCut, memory, history, RegistryInv
<1>3. CASE Fetch("events")
  <2>1. PICK i \in 0 .. Batch, j \in 0 .. Batch :
          /\ Deliver("events", i, j)
          /\ hand' = [hand EXCEPT !["events"] = SubSeq(again["events"], 1, i)
                                                 \o SubSeq(fresh["events"], 1, j)]
    BY <1>3 DEF Fetch
  <2>2. PICK b : b = SubSeq(again["events"], 1, i) \o SubSeq(fresh["events"], 1, j)
    OBVIOUS
  <2>3. hand'["events"] = b
    BY <1>1, <2>1, <2>2
  <2>4. TakenInOrder(e, b, fresh'["events"]) /\ b \in Seq(Message)
    BY <2>1, <2>2, TakeInOrder
  <2>5. \A k \in DOMAIN b : b[k] # None
    BY <2>4, ElementOfSeq, LenProperties
  <2> QED
    BY <1>2, <2>3, <2>4, <2>5 DEF OrderInv, TakenInOrder, EventsOf, Lifecycle, Members
<1>4. CASE FetchCut("events")
  <2>1. PICK i \in 0 .. Batch, j \in 0 .. Batch : Deliver("events", i, j)
    BY <1>4 DEF FetchCut
  <2>2. PICK b : b = SubSeq(again["events"], 1, i) \o SubSeq(fresh["events"], 1, j)
    OBVIOUS
  <2>3. TakenInOrder(e, b, fresh'["events"])
    BY <2>1, <2>2, TakeInOrder
  <2>4. hand'["events"] = << >> /\ DOMAIN << >> = {}
    <3>1. hand'["events"] = << >>
      BY <1>1, <1>4 DEF FetchCut, DeliveryInv, TypeOK, Handling
    <3> QED
      BY <3>1, EmptySeq, LenProperties
  <2> QED
    BY <1>2, <2>3, <2>4 DEF OrderInv, TakenInOrder, EventsOf, Lifecycle, Members
<1> QED
  BY <1>3, <1>4

\* A handler works on an older event of e only before the last one.
LEMMA HandleOrder ==
  ASSUME DeliveryInv, RegistryInv, NEW e \in Entity, OrderInv(e), HandleEvent
  PROVE  OrderInv(e)'
<1> DEFINE b == hand["events"]
<1> DEFINE m == Head(b)
<1> DEFINE last == lastEvent[e]
<1>1. b \in Seq(Message) /\ b # << >> /\ step["events"] = "handle" /\ "events" \in Worker
  BY DEF HandleEvent, DeliveryInv, TypeOK, Handling, Worker
<1>2. 1 \in DOMAIN b /\ m = b[1] /\ m \in Message /\ DOMAIN b \subseteq Nat
  BY <1>1, HeadTail, LenProperties
<1>3. /\ UNCHANGED <<fresh, hand, lastEvent>> /\ recent' = recent \cup {m}
      /\ step'["events"] = "ack" /\ registry' = RegistryAfter(m)
      /\ Kind[m] \in {"bootsequence", "shutdown", "other"}
  BY DEF HandleEvent, Succeed, Goto, consumer, DeliveryInv, TypeOK, Worker
<1>4. last \in EventsOf(e) \cup {None}
  BY DEF RegistryInv
<1>5. last \in recent => last \notin Members(fresh["events"])
  BY <1>1, FreshUnhandled DEF Members
<1>6. CASE m = last
  <2>1. m \in EventsOf(e)
    BY <1>2, <1>4, <1>6
  <2>2. e \in registry' <=> Kind[m] = "bootsequence"
    BY <1>3, <2>1 DEF RegistryAfter, EventsOf, Lifecycle
  <2>3. \A i \in DOMAIN b : b[i] = last => i = 1
    BY <1>2, <1>6, <2>1 DEF OrderInv
  <2> QED
    BY <1>3, <1>6, <2>2, <2>3 DEF OrderInv, EventsOf, Lifecycle, Members
<1>7. CASE m # last
  <2>1. last \in recent => m \notin EventsOf(e)
    <3> SUFFICES ASSUME last \in recent, m \in EventsOf(e) PROVE FALSE
      OBVIOUS
    <3>1. \E j \in DOMAIN b : j > 1 /\ b[j] = last
      BY <1>2, <1>5, <1>7 DEF OrderInv
    <3> QED
      BY <1>2, <3>1 DEF OrderInv
  <2>2. last \in recent' => last \in recent
    BY <1>3, <1>7
  <2>3. m \notin EventsOf(e) => (e \in registry' <=> e \in registry)
    BY <1>2, <1>3 DEF RegistryAfter, EventsOf, Lifecycle
  <2> QED
    BY <1>3, <2>1, <2>2, <2>3 DEF OrderInv, EventsOf, Lifecycle, Members
<1> QED
  BY <1>6, <1>7

\* An answer shortens the batch from its front.
LEMMA AnswerOrder ==
  ASSUME DeliveryInv, NEW e \in Entity, OrderInv(e), Ack("events") \/ Nak("events")
  PROVE  OrderInv(e)'
<1> DEFINE b == hand["events"]
<1> DEFINE t == Tail(b)
<1>1. b \in Seq(Message) /\ b # << >> /\ "events" \in Worker
  BY DEF Ack, AckDue, Nak, DeliveryInv, TypeOK, Handling, Worker
<1>2. \A i \in DOMAIN t : i + 1 \in DOMAIN b /\ t[i] = b[i + 1]
  BY <1>1, HeadTail
<1>3. \A j \in DOMAIN b : j > 1 => j - 1 \in DOMAIN t /\ t[j - 1] = b[j]
  BY <1>1, TailOf
<1>4. DOMAIN t \subseteq Nat \ {0} /\ DOMAIN b \subseteq Nat \ {0}
  <2>1. t \in Seq(Message)
    BY <1>1, HeadTail
  <2> QED
    BY <1>1, <2>1, LenProperties
<1>5. hand'["events"] = t /\ UNCHANGED <<fresh, lastEvent, recent, registry>>
  BY DEF Ack, Nak, NextMessage, history, memory, DeliveryInv, TypeOK, Worker
<1> HIDE DEF t
<1>6. ASSUME NEW i \in DOMAIN t, t[i] \in EventsOf(e) \ {lastEvent[e]}
      PROVE  \/ lastEvent[e] \in Members(fresh["events"])
             \/ \E j \in DOMAIN t : j > i /\ t[j] = lastEvent[e]
  <2>1. CASE lastEvent[e] \in Members(fresh["events"])
    BY <2>1
  <2>2. CASE lastEvent[e] \notin Members(fresh["events"])
    <3>1. i + 1 \in DOMAIN b /\ b[i + 1] \in EventsOf(e) \ {lastEvent[e]}
      BY <1>2, <1>6
    <3>2. PICK j \in DOMAIN b : j > i + 1 /\ b[j] = lastEvent[e]
      BY <2>2, <3>1 DEF OrderInv
    <3>3. j > 1 /\ j - 1 > i
      BY <1>4, <3>2
    <3> QED
      BY <1>3, <3>2, <3>3
  <2> QED
    BY <2>1, <2>2
<1>7. ASSUME NEW i \in DOMAIN t, NEW j \in DOMAIN t, t[i] = t[j], t[i] \in EventsOf(e)
      PROVE  i = j
  <2>1. i + 1 = j + 1
    BY <1>2, <1>7 DEF OrderInv
  <2> QED
    BY <1>4, <2>1
<1>8. ASSUME lastEvent[e] \in recent, NEW i \in DOMAIN t PROVE t[i] # lastEvent[e]
  <2>1. b[i + 1] # lastEvent[e]
    BY <1>2, <1>4, <1>8 DEF OrderInv
  <2> QED
    BY <1>2, <2>1
<1>9. \A i \in DOMAIN t : lastEvent[e] \in recent => t[i] # lastEvent[e]
  BY <1>8
<1> QED
  BY <1>5, <1>6, <1>7, <1>9 DEF OrderInv, EventsOf, Lifecycle, Members

\* Steps that leave the event worker's messages as they are.
LEMMA OtherOrder ==
  ASSUME DeliveryInv, DeliveryInv', StopInv, RegistryInv, NEW e \in Entity, OrderInv(e),
         \/ \E m \in Message : Expire(m)
         \/ \E o \in Entity : CreateEntity(o) \/ DeleteEntity(o) \/ DevicePut(o)
            \/ DeviceDelete(o)
         \/ WorkerStep("telemetry")
         \/ phase # "down" /\ (Subscribe("events") \/ SubscribeFails("events")
            \/ BeginFetch("events") \/ LoopEnds("events") \/ Reject("events"))
         \/ Stop \/ StopStep \/ StopTimesOut \/ Exit \/ Crash \/ Start \/ UNCHANGED vars
  PROVE  OrderInv(e)'
<1> USE DEF OrderSame
<1>1. CASE \/ \E m \in Message : Expire(m)
           \/ \E o \in Entity : CreateEntity(o) \/ DeleteEntity(o) \/ DevicePut(o)
              \/ DeviceDelete(o)
           \/ Stop \/ StopStep \/ StopTimesOut \/ UNCHANGED vars
  <2>1. UNCHANGED <<fresh, hand, step, lastEvent, recent, registry>>
    BY <1>1 DEF Expire, CreateEntity, DeleteEntity, DevicePut, DeviceDelete, Stop, StopStep,
                StopWorker, CancelWorkers,
                WorkersDone, StopTimesOut, vars, consumer, memory, history
  <2> QED
    BY <2>1, SameOrder
<1>2. CASE WorkerStep("telemetry")
  <2>1. /\ fresh'["events"] = fresh["events"] /\ hand'["events"] = hand["events"]
        /\ step'["events"] = step["events"] /\ UNCHANGED <<lastEvent, registry>>
    <3>1. CASE Fetch("telemetry")
      <4>1. PICK i \in 0 .. Batch, j \in 0 .. Batch : Deliver("telemetry", i, j)
        BY <3>1 DEF Fetch
      <4>2. fresh'["events"] = fresh["events"]
        BY <4>1 DEF Deliver, DeliveryInv, TypeOK, Worker
      <4>3. PICK q : hand' = [hand EXCEPT !["telemetry"] = q]
        BY <3>1 DEF Fetch
      <4> QED
        BY <3>1, <4>2, <4>3 DEF Fetch, Goto, memory, history, DeliveryInv, TypeOK, Worker
    <3>2. CASE FetchCut("telemetry")
      <4>1. PICK i \in 0 .. Batch, j \in 0 .. Batch : Deliver("telemetry", i, j)
        BY <3>2 DEF FetchCut
      <4>2. fresh'["events"] = fresh["events"]
        BY <4>1 DEF Deliver, DeliveryInv, TypeOK, Worker
      <4> QED
        BY <3>2, <4>2 DEF FetchCut, Goto, memory, history, DeliveryInv, TypeOK, Worker
    <3>3. CASE ~Fetch("telemetry") /\ ~FetchCut("telemetry")
      BY <1>2, <3>3 DEF WorkerStep, Subscribe, SubscribeFails, BeginFetch, LoopEnds, Reject,
                        Ack, Nak, NextMessage,
         DropTelemetry, TakeTelemetry, LoadState, LoadFails, Succeed, Goto, consumer, memory,
         history, DeliveryInv, TypeOK, Worker
    <3> QED
      BY <3>1, <3>2, <3>3
  <2>2. \/ recent' = recent
        \/ recent' = recent \cup {Head(hand["telemetry"])} /\ step["telemetry"] \in {"handle", "load"}
    BY <1>2 DEF WorkerStep, Subscribe, SubscribeFails, BeginFetch, Fetch, FetchCut, LoopEnds,
                Reject, Ack, Nak,
       DropTelemetry, TakeTelemetry, LoadState, LoadFails, Succeed, history
  <2>3. step["telemetry"] \in {"handle", "load"} => StreamOf[Head(hand["telemetry"])] = "telemetry"
    BY InHand DEF Handling, Worker
  <2>4. lastEvent[e] \in EventsOf(e) \cup {None}
    BY DEF RegistryInv
  <2>5. lastEvent[e] \in recent' => lastEvent[e] \in recent
    <3>1. CASE lastEvent[e] = None
      BY <3>1 DEF DeliveryInv, TypeOK
    <3>2. CASE lastEvent[e] \in EventsOf(e)
      BY <2>2, <2>3, <3>2, EventStream
    <3> QED
      BY <2>4, <3>1, <3>2
  <2> QED
    BY <2>1, <2>5, SameOrder
<1>3. CASE Subscribe("events") \/ SubscribeFails("events") \/ BeginFetch("events")
           \/ LoopEnds("events") \/ Reject("events")
  <2>1. UNCHANGED <<fresh, hand, lastEvent, recent, registry>> /\ step["events"] # "ack"
    BY <1>3 DEF Subscribe, SubscribeFails, BeginFetch, LoopEnds, Reject, consumer, memory,
                history
  <2> QED
    BY <2>1, SameOrder
<1>4. CASE Exit \/ Crash
  <2>1. UNCHANGED <<fresh, lastEvent>> /\ recent' = {} /\ hand'["events"] = << >>
    BY <1>4 DEF Exit, Crash, GoDown, consumer, Worker
  <2>2. DOMAIN << >> = {}
    BY EmptySeq, LenProperties
  <2> QED
    BY <2>1, <2>2 DEF OrderInv, EventsOf, Lifecycle, Members
<1>5. CASE Start
  <2>1. UNCHANGED <<fresh, hand, step, lastEvent, recent>> /\ recent = {}
    BY <1>5 DEF Start, StopInv, consumer, history
  <2> QED
    BY <2>1, SameOrder
<1> QED
  BY <1>1, <1>2, <1>3, <1>4, <1>5

LEMMA RegistryStep ==
  ASSUME DeliveryInv, DeliveryInv', StopInv, RegistryInv, [Next]_vars
  PROVE  RegistryInv'
<1>1. recent' \subseteq handled'
  <2>1. CASE UNCHANGED recent /\ handled \subseteq handled'
    BY <2>1 DEF RegistryInv
  <2>2. CASE recent' = {}
    BY <2>2
  <2>3. CASE HandleEvent \/ DropTelemetry \/ LoadState
    BY <2>3 DEF RegistryInv, HandleEvent, DropTelemetry, LoadState, Succeed
  <2>4. (\E w \in Worker : WorkerStep(w))
          => UNCHANGED <<recent, handled>> \/ HandleEvent \/ DropTelemetry \/ LoadState
    BY DEF WorkerStep, Subscribe, SubscribeFails, BeginFetch, Fetch, FetchCut, LoopEnds,
           Reject, Ack, Nak, TakeTelemetry,
           LoadFails, history
  <2>5. Exit \/ Crash => recent' = {}
    BY DEF Exit, Crash, GoDown
  <2>6. \/ \E m \in Message : Publish(m) \/ Expire(m)
        \/ \E o \in Entity : CreateEntity(o) \/ DeleteEntity(o) \/ DevicePut(o)
           \/ DeviceDelete(o)
        \/ Stop \/ StopStep \/ StopTimesOut \/ Start \/ UNCHANGED vars
        => UNCHANGED <<recent, handled>>
    BY DEF Publish, Expire, CreateEntity, DeleteEntity, DevicePut, DeviceDelete, Stop,
           StopStep, StopWorker, CancelWorkers,
           WorkersDone, StopTimesOut, Start, vars, history
  <2> QED
    BY <2>1, <2>2, <2>3, <2>4, <2>5, <2>6 DEF Next
<1>2. ASSUME NEW e \in Entity PROVE lastEvent'[e] \in EventsOf(e) \cup {None}
  <2>1. CASE \E m \in Message : Publish(m)
    BY <2>1 DEF Publish, RegistryInv, EventsOf, DeliveryInv, TypeOK
  <2>2. CASE UNCHANGED lastEvent
    BY <2>2 DEF RegistryInv
  <2>3. (\E w \in Worker : WorkerStep(w)) => UNCHANGED lastEvent
    BY DEF WorkerStep, Subscribe, SubscribeFails, BeginFetch, Fetch, FetchCut, LoopEnds,
           Reject, Ack, Nak, HandleEvent,
           DropTelemetry, TakeTelemetry, LoadState, LoadFails, history
  <2>4. \/ \E m \in Message : Expire(m)
        \/ \E o \in Entity : CreateEntity(o) \/ DeleteEntity(o) \/ DevicePut(o)
           \/ DeviceDelete(o)
        \/ Stop \/ StopStep \/ StopTimesOut \/ Exit \/ Crash \/ Start \/ UNCHANGED vars
        => UNCHANGED lastEvent
    BY DEF Expire, CreateEntity, DeleteEntity, DevicePut, DeviceDelete, Stop, StopStep,
           StopWorker, CancelWorkers,
           WorkersDone, StopTimesOut, Exit, Crash, GoDown, Start, vars, history
  <2> QED
    BY <2>1, <2>2, <2>3, <2>4 DEF Next
<1>3. ASSUME NEW e \in Entity, Calm(e)' PROVE OrderInv(e)'
  <2>1. OrderInv(e)
    <3>1. Calm(e)
      <4> SUFFICES ASSUME NEW n \in EventsOf(e) PROVE count[n] <= 1
        BY DEF Calm
      <4>1. n \in Message /\ count'[n] <= 1
        BY <1>3, EventStream DEF Calm, EventsOf, Lifecycle
      <4>2. count[n] \in Nat /\ count'[n] \in Nat /\ count[n] <= count'[n]
        BY <4>1, CountsGrow
      <4> QED
        BY <4>1, <4>2
    <3> QED
      BY <3>1 DEF RegistryInv
  <2>2. CASE \E m \in Message : Publish(m)
    BY <2>1, <2>2, PublishOrder
  <2>3. CASE Fetch("events") \/ FetchCut("events")
    BY <1>3, <2>1, <2>3, FetchOrder
  <2>4. CASE HandleEvent
    BY <2>1, <2>4, HandleOrder
  <2>5. CASE Ack("events") \/ Nak("events")
    BY <2>1, <2>5, AnswerOrder
  <2>6. CASE WorkerStep("telemetry")
    BY <2>1, <2>6, OtherOrder
  <2>7. CASE WorkerStep("events")
    BY <2>1, <2>3, <2>4, <2>5, <2>7, OtherOrder DEF WorkerStep
  <2>8. CASE \/ \E m \in Message : Expire(m)
             \/ \E o \in Entity : CreateEntity(o) \/ DeleteEntity(o) \/ DevicePut(o)
                \/ DeviceDelete(o)
             \/ Stop \/ StopStep \/ StopTimesOut \/ Exit \/ Crash \/ Start \/ UNCHANGED vars
    BY <2>1, <2>8, OtherOrder
  <2> QED
    BY <2>2, <2>6, <2>7, <2>8 DEF Next, Worker
<1> QED
  BY <1>1, <1>2, <1>3 DEF RegistryInv, EventsOf, Lifecycle

\* As long as the events of an entity are delivered once, the registry follows
\* the last of them, whatever is fetched in batches, refused, cut off or
\* restarted.
THEOREM RegistryRight == Spec => []RegistryFollowsEvents
<1>1. Init => StopInv /\ RegistryInv
  <2>1. DOMAIN << >> = {}
    BY EmptySeq, LenProperties
  <2> QED
    BY <2>1 DEF Init, StopInv, RegistryInv, OrderInv, Worker
<1>2. DeliveryInv /\ StopInv /\ RegistryInv /\ [Next]_vars => StopInv' /\ RegistryInv'
  BY DeliveryStep, StopInvStep, RegistryStep DEF DeliveryInv
<1>3. RegistryInv => RegistryFollowsEvents
  <2> SUFFICES ASSUME RegistryInv, NEW e \in Entity, lastEvent[e] \in recent,
                      \A n \in Lifecycle : About[n] = e => count[n] <= 1
               PROVE  e \in registry <=> Kind[lastEvent[e]] = "bootsequence"
    BY DEF RegistryFollowsEvents
  <2>1. Calm(e)
    BY DEF Calm, EventsOf
  <2> QED
    BY <2>1 DEF RegistryInv, OrderInv
<1> QED
  BY <1>1, <1>2, <1>3, DeliveryInvariant, PTL DEF Spec
=============================================================================
