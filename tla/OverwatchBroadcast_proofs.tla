---------------------- MODULE OverwatchBroadcast_proofs ----------------------
(***************************************************************************)
(* Proofs about OverwatchBroadcast, for every set of entities, keys and    *)
(* clients and every queue capacity: types, that no change of the shared   *)
(* copy is lost on its way to a client and no write on its way to the      *)
(* copy, that totals are right and that cards do not go back.  The         *)
(* inductive invariant is FeedInv, each of whose parts is preserved by     *)
(* every step that starts in FeedInv; TrackInv, TotalInv and AgeInv are    *)
(* inductive relative to it.                                               *)
(***************************************************************************)
EXTENDS OverwatchBroadcast, SequenceTheorems, FiniteSetTheorems, TLAPS

USE ConstantsAssumption

-----------------------------------------------------------------------------
(* Queues.                                                                 *)

\* Appending an update of e that carries st makes the queue owe st to e.
LEMMA OwesAppended ==
  ASSUME NEW q \in Seq(Message), NEW m \in Message, ~m.full
  PROVE  Owes(Append(q, m), m.entity, m.state)
<1> DEFINE r == Append(q, m)
<1>1. /\ Len(r) = Len(q) + 1 /\ DOMAIN r = 1 .. Len(q) + 1
      /\ r[Len(q) + 1] = m
  BY AppendProperties, LenProperties
<1>2. Len(q) \in Nat
  BY LenProperties
<1> QED
  BY <1>1, <1>2 DEF Owes

\* An update of another entity leaves what the queue owes to e unchanged.
LEMMA OwesAppendOther ==
  ASSUME NEW q \in Seq(Message), NEW m \in Message, ~m.full,
         NEW e, NEW st, m.entity # e
  PROVE  /\ Owes(q, e, st) => Owes(Append(q, m), e, st)
         /\ Untouched(q, e) => Untouched(Append(q, m), e)
<1> DEFINE r == Append(q, m)
<1>1. /\ DOMAIN q = 1 .. Len(q) /\ DOMAIN r = 1 .. Len(q) + 1
      /\ r[Len(q) + 1] = m
      /\ \A i \in 1 .. Len(q) : r[i] = q[i]
      /\ Len(q) \in Nat
  BY AppendProperties, LenProperties
<1>2. ASSUME Owes(q, e, st) PROVE Owes(r, e, st)
  <2>1. PICK i \in DOMAIN q :
          /\ q[i].full \/ (q[i].entity = e /\ q[i].state = st)
          /\ \A j \in DOMAIN q : j > i => q[j].full \/ q[j].entity # e
    BY <1>2 DEF Owes
  <2>2. i \in DOMAIN r /\ r[i] = q[i]
    BY <1>1
  <2>3. ASSUME NEW j \in DOMAIN r, j > i PROVE r[j].full \/ r[j].entity # e
    <3>1. CASE j = Len(q) + 1
      BY <1>1, <3>1
    <3>2. CASE j \in DOMAIN q
      BY <1>1, <2>1, <2>3, <3>2
    <3> QED
      BY <1>1, <3>1, <3>2
  <2> QED
    BY <2>1, <2>2, <2>3 DEF Owes
<1>3. ASSUME Untouched(q, e) PROVE Untouched(r, e)
  BY <1>1, <1>3 DEF Untouched
<1> QED
  BY <1>2, <1>3

\* Taking the head: what was owed is still owed by the rest, or the head was
\* the message that owed it and nothing after it concerns e.
LEMMA OwesTail ==
  ASSUME NEW q \in Seq(Message), q # <<>>, NEW e, NEW st
  PROVE  /\ Owes(q, e, st) =>
              \/ Owes(Tail(q), e, st)
              \/ /\ Untouched(Tail(q), e)
                 /\ Head(q).full \/ (Head(q).entity = e /\ Head(q).state = st)
         /\ Untouched(q, e) =>
              Untouched(Tail(q), e) /\ ~Head(q).full /\ Head(q).entity # e
<1> DEFINE t == Tail(q)
<1>1. /\ Len(q) \in Nat \ {0}
      /\ DOMAIN q = 1 .. Len(q) /\ DOMAIN t = 1 .. Len(q) - 1
      /\ \A i \in 1 .. Len(q) - 1 : t[i] = q[i + 1]
      /\ Head(q) = q[1]
  BY HeadTailProperties, LenProperties, EmptySeq
<1>2. ASSUME Owes(q, e, st)
      PROVE  \/ Owes(t, e, st)
             \/ /\ Untouched(t, e)
                /\ Head(q).full \/ (Head(q).entity = e /\ Head(q).state = st)
  <2>1. PICK i \in DOMAIN q :
          /\ q[i].full \/ (q[i].entity = e /\ q[i].state = st)
          /\ \A j \in DOMAIN q : j > i => q[j].full \/ q[j].entity # e
    BY <1>2 DEF Owes
  <2>2. CASE i > 1
    <3>1. i - 1 \in DOMAIN t /\ t[i - 1] = q[i]
      BY <1>1, <2>2
    <3>2. \A j \in DOMAIN t : j > i - 1 => t[j].full \/ t[j].entity # e
      BY <1>1, <2>1
    <3> QED
      BY <2>1, <3>1, <3>2 DEF Owes
  <2>3. CASE i = 1
    <3>1. \A j \in DOMAIN t : t[j].full \/ t[j].entity # e
      BY <1>1, <2>1, <2>3
    <3>2. CASE \E j \in DOMAIN t : t[j].full
      BY <3>1, <3>2 DEF Owes
    <3>3. CASE \A j \in DOMAIN t : ~t[j].full
      BY <1>1, <2>1, <2>3, <3>1, <3>3 DEF Untouched
    <3> QED
      BY <3>2, <3>3
  <2> QED
    BY <1>1, <2>2, <2>3
<1>3. ASSUME Untouched(q, e)
      PROVE  Untouched(t, e) /\ ~Head(q).full /\ Head(q).entity # e
  BY <1>1, <1>3 DEF Untouched
<1> QED
  BY <1>2, <1>3

-----------------------------------------------------------------------------
(* Type correctness.                                                       *)

\* The number of live entities is a number.
LEMMA CountType == ASSUME NEW f PROVE Cardinality(Live(f)) \in Nat
<1>1. IsFiniteSet(Live(f))
  BY FS_Subset DEF Live
<1> QED
  BY <1>1, FS_CardinalityType

\* Merging keys gives a state.
LEMMA MergeType ==
  ASSUME NEW data \in State, NEW e \in Entity
  PROVE  Merge(data, e) \in State
BY DEF Merge, State

\* A replay is a sequence of entries of the bucket.
LEMMA ReplayType ==
  ASSUME kv \in [Key -> Entry], NEW s \in Replays
  PROVE  s \in Seq(Entry)
<1> DEFINE K == {j \in Key : kv[j].op # "none"}
           written == {kv[k] : k \in K}
           f == [k \in K |-> kv[k]]
<1>1. IsFiniteSet(K)
  BY FS_Subset
<1>2. f \in Surjection(K, written)
  BY DEF Surjection
<1>3. IsFiniteSet(written) /\ Cardinality(written) \in Nat
  BY <1>1, <1>2, FS_Surjection, FS_CardinalityType
<1>4. written \subseteq Entry
  OBVIOUS
<1>5. s \in [1 .. Cardinality(written) -> written]
  BY DEF Replays
<1>6. s \in [1 .. Cardinality(written) -> Entry]
  BY <1>4, <1>5
<1>7. \E n \in Nat : s \in [1 .. n -> Entry]
  BY <1>3, <1>6
<1> QED
  BY <1>7, SeqDef

\* The variables start in their types.
LEMMA InitType == Init => TypeOK
<1> SUFFICES ASSUME Init PROVE TypeOK
  OBVIOUS
<1>1. Gone \in State /\ NoStates \in [Entity -> State]
  BY DEF Gone, State, NoStates
<1>2. Len(<<>>) = 0 /\ 0 <= QueueCap
  OBVIOUS
<1> QED
  BY <1>1, <1>2 DEF Init, TypeOK, Entry, Message, FullSnapshot

\* After a crash everything but the bucket is as the process finds it.
LEMMA CrashType == TypeOK /\ Crash => TypeOK'
<1> SUFFICES ASSUME TypeOK, Crash PROVE TypeOK'
  OBVIOUS
<1>1. Gone \in State /\ NoStates \in [Entity -> State]
  BY DEF Gone, State, NoStates
<1>2. Len(<<>>) = 0 /\ 0 <= QueueCap
  OBVIOUS
<1>3. kv' = kv /\ rev' = rev /\ restarts' \in Nat
  BY DEF Crash, TypeOK, bucketVars
<1> QED
  BY <1>1, <1>2, <1>3 DEF Crash, TypeOK, Message

\* A write of the bucket keeps every variable in its type.
LEMMA WriteType ==
  ASSUME TypeOK, NEW k \in Key, NEW op \in {"put", "del"}, Write(k, op)
  PROVE  TypeOK'
<1> DEFINE entry == [key |-> k, op |-> op, rev |-> rev + 1]
<1> USE DEF TypeOK
<1>1. entry \in Entry
  BY DEF Entry
<1>2. kv' \in [Key -> Entry] /\ \A j \in Key : kv'[j].key = j
  BY <1>1 DEF Write
<1>3. stream' \in Seq(Entry)
  <2>1. Append(stream, entry) \in Seq(Entry)
    BY <1>1, AppendProperties
  <2> HIDE DEF entry
  <2> QED
    BY <2>1 DEF Write, entry
<1>4. rev' \in Nat
  BY DEF Write
<1> QED
  BY <1>2, <1>3, <1>4
     DEF Write, copyVars, loadVars, clientVars

\* The head of a queue is a message, and an update names an entity.
LEMMA HeadType ==
  ASSUME NEW q \in Seq(Message), q # <<>>
  PROVE  /\ Head(q) \in Message /\ Tail(q) \in Seq(Message)
         /\ Len(Tail(q)) <= Len(q)
         /\ ~Head(q).full => /\ Head(q).entity \in Entity
                             /\ Head(q).state \in State
                             /\ Head(q).total \in Nat
<1>1. Head(q) \in Message /\ Tail(q) \in Seq(Message) /\ Len(Tail(q)) <= Len(q)
  BY HeadTailProperties, LenProperties, EmptySeq
<1>2. ASSUME NEW m \in Message, ~m.full
      PROVE  m.entity \in Entity /\ m.state \in State /\ m.total \in Nat
  <2>1. m # FullSnapshot
    BY <1>2 DEF FullSnapshot
  <2>2. m \in [full : {FALSE}, entity : Entity, state : State, total : Nat]
    BY <2>1 DEF Message
  <2> QED
    BY <2>2
<1> QED
  BY <1>1, <1>2

\* So does the step of the watcher that changes the shared copy.
LEMMA ApplyType == TypeOK /\ Apply => TypeOK'
<1> SUFFICES ASSUME TypeOK, Apply PROVE TypeOK'
  OBVIOUS
<1> USE DEF TypeOK
<1> DEFINE entry == Head(stream)
           e     == EntityOf[entry.key]
<1>1. stream # <<>> /\ entry \in Entry /\ Tail(stream) \in Seq(Entry)
  BY HeadTailProperties DEF Apply
<1>2. entry.key \in Key /\ entry.rev \in Nat /\ e \in Entity
  BY <1>1 DEF Entry
<1>3. entityData' = [entityData EXCEPT ![entry.key] =
                       IF entry.op = "put" THEN entry.rev ELSE 0]
  BY DEF Apply
<1>4. entityData' \in State
  BY <1>2, <1>3 DEF State
<1>5. entityState' = [entityState EXCEPT ![e] = Merge(entityData', e)]
  BY DEF Apply
<1>6. Merge(entityData', e) \in State
  BY <1>2, <1>4, MergeType
<1>7. entityState' \in [Entity -> State]
  BY <1>2, <1>5, <1>6
<1>8. upd' \in Message
  <2>1. upd' = Update(e, entityState'[e], Cardinality(Live(entityState')))
    BY DEF Apply
  <2>2. entityState'[e] \in State /\ Cardinality(Live(entityState')) \in Nat
    BY <1>2, <1>7, CountType
  <2> QED
    BY <1>2, <2>1, <2>2 DEF Update, Message
<1> QED
  BY <1>1, <1>4, <1>7, <1>8
     DEF Apply, bucketVars, loadVars, clientVars

\* Every step does.
LEMMA NextType == TypeOK /\ [Next]_vars => TypeOK'
<1> SUFFICES ASSUME TypeOK, [Next]_vars PROVE TypeOK'
  OBVIOUS
<1> USE DEF TypeOK, vars, bucketVars, watchVars, copyVars, loadVars, clientVars
<1>1. ASSUME NEW k \in Key, KVPut(k) PROVE TypeOK'
  BY <1>1, WriteType DEF KVPut
<1>2. ASSUME NEW k \in Key, KVDelete(k) PROVE TypeOK'
  BY <1>2, WriteType DEF KVDelete
<1>3. ASSUME WatchStart PROVE TypeOK'
  BY ReplayType, <1>3 DEF WatchStart
<1>4. ASSUME WatchStop PROVE TypeOK'
  BY <1>4 DEF WatchStop
<1>5. ASSUME ApplyNothing PROVE TypeOK'
  BY <1>5 DEF ApplyNothing
<1>6. ASSUME BroadcastBegin PROVE TypeOK'
  BY <1>6 DEF BroadcastBegin
<1>7. ASSUME BroadcastEnd PROVE TypeOK'
  BY <1>7 DEF BroadcastEnd, Message
<1>8. ASSUME NEW k \in Key, LoadKey(k) PROVE TypeOK'
  <2>1. BucketValue(k) \in Nat
    BY <1>8 DEF BucketValue, Entry
  <2>2. loaded' \in State
    BY <1>8, <2>1 DEF LoadKey, State
  <2> QED
    BY <1>8, <2>2 DEF LoadKey
<1>9. ASSUME NEW c \in Client, Send(c) PROVE TypeOK'
  BY <1>9 DEF Send
<1>10. ASSUME NEW c \in Client, SendFull(c) PROVE TypeOK'
  BY <1>10 DEF SendFull
<1>11. ASSUME NEW c \in Client, DrainOne(c) PROVE TypeOK'
  BY <1>11 DEF DrainOne
<1>12. ASSUME NEW c \in Client, DrainDone(c) PROVE TypeOK'
  <2>1. <<FullSnapshot>> \in Seq(Message) /\ Len(<<FullSnapshot>>) = 1
    BY DEF Message
  <2> QED
    BY <1>12, <2>1 DEF DrainDone
<1>13. ASSUME NEW c \in Client, Connect(c) PROVE TypeOK'
  BY <1>13 DEF Connect
<1>14. ASSUME NEW c \in Client, AlreadyStarted(c) PROVE TypeOK'
  BY <1>14 DEF AlreadyStarted
<1>15. ASSUME NEW c \in Client, StartLoad(c) \/ StartFails(c) PROVE TypeOK'
  BY <1>15 DEF StartLoad, StartFails, LiveKeys
<1>16. ASSUME NEW c \in Client, FinishLoad(c) PROVE TypeOK'
  BY MergeType, <1>16 DEF FinishLoad, Gone, State
<1>17. ASSUME NEW c \in Client, Register(c) PROVE TypeOK'
  BY CountType, <1>17 DEF Register
<1>18. ASSUME NEW c \in Client, ReceiveUpdate(c) PROVE TypeOK'
  <2> DEFINE m == Head(queue[c])
  <2>1. /\ m.entity \in Entity /\ m.state \in State /\ m.total \in Nat
        /\ Tail(queue[c]) \in Seq(Message)
    BY <1>18, HeadType DEF ReceiveUpdate
  <2>2. Len(Tail(queue[c])) <= QueueCap
    BY <1>18, HeadTailProperties, EmptySeq DEF ReceiveUpdate
  <2> QED
    BY <1>18, <2>1, <2>2 DEF ReceiveUpdate
<1>19. ASSUME NEW c \in Client, ReceiveFullSnapshot(c) PROVE TypeOK'
  BY <1>19 DEF ReceiveFullSnapshot
<1>20. ASSUME NEW c \in Client, TakeSnapshot(c) PROVE TypeOK'
  BY CountType, <1>20 DEF TakeSnapshot
<1>21. ASSUME NEW c \in Client, Flush(c) PROVE TypeOK'
  BY <1>21 DEF Flush, NoStates, Gone, State
<1>22. ASSUME NEW c \in Client, Cancel(c) PROVE TypeOK'
  BY <1>22 DEF Cancel
<1>23. ASSUME NEW c \in Client, Unsubscribe(c) PROVE TypeOK'
  BY <1>23 DEF Unsubscribe
<1>24. ASSUME NEW c \in Client, Leave(c) PROVE TypeOK'
  BY <1>24 DEF Leave, NoStates, Gone, State
<1>25. ASSUME Apply PROVE TypeOK'
  BY <1>25, ApplyType
<1>26. ASSUME UNCHANGED vars PROVE TypeOK'
  BY <1>26
<1>27. ASSUME Crash PROVE TypeOK'
  BY <1>27, CrashType
<1> QED
  BY <1>1, <1>2, <1>3, <1>4, <1>5, <1>6, <1>7, <1>8, <1>9, <1>10, <1>11, <1>12, <1>13, <1>14, <1>15, <1>16, <1>17, <1>18, <1>19, <1>20, <1>21, <1>22, <1>23, <1>24, <1>25, <1>26, <1>27
     DEF Next, Bucket, Watch, Subscribe, Loop

\* Every variable keeps its type, and no channel ever holds more than its
\* capacity, in every behaviour and for every value of the constants.
THEOREM TypeCorrect == Spec => []TypeOK
BY InitType, NextType, PTL DEF Spec

-----------------------------------------------------------------------------
(* Messages.                                                               *)

\* An update is the record applyEntryLocked builds; its fields have their types.
LEMMA UpdateFields ==
  ASSUME NEW m \in Message, ~m.full
  PROVE  m.entity \in Entity /\ m.state \in State /\ m.total \in Nat
<1>1. m # FullSnapshot
  BY DEF FullSnapshot
<1>2. m \in [full : {FALSE}, entity : Entity, state : State, total : Nat]
  BY <1>1 DEF Message
<1> QED
  BY <1>2

\* The flag of a message is a Boolean, and only the marker has it set.
LEMMA FullFlag ==
  /\ FullSnapshot \in Message /\ FullSnapshot.full
  /\ \A m \in Message : m.full \in BOOLEAN
<1>1. FullSnapshot \in Message /\ FullSnapshot.full
  BY DEF Message, FullSnapshot
<1>2. ASSUME NEW m \in Message PROVE m.full \in BOOLEAN
  <2>1. CASE m = FullSnapshot
    BY <2>1 DEF FullSnapshot
  <2>2. CASE m \in [full : {FALSE}, entity : Entity, state : State, total : Nat]
    BY <2>2
  <2> QED
    BY <2>1, <2>2 DEF Message
<1> QED
  BY <1>1, <1>2

\* An empty queue neither concerns an entity nor owes anything, and the
\* marker alone owes every state of every entity.
LEMMA SmallQueues ==
  ASSUME NEW e, NEW st
  PROVE  Untouched(<<>>, e) /\ Owes(<<FullSnapshot>>, e, st)
BY FullFlag DEF Untouched, Owes

-----------------------------------------------------------------------------
(* Connections.                                                            *)

\* Every step keeps a client that is not connected free of any state.
LEMMA ConnectionStep ==
  TypeOK /\ ConnectionInv /\ SenderInv /\ [Next]_vars => ConnectionInv'
<1> SUFFICES ASSUME TypeOK, ConnectionInv, SenderInv, [Next]_vars
             PROVE  ConnectionInv'
  OBVIOUS
<1> USE DEF TypeOK, ConnectionInv, vars, bucketVars, watchVars, copyVars,
            loadVars, clientVars
<1>1. CASE Bucket \/ ApplyNothing \/ (\E k \in Key : LoadKey(k))
           \/ (\E c \in Client : SendFull(c) \/ Cancel(c)) \/ UNCHANGED vars
  BY <1>1 DEF Bucket, KVPut, KVDelete, Write, ApplyNothing, LoadKey, SendFull, Cancel
<1>2. CASE WatchStart \/ WatchStop \/ Apply \/ BroadcastBegin \/ BroadcastEnd
  BY <1>2 DEF WatchStart, WatchStop, Apply, BroadcastBegin, BroadcastEnd
<1>3. ASSUME NEW c \in Client, Send(c) \/ DrainOne(c) \/ DrainDone(c)
      PROVE  ConnectionInv'
  <2>1. c \in subscribers /\ pc[c] \in {"loop", "resync"}
    BY <1>3 DEF SenderInv, Send, DrainOne, DrainDone
  <2> QED
    BY <1>3, <2>1 DEF Send, DrainOne, DrainDone
<1>4. ASSUME NEW c \in Client, Connect(c) \/ AlreadyStarted(c)
      PROVE  ConnectionInv'
  BY <1>4 DEF Connect, AlreadyStarted, Started
<1>5. ASSUME NEW c \in Client, StartLoad(c) \/ StartFails(c) PROVE ConnectionInv'
  BY <1>5 DEF StartLoad, StartFails, Started, StartFree
<1>6. ASSUME NEW c \in Client, FinishLoad(c) PROVE ConnectionInv'
  BY <1>6 DEF FinishLoad
<1>7. ASSUME NEW c \in Client, Register(c) PROVE ConnectionInv'
  BY <1>7 DEF Register
<1>8. ASSUME NEW c \in Client,
             ReceiveUpdate(c) \/ ReceiveFullSnapshot(c) \/ TakeSnapshot(c) \/ Flush(c)
      PROVE  ConnectionInv'
  BY <1>8 DEF ReceiveUpdate, ReceiveFullSnapshot, TakeSnapshot, Flush
<1>9. ASSUME NEW c \in Client, Unsubscribe(c) \/ Leave(c)
      PROVE  ConnectionInv'
  BY <1>9 DEF Unsubscribe, Leave
<1>10. CASE Crash
  BY <1>10 DEF Crash
<1> QED
  BY <1>1, <1>2, <1>3, <1>4, <1>5, <1>6, <1>7, <1>8, <1>9, <1>10
     DEF Next, Watch, Subscribe, Loop

-----------------------------------------------------------------------------
(* The broadcast.                                                          *)

\* Every step keeps the update in hand equal to the shared copy, and sends
\* only to registered channels.
LEMMA SenderStep ==
  TypeOK /\ ConnectionInv /\ SenderInv /\ [Next]_vars => SenderInv'
<1> SUFFICES ASSUME TypeOK, ConnectionInv, SenderInv, [Next]_vars
             PROVE  SenderInv'
  OBVIOUS
<1> USE DEF SenderInv, vars, bucketVars, watchVars, copyVars,
            loadVars, clientVars
<1>1. CASE Bucket \/ ApplyNothing \/ (\E k \in Key : LoadKey(k))
           \/ WatchStart \/ WatchStop \/ UNCHANGED vars
  <2>1. /\ UNCHANGED <<todo, draining, subscribers, upd, entityState>>
        /\ wpc' = wpc \/ (wpc \in {"down", "up"} /\ wpc' \in {"down", "up"})
    <3>1. CASE Bucket
      BY <3>1 DEF Bucket, KVPut, KVDelete, Write
    <3>2. CASE ApplyNothing \/ (\E k \in Key : LoadKey(k)) \/ UNCHANGED vars
      BY <3>2 DEF ApplyNothing, LoadKey
    <3>3. CASE WatchStart \/ WatchStop
      BY <3>3 DEF WatchStart, WatchStop
    <3> QED
      BY <1>1, <3>1, <3>2, <3>3
  <2> QED
    BY <2>1
<1>2. CASE Apply
  <2> DEFINE entry == Head(stream)
             e     == EntityOf[entry.key]
  <2>1. e \in Entity
    <3>1. stream \in Seq(Entry) /\ stream # <<>>
      BY <1>2 DEF Apply, TypeOK
    <3>2. entry \in Entry
      BY <3>1, HeadTailProperties
    <3> QED
      BY <3>2 DEF Entry
  <2>2. upd' = Update(e, entityState'[e], Cardinality(Live(entityState')))
    BY <1>2 DEF Apply
  <2>3. ~upd'.full /\ upd'.entity = e /\ upd'.state = entityState'[e]
    BY <2>2 DEF Update
  <2>4. todo' = {} /\ draining' = {} /\ subscribers' = subscribers
    BY <1>2 DEF Apply
  <2> HIDE DEF e
  <2> QED
    BY <2>1, <2>3, <2>4
<1>3. CASE BroadcastBegin \/ BroadcastEnd
  BY <1>3 DEF BroadcastBegin, BroadcastEnd, TypeOK
<1>4. ASSUME NEW c \in Client,
             Send(c) \/ SendFull(c) \/ DrainOne(c) \/ DrainDone(c)
      PROVE  SenderInv'
  BY <1>4 DEF Send, SendFull, DrainOne, DrainDone
<1>5. ASSUME NEW c \in Client,
             Connect(c) \/ AlreadyStarted(c) \/ StartLoad(c) \/ StartFails(c) \/ Register(c)
             \/ Cancel(c) \/ Leave(c) \/ Loop(c)
      PROVE  SenderInv'
  BY <1>5 DEF Connect, AlreadyStarted, StartLoad, StartFails, Register, Cancel, Leave, Loop,
              ReceiveUpdate, ReceiveFullSnapshot, TakeSnapshot, Flush
<1>6. ASSUME NEW c \in Client, FinishLoad(c) PROVE SenderInv'
  BY <1>6 DEF FinishLoad, ConnectionInv
<1>7. ASSUME NEW c \in Client, Unsubscribe(c) PROVE SenderInv'
  BY <1>7 DEF Unsubscribe, ReadLocked
<1>8. CASE Crash
  BY <1>8 DEF Crash
<1> QED
  BY <1>1, <1>2, <1>3, <1>4, <1>5, <1>6, <1>7, <1>8 DEF Next, Watch, Subscribe

-----------------------------------------------------------------------------
(* The clients.                                                            *)

Marked(q) == \E i \in DOMAIN q : q[i].full

\* Only sending the marker puts one in a queue.
LEMMA MarkedQueues ==
  /\ ~Marked(<<>>)
  /\ \A q \in Seq(Message), m \in Message : Marked(Append(q, m)) => Marked(q) \/ m.full
  /\ \A q \in Seq(Message) : q # <<>> /\ Marked(Tail(q)) => Marked(q)
  /\ \A q \in Seq(Message) : q # <<>> /\ Head(q).full => Marked(q)
<1>1. ~Marked(<<>>)
  BY DEF Marked
<1>2. ASSUME NEW q \in Seq(Message), NEW m \in Message, Marked(Append(q, m))
      PROVE  Marked(q) \/ m.full
  <2>1. /\ DOMAIN q = 1 .. Len(q) /\ DOMAIN Append(q, m) = 1 .. Len(q) + 1
        /\ Append(q, m)[Len(q) + 1] = m
        /\ \A i \in 1 .. Len(q) : Append(q, m)[i] = q[i]
        /\ Len(q) \in Nat
    BY AppendProperties, LenProperties
  <2> QED
    BY <1>2, <2>1 DEF Marked
<1>3. ASSUME NEW q \in Seq(Message), q # <<>>
      PROVE  (Marked(Tail(q)) => Marked(q)) /\ (Head(q).full => Marked(q))
  <2>1. /\ Len(q) \in Nat \ {0}
        /\ DOMAIN q = 1 .. Len(q) /\ DOMAIN Tail(q) = 1 .. Len(q) - 1
        /\ \A i \in 1 .. Len(q) - 1 : Tail(q)[i] = q[i + 1]
        /\ Head(q) = q[1]
    BY <1>3, HeadTailProperties, LenProperties, EmptySeq
  <2> QED
    BY <2>1 DEF Marked
<1> QED
  BY <1>1, <1>2, <1>3

\* Every step keeps the marker to drained clients, and an entity either dirty
\* or removed.
LEMMA ClientStep ==
  TypeOK /\ ConnectionInv /\ SenderInv /\ ClientInv /\ [Next]_vars => ClientInv'
<1> SUFFICES ASSUME TypeOK, ConnectionInv, SenderInv, ClientInv, [Next]_vars
             PROVE  ClientInv'
  OBVIOUS
<1> DEFINE Inv(c) ==
      /\ pc[c] = "resync" \/ Marked(queue[c]) => c \in lossy
      /\ \A e \in removed[c] : dirty[c][e] = Gone
<1>0. (ClientInv <=> \A c \in Client : Inv(c)) /\ (ClientInv' <=> \A c \in Client : Inv(c)')
  BY DEF ClientInv, Marked
<1> USE DEF TypeOK, vars, bucketVars, watchVars, copyVars, loadVars, clientVars
<1>1. CASE UNCHANGED <<pc, queue, lossy, removed, dirty>>
  BY <1>0, <1>1
<1>3. ASSUME NEW c \in Client, Send(c) PROVE ClientInv'
  <2>1. upd \in Message /\ ~upd.full
    BY <1>3 DEF Send, SenderInv
  <2>2. Marked(queue'[c]) => Marked(queue[c])
    BY <1>3, <2>1, MarkedQueues DEF Send
  <2> QED
    BY <1>0, <1>3, <2>2 DEF Send
<1>4. ASSUME NEW c \in Client, DrainOne(c) PROVE ClientInv'
  BY <1>0, <1>4, MarkedQueues DEF DrainOne
<1>5. ASSUME NEW c \in Client, DrainDone(c) PROVE ClientInv'
  BY <1>0, <1>5 DEF DrainDone
<1>6. ASSUME NEW c \in Client, ReceiveUpdate(c) PROVE ClientInv'
  <2> DEFINE m == Head(queue[c])
  <2>1. m.entity \in Entity /\ (Marked(Tail(queue[c])) => Marked(queue[c]))
    BY <1>6, HeadType, MarkedQueues DEF ReceiveUpdate
  <2>2. \A e \in removed'[c] : dirty'[c][e] = Gone
    BY <1>0, <1>6, <2>1 DEF ReceiveUpdate
  <2>3. \A d \in Client \ {c} : Inv(d)'
    BY <1>0, <1>6 DEF ReceiveUpdate
  <2>4. pc'[c] = "loop" /\ lossy' = lossy /\ queue'[c] = Tail(queue[c])
    BY <1>6 DEF ReceiveUpdate
  <2> HIDE DEF m
  <2> QED
    BY <1>0, <2>1, <2>2, <2>3, <2>4
<1>7. ASSUME NEW c \in Client, ReceiveFullSnapshot(c) PROVE ClientInv'
  BY <1>0, <1>7, MarkedQueues DEF ReceiveFullSnapshot
<1>8. ASSUME NEW c \in Client, TakeSnapshot(c) PROVE ClientInv'
  BY <1>0, <1>8 DEF TakeSnapshot
<1>9. ASSUME NEW c \in Client, Flush(c) PROVE ClientInv'
  BY <1>0, <1>9 DEF Flush
<1>10. ASSUME NEW c \in Client, Leave(c) PROVE ClientInv'
  BY <1>0, <1>10, MarkedQueues DEF Leave
<1>11. CASE Bucket \/ (\E k \in Key : LoadKey(k)) \/ UNCHANGED vars
  BY <1>1, <1>11 DEF Bucket, KVPut, KVDelete, Write, LoadKey
<1>12. CASE WatchStart \/ WatchStop \/ ApplyNothing \/ Apply \/ BroadcastBegin
            \/ BroadcastEnd
  BY <1>1, <1>12 DEF WatchStart, WatchStop, ApplyNothing, Apply, BroadcastBegin, BroadcastEnd
<1>13. ASSUME NEW c \in Client, SendFull(c) \/ Cancel(c) \/ Unsubscribe(c)
       PROVE  ClientInv'
  BY <1>1, <1>13 DEF SendFull, Cancel, Unsubscribe
<1>14. ASSUME NEW c \in Client, Subscribe(c) PROVE ClientInv'
  BY <1>0, <1>14 DEF Subscribe, Connect, AlreadyStarted, StartLoad, StartFails, FinishLoad,
                     Register
<1>15. CASE Crash
  BY <1>0, <1>15, MarkedQueues DEF Crash
<1> QED
  BY <1>3, <1>4, <1>5, <1>6, <1>7, <1>8, <1>9, <1>10, <1>11, <1>12, <1>13, <1>14, <1>15
     DEF Next, Watch, Loop

-----------------------------------------------------------------------------
(* The view.  Held(c, e) is what ViewOrOwed says of one client and entity. *)

Held(c, e) ==
  \/ c \in draining
  \/ (wpc = "applied" \/ c \in todo) /\ e = upd.entity
  \/ UpToDate(c, e)

\* A client whose feed a step leaves alone holds what it held.
LEMMA HeldFrame ==
  ASSUME NEW c, NEW e, Held(c, e),
         queue'[c] = queue[c], entityState'[e] = entityState[e],
         pc'[c] = pc[c], dirty'[c] = dirty[c], removed'[c] = removed[c],
         shown'[c] = shown[c], c \in lossy => c \in lossy',
         c \in draining => c \in draining',
         (wpc = "applied" \/ c \in todo) /\ e = upd.entity =>
            (wpc' = "applied" \/ c \in todo') /\ e = upd'.entity
  PROVE  Held(c, e)'
BY DEF Held, UpToDate, Local

\* The steps of the watcher that change what clients are owed.
LEMMA ViewWatchStep ==
  ASSUME TypeOK, ConnectionInv, SenderInv, ClientInv, ViewOrOwed, Watch
  PROVE  ViewOrOwed'
<1> USE DEF TypeOK, vars, bucketVars, watchVars, copyVars, loadVars, clientVars
<1> SUFFICES ASSUME NEW d \in subscribers', NEW e \in Entity PROVE Held(d, e)'
  BY DEF ViewOrOwed, Held
<1>0. d \in Client /\ d \in subscribers /\ Held(d, e)
  BY DEF ViewOrOwed, Held, Watch, WatchStart, ApplyNothing, Apply, BroadcastBegin,
         BroadcastEnd, Send, SendFull, DrainOne, DrainDone
<1>1. CASE WatchStart \/ ApplyNothing
  BY <1>0, <1>1, HeldFrame DEF WatchStart, ApplyNothing
<1>2. CASE Apply
  <2> DEFINE e0 == EntityOf[Head(stream).key]
  <2>1. /\ wpc = "up" /\ wpc' = "applied"
        /\ UNCHANGED <<queue, pc, dirty, removed, shown, lossy, draining, todo>>
    BY <1>2 DEF Apply
  <2>2. upd'.entity = e0
    BY <1>2 DEF Apply, Update
  <2>3. entityState' = [entityState EXCEPT ![e0] = Merge(entityData', e0)]
    BY <1>2 DEF Apply
  <2> HIDE DEF e0
  <2>4. CASE e = e0
    BY <2>1, <2>2, <2>4 DEF Held
  <2>5. CASE e # e0
    <3>1. entityState'[e] = entityState[e]
      BY <2>3, <2>5
    <3>2. todo = {} /\ d \notin draining
      BY <2>1 DEF SenderInv
    <3> QED
      BY <1>0, <2>1, <3>1, <3>2, HeldFrame
  <2> QED
    BY <2>4, <2>5
<1>3. CASE BroadcastBegin
  BY <1>0, <1>3, HeldFrame DEF BroadcastBegin
<1>4. CASE BroadcastEnd
  <2>1. todo = {} /\ wpc = "sending" /\ draining = {}
    BY <1>4 DEF BroadcastEnd, SenderInv
  <2> QED
    BY <1>0, <1>4, <2>1, HeldFrame DEF BroadcastEnd
<1>5. ASSUME NEW c \in Client, Send(c) PROVE Held(d, e)'
  <2>1. CASE d # c
    BY <1>0, <1>5, <2>1, HeldFrame DEF Send
  <2>2. CASE d = c /\ e = upd.entity
    <3>1. upd \in Message /\ ~upd.full /\ upd.state = entityState[e]
      BY <1>5, <2>2 DEF Send, SenderInv
    <3>2. Owes(Append(queue[c], upd), e, entityState[e])
      BY <2>2, <3>1, OwesAppended
    <3>3. queue'[c] = Append(queue[c], upd) /\ entityState' = entityState
      BY <1>5 DEF Send
    <3> QED
      BY <2>2, <3>2, <3>3 DEF Held, UpToDate
  <2>3. CASE d = c /\ e # upd.entity
    <3>1. UpToDate(c, e)
      BY <1>0, <1>5, <2>3 DEF Held, Send
    <3>2. upd \in Message /\ ~upd.full
      BY <1>5 DEF Send, SenderInv
    <3>3. /\ Owes(queue[c], e, entityState[e]) => Owes(Append(queue[c], upd), e, entityState[e])
          /\ Untouched(queue[c], e) => Untouched(Append(queue[c], upd), e)
      BY <2>3, <3>2, OwesAppendOther
    <3>4. /\ queue'[c] = Append(queue[c], upd)
          /\ UNCHANGED <<entityState, pc, dirty, removed, shown, lossy>>
      BY <1>5 DEF Send
    <3> QED
      BY <2>3, <3>1, <3>3, <3>4 DEF Held, UpToDate, Local
  <2> QED
    BY <2>1, <2>2, <2>3
<1>6. ASSUME NEW c \in Client, SendFull(c) PROVE Held(d, e)'
  <2>1. d \in draining => d \in draining'
    BY <1>6 DEF SendFull
  <2> QED
    BY <1>0, <1>6, <2>1, HeldFrame DEF SendFull
<1>7. ASSUME NEW c \in Client, DrainOne(c) PROVE Held(d, e)'
  <2>1. CASE d = c
    BY <1>7, <2>1 DEF DrainOne, Held
  <2>2. CASE d # c
    BY <1>0, <1>7, <2>2, HeldFrame DEF DrainOne
  <2> QED
    BY <2>1, <2>2
<1>8. ASSUME NEW c \in Client, DrainDone(c) PROVE Held(d, e)'
  <2>1. CASE d = c
    <3>1. queue'[d] = <<FullSnapshot>>
      BY <1>8, <2>1 DEF DrainDone
    <3>2. \A st : Owes(<<FullSnapshot>>, e, st)
      BY SmallQueues
    <3>3. Owes(queue'[d], e, entityState'[e])
      BY <3>1, <3>2
    <3> QED
      BY <3>3 DEF Held, UpToDate
  <2>2. CASE d # c
    <3>1. d \notin draining
      BY <1>8, <2>2 DEF DrainDone, SenderInv
    <3> QED
      BY <1>0, <1>8, <2>2, <3>1, HeldFrame DEF DrainDone
  <2> QED
    BY <2>1, <2>2
<1> QED
  BY <1>1, <1>2, <1>3, <1>4, <1>5, <1>6, <1>7, <1>8 DEF Watch

\* The steps of the loop of a client.
LEMMA ViewLoopStep ==
  ASSUME TypeOK, ConnectionInv, SenderInv, ClientInv, ViewOrOwed,
         NEW c \in Client, Loop(c)
  PROVE  ViewOrOwed'
<1> USE DEF TypeOK, vars, bucketVars, watchVars, copyVars, loadVars, clientVars
<1> SUFFICES ASSUME NEW d \in subscribers', NEW e \in Entity PROVE Held(d, e)'
  BY DEF ViewOrOwed, Held
<1>0. /\ d \in Client /\ d \in subscribers /\ Held(d, e)
      /\ UNCHANGED <<wpc, upd, todo, draining, entityState, lossy>>
  BY DEF ViewOrOwed, Held, Loop, ReceiveUpdate, ReceiveFullSnapshot, TakeSnapshot, Flush
<1>1. CASE d # c
  BY <1>0, <1>1, HeldFrame
     DEF Loop, ReceiveUpdate, ReceiveFullSnapshot, TakeSnapshot, Flush
<1>2. CASE d = c /\ ~UpToDate(c, e)
  BY <1>0, <1>2 DEF Held
<1>3. CASE d = c /\ UpToDate(c, e)
  <2> SUFFICES UpToDate(c, e)'
    BY <1>3 DEF Held
  <2>1. CASE ReceiveUpdate(c)
    <3> DEFINE m == Head(queue[c])
    <3>1. /\ queue[c] \in Seq(Message) /\ queue[c] # <<>> /\ ~m.full
          /\ queue'[c] = Tail(queue[c]) /\ pc'[c] = pc[c] /\ pc[c] = "loop"
          /\ shown' = shown
      BY <2>1 DEF ReceiveUpdate
    <3>2. m.entity \in Entity /\ m.state \in State
      BY <3>1, HeadType
    <3>3. /\ dirty'[c] = [dirty[c] EXCEPT ![m.entity] = m.state]
          /\ removed'[c] = IF m.state = Gone THEN removed[c] \cup {m.entity}
                                             ELSE removed[c] \ {m.entity}
      BY <2>1 DEF ReceiveUpdate
    <3> HIDE DEF m
    <3>4. CASE Owes(queue[c], e, entityState[e])
      <4>1. CASE Owes(Tail(queue[c]), e, entityState[e])
        BY <1>0, <3>1, <4>1 DEF UpToDate
      <4>2. CASE Untouched(Tail(queue[c]), e) /\ m.entity = e /\ m.state = entityState[e]
        <5>1. Local(c, e)' = entityState[e]
          BY <3>2, <3>3, <4>2 DEF Local
        <5> QED
          BY <1>0, <3>1, <4>2, <5>1 DEF UpToDate
      <4> QED
        BY <3>1, <3>4, <4>1, <4>2, OwesTail DEF m
    <3>5. CASE Untouched(queue[c], e)
      <4>1. Untouched(Tail(queue[c]), e) /\ m.entity # e
        BY <3>1, <3>5, OwesTail DEF m
      <4>2. Local(c, e)' = Local(c, e)
        BY <3>1, <3>2, <3>3, <4>1 DEF Local
      <4>3. \/ Owes(queue[c], e, entityState[e])
            \/ Local(c, e) = entityState[e]
            \/ c \in lossy /\ entityState[e] = Gone
        <5>1. pc[c] # "resync"
          BY <3>1
        <5> QED
          BY <1>3, <5>1, Zenon DEF UpToDate
      <4> QED
        BY <1>0, <3>1, <3>4, <4>1, <4>2, <4>3 DEF UpToDate
    <3> QED
      BY <1>3, <3>4, <3>5 DEF UpToDate
  <2>2. CASE ReceiveFullSnapshot(c)
    <3>1. /\ queue[c] \in Seq(Message) /\ queue[c] # <<>> /\ Head(queue[c]).full
          /\ queue'[c] = Tail(queue[c]) /\ pc'[c] = "resync"
      BY <2>2 DEF ReceiveFullSnapshot
    <3>2. ~Untouched(queue[c], e)
      BY <3>1, OwesTail
    <3>3. Owes(Tail(queue[c]), e, entityState[e]) \/ Untouched(Tail(queue[c]), e)
      BY <1>3, <3>1, <3>2, OwesTail DEF UpToDate
    <3> QED
      BY <1>0, <3>1, <3>3 DEF UpToDate
  <2>3. CASE TakeSnapshot(c)
    <3>1. UNCHANGED <<queue, shown>>
      BY <2>3 DEF TakeSnapshot
    <3>2. c \in lossy
      BY <2>3 DEF TakeSnapshot, ClientInv
    <3>3. /\ dirty'[c][e] = IF entityState[e] = Gone /\ shown[c][e] = Gone
                            THEN dirty[c][e] ELSE entityState[e]
          /\ e \in removed'[c] <=> /\ entityState[e] = Gone
                                   /\ e \in removed[c] \/ shown[c][e] # Gone
      BY <2>3 DEF TakeSnapshot
    <3>4. Local(c, e)' = entityState[e] \/ entityState[e] = Gone
      BY <3>3 DEF Local
    <3> QED
      BY <1>0, <1>3, <3>1, <3>2, <3>4 DEF UpToDate
  <2>4. CASE Flush(c)
    <3>1. UNCHANGED <<queue, pc>>
      BY <2>4 DEF Flush
    <3>2. /\ shown'[c][e] = IF e \in removed[c] THEN Gone
                            ELSE IF dirty[c][e] # Gone THEN dirty[c][e]
                            ELSE shown[c][e]
          /\ dirty'[c][e] = Gone /\ removed'[c] = {}
      BY <2>4 DEF Flush, NoStates
    <3>3. e \in removed[c] => dirty[c][e] = Gone
      BY DEF ClientInv
    <3>4. Local(c, e)' = Local(c, e)
      BY <3>2, <3>3 DEF Local
    <3> QED
      BY <1>0, <1>3, <3>1, <3>4 DEF UpToDate
  <2> QED
    BY <2>1, <2>2, <2>3, <2>4 DEF Loop
<1> QED
  BY <1>1, <1>2, <1>3

\* The other steps: connecting, leaving, the bucket, the lost watcher and the
\* crash, after which nobody subscribes.
LEMMA ViewOtherStep ==
  ASSUME TypeOK, ConnectionInv, SenderInv, ClientInv, ViewOrOwed,
         \/ Bucket \/ WatchStop \/ Crash \/ (\E k \in Key : LoadKey(k)) \/ UNCHANGED vars
         \/ \E c \in Client : Subscribe(c) \/ Cancel(c) \/ Unsubscribe(c) \/ Leave(c)
  PROVE  ViewOrOwed'
<1> USE DEF TypeOK, vars, bucketVars, watchVars, copyVars, loadVars, clientVars
<1> SUFFICES ASSUME NEW d \in subscribers', NEW e \in Entity PROVE Held(d, e)'
  BY DEF ViewOrOwed, Held
<1>0. d \in Client /\ d \in subscribers => Held(d, e)
  BY DEF ViewOrOwed, Held
<1>1. CASE Bucket \/ (\E k \in Key : LoadKey(k)) \/ UNCHANGED vars
  BY <1>0, <1>1, HeldFrame DEF Bucket, KVPut, KVDelete, Write, LoadKey
<1>2. CASE WatchStop
  BY <1>0, <1>2, HeldFrame DEF WatchStop
<1>3. ASSUME NEW c \in Client, Cancel(c) \/ Unsubscribe(c) PROVE Held(d, e)'
  BY <1>0, <1>3, HeldFrame DEF Cancel, Unsubscribe
<1>4. ASSUME NEW c \in Client, Leave(c) PROVE Held(d, e)'
  <2>1. d \in subscribers /\ d # c
    BY <1>4 DEF Leave
  <2> QED
    BY <1>0, <1>4, <2>1, HeldFrame DEF Leave
<1>5. ASSUME NEW c \in Client, Connect(c) \/ AlreadyStarted(c) \/ StartLoad(c) \/ StartFails(c)
      PROVE Held(d, e)'
  <2>1. d \in subscribers /\ d # c
    BY <1>5 DEF Connect, AlreadyStarted, StartLoad, StartFails, ConnectionInv
  <2> QED
    BY <1>0, <1>5, <2>1, HeldFrame DEF Connect, AlreadyStarted, StartLoad, StartFails
<1>6. ASSUME NEW c \in Client, FinishLoad(c) PROVE Held(d, e)'
  <2>1. d \in subscribers /\ pc[d] \in {"loop", "resync"} /\ wpc = "off"
    BY <1>6 DEF FinishLoad, ConnectionInv
  <2> QED
    BY <2>1 DEF ConnectionInv
<1>7. ASSUME NEW c \in Client, Register(c) PROVE Held(d, e)'
  <2>1. CASE d = c
    <3>1. queue'[d] = <<>> /\ dirty'[d][e] = Gone /\ removed'[d] = {}
      BY <1>7, <2>1 DEF Register, ConnectionInv, NoStates
    <3>2. shown'[d][e] = entityState'[e]
      BY <1>7, <2>1 DEF Register
    <3>3. Local(d, e)' = entityState'[e]
      BY <3>1, <3>2 DEF Local
    <3> QED
      BY <3>1, <3>3, SmallQueues DEF Held, UpToDate
  <2>2. CASE d # c
    BY <1>0, <1>7, <2>2, HeldFrame DEF Register
  <2> QED
    BY <2>1, <2>2
<1>8. CASE Crash
  BY <1>8 DEF Crash
<1> QED
  BY <1>1, <1>2, <1>3, <1>4, <1>5, <1>6, <1>7, <1>8 DEF Subscribe

-----------------------------------------------------------------------------
(* The shared copy and the bucket.                                         *)

\* The last entry of key k in stream s is x; there is none.
EndsWith(s, k, x) ==
  \E i \in DOMAIN s : s[i] = x /\ \A j \in DOMAIN s : j > i => s[j].key # k

Without(s, k) == \A i \in DOMAIN s : s[i].key # k

Tracked(k) ==
  EndsWith(stream, k, kv[k]) \/ (Without(stream, k) /\ entityData[k] = BucketValue(k))

Unknown(k) == entityData[k] = 0 /\ loaded[k] = 0 /\ Without(stream, k)

LEMMA TrackParts ==
  TrackInv <=> \A k \in Key : /\ Watching => Tracked(k)
                              /\ kv[k].op = "none" => Unknown(k)
BY DEF TrackInv, BucketTracked, Tracked, Unknown, EndsWith, Without

LEMMA EndsAppend ==
  ASSUME NEW s \in Seq(Entry), NEW y \in Entry, NEW k, NEW x
  PROVE  /\ EndsWith(Append(s, y), k, y)
         /\ y.key # k /\ EndsWith(s, k, x) => EndsWith(Append(s, y), k, x)
         /\ y.key # k /\ Without(s, k) => Without(Append(s, y), k)
<1> DEFINE r == Append(s, y)
<1>1. /\ DOMAIN s = 1 .. Len(s) /\ DOMAIN r = 1 .. Len(s) + 1
      /\ r[Len(s) + 1] = y
      /\ \A i \in 1 .. Len(s) : r[i] = s[i]
      /\ Len(s) \in Nat
  BY AppendProperties, LenProperties
<1> HIDE DEF r
<1>2. EndsWith(r, k, y)
  BY <1>1 DEF EndsWith
<1>3. ASSUME y.key # k, EndsWith(s, k, x) PROVE EndsWith(r, k, x)
  <2>1. PICK i \in DOMAIN s : s[i] = x /\ \A j \in DOMAIN s : j > i => s[j].key # k
    BY <1>3 DEF EndsWith
  <2>2. i \in DOMAIN r /\ r[i] = x
    BY <1>1, <2>1
  <2>3. ASSUME NEW j \in DOMAIN r, j > i PROVE r[j].key # k
    BY <1>1, <1>3, <2>1, <2>3
  <2> QED
    BY <2>2, <2>3 DEF EndsWith
<1>4. ASSUME y.key # k, Without(s, k) PROVE Without(r, k)
  BY <1>1, <1>4 DEF Without
<1> QED
  BY <1>2, <1>3, <1>4 DEF r

LEMMA EndsTail ==
  ASSUME NEW s \in Seq(Entry), s # <<>>, NEW k, NEW x
  PROVE  /\ EndsWith(s, k, x) =>
              \/ EndsWith(Tail(s), k, x)
              \/ Without(Tail(s), k) /\ Head(s) = x
         /\ Without(s, k) => Without(Tail(s), k) /\ Head(s).key # k
<1> DEFINE t == Tail(s)
<1>1. /\ Len(s) \in Nat \ {0}
      /\ DOMAIN s = 1 .. Len(s) /\ DOMAIN t = 1 .. Len(s) - 1
      /\ \A i \in 1 .. Len(s) - 1 : t[i] = s[i + 1]
      /\ Head(s) = s[1]
  BY HeadTailProperties, LenProperties, EmptySeq
<1> HIDE DEF t
<1>2. ASSUME EndsWith(s, k, x)
      PROVE  EndsWith(t, k, x) \/ (Without(t, k) /\ Head(s) = x)
  <2>1. PICK i \in DOMAIN s : s[i] = x /\ \A j \in DOMAIN s : j > i => s[j].key # k
    BY <1>2 DEF EndsWith
  <2>2. CASE i > 1
    <3>1. i - 1 \in DOMAIN t /\ t[i - 1] = x
      BY <1>1, <2>1, <2>2
    <3>2. \A j \in DOMAIN t : j > i - 1 => t[j].key # k
      BY <1>1, <2>1
    <3> QED
      BY <3>1, <3>2 DEF EndsWith
  <2>3. CASE i = 1
    <3>1. ASSUME NEW j \in DOMAIN t PROVE t[j].key # k
      <4>1. j + 1 \in DOMAIN s /\ j + 1 > i /\ t[j] = s[j + 1]
        BY <1>1, <2>3, <3>1
      <4> QED
        BY <2>1, <4>1
    <3> QED
      BY <1>1, <2>1, <2>3, <3>1 DEF Without
  <2> QED
    BY <1>1, <2>1, <2>2, <2>3
<1>3. ASSUME Without(s, k) PROVE Without(t, k) /\ Head(s).key # k
  <2>1. ASSUME NEW j \in DOMAIN t PROVE t[j].key # k
    <3>1. j + 1 \in DOMAIN s /\ t[j] = s[j + 1]
      BY <1>1, <2>1
    <3> QED
      BY <1>3, <3>1 DEF Without
  <2>2. 1 \in DOMAIN s
    BY <1>1
  <2> QED
    BY <1>1, <1>3, <2>1, <2>2 DEF Without
<1> QED
  BY <1>2, <1>3 DEF t

\* A replay ends, for every key that was written, with its last entry.
LEMMA ReplayEnds ==
  ASSUME TypeOK, NEW s \in Replays, NEW k \in Key
  PROVE  /\ kv[k].op # "none" => EndsWith(s, k, kv[k])
         /\ kv[k].op = "none" => Without(s, k)
<1> DEFINE written == {kv[j] : j \in {j \in Key : kv[j].op # "none"}}
<1>1. /\ \A i \in DOMAIN s : s[i] \in written
      /\ \A w \in written : \E i \in DOMAIN s : s[i] = w
      /\ \A i, j \in DOMAIN s : i < j => s[i].rev < s[j].rev
  BY DEF Replays
<1>2. \A w \in written : w.key = k => w = kv[k] /\ kv[k].op # "none"
  BY DEF TypeOK
<1>3. \A w \in written : w.rev \in Nat
  BY DEF TypeOK, Entry
<1>4. DOMAIN s \subseteq Nat
  BY FS_Subset DEF Replays
<1>5. ASSUME kv[k].op # "none" PROVE EndsWith(s, k, kv[k])
  <2>1. PICK i \in DOMAIN s : s[i] = kv[k]
    BY <1>1, <1>5
  <2>2. ASSUME NEW j \in DOMAIN s, j > i PROVE s[j].key # k
    <3>1. s[i].rev < s[j].rev
      BY <1>1, <1>4, <2>2
    <3>2. s[i].rev \in Nat
      BY <1>1, <1>3
    <3> QED
      BY <1>1, <1>2, <2>1, <3>1, <3>2
  <2> QED
    BY <2>1, <2>2 DEF EndsWith
<1>6. ASSUME kv[k].op = "none" PROVE Without(s, k)
  BY <1>1, <1>2, <1>6 DEF Without
<1> QED
  BY <1>5, <1>6

\* The copy misses no entry: written ones reach the stream of a watcher, a new
\* watcher brings the last ones, and each is applied.
LEMMA TrackStep == TypeOK /\ TrackInv /\ ConnectionInv /\ [Next]_vars => TrackInv'
<1> SUFFICES ASSUME TypeOK, TrackInv, ConnectionInv, [Next]_vars PROVE TrackInv'
  OBVIOUS
<1> DEFINE Inv(k) == (Watching => Tracked(k)) /\ (kv[k].op = "none" => Unknown(k))
<1>0. (TrackInv <=> \A k \in Key : Inv(k)) /\ (TrackInv' <=> \A k \in Key : Inv(k)')
  BY TrackParts DEF TrackInv, BucketTracked, Tracked, Unknown, EndsWith, Without
<1> HIDE DEF Inv
<1> SUFFICES ASSUME NEW k \in Key PROVE Inv(k)'
  BY <1>0
<1>a. Inv(k)
  BY <1>0
<1>b. /\ Watching => Tracked(k)
      /\ kv[k].op = "none" => Unknown(k)
  BY <1>a DEF Inv
<1> USE DEF vars, bucketVars, watchVars, copyVars, loadVars, clientVars
<1>1. ASSUME UNCHANGED <<kv, entityData, loaded, stream>>, Watching' => Watching PROVE Inv(k)'
  BY <1>b, <1>1 DEF Inv, Tracked, Unknown, BucketValue
<1>2. ASSUME NEW d \in Key, NEW op \in {"put", "del"}, Write(d, op) PROVE Inv(k)'
  <2> DEFINE entry == [key |-> d, op |-> op, rev |-> rev + 1]
  <2>1. /\ entry \in Entry /\ entry.key = d /\ entry.op # "none"
        /\ kv' = [kv EXCEPT ![d] = entry]
        /\ stream' = IF Watching THEN Append(stream, entry) ELSE stream
        /\ UNCHANGED <<wpc, entityData, loaded>>
        /\ stream \in Seq(Entry)
    BY <1>2 DEF Write, TypeOK, Entry
  <2> HIDE DEF entry
  <2>2. CASE k = d
    <3>1. kv'[k] = entry /\ (Watching => EndsWith(stream', k, entry))
      BY <2>1, <2>2, EndsAppend DEF TypeOK
    <3> QED
      BY <2>1, <3>1 DEF Inv, Tracked, Watching
  <2>3. CASE k # d
    <3>1. kv'[k] = kv[k]
      BY <2>1, <2>3
    <3>2. /\ EndsWith(stream, k, kv[k]) => EndsWith(stream', k, kv[k])
          /\ Without(stream, k) => Without(stream', k)
      BY <2>1, <2>3, EndsAppend
    <3> QED
      BY <1>b, <2>1, <3>1, <3>2 DEF Inv, Tracked, Unknown, Watching, BucketValue
  <2> QED
    BY <2>2, <2>3
<1>3. ASSUME NEW d \in Key, LoadKey(d) PROVE Inv(k)'
  <2>1. /\ UNCHANGED <<kv, stream, entityData, wpc>>
        /\ loaded'[k] \in {BucketValue(k), loaded[k]}
    BY <1>3 DEF LoadKey, TypeOK, State
  <2> QED
    BY <1>b, <2>1 DEF Inv, Tracked, Unknown, BucketValue, Watching
<1>4. ASSUME NEW c \in Client, FinishLoad(c) PROVE Inv(k)'
  <2>1. wpc' = "down" /\ UNCHANGED <<kv, stream>> /\ entityData' = loaded /\ loaded' = Gone
    BY <1>4 DEF FinishLoad
  <2> QED
    BY <1>b, <2>1 DEF Inv, Unknown, Watching, Gone
<1>5. CASE WatchStart
  <2>1. stream' \in Replays /\ UNCHANGED <<kv, entityData, loaded>>
    BY <1>5 DEF WatchStart
  <2>2. /\ kv[k].op # "none" => EndsWith(stream', k, kv[k])
        /\ kv[k].op = "none" => Without(stream', k)
    BY <2>1, ReplayEnds
  <2> QED
    BY <1>b, <2>1, <2>2 DEF Inv, Tracked, Unknown, BucketValue
<1>6. CASE WatchStop
  <2>1. stream' = <<>> /\ wpc' = "down" /\ UNCHANGED <<kv, entityData, loaded>>
    BY <1>6 DEF WatchStop
  <2> QED
    BY <1>b, <2>1 DEF Inv, Unknown, Watching, Without
<1>7. ASSUME stream # <<>>, stream' = Tail(stream), UNCHANGED <<kv, loaded>>, Watching,
             entityData'[k] = IF k # Head(stream).key THEN entityData[k]
                              ELSE IF Head(stream).op = "put" THEN Head(stream).rev ELSE 0
      PROVE  Inv(k)'
  <2>1. /\ EndsWith(stream, k, kv[k]) =>
             \/ EndsWith(stream', k, kv[k])
             \/ Without(stream', k) /\ Head(stream) = kv[k]
        /\ Without(stream, k) => Without(stream', k) /\ Head(stream).key # k
    BY <1>7, EndsTail DEF TypeOK
  <2>2. kv[k].key = k
    BY DEF TypeOK
  <2> QED
    BY <1>b, <1>7, <2>1, <2>2 DEF Inv, Tracked, Unknown, BucketValue
<1>8. CASE Apply
  <2>1. Head(stream).key \in Key
    <3>1. stream \in Seq(Entry) /\ stream # <<>>
      BY <1>8 DEF Apply, TypeOK
    <3>2. Head(stream) \in Entry
      BY <3>1, HeadTailProperties
    <3> QED
      BY <3>2 DEF Entry
  <2>2. /\ stream # <<>> /\ stream' = Tail(stream) /\ UNCHANGED <<kv, loaded>> /\ Watching
        /\ entityData' = [entityData EXCEPT ![Head(stream).key] =
                            IF Head(stream).op = "put" THEN Head(stream).rev ELSE 0]
    BY <1>8 DEF Apply, Watching
  <2>3. entityData'[k] = IF k # Head(stream).key THEN entityData[k]
                         ELSE IF Head(stream).op = "put" THEN Head(stream).rev ELSE 0
    BY <2>1, <2>2 DEF TypeOK, State
  <2> QED
    BY <1>7, <2>2, <2>3
<1>9. CASE ApplyNothing
  <2>1. /\ stream # <<>> /\ stream' = Tail(stream) /\ UNCHANGED <<kv, loaded, entityData>>
        /\ Head(stream).op = "del" /\ Watching
        /\ Merge(entityData, EntityOf[Head(stream).key]) = Gone
    BY <1>9 DEF ApplyNothing, Watching
  <2>2. k = Head(stream).key => entityData[k] = 0
    <3>1. Merge(entityData, EntityOf[k])[k] = entityData[k] /\ Gone[k] = 0
      BY DEF Merge, Gone
    <3> QED
      BY <2>1, <3>1
  <2> QED
    BY <1>7, <2>1, <2>2
<1>10. CASE BroadcastBegin \/ BroadcastEnd
  BY <1>1, <1>10 DEF BroadcastBegin, BroadcastEnd, Watching
<1>11. ASSUME NEW c \in Client, Send(c) \/ SendFull(c) \/ DrainOne(c) \/ DrainDone(c)
       PROVE  Inv(k)'
  BY <1>1, <1>11 DEF Send, SendFull, DrainOne, DrainDone, Watching
<1>12. ASSUME NEW c \in Client, Connect(c) \/ AlreadyStarted(c) \/ StartLoad(c)
       \/ StartFails(c) \/ Register(c)
       PROVE  Inv(k)'
  BY <1>1, <1>12 DEF Connect, AlreadyStarted, StartLoad, StartFails, Register, Watching
<1>13. ASSUME NEW c \in Client, Loop(c) \/ Cancel(c) \/ Unsubscribe(c) \/ Leave(c)
       PROVE  Inv(k)'
  BY <1>1, <1>13 DEF Loop, ReceiveUpdate, ReceiveFullSnapshot, TakeSnapshot, Flush, Cancel,
                     Unsubscribe, Leave, Watching
<1>14. CASE UNCHANGED vars
  BY <1>1, <1>14 DEF Watching
<1>15. CASE Crash
  <2>1. /\ stream' = <<>> /\ wpc' = "off" /\ kv' = kv
        /\ entityData'[k] = 0 /\ loaded'[k] = 0
    BY <1>15 DEF Crash, Gone
  <2> QED
    BY <2>1 DEF Inv, Unknown, Watching, Without
<1> QED
  BY <1>2, <1>3, <1>4, <1>5, <1>6, <1>8, <1>9, <1>10, <1>11, <1>12, <1>13, <1>14, <1>15
  DEF Next, Bucket, KVPut, KVDelete, Watch, Subscribe

-----------------------------------------------------------------------------
(* The totals.                                                             *)

\* No update: what was held.
LEMMA LiveNow == ASSUME NEW q, NEW e, NEW held \in BOOLEAN
                 PROVE  LiveAfter(q, 0, e, held) <=> held
BY DEF LiveAfter

\* One more update decides for its entity and changes nothing else.
LEMMA LiveAppend ==
  ASSUME NEW q \in Seq(Message), NEW m \in Message, NEW e, NEW held \in BOOLEAN
  PROVE  /\ \A n \in 0 .. Len(q) : LiveAfter(Append(q, m), n, e, held) <=> LiveAfter(q, n, e, held)
         /\ LiveAfter(Append(q, m), Len(q) + 1, e, held) <=>
              IF m.entity = e THEN m.state # Gone ELSE LiveAfter(q, Len(q), e, held)
<1> DEFINE r == Append(q, m)
<1>1. /\ r[Len(q) + 1] = m /\ \A i \in 1 .. Len(q) : r[i] = q[i]
      /\ Len(q) \in Nat
  BY AppendProperties, LenProperties
<1> HIDE DEF r
<1>2. \A n \in 0 .. Len(q) : LiveAfter(r, n, e, held) <=> LiveAfter(q, n, e, held)
  <2> SUFFICES ASSUME NEW n \in 0 .. Len(q)
               PROVE  LiveAfter(r, n, e, held) <=> LiveAfter(q, n, e, held)
    OBVIOUS
  <2>1. \A i \in 1 .. n : r[i] = q[i] /\ \A j \in i + 1 .. n : r[j] = q[j]
    BY <1>1
  <2> QED
    BY <2>1 DEF LiveAfter
<1>3. CASE m.entity = e
  <2>1. LiveAfter(r, Len(q) + 1, e, held) => m.state # Gone
    BY <1>1, <1>3 DEF LiveAfter
  <2>2. m.state # Gone => LiveAfter(r, Len(q) + 1, e, held)
    <3>1. Len(q) + 1 \in 1 .. Len(q) + 1 /\ (Len(q) + 1) + 1 .. Len(q) + 1 = {}
      BY <1>1
    <3> QED
      BY <1>1, <1>3, <3>1 DEF LiveAfter
  <2> QED
    BY <1>2, <1>3, <2>1, <2>2 DEF r
<1>4. CASE m.entity # e
  <2>1. LiveAfter(r, Len(q) + 1, e, held) => LiveAfter(r, Len(q), e, held)
    BY <1>1, <1>4 DEF LiveAfter
  <2>2. LiveAfter(r, Len(q), e, held) => LiveAfter(r, Len(q) + 1, e, held)
    <3>1. \A j \in 1 .. Len(q) + 1 : j \in 1 .. Len(q) \/ r[j].entity # e
      BY <1>1, <1>4
    <3>2. \A i \in 1 .. Len(q) : i \in 1 .. Len(q) + 1
      BY <1>1
    <3>3. \A i \in 1 .. Len(q) : \A j \in i + 1 .. Len(q) + 1 :
            j \in i + 1 .. Len(q) \/ r[j].entity # e
      BY <1>1, <1>4
    <3> QED
      BY <3>1, <3>2, <3>3 DEF LiveAfter
  <2>3. LiveAfter(r, Len(q), e, held) <=> LiveAfter(q, Len(q), e, held)
    BY <1>1, <1>2
  <2> QED
    BY <1>2, <1>4, <2>1, <2>2, <2>3 DEF r
<1> QED
  BY <1>3, <1>4

\* Taking the head: what it says is now held.
LEMMA LiveTail ==
  ASSUME NEW q \in Seq(Message), q # <<>>, NEW n \in 0 .. Len(q) - 1, NEW e,
         NEW held \in BOOLEAN, NEW now \in BOOLEAN,
         now <=> IF Head(q).entity = e THEN Head(q).state # Gone ELSE held
  PROVE  LiveAfter(Tail(q), n, e, now) <=> LiveAfter(q, n + 1, e, held)
<1> DEFINE t == Tail(q)
<1>1. /\ Len(q) \in Nat \ {0} /\ n \in Nat /\ n < Len(q)
      /\ \A i \in 1 .. Len(q) - 1 : t[i] = q[i + 1]
      /\ Head(q) = q[1]
  BY HeadTailProperties, LenProperties, EmptySeq
<1> HIDE DEF t
<1>2. ASSUME LiveAfter(t, n, e, now) PROVE LiveAfter(q, n + 1, e, held)
  <2>1. CASE \E i \in 1 .. n : /\ t[i].entity = e /\ t[i].state # Gone
                               /\ \A j \in i + 1 .. n : t[j].entity # e
    <3>1. PICK i \in 1 .. n : /\ t[i].entity = e /\ t[i].state # Gone
                              /\ \A j \in i + 1 .. n : t[j].entity # e
      BY <2>1
    <3>2. i + 1 \in 1 .. n + 1 /\ q[i + 1] = t[i]
      BY <1>1
    <3>3. ASSUME NEW j \in (i + 1) + 1 .. n + 1 PROVE q[j].entity # e
      <4>1. j - 1 \in i + 1 .. n /\ t[j - 1] = q[j]
        BY <1>1
      <4> QED
        BY <3>1, <4>1
    <3> QED
      BY <3>1, <3>2, <3>3 DEF LiveAfter
  <2>2. CASE now /\ \A i \in 1 .. n : t[i].entity # e
    <3>1. ASSUME NEW j \in 2 .. n + 1 PROVE q[j].entity # e
      <4>1. j - 1 \in 1 .. n /\ t[j - 1] = q[j]
        BY <1>1
      <4> QED
        BY <2>2, <4>1
    <3>2. CASE Head(q).entity = e
      <4>1. q[1].entity = e /\ q[1].state # Gone /\ 1 \in 1 .. n + 1
        BY <1>1, <2>2, <3>2
      <4> QED
        BY <3>1, <4>1 DEF LiveAfter
    <3>3. CASE Head(q).entity # e
      <4>1. \A j \in 1 .. n + 1 : j = 1 \/ j \in 2 .. n + 1
        BY <1>1
      <4> QED
        BY <1>1, <2>2, <3>1, <3>3, <4>1 DEF LiveAfter
    <3> QED
      BY <3>2, <3>3
  <2> QED
    BY <1>2, <2>1, <2>2 DEF LiveAfter
<1>3. ASSUME LiveAfter(q, n + 1, e, held) PROVE LiveAfter(t, n, e, now)
  <2>1. CASE \E i \in 1 .. n + 1 : /\ q[i].entity = e /\ q[i].state # Gone
                                   /\ \A j \in i + 1 .. n + 1 : q[j].entity # e
    <3>1. PICK i \in 1 .. n + 1 : /\ q[i].entity = e /\ q[i].state # Gone
                                  /\ \A j \in i + 1 .. n + 1 : q[j].entity # e
      BY <2>1
    <3>2. ASSUME NEW j \in 1 .. n, j > i - 1 PROVE t[j].entity # e
      <4>1. j + 1 \in i + 1 .. n + 1 /\ t[j] = q[j + 1]
        BY <1>1, <3>2
      <4> QED
        BY <3>1, <4>1
    <3>3. CASE i = 1
      <4>1. now /\ \A j \in 1 .. n : t[j].entity # e
        BY <1>1, <3>1, <3>2, <3>3
      <4> QED
        BY <4>1 DEF LiveAfter
    <3>4. CASE i > 1
      <4>1. i - 1 \in 1 .. n /\ t[i - 1] = q[i]
        BY <1>1, <3>4
      <4>2. \A j \in (i - 1) + 1 .. n : j \in 1 .. n /\ j > i - 1
        BY <1>1, <3>4
      <4> QED
        BY <3>1, <3>2, <4>1, <4>2 DEF LiveAfter
    <3> QED
      BY <3>3, <3>4
  <2>2. CASE held /\ \A i \in 1 .. n + 1 : q[i].entity # e
    <3>1. now
      BY <1>1, <2>2
    <3>2. \A j \in 1 .. n : t[j] = q[j + 1] /\ j + 1 \in 1 .. n + 1
      BY <1>1
    <3> QED
      BY <2>2, <3>1, <3>2 DEF LiveAfter
  <2> QED
    BY <1>3, <2>1, <2>2 DEF LiveAfter
<1> QED
  BY <1>2, <1>3 DEF t

\* A queue without marker that brings e to st leaves it as live as st is.
LEMMA LiveOwed ==
  ASSUME NEW q \in Seq(Message), ~Marked(q), NEW e, NEW st, NEW held \in BOOLEAN,
         Owes(q, e, st) \/ (Untouched(q, e) /\ (held <=> st # Gone))
  PROVE  LiveAfter(q, Len(q), e, held) <=> st # Gone
<1>1. DOMAIN q = 1 .. Len(q) /\ Len(q) \in Nat /\ \A i \in DOMAIN q : ~q[i].full
  BY LenProperties DEF Marked
<1>2. CASE Owes(q, e, st)
  <2>1. PICK i \in DOMAIN q : /\ q[i].entity = e /\ q[i].state = st
                              /\ \A j \in DOMAIN q : j > i => q[j].entity # e
    BY <1>1, <1>2 DEF Owes
  <2>2. st # Gone => LiveAfter(q, Len(q), e, held)
    BY <1>1, <2>1 DEF LiveAfter
  <2>3. ASSUME LiveAfter(q, Len(q), e, held) PROVE st # Gone
    <3>1. PICK k \in 1 .. Len(q) : /\ q[k].entity = e /\ q[k].state # Gone
                                   /\ \A j \in k + 1 .. Len(q) : q[j].entity # e
      BY <1>1, <2>1, <2>3 DEF LiveAfter
    <3>2. ~(k > i) /\ ~(i > k)
      BY <1>1, <2>1, <3>1
    <3>3. k = i
      BY <1>1, <3>2
    <3> QED
      BY <2>1, <3>1, <3>3
  <2> QED
    BY <2>2, <2>3
<1>3. CASE Untouched(q, e) /\ (held <=> st # Gone)
  BY <1>1, <1>3 DEF Untouched, LiveAfter
<1> QED
  BY <1>2, <1>3

\* What TotalInv says of a client.
Counted(c) ==
  /\ total[c] = Cardinality(SeenLive(c, 0))
  /\ \A n \in DOMAIN queue[c] : queue[c][n].total = Cardinality(SeenLive(c, n))
  /\ dashTotal[c] = Cardinality(Live(shown[c]))

LEMMA CountedFrame ==
  ASSUME NEW c, Counted(c), UNCHANGED <<queue[c], dirty[c], removed[c], shown[c], total[c], dashTotal[c]>>
  PROVE  Counted(c)'
<1>1. \A n : SeenLive(c, n)' = SeenLive(c, n)
  BY DEF SeenLive, Local
<1> QED
  BY <1>1 DEF Counted

\* A subscriber that is neither drained nor being drained: its channel has no
\* marker, and once it is sent the update in hand it leads to the shared copy.
LEMMA LiveSubscriber ==
  ASSUME FeedInv, NEW c \in subscribers \ (lossy \cup draining)
  PROVE  /\ c \in Client /\ queue[c] \in Seq(Message) /\ ~Marked(queue[c])
         /\ pc[c] = "loop"
         /\ \A e \in Entity :
              \/ (wpc = "applied" \/ c \in todo) /\ e = upd.entity
              \/ LiveAfter(queue[c], Len(queue[c]), e, Local(c, e) # Gone)
                   <=> entityState[e] # Gone
<1>1. /\ c \in Client /\ queue[c] \in Seq(Message) /\ ~Marked(queue[c]) /\ pc[c] = "loop"
  BY DEF FeedInv, TypeOK, ConnectionInv, ClientInv, Marked
<1>2. ASSUME NEW e \in Entity, ~((wpc = "applied" \/ c \in todo) /\ e = upd.entity)
      PROVE  LiveAfter(queue[c], Len(queue[c]), e, Local(c, e) # Gone)
               <=> entityState[e] # Gone
  <2>1. UpToDate(c, e)
    BY <1>2 DEF FeedInv, ViewOrOwed
  <2>2. \/ Owes(queue[c], e, entityState[e])
        \/ Untouched(queue[c], e) /\ Local(c, e) = entityState[e]
    BY <1>1, <2>1 DEF UpToDate
  <2> QED
    BY <1>1, <2>2, LiveOwed
<1> QED
  BY <1>1, <1>2

\* The numbers stay right whatever step is taken.
LEMMA CountedStep ==
  ASSUME FeedInv, TotalInv, [Next]_vars, NEW c \in subscribers' \ (lossy' \cup draining')
  PROVE  Counted(c)'
<1>a. TypeOK /\ ConnectionInv /\ SenderInv /\ ClientInv
  BY DEF FeedInv
<1>b. c \in subscribers \ (lossy \cup draining) => Counted(c)
  BY DEF TotalInv, Counted
<1> USE DEF vars, bucketVars, watchVars, copyVars, loadVars, clientVars
<1>1. CASE Bucket \/ WatchStart \/ WatchStop \/ ApplyNothing \/ Apply \/ BroadcastBegin
           \/ BroadcastEnd \/ (\E k \in Key : LoadKey(k)) \/ UNCHANGED vars
  BY <1>b, <1>1, CountedFrame
     DEF Bucket, KVPut, KVDelete, Write, WatchStart, WatchStop, ApplyNothing, Apply,
         BroadcastBegin, BroadcastEnd, LoadKey
<1>2. ASSUME NEW d \in Client, Connect(d) \/ AlreadyStarted(d) \/ StartLoad(d) \/ StartFails(d)
                               \/ FinishLoad(d) \/ Cancel(d) \/ Unsubscribe(d) \/ SendFull(d)
      PROVE  Counted(c)'
  <2>1. c \in subscribers \ (lossy \cup draining)
    BY <1>2, <1>a DEF Connect, AlreadyStarted, StartLoad, StartFails, FinishLoad, Cancel,
                      Unsubscribe,
                      SendFull, SenderInv
  <2>2. UNCHANGED <<queue[c], dirty[c], removed[c], shown[c], total[c], dashTotal[c]>>
    BY <1>2 DEF Connect, AlreadyStarted, StartLoad, StartFails, FinishLoad, Cancel,
                Unsubscribe, SendFull
  <2> QED
    BY <1>b, <2>1, <2>2, CountedFrame
<1>3. ASSUME NEW d \in Client, DrainOne(d) \/ DrainDone(d) \/ Leave(d)
      PROVE  Counted(c)'
  <2>1. c # d /\ c \in subscribers \ (lossy \cup draining)
    BY <1>3, <1>a DEF DrainOne, DrainDone, Leave, SenderInv
  <2>2. UNCHANGED <<queue[c], dirty[c], removed[c], shown[c], total[c], dashTotal[c]>>
    BY <1>3, <1>a, <2>1 DEF DrainOne, DrainDone, Leave, TypeOK
  <2> QED
    BY <1>b, <2>1, <2>2, CountedFrame
<1>4. ASSUME NEW d \in Client, ReceiveFullSnapshot(d) \/ TakeSnapshot(d)
      PROVE  Counted(c)'
  <2>1. d \in lossy
    BY <1>4, <1>a, MarkedQueues DEF ReceiveFullSnapshot, TakeSnapshot, ClientInv, Marked, TypeOK
  <2>2. c # d /\ c \in subscribers \ (lossy \cup draining)
    BY <1>4, <2>1 DEF ReceiveFullSnapshot, TakeSnapshot
  <2>3. UNCHANGED <<queue[c], dirty[c], removed[c], shown[c], total[c], dashTotal[c]>>
    BY <1>4, <1>a, <2>2 DEF ReceiveFullSnapshot, TakeSnapshot, TypeOK
  <2> QED
    BY <1>b, <2>2, <2>3, CountedFrame
<1>5. ASSUME NEW d \in Client, Register(d) \/ Send(d) \/ ReceiveUpdate(d) \/ Flush(d), c # d
      PROVE  Counted(c)'
  <2>1. /\ c \in subscribers \ (lossy \cup draining)
        /\ UNCHANGED <<queue[c], dirty[c], removed[c], shown[c], total[c], dashTotal[c]>>
    BY <1>5, <1>a DEF Register, Send, ReceiveUpdate, Flush, TypeOK
  <2> QED
    BY <1>b, <2>1, CountedFrame
<1>6. CASE Register(c) /\ c \in Client
  <2>1. queue[c] = <<>> /\ dirty[c] = NoStates /\ removed[c] = {}
    BY <1>6, <1>a DEF Register, ConnectionInv
  <2>2. /\ UNCHANGED <<queue, dirty, removed, entityState>>
        /\ shown'[c] = entityState
        /\ total'[c] = Cardinality(Live(entityState))
        /\ dashTotal'[c] = Cardinality(Live(entityState))
    BY <1>6, <1>a DEF Register, TypeOK
  <2>3. \A e \in Entity : Local(c, e)' = entityState[e]
    BY <2>1, <2>2 DEF Local, NoStates
  <2>4. SeenLive(c, 0)' = Live(entityState)
    BY <2>2, <2>3, LiveNow DEF SeenLive, Live
  <2>5. DOMAIN queue'[c] = {}
    BY <2>1, <2>2
  <2> QED
    BY <2>2, <2>4, <2>5 DEF Counted
<1>7. CASE Send(c) /\ c \in Client
  <2> DEFINE q == queue[c]
  <2>1. c \in subscribers \ (lossy \cup draining)
    BY <1>7 DEF Send
  <2>2. q \in Seq(Message) /\ Len(q) \in Nat /\ DOMAIN q = 1 .. Len(q)
    BY <2>1, LiveSubscriber, LenProperties
  <2>3. /\ upd \in Message /\ upd.state = entityState[upd.entity]
        /\ upd.total = Cardinality(Live(entityState)) /\ wpc = "sending"
    BY <1>7, <1>a DEF Send, SenderInv, TypeOK, TotalInv
  <2>4. /\ queue'[c] = Append(q, upd)
        /\ UNCHANGED <<entityState, dirty, removed, shown, total, dashTotal>>
    BY <1>7, <1>a DEF Send, TypeOK
  <2>5. /\ DOMAIN queue'[c] = 1 .. Len(q) + 1 /\ queue'[c][Len(q) + 1] = upd
        /\ \A n \in 1 .. Len(q) : queue'[c][n] = q[n]
    BY <2>2, <2>3, <2>4, AppendProperties, LenProperties
  <2>6. \A e : Local(c, e)' = Local(c, e)
    BY <2>4 DEF Local
  <2>7. ASSUME NEW n \in 0 .. Len(q) PROVE SeenLive(c, n)' = SeenLive(c, n)
    <3>1. ASSUME NEW e \in Entity
          PROVE  LiveAfter(queue'[c], n, e, Local(c, e) # Gone) <=>
                 LiveAfter(q, n, e, Local(c, e) # Gone)
      <4> DEFINE held == Local(c, e) # Gone
      <4>1. held \in BOOLEAN
        OBVIOUS
      <4> HIDE DEF held
      <4>2. q \in Seq(Message) /\ upd \in Message
        BY <2>2, <2>3
      <4> HIDE DEF q
      <4>3. \A j \in 0 .. Len(q) : LiveAfter(Append(q, upd), j, e, held) <=> LiveAfter(q, j, e, held)
        BY <4>1, <4>2, LiveAppend
      <4>4. LiveAfter(Append(q, upd), n, e, held) <=> LiveAfter(q, n, e, held)
        BY <4>3
      <4> QED
        BY <2>4, <4>4 DEF held
    <3> QED
      BY <2>6, <3>1 DEF SeenLive
  <2>8. ASSUME NEW n, n = Len(q) + 1 PROVE SeenLive(c, n)' = Live(entityState)
    <3>1. ASSUME NEW e \in Entity
          PROVE  LiveAfter(queue'[c], n, e, Local(c, e) # Gone) <=> entityState[e] # Gone
      <4> DEFINE held == Local(c, e) # Gone
      <4>1. held \in BOOLEAN
        OBVIOUS
      <4>2. \/ e = upd.entity
            \/ LiveAfter(q, Len(q), e, held) <=> entityState[e] # Gone
        BY <2>1, <2>3, LiveSubscriber
      <4> HIDE DEF held
      <4>3. LiveAfter(Append(q, upd), Len(q) + 1, e, held) <=>
              IF upd.entity = e THEN upd.state # Gone ELSE LiveAfter(q, Len(q), e, held)
        BY <2>2, <2>3, <4>1, LiveAppend
      <4>4. LiveAfter(queue'[c], n, e, held) <=> entityState[e] # Gone
        BY <2>3, <2>4, <2>8, <4>2, <4>3
      <4> QED
        BY <4>4 DEF held
    <3> QED
      BY <2>6, <3>1 DEF SeenLive, Live
  <2>9. Counted(c)
    BY <1>b, <2>1
  <2> HIDE DEF q
  <2>10. total'[c] = Cardinality(SeenLive(c, 0)')
    BY <2>2, <2>4, <2>7, <2>9 DEF Counted
  <2>11. ASSUME NEW n \in DOMAIN queue'[c]
         PROVE  queue'[c][n].total = Cardinality(SeenLive(c, n)')
    <3>1. CASE n \in 1 .. Len(q)
      BY <2>2, <2>5, <2>7, <2>9, <3>1 DEF Counted, q
    <3>2. CASE n = Len(q) + 1
      BY <2>3, <2>5, <2>8, <3>2
    <3> QED
      BY <2>2, <2>5, <3>1, <3>2
  <2>12. dashTotal'[c] = Cardinality(Live(shown'[c]))
    BY <2>4, <2>9 DEF Counted
  <2> QED
    BY <2>10, <2>11, <2>12 DEF Counted
<1>8. CASE ReceiveUpdate(c) /\ c \in Client
  <2> DEFINE q == queue[c]
             m == Head(q)
  <2>1. c \in subscribers \ (lossy \cup draining)
    BY <1>8 DEF ReceiveUpdate
  <2>2. /\ q \in Seq(Message) /\ q # <<>> /\ Len(q) \in Nat \ {0} /\ DOMAIN q = 1 .. Len(q)
        /\ m = q[1] /\ ~m.full
        /\ DOMAIN Tail(q) = 1 .. Len(q) - 1
        /\ \A n \in 1 .. Len(q) - 1 : Tail(q)[n] = q[n + 1]
    BY <1>8, <2>1, LiveSubscriber, LenProperties, HeadTailProperties, EmptySeq DEF ReceiveUpdate
  <2>3. m.entity \in Entity /\ m.state \in State
    BY <2>2, HeadType
  <2>4. /\ queue'[c] = Tail(q)
        /\ dirty'[c] = [dirty[c] EXCEPT ![m.entity] = m.state]
        /\ removed'[c] = IF m.state = Gone THEN removed[c] \cup {m.entity}
                                           ELSE removed[c] \ {m.entity}
        /\ total'[c] = m.total
        /\ UNCHANGED <<shown, dashTotal>>
    BY <1>8, <1>a DEF ReceiveUpdate, TypeOK
  <2>5. Counted(c)
    BY <1>b, <2>1
  <2>6. dirty[c] \in [Entity -> State]
    BY <1>8, <1>a DEF TypeOK
  <2> HIDE DEF m
  <2>7. ASSUME NEW e \in Entity
        PROVE  Local(c, e)' # Gone <=> IF m.entity = e THEN m.state # Gone ELSE Local(c, e) # Gone
    <3>1. CASE m.entity = e
      BY <2>3, <2>4, <2>6, <3>1 DEF Local
    <3>2. CASE m.entity # e
      BY <2>3, <2>4, <2>6, <3>2 DEF Local
    <3> QED
      BY <3>1, <3>2
  <2>8. ASSUME NEW n \in 0 .. Len(q) - 1 PROVE SeenLive(c, n)' = SeenLive(c, n + 1)
    <3>1. ASSUME NEW e \in Entity
          PROVE  LiveAfter(Tail(q), n, e, Local(c, e)' # Gone) <=>
                 LiveAfter(q, n + 1, e, Local(c, e) # Gone)
      BY <2>2, <2>7, LiveTail DEF m
    <3> QED
      BY <2>4, <3>1 DEF SeenLive
  <2> HIDE DEF q
  <2>9. total'[c] = Cardinality(SeenLive(c, 0)')
    <3>1. 0 \in 0 .. Len(q) - 1 /\ 1 \in DOMAIN q /\ 0 + 1 = 1
      BY <2>2
    <3>2. SeenLive(c, 0)' = SeenLive(c, 1)
      BY <2>8, <3>1
    <3> QED
      BY <2>2, <2>4, <2>5, <3>1, <3>2 DEF Counted, q
  <2>10. ASSUME NEW n \in DOMAIN queue'[c]
         PROVE  queue'[c][n].total = Cardinality(SeenLive(c, n)')
    <3>1. n \in 0 .. Len(q) - 1 /\ n + 1 \in DOMAIN q /\ queue'[c][n] = q[n + 1]
      BY <2>2, <2>4
    <3> QED
      BY <2>5, <2>8, <3>1 DEF Counted, q
  <2>11. dashTotal'[c] = Cardinality(Live(shown'[c]))
    BY <2>4, <2>5 DEF Counted
  <2> QED
    BY <2>9, <2>10, <2>11 DEF Counted
<1>9. CASE Flush(c) /\ c \in Client
  <2>1. c \in subscribers \ (lossy \cup draining)
    BY <1>9 DEF Flush
  <2>2. Counted(c)
    BY <1>b, <2>1
  <2>3. /\ UNCHANGED <<queue, total>>
        /\ shown'[c] = [e \in Entity |-> IF e \in removed[c] THEN Gone
                                         ELSE IF dirty[c][e] # Gone THEN dirty[c][e]
                                         ELSE shown[c][e]]
        /\ dashTotal'[c] = IF Live(dirty[c]) # {} \/ removed[c] \cap Live(shown[c]) # {}
                           THEN total[c] ELSE dashTotal[c]
        /\ dirty'[c] = NoStates /\ removed'[c] = {}
    BY <1>9, <1>a DEF Flush, TypeOK
  <2>4. ASSUME NEW e \in Entity PROVE Local(c, e)' = Local(c, e) /\ shown'[c][e] = Local(c, e)
    <3>1. e \in removed[c] => dirty[c][e] = Gone
      BY <1>9, <1>a DEF ClientInv
    <3> QED
      BY <2>3, <3>1 DEF Local, NoStates
  <2>5. \A n : SeenLive(c, n)' = SeenLive(c, n)
    BY <2>3, <2>4 DEF SeenLive
  <2>6. Live(shown'[c]) = SeenLive(c, 0)
    BY <2>4, LiveNow DEF SeenLive, Live
  <2>7. dashTotal'[c] = Cardinality(Live(shown'[c]))
    <3>1. CASE Live(dirty[c]) # {} \/ removed[c] \cap Live(shown[c]) # {}
      BY <2>2, <2>3, <2>6, <3>1 DEF Counted
    <3>2. CASE Live(dirty[c]) = {} /\ removed[c] \cap Live(shown[c]) = {}
      <4>1. Live(shown'[c]) = Live(shown[c])
        BY <2>3, <3>2 DEF Live
      <4> QED
        BY <2>2, <2>3, <3>2, <4>1 DEF Counted
    <3> QED
      BY <3>1, <3>2
  <2> QED
    BY <2>2, <2>3, <2>5, <2>7 DEF Counted
<1>10. CASE Crash
  BY <1>10 DEF Crash
<1> QED
  BY <1>1, <1>2, <1>3, <1>4, <1>5, <1>6, <1>7, <1>8, <1>9, <1>10
     DEF Next, Watch, Subscribe, Loop

\* The number the watcher has in hand is that of the shared copy.
LEMMA TotalStep == FeedInv /\ TotalInv /\ [Next]_vars => TotalInv'
<1> SUFFICES ASSUME FeedInv, TotalInv, [Next]_vars PROVE TotalInv'
  OBVIOUS
<1> DEFINE InHand == wpc \in {"applied", "sending"} => upd.total = Cardinality(Live(entityState))
<1>1. InHand /\ ConnectionInv
  BY DEF TotalInv, FeedInv
<1> USE DEF vars, bucketVars, watchVars, copyVars, loadVars, clientVars
<1>2. InHand'
  <2>1. CASE Bucket \/ (\E k \in Key : LoadKey(k)) \/ WatchStart \/ WatchStop \/ ApplyNothing
             \/ BroadcastBegin \/ BroadcastEnd \/ UNCHANGED vars
    BY <1>1, <2>1 DEF Bucket, KVPut, KVDelete, Write, LoadKey, WatchStart, WatchStop,
                      ApplyNothing, BroadcastBegin, BroadcastEnd
  <2>2. CASE Apply
    BY <2>2 DEF Apply, Update
  <2>3. ASSUME NEW c \in Client, Send(c) \/ SendFull(c) \/ DrainOne(c) \/ DrainDone(c)
        PROVE  InHand'
    BY <1>1, <2>3 DEF Send, SendFull, DrainOne, DrainDone
  <2>4. ASSUME NEW c \in Client, Subscribe(c) \/ Cancel(c) \/ Unsubscribe(c) \/ Leave(c)
        PROVE  InHand'
    BY <1>1, <2>4 DEF Subscribe, Connect, AlreadyStarted, StartLoad, StartFails, FinishLoad,
                      Register,
                      Cancel, Unsubscribe, Leave
  <2>5. ASSUME NEW c \in Client, Loop(c) PROVE InHand'
    BY <1>1, <2>5 DEF Loop, ReceiveUpdate, ReceiveFullSnapshot, TakeSnapshot, Flush
  <2>6. CASE Crash
    BY <2>6 DEF Crash
  <2> QED
    BY <2>1, <2>2, <2>3, <2>4, <2>5, <2>6 DEF Next, Watch
<1>3. \A c \in subscribers' \ (lossy' \cup draining') : Counted(c)'
  BY CountedStep
<1> QED
  BY <1>2, <1>3 DEF TotalInv, Counted

-----------------------------------------------------------------------------
(* Cards never go back.                                                    *)

\* The conditions of Past and CopyAges on the stream, of any stream.
Behind(s, x, k) == \A i \in DOMAIN s : s[i].key = k => x <= s[i].rev

InOrder(s) ==
  \A i, j \in DOMAIN s : i < j /\ s[j].key = s[i].key => s[i].rev <= s[j].rev

Written(s, last) == \A i \in DOMAIN s : s[i].rev <= last[s[i].key].rev

\* A new entry, no older than the last one of its key, keeps them.
LEMMA AgesAppend ==
  ASSUME NEW s \in Seq(Entry), NEW y \in Entry, NEW last \in [Key -> Entry],
         Written(s, last), last[y.key].rev <= y.rev,
         NEW next \in [Key -> Entry], next = [last EXCEPT ![y.key] = y]
  PROVE  /\ InOrder(s) => InOrder(Append(s, y))
         /\ Written(Append(s, y), next)
         /\ \A x \in Nat, k \in Key :
              x <= last[k].rev /\ Behind(s, x, k) => Behind(Append(s, y), x, k)
<1> DEFINE r == Append(s, y)
<1>1. /\ DOMAIN s = 1 .. Len(s) /\ DOMAIN r = 1 .. Len(s) + 1
      /\ r[Len(s) + 1] = y
      /\ \A i \in 1 .. Len(s) : r[i] = s[i] /\ s[i] \in Entry
      /\ Len(s) \in Nat
  BY AppendProperties, LenProperties, ElementOfSeq
<1>2. \A z \in Entry : z.key \in Key /\ z.rev \in Nat
  BY DEF Entry
<1>3. \A i \in 1 .. Len(s) : s[i].rev <= last[s[i].key].rev
  BY <1>1 DEF Written
<1> HIDE DEF r
<1>4. ASSUME InOrder(s) PROVE InOrder(r)
  <2> SUFFICES ASSUME NEW i \in DOMAIN r, NEW j \in DOMAIN r, i < j, r[j].key = r[i].key
               PROVE  r[i].rev <= r[j].rev
    BY DEF InOrder
  <2>1. i \in 1 .. Len(s) /\ r[i] = s[i]
    BY <1>1
  <2>2. CASE j \in 1 .. Len(s)
    BY <1>1, <1>4, <2>1, <2>2 DEF InOrder
  <2>3. CASE j = Len(s) + 1
    <3>1. r[j] = y /\ s[i].key = y.key /\ s[i] \in Entry
      BY <1>1, <2>1, <2>3
    <3>2. s[i].rev <= last[y.key].rev /\ s[i].rev \in Nat /\ last[y.key].rev \in Nat /\ y.rev \in Nat
      BY <1>2, <1>3, <2>1, <3>1
    <3> QED
      BY <2>1, <3>1, <3>2
  <2> QED
    BY <1>1, <2>2, <2>3
<1>5. Written(r, next)
  <2> SUFFICES ASSUME NEW i \in DOMAIN r PROVE r[i].rev <= next[r[i].key].rev
    BY DEF Written
  <2>1. CASE i = Len(s) + 1
    BY <1>1, <1>2, <2>1
  <2>2. CASE i \in 1 .. Len(s)
    <3>1. r[i] = s[i] /\ s[i].key \in Key /\ s[i].rev \in Nat /\ s[i].rev <= last[s[i].key].rev
      BY <1>1, <1>2, <1>3, <2>2
    <3>2. CASE s[i].key = y.key
      <4>1. last[y.key].rev \in Nat /\ y.rev \in Nat /\ next[y.key] = y
        BY <1>2, <3>1, <3>2
      <4> QED
        BY <3>1, <3>2, <4>1
    <3>3. CASE s[i].key # y.key
      BY <3>1, <3>3
    <3> QED
      BY <3>2, <3>3
  <2> QED
    BY <1>1, <2>1, <2>2
<1>6. ASSUME NEW x \in Nat, NEW k \in Key, x <= last[k].rev, Behind(s, x, k)
      PROVE  Behind(r, x, k)
  <2> SUFFICES ASSUME NEW i \in DOMAIN r, r[i].key = k PROVE x <= r[i].rev
    BY DEF Behind
  <2>1. CASE i = Len(s) + 1
    <3>1. r[i] = y /\ y.key = k /\ last[k].rev \in Nat /\ y.rev \in Nat
      BY <1>1, <1>2, <2>1
    <3> QED
      BY <1>6, <3>1
  <2>2. CASE i \in 1 .. Len(s)
    BY <1>1, <1>6, <2>2 DEF Behind
  <2> QED
    BY <1>1, <2>1, <2>2
<1> QED
  BY <1>4, <1>5, <1>6 DEF r

\* So does reading the first entry, which is no newer than the rest.
LEMMA AgesTail ==
  ASSUME NEW s \in Seq(Entry), s # <<>>
  PROVE  /\ InOrder(s) => InOrder(Tail(s)) /\ Behind(Tail(s), Head(s).rev, Head(s).key)
         /\ \A last : Written(s, last) =>
              Written(Tail(s), last) /\ Head(s).rev <= last[Head(s).key].rev
         /\ \A x \in Nat : \A k : Behind(s, x, k) =>
              Behind(Tail(s), x, k) /\ (Head(s).key = k => x <= Head(s).rev)
<1> DEFINE t == Tail(s)
<1>1. /\ Len(s) \in Nat \ {0}
      /\ DOMAIN s = 1 .. Len(s) /\ DOMAIN t = 1 .. Len(s) - 1
      /\ \A i \in 1 .. Len(s) - 1 : t[i] = s[i + 1]
      /\ Head(s) = s[1]
  BY HeadTailProperties, LenProperties, EmptySeq
<1>2. 1 \in DOMAIN s /\ \A i \in DOMAIN t : i + 1 \in DOMAIN s /\ t[i] = s[i + 1] /\ 1 < i + 1
  BY <1>1
<1>3. \A i, j \in DOMAIN t : i < j => i + 1 < j + 1
  BY <1>1
<1>4. Head(s) = s[1]
  BY <1>1
<1> HIDE DEF t
<1>5. ASSUME InOrder(s) PROVE InOrder(t) /\ Behind(t, Head(s).rev, Head(s).key)
  BY <1>2, <1>3, <1>4, <1>5 DEF InOrder, Behind
<1>6. ASSUME NEW last, Written(s, last)
      PROVE  Written(t, last) /\ Head(s).rev <= last[Head(s).key].rev
  BY <1>2, <1>4, <1>6 DEF Written
<1>7. ASSUME NEW x \in Nat, NEW k, Behind(s, x, k)
      PROVE  Behind(t, x, k) /\ (Head(s).key = k => x <= Head(s).rev)
  BY <1>2, <1>4, <1>7 DEF Behind
<1> QED
  BY <1>5, <1>6, <1>7 DEF t

\* A replay brings the last entry of a key, once.
LEMMA AgesReplay ==
  ASSUME TypeOK, NEW s \in Replays
  PROVE  /\ InOrder(s) /\ Written(s, kv)
         /\ \A x \in Nat, k \in Key : x <= kv[k].rev => Behind(s, x, k)
<1>1. \A i \in DOMAIN s : \E k \in Key : s[i] = kv[k]
  BY DEF Replays
<1>2. \A k \in Key : kv[k].key = k /\ kv[k].rev \in Nat
  BY DEF TypeOK, Entry
<1>3. \A i \in DOMAIN s : s[i].key \in Key /\ s[i] = kv[s[i].key] /\ s[i].rev \in Nat
  BY <1>1, <1>2
<1> QED
  BY <1>2, <1>3 DEF InOrder, Written, Behind

\* The copy's part of the invariant, in these terms.
LEMMA CopyParts ==
  /\ \A x, k : Past(x, k) <=> /\ Older(x, entityData[k]) /\ x <= kv[k].rev
                              /\ Behind(stream, x, k)
  /\ CopyAges <=>
       /\ \A k \in Key : kv[k].rev <= rev /\ loaded[k] <= kv[k].rev /\ Past(entityData[k], k)
       /\ Written(stream, kv) /\ InOrder(stream)
       /\ ~Watching => stream = <<>>
       /\ \A e \in Entity : entityState[e] = Merge(entityData, e)
BY DEF Past, CopyAges, Behind, Written, InOrder

\* What a write, the watcher and the load do to the ages of the copy: they
\* stay in order, and what was past stays past.
LEMMA AgesWrite ==
  ASSUME TypeOK, CopyAges, NEW d \in Key, NEW op \in {"put", "del"}, Write(d, op)
  PROVE  /\ CopyAges'
         /\ \A x \in Nat, k \in Key : Past(x, k) => Past(x, k)'
<1> DEFINE entry == [key |-> d, op |-> op, rev |-> rev + 1]
<1>1. /\ entry \in Entry /\ entry.key = d /\ entry.rev = rev + 1
      /\ rev \in Nat /\ rev' = rev + 1
      /\ kv \in [Key -> Entry] /\ kv' = [kv EXCEPT ![d] = entry] /\ kv' \in [Key -> Entry]
      /\ stream' = IF Watching THEN Append(stream, entry) ELSE stream
      /\ stream \in Seq(Entry)
      /\ UNCHANGED <<entityData, entityState, loaded, wpc>>
  BY DEF Write, TypeOK, Entry, copyVars, loadVars
<1> HIDE DEF entry
<1>2. \A k \in Key : /\ kv[k].rev \in Nat /\ kv'[k].rev \in Nat
                     /\ kv[k].rev <= rev /\ kv[k].rev <= kv'[k].rev
                     /\ kv'[k].rev <= rev + 1
  <2> SUFFICES ASSUME NEW k \in Key
               PROVE  /\ kv[k].rev \in Nat /\ kv'[k].rev \in Nat
                      /\ kv[k].rev <= rev /\ kv[k].rev <= kv'[k].rev
                      /\ kv'[k].rev <= rev + 1
    OBVIOUS
  <2>1. kv[k].rev \in Nat /\ kv[k].rev <= rev
    BY <1>1, CopyParts DEF Entry
  <2>2. kv'[k] = IF k = d THEN entry ELSE kv[k]
    BY <1>1
  <2> QED
    BY <1>1, <2>1, <2>2
<1>3. /\ Written(stream, kv) /\ InOrder(stream)
      /\ ~Watching => stream = <<>>
  BY CopyParts
<1>4. /\ Written(stream', kv') /\ InOrder(stream')
      /\ ~Watching' => stream' = <<>>
      /\ \A x \in Nat, k \in Key : x <= kv[k].rev /\ Behind(stream, x, k) => Behind(stream', x, k)
  <2>1. CASE Watching
    <3>1. kv[entry.key].rev <= entry.rev
      BY <1>1, <1>2
    <3> QED
      BY <1>1, <1>3, <2>1, <3>1, AgesAppend DEF Watching
  <2>2. CASE ~Watching
    BY <1>1, <1>3, <2>2 DEF Watching, Written, InOrder
  <2> QED
    BY <2>1, <2>2
<1>5. ASSUME NEW x \in Nat, NEW k \in Key, Past(x, k) PROVE Past(x, k)'
  <2>1. x <= kv'[k].rev
    <3>1. x <= kv[k].rev
      BY <1>5, CopyParts
    <3> QED
      BY <1>2, <3>1
  <2> QED
    BY <1>1, <1>4, <1>5, <2>1 DEF Past, Behind, Older
<1>6. ASSUME NEW k \in Key
      PROVE  kv'[k].rev <= rev' /\ loaded'[k] <= kv'[k].rev /\ Past(entityData[k], k)'
  <2>1. entityData[k] \in Nat /\ loaded[k] \in Nat /\ loaded[k] <= kv[k].rev /\ Past(entityData[k], k)
    BY CopyParts DEF TypeOK, State
  <2> QED
    BY <1>1, <1>2, <1>5, <2>1
<1>7. \A e \in Entity : entityState'[e] = Merge(entityData', e)
  BY <1>1, CopyParts
<1>8. CopyAges'
  BY <1>4, <1>6, <1>7 DEF CopyAges, Written, InOrder
<1> QED
  BY <1>5, <1>8

\* So does applying an entry: what comes after it is no older.
LEMMA AgesApply ==
  ASSUME TypeOK, CopyAges, Apply
  PROVE  /\ CopyAges'
         /\ \A x \in Nat, k \in Key : Past(x, k) => Past(x, k)'
<1> DEFINE y == Head(stream)
           v == IF y.op = "put" THEN y.rev ELSE 0
<1>0. /\ stream \in Seq(Entry) /\ stream # <<>> /\ stream' = Tail(stream)
      /\ wpc = "up" /\ wpc' = "applied"
      /\ entityData \in [Key -> Nat]
      /\ UNCHANGED <<kv, rev, loaded>>
  BY DEF Apply, TypeOK, State, bucketVars, loadVars
<1>1. /\ stream \in Seq(Entry) /\ stream # <<>> /\ stream' = Tail(stream) /\ y \in Entry
      /\ y.key \in Key /\ y.rev \in Nat
      /\ wpc = "up" /\ wpc' = "applied"
      /\ entityData \in [Key -> Nat]
      /\ UNCHANGED <<kv, rev, loaded>>
  <2>1. y \in Entry
    BY <1>0, HeadTailProperties
  <2> QED
    BY <1>0, <2>1 DEF Entry
<1>2. /\ entityData' = [entityData EXCEPT ![y.key] = v]
      /\ entityState' = [entityState EXCEPT ![EntityOf[y.key]] = Merge(entityData', EntityOf[y.key])]
  BY DEF Apply
<1>3. \A k \in Key : entityData'[k] = IF k = y.key THEN v ELSE entityData[k]
  BY <1>1, <1>2
<1>4. /\ InOrder(stream') /\ Written(stream', kv)
      /\ Behind(stream', y.rev, y.key) /\ y.rev <= kv[y.key].rev
      /\ \A x \in Nat : \A k : Behind(stream, x, k) =>
           Behind(stream', x, k) /\ (y.key = k => x <= y.rev)
  BY <1>1, AgesTail, CopyParts
<1>5. v \in Nat /\ v <= y.rev /\ (v = 0 \/ v = y.rev)
  BY <1>1
<1> HIDE DEF y, v
<1>6. ASSUME NEW x \in Nat, NEW k \in Key, Past(x, k) PROVE Past(x, k)'
  <2>1. Older(x, entityData[k]) /\ x <= kv[k].rev /\ Behind(stream, x, k)
    BY <1>6, CopyParts
  <2>2. Behind(stream', x, k) /\ (y.key = k => x <= y.rev)
    BY <1>4, <2>1
  <2>3. Older(x, entityData'[k])
    BY <1>3, <1>5, <2>1, <2>2 DEF Older
  <2> QED
    BY <1>1, <2>1, <2>2, <2>3 DEF Past, Behind, Older
<1>7. ASSUME NEW k \in Key PROVE Past(entityData[k], k)'
  <2>1. CASE k # y.key
    <3>1. entityData'[k] = entityData[k] /\ entityData[k] \in Nat /\ Past(entityData[k], k)
      BY <1>1, <1>3, <2>1, CopyParts
    <3>2. Older(entityData[k], entityData[k])
      BY <3>1 DEF Older
    <3> QED
      BY <1>1, <1>4, <3>1, <3>2, CopyParts DEF Past, Behind, Older
  <2>2. CASE k = y.key
    <3>1. entityData'[k] = v /\ kv[k].rev \in Nat /\ v <= kv[k].rev
      BY <1>1, <1>3, <1>4, <1>5, <2>2 DEF TypeOK, Entry
    <3>2. Behind(stream', v, k)
      <4>1. \A i \in DOMAIN stream' : stream'[i] \in Entry
        BY <1>1, HeadTailProperties, ElementOfSeq
      <4>2. ASSUME NEW i \in DOMAIN stream', stream'[i].key = k PROVE v <= stream'[i].rev
        <5>1. y.rev <= stream'[i].rev /\ stream'[i].rev \in Nat
          BY <1>4, <2>2, <4>1, <4>2 DEF Behind, Entry
        <5> QED
          BY <1>1, <1>5, <5>1
      <4> QED
        BY <4>2 DEF Behind
    <3> QED
      BY <1>1, <1>5, <3>1, <3>2 DEF Past, Behind, Older
  <2> QED
    BY <2>1, <2>2
<1>8. ASSUME NEW e \in Entity PROVE entityState'[e] = Merge(entityData', e)
  <2>1. CASE e = EntityOf[y.key]
    BY <1>2, <2>1 DEF TypeOK
  <2>2. CASE e # EntityOf[y.key]
    <3>1. entityState'[e] = Merge(entityData, e)
      BY <1>2, <2>2, CopyParts DEF TypeOK
    <3>2. Merge(entityData', e) = Merge(entityData, e)
      BY <1>1, <1>3, <2>2 DEF Merge
    <3> QED
      BY <3>1, <3>2
  <2> QED
    BY <2>1, <2>2
<1>9. \A k \in Key : kv'[k].rev <= rev' /\ loaded'[k] <= kv'[k].rev
  BY <1>1, CopyParts
<1>10. Watching'
  BY <1>1 DEF Watching
<1> QED
  BY <1>1, <1>4, <1>6, <1>7, <1>8, <1>9, <1>10 DEF CopyAges, Written, InOrder

\* Only the end of the load, when no client shows anything yet, brings values
\* that are not known to be newer.
LEMMA AgesStep ==
  ASSUME TypeOK, ConnectionInv, CopyAges, [Next]_vars
  PROVE  /\ CopyAges'
         /\ \/ \A x \in Nat, k \in Key : Past(x, k) => Past(x, k)'
            \/ \E c \in Client : FinishLoad(c)
<1> DEFINE Kept == \A x \in Nat, k \in Key : Past(x, k) => Past(x, k)'
<1> USE DEF vars, bucketVars, watchVars, copyVars, loadVars, clientVars
<1>p. /\ \A k \in Key : kv[k].rev <= rev /\ loaded[k] <= kv[k].rev /\ Past(entityData[k], k)
      /\ Written(stream, kv) /\ InOrder(stream)
      /\ ~Watching => stream = <<>>
      /\ \A e \in Entity : entityState[e] = Merge(entityData, e)
  BY CopyParts
<1>1. ASSUME UNCHANGED <<kv, rev, stream, entityData, entityState, loaded>>, Watching' = Watching
      PROVE  CopyAges' /\ Kept
  <2>1. CopyAges'
    BY <1>1 DEF CopyAges, Past
  <2>2. Kept
    BY <1>1 DEF Past
  <2> QED
    BY <2>1, <2>2
<1>2. CASE Bucket
  BY <1>2, AgesWrite DEF Bucket, KVPut, KVDelete
<1>3. CASE Apply
  BY <1>3, AgesApply
<1>4. ASSUME UNCHANGED <<kv, rev, entityData, entityState, loaded>>,
             Written(stream', kv), InOrder(stream'), ~Watching' => stream' = <<>>,
             \A x \in Nat, k \in Key : Past(x, k) => Behind(stream', x, k)
      PROVE  CopyAges' /\ Kept
  <2>1. Kept
    BY <1>4 DEF Past, Behind
  <2>2. \A k \in Key : entityData[k] \in Nat /\ entityData'[k] = entityData[k]
    BY <1>4 DEF TypeOK, State
  <2>3. \A k \in Key : Past(entityData[k], k)'
    BY <1>4, <1>p, <2>2 DEF Past, Behind
  <2>4. CopyAges'
    BY <1>4, <1>p, <2>3 DEF CopyAges, Written, InOrder
  <2> QED
    BY <2>1, <2>4
<1>5. CASE WatchStart
  <2>1. stream' \in Replays /\ UNCHANGED <<kv, rev, entityData, entityState, loaded>> /\ Watching'
    BY <1>5 DEF WatchStart, Watching
  <2>2. \A x \in Nat, k \in Key : Past(x, k) => x <= kv[k].rev
    BY CopyParts
  <2> QED
    BY <1>4, <2>1, <2>2, AgesReplay
<1>6. CASE WatchStop
  <2>1. stream' = <<>> /\ UNCHANGED <<kv, rev, entityData, entityState, loaded>>
    BY <1>6 DEF WatchStop
  <2> QED
    BY <1>4, <2>1 DEF Written, InOrder, Behind
<1>7. CASE ApplyNothing
  <2>1. /\ stream' = Tail(stream) /\ stream # <<>> /\ stream \in Seq(Entry) /\ Watching'
        /\ UNCHANGED <<kv, rev, entityData, entityState, loaded>>
    BY <1>7 DEF ApplyNothing, TypeOK, Watching
  <2>2. \A x \in Nat, k \in Key : Past(x, k) => Behind(stream, x, k)
    BY CopyParts
  <2> QED
    BY <1>4, <1>p, <2>1, <2>2, AgesTail
<1>8. ASSUME NEW d \in Key, LoadKey(d) PROVE CopyAges' /\ Kept
  <2>1. /\ UNCHANGED <<kv, rev, stream, entityData, entityState, wpc>>
        /\ loaded' \in {loaded, [loaded EXCEPT ![d] = BucketValue(d)]} /\ loaded \in [Key -> Nat]
    BY <1>8 DEF LoadKey, TypeOK, State
  <2>2. ASSUME NEW k \in Key PROVE loaded'[k] <= kv[k].rev
    <3>1. kv[k].rev \in Nat /\ (BucketValue(k) = 0 \/ BucketValue(k) = kv[k].rev)
      BY DEF TypeOK, Entry, BucketValue
    <3>2. loaded'[k] = loaded[k] \/ loaded'[k] = BucketValue(k)
      BY <2>1
    <3> QED
      BY <1>p, <3>1, <3>2
  <2>3. Kept
    BY <2>1 DEF Past
  <2>4. \A k \in Key : Past(entityData[k], k)'
    BY <1>p, <2>1 DEF Past
  <2>5. CopyAges'
    BY <1>p, <2>1, <2>2, <2>4 DEF CopyAges, Written, InOrder, Watching
  <2> QED
    BY <2>3, <2>5
<1>9. ASSUME NEW c \in Client, FinishLoad(c) PROVE CopyAges'
  <2>1. /\ entityData' = loaded /\ loaded' = Gone /\ wpc' = "down"
        /\ entityState' = [e \in Entity |-> Merge(loaded, e)]
        /\ UNCHANGED <<kv, rev, stream>> /\ wpc = "off" /\ stream = <<>>
    BY <1>9, <1>p DEF FinishLoad, ConnectionInv, Watching
  <2>2. ASSUME NEW k \in Key PROVE Past(entityData[k], k)' /\ loaded'[k] <= kv[k].rev
    <3>1. loaded[k] \in Nat /\ kv[k].rev \in Nat /\ loaded[k] <= kv[k].rev
      BY <1>p DEF TypeOK, State, Entry
    <3>2. entityData'[k] = loaded[k] /\ kv' = kv /\ stream' = <<>> /\ loaded'[k] = 0
      BY <2>1 DEF Gone
    <3> QED
      BY <3>1, <3>2 DEF Past, Older
  <2>3. \A e \in Entity : entityState'[e] = Merge(entityData', e)
    BY <2>1
  <2> QED
    BY <1>p, <2>1, <2>2, <2>3 DEF CopyAges
<1>10. ASSUME NEW c \in Client, Connect(c) \/ AlreadyStarted(c) \/ StartLoad(c)
       \/ StartFails(c) \/ Register(c)
       PROVE  CopyAges' /\ Kept
  BY <1>1, <1>10 DEF Connect, AlreadyStarted, StartLoad, StartFails, Register, Watching
<1>11. ASSUME NEW c \in Client, Send(c) \/ SendFull(c) \/ DrainOne(c) \/ DrainDone(c) \/ Cancel(c)
                                \/ Unsubscribe(c) \/ Leave(c)
       PROVE  CopyAges' /\ Kept
  BY <1>1, <1>11 DEF Send, SendFull, DrainOne, DrainDone, Cancel, Unsubscribe, Leave, Watching
<1>12. ASSUME NEW c \in Client, Loop(c) PROVE CopyAges' /\ Kept
  BY <1>1, <1>12 DEF Loop, ReceiveUpdate, ReceiveFullSnapshot, TakeSnapshot, Flush, Watching
<1>13. CASE BroadcastBegin \/ BroadcastEnd \/ UNCHANGED vars
  BY <1>1, <1>13 DEF BroadcastBegin, BroadcastEnd, Watching
<1>14. CASE Crash
  <2>1. /\ stream' = <<>> /\ kv' = kv /\ rev' = rev /\ loaded' = Gone
        /\ entityData' = Gone /\ entityState' = NoStates
    BY <1>14 DEF Crash
  <2>2. Kept
    BY <2>1 DEF Past, Older, Gone
  <2>3. \A k \in Key : entityData'[k] = 0 /\ loaded'[k] = 0 /\ kv[k].rev \in Nat
    BY <2>1 DEF Gone, TypeOK, Entry
  <2>4. \A k \in Key : Past(entityData[k], k)'
    BY <2>1, <2>3 DEF Past, Older
  <2>5. \A e \in Entity : entityState'[e] = Merge(entityData', e)
    BY <2>1 DEF Merge, Gone, NoStates
  <2>6. CopyAges'
    BY <1>p, <2>1, <2>3, <2>4, <2>5 DEF CopyAges
  <2> QED
    BY <2>2, <2>6
<1> QED
  BY <1>2, <1>3, <1>5, <1>6, <1>7, <1>8, <1>9, <1>10, <1>11, <1>12, <1>13, <1>14
     DEF Next, Watch, Subscribe

\* What the copy has for an entity is past, and newer than what was.
LEMMA AgesOfCopy ==
  ASSUME TypeOK, CopyAges, NEW e \in Entity, NEW k \in Key
  PROVE  /\ Past(0, k) /\ Past(entityState[e][k], k)
         /\ \A x : Past(x, k) => Older(x, entityState[e][k])
<1>1. entityState[e][k] = 0 \/ entityState[e][k] = entityData[k]
  BY DEF CopyAges, Merge
<1>2. Past(0, k)
  <2>1. kv[k].rev \in Nat /\ \A i \in DOMAIN stream : stream[i].rev \in Nat
    <3>1. \A i \in DOMAIN stream : stream[i] \in Entry
      BY ElementOfSeq, LenProperties DEF TypeOK
    <3> QED
      BY <3>1 DEF TypeOK, Entry
  <2> QED
    BY <2>1 DEF Past, Older
<1>3. Past(entityData[k], k)
  BY DEF CopyAges
<1> QED
  BY <1>1, <1>2, <1>3 DEF Past, Older

\* A channel that was never drained has only updates.
LEMMA AgedQueue ==
  ASSUME TypeOK, ClientInv, NEW c \in Client \ lossy
  PROVE  /\ queue[c] \in Seq(Message) /\ DOMAIN queue[c] = 1 .. Len(queue[c]) /\ Len(queue[c]) \in Nat
         /\ \A i \in DOMAIN queue[c] : ~queue[c][i].full /\ queue[c][i].state \in [Key -> Nat]
<1>1. queue[c] \in Seq(Message)
  BY DEF TypeOK
<1>2. DOMAIN queue[c] = 1 .. Len(queue[c]) /\ Len(queue[c]) \in Nat
  BY <1>1, LenProperties
<1>3. ASSUME NEW i \in DOMAIN queue[c]
      PROVE  ~queue[c][i].full /\ queue[c][i].state \in [Key -> Nat]
  <2>1. queue[c][i] \in Message /\ ~queue[c][i].full
    BY <1>1, <1>2, <1>3, ElementOfSeq DEF ClientInv
  <2> QED
    BY <2>1, UpdateFields DEF State
<1> QED
  BY <1>1, <1>2, <1>3

\* One that does nothing while the copy goes on keeps its values in order.
LEMMA AgesFrame ==
  ASSUME TypeOK, ClientInv, NEW c \in Client \ lossy, CardAges(c),
         UNCHANGED <<queue[c], dirty[c], shown[c]>>,
         pc[c] \in {"loop", "resync"} => pc'[c] \in {"loop", "resync"},
         \A x \in Nat, k \in Key : Past(x, k) => Past(x, k)'
  PROVE  CardAges(c)'
<1>1. pc'[c] \notin {"loop", "resync"} => shown'[c] = NoStates
  BY DEF CardAges
<1>2. ASSUME NEW e \in Entity, NEW k \in Key
      PROVE  /\ Past(shown[c][e][k], k)' /\ Past(dirty[c][e][k], k)'
             /\ Older(shown'[c][e][k], dirty'[c][e][k])
  <2>1. shown[c][e][k] \in Nat /\ dirty[c][e][k] \in Nat
    BY DEF TypeOK, State
  <2>2. /\ Past(shown[c][e][k], k) /\ Past(dirty[c][e][k], k)
        /\ Older(shown[c][e][k], dirty[c][e][k])
    BY DEF CardAges
  <2> QED
    BY <2>1, <2>2 DEF Past
<1>3. ASSUME NEW e \in Entity, NEW k \in Key, NEW i \in DOMAIN queue[c], queue[c][i].entity = e
      PROVE  /\ Past(queue[c][i].state[k], k)'
             /\ Older(shown[c][e][k], queue[c][i].state[k])
             /\ Older(dirty[c][e][k], queue[c][i].state[k])
             /\ \A j \in DOMAIN queue[c] : i < j /\ queue[c][j].entity = e =>
                  Older(queue[c][i].state[k], queue[c][j].state[k])
  <2>1. queue[c][i].state[k] \in Nat
    BY AgedQueue, <1>3
  <2> QED
    BY <1>3, <2>1 DEF CardAges, Past
<1> QED
  BY <1>1, <1>2, <1>3 DEF CardAges, Past

\* What is sent is the copy's state, newer than all that was sent before.
LEMMA AgesSend ==
  ASSUME TypeOK, SenderInv, ClientInv, CopyAges, NEW c \in Client \ lossy, CardAges(c), Send(c)
  PROVE  CardAges(c)'
<1> DEFINE q == queue[c]
           r == Append(q, upd)
<1>1. /\ queue'[c] = r /\ UNCHANGED <<dirty, shown, pc, kv, stream, entityData>>
      /\ upd \in Message /\ ~upd.full /\ upd.entity \in Entity
      /\ upd.state = entityState[upd.entity]
  BY DEF Send, TypeOK, SenderInv, copyVars, bucketVars, clientVars
<1>2. /\ DOMAIN q = 1 .. Len(q) /\ DOMAIN r = 1 .. Len(q) + 1 /\ Len(q) \in Nat
      /\ r[Len(q) + 1] = upd /\ \A i \in 1 .. Len(q) : r[i] = q[i]
  BY <1>1, AgedQueue, AppendProperties, LenProperties
<1> HIDE DEF q, r
<1>3. ASSUME NEW e \in Entity, NEW k \in Key
      PROVE  /\ Past(shown[c][e][k], k) /\ Past(dirty[c][e][k], k)
             /\ Older(shown[c][e][k], dirty[c][e][k])
             /\ \A i \in DOMAIN q : q[i].entity = e =>
                  /\ Past(q[i].state[k], k)
                  /\ Older(shown[c][e][k], q[i].state[k])
                  /\ Older(dirty[c][e][k], q[i].state[k])
                  /\ \A j \in DOMAIN q : i < j /\ q[j].entity = e =>
                       Older(q[i].state[k], q[j].state[k])
             /\ upd.entity = e =>
                  /\ Past(upd.state[k], k)
                  /\ \A x : Past(x, k) => Older(x, upd.state[k])
  BY <1>1, <1>3, AgesOfCopy DEF CardAges, q
<1>4. ASSUME NEW e \in Entity, NEW k \in Key, NEW i \in DOMAIN r, r[i].entity = e
      PROVE  /\ Past(r[i].state[k], k)
             /\ Older(shown[c][e][k], r[i].state[k])
             /\ Older(dirty[c][e][k], r[i].state[k])
             /\ \A j \in DOMAIN r : i < j /\ r[j].entity = e => Older(r[i].state[k], r[j].state[k])
  <2>1. CASE i = Len(q) + 1
    <3>1. r[i] = upd /\ ~\E j \in DOMAIN r : i < j
      BY <1>2, <2>1
    <3> QED
      BY <1>3, <1>4, <3>1
  <2>2. CASE i \in 1 .. Len(q)
    <3>1. r[i] = q[i] /\ i \in DOMAIN q
      BY <1>2, <2>2
    <3>2. ASSUME NEW j \in DOMAIN r, i < j, r[j].entity = e
          PROVE  Older(r[i].state[k], r[j].state[k])
      <4>1. CASE j = Len(q) + 1
        BY <1>2, <1>3, <1>4, <3>1, <3>2, <4>1
      <4>2. CASE j \in 1 .. Len(q)
        BY <1>2, <1>3, <1>4, <3>1, <3>2, <4>2
      <4> QED
        BY <1>2, <4>1, <4>2
    <3> QED
      BY <1>3, <1>4, <3>1, <3>2
  <2> QED
    BY <1>2, <2>1, <2>2
<1>5. \A x, k : Past(x, k)' <=> Past(x, k)
  BY <1>1 DEF Past
<1> QED
  BY <1>1, <1>3, <1>4, <1>5 DEF CardAges

\* The first update of the channel is older than the others, taken or drained.
LEMMA AgesReceive ==
  ASSUME TypeOK, ClientInv, NEW c \in Client \ lossy, CardAges(c), ReceiveUpdate(c) \/ DrainOne(c)
  PROVE  CardAges(c)'
<1> DEFINE q == queue[c]
           t == Tail(q)
           m == Head(q)
<1>1. /\ queue'[c] = t /\ q # <<>> /\ UNCHANGED <<shown, pc, kv, stream, entityData>>
      /\ \/ dirty' = dirty
         \/ dirty'[c] = [dirty[c] EXCEPT ![m.entity] = m.state]
  BY DEF ReceiveUpdate, DrainOne, TypeOK, copyVars, bucketVars, watchVars, clientVars
<1>2. /\ DOMAIN q = 1 .. Len(q) /\ DOMAIN t = 1 .. Len(q) - 1 /\ Len(q) \in Nat \ {0}
      /\ m = q[1] /\ \A i \in 1 .. Len(q) - 1 : t[i] = q[i + 1]
  BY <1>1, AgedQueue, HeadTailProperties, LenProperties, EmptySeq
<1>3. /\ 1 \in DOMAIN q
      /\ \A i \in DOMAIN t : i + 1 \in DOMAIN q /\ t[i] = q[i + 1] /\ 1 < i + 1
      /\ \A i, j \in DOMAIN t : i < j => i + 1 < j + 1
  BY <1>2
<1>4. m = q[1] /\ dirty[c] \in [Entity -> State]
  BY <1>2 DEF TypeOK
<1> HIDE DEF q, t, m
<1>5. ASSUME NEW e \in Entity, NEW k \in Key
      PROVE  /\ Past(shown[c][e][k], k) /\ Past(dirty[c][e][k], k)
             /\ Older(shown[c][e][k], dirty[c][e][k])
             /\ \A i \in DOMAIN q : q[i].entity = e =>
                  /\ Past(q[i].state[k], k)
                  /\ Older(shown[c][e][k], q[i].state[k])
                  /\ Older(dirty[c][e][k], q[i].state[k])
                  /\ \A j \in DOMAIN q : i < j /\ q[j].entity = e =>
                       Older(q[i].state[k], q[j].state[k])
  BY <1>5 DEF CardAges, q
<1>6. ASSUME NEW e \in Entity, NEW k \in Key
      PROVE  \/ dirty'[c][e] = dirty[c][e]
             \/ m.entity = e /\ dirty'[c][e] = m.state
  BY <1>1, <1>4
<1>7. ASSUME NEW e \in Entity, NEW k \in Key
      PROVE  /\ Past(shown[c][e][k], k) /\ Past(dirty'[c][e][k], k)
             /\ Older(shown[c][e][k], dirty'[c][e][k])
             /\ \A i \in DOMAIN t : t[i].entity = e =>
                  /\ Past(t[i].state[k], k)
                  /\ Older(shown[c][e][k], t[i].state[k])
                  /\ Older(dirty'[c][e][k], t[i].state[k])
                  /\ \A j \in DOMAIN t : i < j /\ t[j].entity = e =>
                       Older(t[i].state[k], t[j].state[k])
  <2>1. CASE dirty'[c][e] = dirty[c][e]
    BY <1>3, <1>5, <2>1
  <2>2. CASE m.entity = e /\ dirty'[c][e] = m.state
    BY <1>3, <1>4, <1>5, <2>2
  <2> QED
    BY <1>6, <2>1, <2>2
<1>8. \A x, k : Past(x, k)' <=> Past(x, k)
  BY <1>1 DEF Past
<1> QED
  BY <1>1, <1>7, <1>8 DEF CardAges

\* A flush shows what was dirty, which is newer than what was shown.
LEMMA AgesFlush ==
  ASSUME TypeOK, CopyAges, ClientInv, NEW c \in Client \ lossy, CardAges(c), Flush(c)
  PROVE  /\ CardAges(c)'
         /\ \A e \in Entity, k \in Key : Older(shown[c][e][k], shown'[c][e][k])
<1>1. /\ pc[c] = "loop" /\ UNCHANGED <<queue, pc, kv, stream, entityData>>
      /\ dirty'[c] = NoStates
      /\ \A e \in Entity : shown'[c][e] \in {Gone, dirty[c][e], shown[c][e]}
  BY DEF Flush, TypeOK, copyVars, bucketVars, watchVars, clientVars
<1>2. ASSUME NEW e \in Entity, NEW k \in Key
      PROVE  /\ Past(shown[c][e][k], k) /\ Past(dirty[c][e][k], k) /\ Past(0, k)
             /\ Older(shown[c][e][k], dirty[c][e][k])
             /\ \A i \in DOMAIN queue[c] : queue[c][i].entity = e =>
                  /\ Past(queue[c][i].state[k], k)
                  /\ Older(shown[c][e][k], queue[c][i].state[k])
                  /\ Older(dirty[c][e][k], queue[c][i].state[k])
                  /\ \A j \in DOMAIN queue[c] : i < j /\ queue[c][j].entity = e =>
                       Older(queue[c][i].state[k], queue[c][j].state[k])
  BY <1>2, AgesOfCopy DEF CardAges
<1>3. ASSUME NEW e \in Entity, NEW k \in Key
      PROVE  /\ dirty'[c][e][k] = 0
             /\ shown'[c][e][k] \in {0, dirty[c][e][k], shown[c][e][k]}
  BY <1>1 DEF NoStates, Gone
<1>4. \A a : Older(0, a) /\ Older(a, 0)
  BY DEF Older
<1>5. \A e \in Entity, k \in Key : Older(shown[c][e][k], shown[c][e][k])
  BY DEF Older, TypeOK, State
<1>6. \A x, k : Past(x, k)' <=> Past(x, k)
  BY <1>1 DEF Past
<1>7. CardAges(c)'
  BY <1>1, <1>2, <1>3, <1>4, <1>6 DEF CardAges
<1> QED
  BY <1>2, <1>3, <1>4, <1>5, <1>7

\* A new connection shows the copy and is owed nothing.
LEMMA AgesRegister ==
  ASSUME TypeOK, ConnectionInv, CopyAges, NEW c \in Client, Register(c)
  PROVE  CardAges(c)'
<1>1. /\ pc[c] = "registering" /\ pc'[c] = "loop"
      /\ UNCHANGED <<queue, dirty, kv, stream, entityData>>
      /\ shown'[c] = entityState /\ queue[c] = <<>> /\ dirty[c] = NoStates
  BY DEF Register, TypeOK, ConnectionInv, copyVars, bucketVars, watchVars
<1>2. \A e \in Entity, k \in Key : Past(0, k) /\ Past(entityState[e][k], k)
  BY AgesOfCopy
<1>3. \A x, k : Past(x, k)' <=> Past(x, k)
  BY <1>1 DEF Past
<1> QED
  BY <1>1, <1>2, <1>3 DEF CardAges, NoStates, Gone, Older

\* After any step 0 is past, and a client that has nothing has nothing too new.
LEMMA ZeroPast == ASSUME TypeOK', NEW k \in Key PROVE Past(0, k)'
<1>1. kv'[k].rev \in Nat /\ \A i \in DOMAIN stream' : stream'[i].rev \in Nat
  <2>1. \A i \in DOMAIN stream' : stream'[i] \in Entry
    BY ElementOfSeq, LenProperties DEF TypeOK
  <2> QED
    BY <2>1 DEF TypeOK, Entry
<1> QED
  BY <1>1 DEF Past, Older

LEMMA AgesOfNone ==
  ASSUME NEW c \in Client, queue'[c] = <<>>, dirty'[c] = NoStates, shown'[c] = NoStates,
         \A k \in Key : Past(0, k)'
  PROVE  CardAges(c)'
BY DEF CardAges, NoStates, Gone, Older

\* No step makes what is behind newer than what is ahead of it.
LEMMA AgeStep == FeedInv /\ AgeInv /\ [Next]_vars => AgeInv'
<1> SUFFICES ASSUME FeedInv, AgeInv, [Next]_vars PROVE AgeInv'
  OBVIOUS
<1>a. TypeOK /\ ConnectionInv /\ SenderInv /\ ClientInv /\ CopyAges
  BY DEF FeedInv, AgeInv
<1>b. CopyAges'
  BY <1>a, AgesStep
<1>c. TypeOK'
  BY <1>a, NextType
<1>d. \A k \in Key : Past(0, k)'
  BY <1>c, ZeroPast
<1> SUFFICES ASSUME NEW c \in Client, c \notin lossy' PROVE CardAges(c)'
  BY <1>b DEF AgeInv
<1>e. ASSUME c \notin lossy PROVE CardAges(c) /\ c \in Client \ lossy
  BY <1>e DEF AgeInv
<1> USE DEF vars, bucketVars, watchVars, copyVars, loadVars, clientVars
<1>1. ASSUME NEW d \in Client, FinishLoad(d) PROVE CardAges(c)'
  <2>1. pc[c] \notin {"loop", "resync"} /\ c \notin lossy
    BY <1>1, <1>a DEF ConnectionInv, FinishLoad
  <2>2. queue[c] = <<>> /\ dirty[c] = NoStates /\ shown[c] = NoStates
    BY <1>a, <1>e, <2>1 DEF ConnectionInv, CardAges
  <2>3. queue'[c] = <<>> /\ dirty'[c] = NoStates /\ shown'[c] = NoStates
    BY <1>1, <2>2 DEF FinishLoad
  <2> QED
    BY <1>d, <2>3, AgesOfNone
<1>2. CASE ~\E d \in Client : FinishLoad(d)
  <2>0. \A x \in Nat, k \in Key : Past(x, k) => Past(x, k)'
    BY <1>2, <1>a, AgesStep
  <2>1. ASSUME c \notin lossy, UNCHANGED <<queue[c], dirty[c], shown[c]>>,
               pc[c] \in {"loop", "resync"} => pc'[c] \in {"loop", "resync"}
        PROVE  CardAges(c)'
    BY <1>a, <1>e, <2>0, <2>1, AgesFrame
  <2>2. CASE Bucket \/ WatchStart \/ WatchStop \/ ApplyNothing \/ Apply \/ BroadcastBegin
             \/ BroadcastEnd \/ (\E k \in Key : LoadKey(k)) \/ UNCHANGED vars
    BY <2>1, <2>2
       DEF Bucket, KVPut, KVDelete, Write, WatchStart, WatchStop, ApplyNothing, Apply,
           BroadcastBegin, BroadcastEnd, LoadKey
  <2>3. ASSUME NEW d \in Client, Connect(d) \/ AlreadyStarted(d) \/ StartLoad(d) \/ StartFails(d)
                                 \/ Cancel(d) \/ Unsubscribe(d) \/ SendFull(d)
        PROVE  CardAges(c)'
    BY <1>a, <2>1, <2>3
       DEF Connect, AlreadyStarted, StartLoad, StartFails, Cancel, Unsubscribe, SendFull, TypeOK
  <2>4. ASSUME NEW d \in Client, DrainDone(d) PROVE CardAges(c)'
    <3>1. c # d /\ c \notin lossy
      BY <2>4 DEF DrainDone
    <3> QED
      BY <1>a, <2>1, <2>4, <3>1 DEF DrainDone, TypeOK
  <2>5. ASSUME NEW d \in Client, ReceiveFullSnapshot(d) \/ TakeSnapshot(d) PROVE CardAges(c)'
    <3>1. d \in lossy /\ lossy' = lossy
      BY <1>a, <2>5, MarkedQueues
         DEF ReceiveFullSnapshot, TakeSnapshot, ClientInv, Marked, TypeOK
    <3>2. c # d /\ c \notin lossy
      BY <3>1
    <3> QED
      BY <1>a, <2>1, <2>5, <3>2 DEF ReceiveFullSnapshot, TakeSnapshot, TypeOK
  <2>6. ASSUME NEW d \in Client, Leave(d) PROVE CardAges(c)'
    <3>1. CASE c = d
      <4>1. queue'[c] = <<>> /\ dirty'[c] = NoStates /\ shown'[c] = NoStates
        BY <1>a, <2>6, <3>1 DEF Leave, TypeOK
      <4> QED
        BY <1>d, <4>1, AgesOfNone
    <3>2. CASE c # d
      BY <1>a, <2>1, <2>6, <3>2 DEF Leave, TypeOK
    <3> QED
      BY <3>1, <3>2
  <2>7. ASSUME NEW d \in Client, Register(d) \/ Send(d) \/ ReceiveUpdate(d) \/ DrainOne(d) \/ Flush(d)
        PROVE  CardAges(c)'
    <3>1. c \notin lossy
      BY <2>7 DEF Register, Send, ReceiveUpdate, DrainOne, Flush
    <3>2. CASE c = d
      BY <1>a, <1>e, <2>7, <3>1, <3>2, AgesRegister, AgesSend, AgesReceive, AgesFlush
    <3>3. CASE c # d
      BY <1>a, <2>1, <2>7, <3>1, <3>3
         DEF Register, Send, ReceiveUpdate, DrainOne, Flush, TypeOK
    <3> QED
      BY <3>2, <3>3
  <2>8. CASE Crash
    <3>1. queue'[c] = <<>> /\ dirty'[c] = NoStates /\ shown'[c] = NoStates
      BY <2>8 DEF Crash
    <3> QED
      BY <1>d, <3>1, AgesOfNone
  <2> QED
    BY <1>2, <2>2, <2>3, <2>4, <2>5, <2>6, <2>7, <2>8 DEF Next, Watch, Subscribe, Loop
<1> QED
  BY <1>1, <1>2

-----------------------------------------------------------------------------
(* The theorems.                                                           *)

LEMMA FeedInit == Init => FeedInv
<1> SUFFICES ASSUME Init PROVE FeedInv
  OBVIOUS
<1>1. TypeOK
  BY InitType
<1>2. ConnectionInv /\ SenderInv /\ ViewOrOwed
  BY DEF Init, ConnectionInv, SenderInv, ViewOrOwed
<1>3. ClientInv
  BY DEF Init, ClientInv
<1> QED
  BY <1>1, <1>2, <1>3 DEF FeedInv

LEMMA FeedStep == FeedInv /\ [Next]_vars => FeedInv'
<1> SUFFICES ASSUME FeedInv, [Next]_vars PROVE FeedInv'
  OBVIOUS
<1>1. TypeOK /\ ConnectionInv /\ SenderInv /\ ClientInv /\ ViewOrOwed
  BY DEF FeedInv
<1>2. TypeOK' /\ ConnectionInv' /\ SenderInv' /\ ClientInv'
  BY <1>1, NextType, ConnectionStep, SenderStep, ClientStep
<1>3. ViewOrOwed'
  BY <1>1, ViewWatchStep, ViewLoopStep, ViewOtherStep DEF Next
<1> QED
  BY <1>2, <1>3 DEF FeedInv

\* The inductive invariant holds in every reachable state.
THEOREM FeedInvariant == Spec => []FeedInv
BY FeedInit, FeedStep, PTL DEF Spec

\* Whatever the interleaving of watcher, drain and handlers, what a client
\* holds or its channel owes it ends at the current state of every entity.
THEOREM NoUpdateLost == Spec => []ViewOrOwed
<1>1. FeedInv => ViewOrOwed
  BY DEF FeedInv
<1> QED
  BY <1>1, FeedInvariant, PTL

\* broadcast never sends on a channel that unsubscribe has closed.
THEOREM SendsOnOpenChannels == Spec => []NoSendOnClosedChannel
<1>1. FeedInv => NoSendOnClosedChannel
  BY DEF FeedInv, SenderInv, NoSendOnClosedChannel
<1> QED
  BY <1>1, FeedInvariant, PTL

LEMMA Tracks == Spec => []TrackInv
<1>1. Init => TrackInv
  BY DEF Init, TrackInv, BucketTracked, Watching, Gone
<1>2. FeedInv /\ TrackInv /\ [Next]_vars => TrackInv'
  BY TrackStep DEF FeedInv
<1> QED
  BY <1>1, <1>2, FeedInvariant, PTL DEF Spec

LEMMA Ages == Spec => []AgeInv
<1>1. Init => AgeInv
  BY DEF Init, AgeInv, CopyAges, CardAges, Past, Older, NoStates, Gone, Merge
<1> QED
  BY <1>1, AgeStep, FeedInvariant, PTL DEF Spec

\* The shared copy misses no write of the bucket, however the load, the
\* watcher and its restarts fall.
THEOREM NoWriteMissed == Spec => []BucketTracked
<1>1. TrackInv => BucketTracked
  BY DEF TrackInv
<1> QED
  BY <1>1, Tracks, PTL

\* From the bucket to the card: a subscriber for which nothing is under way
\* shows every entity as the bucket has it, whatever was written while the
\* copy was loaded, while no watcher ran or while its channel was drained.
THEOREM CardsRight == Spec => []CardsCurrent
<1>1. FeedInv /\ TrackInv /\ AgeInv => CardsCurrent
  <2> SUFFICES ASSUME FeedInv, TrackInv, AgeInv, NEW c \in subscribers, NEW e \in Entity, AtRest(c)
               PROVE  shown[c][e] = BucketState(e) \/ (c \in lossy /\ BucketState(e) = Gone)
    BY DEF CardsCurrent
  <2>1. todo = {} /\ c \notin draining
    BY DEF FeedInv, SenderInv, AtRest
  <2>2. UpToDate(c, e)
    BY <2>1 DEF FeedInv, ViewOrOwed, AtRest
  <2>3. shown[c][e] = entityState[e] \/ (c \in lossy /\ entityState[e] = Gone)
    BY <2>2 DEF UpToDate, Owes, Local, AtRest, Live
  <2>4. \A k \in Key : entityData[k] = BucketValue(k)
    BY DEF TrackInv, BucketTracked, Watching, AtRest
  <2>5. entityState[e] = BucketState(e)
    BY <2>4 DEF AgeInv, CopyAges, Merge, BucketState
  <2> QED
    BY <2>3, <2>5
<1> QED
  BY <1>1, FeedInvariant, Tracks, Ages, PTL

\* At rest, the number of entities on the dashboard of a client that was never
\* drained is that of the shared copy.
THEOREM TotalsRight == Spec => []TotalMatches
<1>1. Init => TotalInv
  BY DEF Init, TotalInv
<1>2. FeedInv /\ TotalInv => TotalMatches
  <2> SUFFICES ASSUME FeedInv, TotalInv, NEW c \in subscribers \ lossy,
                      wpc = "up", queue[c] = <<>>, Live(dirty[c]) = {}, removed[c] = {}
               PROVE  dashTotal[c] = Cardinality(Live(entityState))
    BY DEF TotalMatches
  <2>1. todo = {} /\ c \notin draining
    BY DEF FeedInv, SenderInv
  <2>2. dashTotal[c] = Cardinality(Live(shown[c]))
    BY <2>1 DEF TotalInv
  <2>3. ASSUME NEW e \in Entity PROVE shown[c][e] # Gone <=> entityState[e] # Gone
    <3>1. LiveAfter(<<>>, 0, e, Local(c, e) # Gone) <=> entityState[e] # Gone
      <4>1. Len(<<>>) = 0
        OBVIOUS
      <4> QED
        BY <2>1, <4>1, LiveSubscriber
    <3>2. Local(c, e) = shown[c][e]
      BY DEF Local, Live
    <3> QED
      BY <3>1, <3>2, LiveNow
  <2>4. Live(shown[c]) = Live(entityState)
    BY <2>3 DEF Live
  <2> QED
    BY <2>2, <2>4
<1> QED
  BY <1>1, <1>2, TotalStep, FeedInvariant, PTL DEF Spec

\* No card of a client that was never drained goes back to an older value,
\* whatever the load, the watcher's restarts and the channels do.
THEOREM CardsInOrder == Spec => CardsNeverGoBack
<1>1. FeedInv /\ AgeInv /\ [Next]_vars =>
        [\A c \in Client \ lossy', e \in Entity, k \in Key :
           /\ pc[c] = "loop" /\ pc'[c] = "loop"
           /\ shown[c][e][k] # 0 /\ shown'[c][e][k] # 0
           => shown'[c][e][k] >= shown[c][e][k]]_vars
  <2> SUFFICES ASSUME FeedInv, AgeInv, Next, NEW c \in Client \ lossy', NEW e \in Entity, NEW k \in Key,
                      pc[c] = "loop", pc'[c] = "loop", shown[c][e][k] # 0, shown'[c][e][k] # 0
               PROVE  shown'[c][e][k] >= shown[c][e][k]
    OBVIOUS
  <2>1. TypeOK /\ ClientInv /\ CopyAges
    BY DEF FeedInv, AgeInv
  <2>2. shown[c][e][k] \in Nat /\ shown'[c][e][k] \in Nat
    <3>1. TypeOK'
      BY <2>1, NextType
    <3> QED
      BY <2>1, <3>1 DEF TypeOK, State
  <2>3. CASE Flush(c)
    <3>1. c \in Client \ lossy /\ CardAges(c)
      BY <2>3 DEF Flush, AgeInv
    <3>2. Older(shown[c][e][k], shown'[c][e][k])
      BY <2>1, <2>3, <3>1, AgesFlush
    <3> QED
      BY <2>2, <3>2 DEF Older
  <2>4. CASE ~Flush(c)
    <3>1. shown'[c] = shown[c]
      <4>1. CASE Bucket \/ WatchStart \/ WatchStop \/ ApplyNothing \/ Apply \/ BroadcastBegin
                 \/ BroadcastEnd \/ (\E j \in Key : LoadKey(j))
        BY <4>1
           DEF Bucket, KVPut, KVDelete, Write, WatchStart, WatchStop, ApplyNothing, Apply,
               BroadcastBegin, BroadcastEnd, LoadKey, clientVars
      <4>2. ASSUME NEW d \in Client, Send(d) \/ SendFull(d) \/ DrainOne(d) \/ DrainDone(d)
                                     \/ Cancel(d) \/ Unsubscribe(d)
            PROVE  shown'[c] = shown[c]
        BY <4>2 DEF Send, SendFull, DrainOne, DrainDone, Cancel, Unsubscribe, clientVars
      <4>3. ASSUME NEW d \in Client, Connect(d) \/ AlreadyStarted(d) \/ StartLoad(d)
            \/ StartFails(d)
                                     \/ FinishLoad(d) \/ Register(d)
            PROVE  shown'[c] = shown[c]
        BY <2>1, <4>3
           DEF Connect, AlreadyStarted, StartLoad, StartFails, FinishLoad, Register,
               clientVars, TypeOK
      <4>4. ASSUME NEW d \in Client, ReceiveUpdate(d) \/ ReceiveFullSnapshot(d) \/ TakeSnapshot(d)
            PROVE  shown'[c] = shown[c]
        BY <4>4 DEF ReceiveUpdate, ReceiveFullSnapshot, TakeSnapshot, clientVars
      <4>5. ASSUME NEW d \in Client, Flush(d) \/ Leave(d) PROVE shown'[c] = shown[c]
        BY <2>1, <2>4, <4>5 DEF Flush, Leave, TypeOK
      <4>6. ~Crash
        BY DEF Crash
      <4> QED
        BY <4>1, <4>2, <4>3, <4>4, <4>5, <4>6 DEF Next, Watch, Subscribe, Loop
    <3> QED
      BY <2>2, <3>1
  <2> QED
    BY <2>3, <2>4
<1> QED
  BY <1>1, Ages, FeedInvariant, PTL DEF Spec, CardsNeverGoBack
=============================================================================
