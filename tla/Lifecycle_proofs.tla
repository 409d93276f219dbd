-------------------------- MODULE Lifecycle_proofs --------------------------
(***************************************************************************)
(* Proofs about Lifecycle, for any number of workers and requests and for  *)
(* a schema of any length.  The invariant says what is up in each phase of *)
(* main, and that the statement a schema is made with is never beyond the  *)
(* first one that is missing, so that a schema made to its end is whole.   *)
(***************************************************************************)
EXTENDS Lifecycle, TLAPS

Served   == {"notify", "running", "poller", "http"}
Draining == {"drainHTTP", "workersStop", "drainWorkers", "natsStop", "dbStop", "exit"}
Cancelled == {"drainWorkers", "natsStop", "dbStop", "exit"}
NatsUp   == {"workers", "bootstrap", "web", "workersStop", "drainHTTP", "drainWorkers", "natsStop"} \cup Served
WorkersUp == {"bootstrap", "web"} \cup Served \cup Draining
Migrated == {"nats"} \cup NatsUp \cup WorkersUp

\* TypeOK in parts.
Counters == /\ made \in 0..Statements /\ next \in 1..Statements + 1
            /\ fails \in 0..MaxFail /\ crashes \in 0..MaxCrash
Flags    == /\ file \in BOOLEAN /\ sessions \in BOOLEAN /\ lacking \in BOOLEAN /\ db \in BOOLEAN
            /\ nats \in BOOLEAN /\ listening \in BOOLEAN /\ cancelled \in BOOLEAN /\ expired \in BOOLEAN
Places   == /\ phase \in {"down", "running"} \cup Starting \cup Stopping
            /\ poller \in {"off", "on", "cancelled"}
            /\ worker \in [Worker -> {"off", "idle", "busy", "ended"}]
            /\ request \in [Request -> {"none", "query", "stream"}]

SchemaSound ==
  /\ next <= made + 1
  /\ phase \in {"migrate"} \cup Migrated => made >= Tables
  /\ phase \in Migrated => sessions \/ lacking

UpByPhase ==
  /\ db <=> phase \notin {"down", "exit"}
  /\ nats <=> phase \in NatsUp
  /\ listening <=> phase \in Served
  /\ cancelled <=> phase \in Cancelled
  /\ phase \in WorkersUp => \A w \in Worker : worker[w] # "off"
  /\ phase \notin WorkersUp => \A w \in Worker : worker[w] = "off"

Drained ==
  /\ phase \notin Served \cup Draining => \A r \in Request : request[r] = "none"
  /\ phase \in Draining \ {"drainHTTP"} /\ ~expired => \A r \in Request : request[r] = "none"
  /\ phase \in {"natsStop", "dbStop", "exit"} /\ ~expired => \A w \in Worker : worker[w] = "ended"

LifecycleInv == TypeOK /\ SchemaSound /\ UpByPhase /\ Drained

LEMMA LifecycleInit == Init => LifecycleInv
<1> SUFFICES ASSUME Init PROVE LifecycleInv
  OBVIOUS
<1> USE LifecycleAssumption DEF Init, Volatile
<1>1. TypeOK
  <2>1. Counters
    BY DEF Counters
  <2>2. Flags
    BY DEF Flags
  <2>3. Places
    BY DEF Places
  <2> QED
    BY <2>1, <2>2, <2>3 DEF TypeOK, Counters, Flags, Places
<1>2. SchemaSound
  BY DEF SchemaSound, Served, Draining, NatsUp, WorkersUp, Migrated
<1>3. UpByPhase
  BY DEF UpByPhase, Served, Draining, Cancelled, NatsUp, WorkersUp
<1>4. Drained
  BY DEF Drained, Served, Draining
<1> QED
  BY <1>1, <1>2, <1>3, <1>4 DEF LifecycleInv

LEMMA DieKeepsInv ==
  ASSUME LifecycleInv, Die, fails' \in 0..MaxFail, crashes' \in 0..MaxCrash
  PROVE  LifecycleInv'
<1> USE LifecycleAssumption DEF Die, disk, LifecycleInv, TypeOK, SchemaSound, UpByPhase, Drained,
        Served, Draining, Cancelled, NatsUp, WorkersUp, Migrated, Starting, Stopping
<1>1. TypeOK'
  <2>1. Counters'
    BY DEF Counters
  <2>2. Flags'
    BY DEF Flags
  <2>3. Places'
    BY DEF Places
  <2> QED
    BY <2>1, <2>2, <2>3 DEF Counters, Flags, Places
<1>2. SchemaSound'
  OBVIOUS
<1>3. UpByPhase'
  OBVIOUS
<1>4. Drained'
  OBVIOUS
<1> QED
  BY <1>1, <1>2, <1>3, <1>4

LEMMA StartKeepsInv ==
  ASSUME LifecycleInv, Boot \/ BootFails \/ StartStep
  PROVE  LifecycleInv'
<1> USE LifecycleAssumption DEF LifecycleInv, TypeOK, Starting, Stopping, disk, services, Goto, Fail,
        SchemaSound, UpByPhase, Drained, Served, Draining, Cancelled, NatsUp, WorkersUp, Migrated
<1>1. CASE Boot
  BY <1>1 DEF Boot
<1>2. CASE BootFails
  <2>1. TypeOK'
    <3>1. Counters'
      BY <1>2 DEF Counters, BootFails
    <3>2. Flags'
      BY <1>2 DEF Flags, BootFails
    <3>3. Places'
      BY <1>2 DEF Places, BootFails
    <3> QED
      BY <3>1, <3>2, <3>3 DEF Counters, Flags, Places
  <2>2. SchemaSound' /\ UpByPhase' /\ Drained'
    BY <1>2 DEF BootFails
  <2> QED
    BY <2>1, <2>2
<1>3. CASE Execute
  BY <1>3 DEF Execute, Exists
<1>4. CASE ExecuteFails
  <2>1. fails' \in 0..MaxFail /\ crashes' \in 0..MaxCrash
    BY <1>4 DEF ExecuteFails
  <2> QED
    BY <1>4, <2>1, DieKeepsInv DEF ExecuteFails
<1>5. CASE Created
  BY <1>5 DEF Created
<1>6. CASE Verify
  BY <1>6 DEF Verify, TablesThere
<1>7. CASE Migrate
  <2>1. TypeOK'
    <3>1. Counters'
      BY <1>7 DEF Counters, Migrate
    <3>2. Flags'
      BY <1>7 DEF Flags, Migrate
    <3>3. Places'
      BY <1>7 DEF Places, Migrate
    <3> QED
      BY <3>1, <3>2, <3>3 DEF Counters, Flags, Places
  <2>2. SchemaSound'
    BY <1>7 DEF Migrate
  <2>3. UpByPhase'
    BY <1>7 DEF Migrate
  <2>4. Drained'
    BY <1>7 DEF Migrate
  <2> QED
    BY <2>1, <2>2, <2>3, <2>4
<1>8. CASE StartNATS
  BY <1>8 DEF StartNATS
<1>9. CASE StartWorkers
  BY <1>9 DEF StartWorkers
<1>10. CASE Bootstrap \/ StartPoller \/ Listen \/ NotifySignals
  <2>1. TypeOK'
    BY <1>10 DEF Bootstrap, StartPoller, Listen, NotifySignals
  <2>2. SchemaSound'
    BY <1>10 DEF Bootstrap, StartPoller, Listen, NotifySignals
  <2>3. UpByPhase'
    BY <1>10 DEF Bootstrap, StartPoller, Listen, NotifySignals
  <2>4. Drained'
    BY <1>10 DEF Bootstrap, StartPoller, Listen, NotifySignals
  <2> QED
    BY <2>1, <2>2, <2>3, <2>4
<1>11. CASE StartFails
  <2>1. fails' \in 0..MaxFail /\ crashes' \in 0..MaxCrash
    BY <1>11 DEF StartFails
  <2> QED
    BY <1>11, <2>1, DieKeepsInv DEF StartFails
<1> QED
  BY <1>1, <1>3, <1>4, <1>5, <1>6, <1>7, <1>8, <1>9, <1>10, <1>11, <1>2 DEF StartStep

LEMMA StopKeepsInv ==
  ASSUME LifecycleInv, Signal \/ Deadline \/ StopStep \/ PollerEnds \/ Crash
  PROVE  LifecycleInv'
<1> USE LifecycleAssumption DEF LifecycleInv, TypeOK, Starting, Stopping, disk, services, Goto,
        SchemaSound, UpByPhase, Drained, Served, Draining, Cancelled, NatsUp, WorkersUp, Migrated
<1>1. CASE Signal \/ Deadline \/ PollerEnds \/ PollerStopped \/ CloseListener
  <2>1. TypeOK'
    <3>1. Counters'
      BY <1>1 DEF Counters, Signal, Deadline, PollerEnds, PollerStopped, CloseListener
    <3>2. Flags'
      BY <1>1 DEF Flags, Signal, Deadline, PollerEnds, PollerStopped, CloseListener
    <3>3. Places'
      BY <1>1 DEF Places, Signal, Deadline, PollerEnds, PollerStopped, CloseListener
    <3> QED
      BY <3>1, <3>2, <3>3 DEF Counters, Flags, Places
  <2>2. SchemaSound'
    BY <1>1 DEF Signal, Deadline, PollerEnds, PollerStopped, CloseListener
  <2>3. UpByPhase'
    BY <1>1 DEF Signal, Deadline, PollerEnds, PollerStopped, CloseListener
  <2>4. Drained'
    BY <1>1 DEF Signal, Deadline, PollerEnds, PollerStopped, CloseListener
  <2> QED
    BY <2>1, <2>2, <2>3, <2>4
<1>2. CASE DrainHTTP \/ StopWorkers
  <2>1. TypeOK'
    BY <1>2 DEF DrainHTTP, RequestsDone, StopWorkers
  <2>2. SchemaSound'
    BY <1>2 DEF DrainHTTP, RequestsDone, StopWorkers
  <2>3. UpByPhase'
    BY <1>2 DEF DrainHTTP, RequestsDone, StopWorkers
  <2>4. Drained'
    BY <1>2 DEF DrainHTTP, RequestsDone, StopWorkers
  <2> QED
    BY <2>1, <2>2, <2>3, <2>4
<1>3. CASE DrainWorkers
  BY <1>3 DEF DrainWorkers, WorkersDone
<1>4. CASE StopNATS \/ CloseDB
  <2>1. TypeOK'
    BY <1>4 DEF StopNATS, CloseDB
  <2>2. SchemaSound'
    BY <1>4 DEF StopNATS, CloseDB
  <2>3. UpByPhase'
    BY <1>4 DEF StopNATS, CloseDB
  <2>4. Drained'
    BY <1>4 DEF StopNATS, CloseDB
  <2> QED
    BY <2>1, <2>2, <2>3, <2>4
<1>5. CASE Exit \/ Crash
  <2>1. fails' \in 0..MaxFail /\ crashes' \in 0..MaxCrash /\ Die
    BY <1>5 DEF Exit, Crash
  <2> QED
    BY <2>1, DieKeepsInv
<1> QED
  BY <1>1, <1>2, <1>3, <1>4, <1>5 DEF StopStep

LEMMA WorkKeepsInv ==
  ASSUME LifecycleInv,
         \/ \E r \in Request : Accept(r) \/ Finish(r) \/ Hangup(r)
         \/ \E w \in Worker : Fetch(w) \/ Handle(w) \/ End(w) \/ SubscribeFails(w)
         \/ UNCHANGED vars
  PROVE  LifecycleInv'
<1> USE LifecycleAssumption DEF LifecycleInv, TypeOK, Starting, Stopping, disk, services,
        SchemaSound, UpByPhase, Drained, Served, Draining, Cancelled, NatsUp, WorkersUp, Migrated
<1>1. CASE \E r \in Request : Accept(r) \/ Finish(r) \/ Hangup(r)
  BY <1>1 DEF Accept, Finish, Hangup, SetRequest
<1>2. CASE \E w \in Worker : Fetch(w) \/ Handle(w) \/ End(w) \/ SubscribeFails(w)
  BY <1>2 DEF Fetch, Handle, End, SetWorker, SubscribeFails, Fail
<1>3. CASE UNCHANGED vars
  BY <1>3 DEF vars
<1> QED
  BY <1>1, <1>2, <1>3

THEOREM LifecycleInvariant == Spec => []LifecycleInv
<1>1. LifecycleInv /\ [Next]_vars => LifecycleInv'
  BY StartKeepsInv, StopKeepsInv, WorkKeepsInv DEF Next
<1> QED
  BY LifecycleInit, <1>1, PTL DEF Spec

(***************************************************************************)
(* The variables keep their types (main.go, db/service.go).                *)
(***************************************************************************)
THEOREM LifecycleTypes == Spec => []TypeOK
<1>1. LifecycleInv => TypeOK
  BY DEF LifecycleInv
<1> QED
  BY LifecycleInvariant, <1>1, PTL

(***************************************************************************)
(* Whoever is served is served by started services and by a database with  *)
(* all required tables, wherever starts before were cut off.               *)
(***************************************************************************)
THEOREM ServedIsComplete == Spec => []ServedByAll
<1>1. LifecycleInv => ServedByAll
  BY DEF LifecycleInv, SchemaSound, UpByPhase, ServedByAll,
     Served, Draining, Cancelled, NatsUp, WorkersUp, Migrated
<1> QED
  BY LifecycleInvariant, <1>1, PTL

(***************************************************************************)
(* Before the deadline a stop cuts off no request and no batch.            *)
(***************************************************************************)
THEOREM StopIsGraceful == Spec => []NothingCutOff
<1>1. LifecycleInv => NothingCutOff
  BY DEF LifecycleInv, UpByPhase, Drained, NothingCutOff, Stopping,
     Served, Draining, Cancelled, NatsUp, WorkersUp
<1> QED
  BY LifecycleInvariant, <1>1, PTL
=============================================================================
