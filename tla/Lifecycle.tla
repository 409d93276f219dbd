----------------------------- MODULE Lifecycle -----------------------------
(***************************************************************************)
(* The process from its start to its stop: the schema of the database is   *)
(* made or verified, the services start one after the other, serve, and    *)
(* are stopped in reverse order under one deadline                         *)
(* (cmd/microlith/main.go, cmdStart; db/service.go; services/service.go).  *)
(* An error of a start ends the process on the spot, as a crash does.      *)
(*                                                                         *)
(* The schema is the prefix of its statements that were executed: first    *)
(* those that make the tables VerifySchema asks for, then the one that     *)
(* makes the table of sessions if there is none, then indexes, triggers    *)
(* and views.                                                              *)
(***************************************************************************)
EXTENDS Naturals, FiniteSets

CONSTANTS
  Worker, Request,
  Tables,      \* statements that make a required table
  Statements,  \* statements of schema.sql
  MaxFail,     \* bound: statements and starts that fail
  MaxCrash     \* bound: crashes

ASSUME LifecycleAssumption ==
  /\ Tables \in Nat \ {0} /\ Statements \in Nat /\ Tables < Statements
  /\ MaxFail \in Nat /\ MaxCrash \in Nat

VARIABLES
  file,       \* the database file exists
  made,       \* statements of the schema that were executed
  sessions,   \* the table of sessions exists
  phase,      \* where main is
  next,       \* the next statement of a schema that is being made
  lacking,    \* a migration of this start failed
  db, nats, listening,
  poller,     \* the MediaMTX client: off, on, cancelled
  worker,     \* worker[w]: off, idle, busy, or ended
  cancelled,  \* the workers' context
  request,    \* request[r]: none, query, or stream
  expired,    \* the shutdown context
  fails, crashes

disk     == <<file, made, sessions>>
services == <<db, nats, listening, poller, worker, cancelled>>
vars     == <<disk, phase, next, lacking, services, request, expired, fails, crashes>>

Starting == {"create", "verify", "recreate", "migrate", "nats", "workers", "bootstrap", "web", "notify"}
Stopping == {"poller", "http", "drainHTTP", "workersStop", "drainWorkers", "natsStop", "dbStop", "exit"}

\* What a process that is not there holds.
Volatile ==
  /\ phase = "down" /\ next = 1 /\ lacking = FALSE
  /\ db = FALSE /\ nats = FALSE /\ listening = FALSE /\ poller = "off"
  /\ worker = [w \in Worker |-> "off"] /\ cancelled = FALSE
  /\ request = [r \in Request |-> "none"] /\ expired = FALSE

\* A fresh disk, or the database of a release before there were sessions.
Init ==
  /\ Volatile /\ fails = 0 /\ crashes = 0 /\ sessions = FALSE
  /\ \/ file = FALSE /\ made = 0
     \/ file = TRUE /\ made = Statements

Fail == fails < MaxFail /\ fails' = fails + 1

\* os.Exit: nothing is stopped.
Die ==
  /\ phase' = "down" /\ next' = 1 /\ lacking' = FALSE
  /\ db' = FALSE /\ nats' = FALSE /\ listening' = FALSE /\ poller' = "off"
  /\ worker' = [w \in Worker |-> "off"] /\ cancelled' = FALSE
  /\ request' = [r \in Request |-> "none"] /\ expired' = FALSE
  /\ UNCHANGED disk

Goto(p) == phase' = p

-----------------------------------------------------------------------------
(* The start.                                                              *)

\* db.New: whether the file was there decides on the schema.
Boot ==
  /\ phase = "down" /\ Goto(IF file THEN "verify" ELSE "create")
  /\ file' = TRUE /\ db' = TRUE
  /\ UNCHANGED <<made, sessions, next, lacking, nats, listening, poller, worker, cancelled,
                 request, expired, fails, crashes>>

\* No directory, or no answer to the Ping, which may have made an empty file.
BootFails ==
  /\ phase = "down" /\ Fail /\ file' \in {file, TRUE}
  /\ UNCHANGED <<made, sessions, phase, next, lacking, services, request, expired, crashes>>

\* CREATE of what is there is an error, but for the table of sessions.
Exists(i) == i <= made /\ i # Tables + 1

\* Mutation: the statements have no end.
Execute_NoEnd ==
  /\ phase \in {"create", "recreate"} /\ ~Exists(next)
  /\ made' = (IF next > made THEN next ELSE made) /\ next' = next + 1
  /\ sessions' = (sessions \/ next = Tables + 1)
  /\ UNCHANGED <<file, phase, lacking, services, request, expired, fails, crashes>>

\* InitializeSchema, statement by statement, each committed for itself.
Execute ==
  /\ phase \in {"create", "recreate"} /\ next <= Statements /\ ~Exists(next)
  /\ made' = (IF next > made THEN next ELSE made) /\ next' = next + 1
  /\ sessions' = (sessions \/ next = Tables + 1)
  /\ UNCHANGED <<file, phase, lacking, services, request, expired, fails, crashes>>

ExecuteFails ==
  /\ phase \in {"create", "recreate"} /\ next <= Statements
  /\ \/ Exists(next) /\ UNCHANGED fails
     \/ Fail
  /\ Die /\ UNCHANGED crashes

Created ==
  /\ phase \in {"create", "recreate"} /\ next > Statements
  /\ Goto(IF phase = "create" THEN "verify" ELSE "migrate") /\ next' = 1
  /\ UNCHANGED <<disk, lacking, services, request, expired, fails, crashes>>

\* Mutation: a file is a database.
TablesThere_File == file

TablesThere == made >= Tables

\* VerifySchema asks for the tables only; a question that fails is a no.
Verify ==
  /\ phase = "verify"
  /\ \/ Goto(IF TablesThere THEN "migrate" ELSE "recreate") /\ UNCHANGED fails
     \/ Fail /\ Goto("recreate")
  /\ UNCHANGED <<disk, next, lacking, services, request, expired, crashes>>

\* MigrateSchema; an error is only logged.  Its steps (the table of sessions,
\* its index, the column user_ref) are one here: the table stands for them all.
Migrate ==
  /\ phase = "migrate" /\ Goto("nats")
  /\ \/ sessions' = TRUE /\ UNCHANGED <<lacking, fails>>
     \/ Fail /\ lacking' = TRUE /\ UNCHANGED sessions
  /\ UNCHANGED <<file, made, next, services, request, expired, crashes>>

StartNATS ==
  /\ phase = "nats" /\ Goto("workers") /\ nats' = TRUE
  /\ UNCHANGED <<disk, next, lacking, db, listening, poller, worker, cancelled,
                 request, expired, fails, crashes>>

StartWorkers ==
  /\ phase = "workers" /\ Goto("bootstrap") /\ worker' = [w \in Worker |-> "idle"]
  /\ UNCHANGED <<disk, next, lacking, db, nats, listening, poller, cancelled,
                 request, expired, fails, crashes>>

\* bootstrapAdmin, routers and handlers; see Invites and NKeyUsers.
Bootstrap ==
  /\ phase = "bootstrap" /\ Goto("web")
  /\ UNCHANGED <<disk, next, lacking, services, request, expired, fails, crashes>>

\* The client polls before the port is bound.
StartPoller ==
  /\ phase = "web" /\ poller = "off" /\ poller' = "on"
  /\ UNCHANGED <<disk, phase, next, lacking, db, nats, listening, worker, cancelled,
                 request, expired, fails, crashes>>

Listen ==
  /\ phase = "web" /\ poller = "on" /\ Goto("notify") /\ listening' = TRUE
  /\ UNCHANGED <<disk, next, lacking, db, nats, poller, worker, cancelled,
                 request, expired, fails, crashes>>

StartFails ==
  /\ phase \in {"nats", "workers", "bootstrap", "web"}
  /\ Fail /\ Die /\ UNCHANGED crashes

NotifySignals ==
  /\ phase = "notify" /\ Goto("running")
  /\ UNCHANGED <<disk, next, lacking, services, request, expired, fails, crashes>>

Crash ==
  /\ phase # "down" /\ crashes < MaxCrash /\ crashes' = crashes + 1
  /\ Die /\ UNCHANGED fails

-----------------------------------------------------------------------------
(* Work.                                                                   *)

SetRequest(r, what) ==
  /\ request' = [request EXCEPT ![r] = what]
  /\ UNCHANGED <<disk, phase, next, lacking, services, expired, fails, crashes>>

\* A page or an API call, or a stream of events, which lasts until its client leaves.
Accept(r) == listening /\ request[r] = "none" /\ \E what \in {"query", "stream"} : SetRequest(r, what)
Finish(r) == request[r] = "query" /\ SetRequest(r, "none")
Hangup(r) == request[r] = "stream" /\ SetRequest(r, "none")

SetWorker(w, what) ==
  /\ worker' = [worker EXCEPT ![w] = what]
  /\ UNCHANGED <<disk, phase, next, lacking, db, nats, listening, poller, cancelled,
                 request, expired, fails, crashes>>

\* A batch is handled to its end; the loop then looks at the context.
Fetch(w)  == worker[w] = "idle" /\ ~cancelled /\ SetWorker(w, "busy")
Handle(w) == worker[w] = "busy" /\ SetWorker(w, "idle")
End(w)    == worker[w] = "idle" /\ cancelled /\ SetWorker(w, "ended")

\* The worker cannot subscribe, which is only logged: the others serve without it.
SubscribeFails(w) ==
  /\ worker[w] = "idle" /\ Fail /\ worker' = [worker EXCEPT ![w] = "ended"]
  /\ UNCHANGED <<disk, phase, next, lacking, db, nats, listening, poller, cancelled,
                 request, expired, crashes>>

PollerEnds ==
  /\ poller = "cancelled" /\ poller' = "off"
  /\ UNCHANGED <<disk, phase, next, lacking, db, nats, listening, worker, cancelled,
                 request, expired, fails, crashes>>

-----------------------------------------------------------------------------
(* The stop.                                                               *)

\* The deadline of all services starts to run.
Signal ==
  /\ phase = "running" /\ Goto("poller") /\ poller' = "cancelled"
  /\ UNCHANGED <<disk, next, lacking, db, nats, listening, worker, cancelled,
                 request, expired, fails, crashes>>

Deadline ==
  /\ phase \in Stopping /\ ~expired /\ expired' = TRUE
  /\ UNCHANGED <<disk, phase, next, lacking, services, request, fails, crashes>>

\* mtxClient.Stop waits for its goroutine, without the deadline.
PollerStopped ==
  /\ phase = "poller" /\ poller = "off" /\ Goto("http")
  /\ UNCHANGED <<disk, next, lacking, services, request, expired, fails, crashes>>

CloseListener ==
  /\ phase = "http" /\ Goto("drainHTTP") /\ listening' = FALSE
  /\ UNCHANGED <<disk, next, lacking, db, nats, poller, worker, cancelled,
                 request, expired, fails, crashes>>

\* Mutation: the server waits for its streams.
RequestsDone_NoDeadline == \A r \in Request : request[r] = "none"

\* http.Server.Shutdown waits for the connections or the deadline.
RequestsDone == expired \/ \A r \in Request : request[r] = "none"

DrainHTTP ==
  /\ phase = "drainHTTP" /\ RequestsDone /\ Goto("workersStop")
  /\ UNCHANGED <<disk, next, lacking, services, request, expired, fails, crashes>>

StopWorkers ==
  /\ phase = "workersStop" /\ Goto("drainWorkers") /\ cancelled' = TRUE
  /\ UNCHANGED <<disk, next, lacking, db, nats, listening, poller, worker,
                 request, expired, fails, crashes>>

\* Mutation: the goroutines are cancelled and not waited for.
WorkersDone_NoWait == TRUE

\* Manager.Stop waits for the goroutines or the deadline, then closes the connection.
WorkersDone == expired \/ \A w \in Worker : worker[w] = "ended"

DrainWorkers ==
  /\ phase = "drainWorkers" /\ WorkersDone /\ Goto("natsStop")
  /\ UNCHANGED <<disk, next, lacking, services, request, expired, fails, crashes>>

StopNATS ==
  /\ phase = "natsStop" /\ Goto("dbStop") /\ nats' = FALSE
  /\ UNCHANGED <<disk, next, lacking, db, listening, poller, worker, cancelled,
                 request, expired, fails, crashes>>

\* DB.Close lets the statement that runs end.
CloseDB ==
  /\ phase = "dbStop" /\ Goto("exit") /\ db' = FALSE
  /\ UNCHANGED <<disk, next, lacking, nats, listening, poller, worker, cancelled,
                 request, expired, fails, crashes>>

\* cmdStart returns, and with it the goroutines that are left.
Exit == phase = "exit" /\ Die /\ UNCHANGED <<fails, crashes>>

StopStep ==
  \/ PollerStopped \/ CloseListener \/ DrainHTTP \/ StopWorkers \/ DrainWorkers
  \/ StopNATS \/ CloseDB \/ Exit

StartStep ==
  \/ Execute \/ ExecuteFails \/ Created \/ Verify \/ Migrate \/ StartNATS \/ StartWorkers
  \/ Bootstrap \/ StartPoller \/ Listen \/ StartFails \/ NotifySignals

Next ==
  \/ Boot \/ BootFails \/ StartStep \/ Signal \/ Deadline \/ StopStep \/ PollerEnds \/ Crash
  \/ \E r \in Request : Accept(r) \/ Finish(r) \/ Hangup(r)
  \/ \E w \in Worker : Fetch(w) \/ Handle(w) \/ End(w) \/ SubscribeFails(w)

Spec == Init /\ [][Next]_vars

\* The scheduler runs every goroutine, handlers return and deadlines pass; no
\* client has to leave its stream.
FairSpec ==
  /\ Spec /\ WF_vars(StartStep) /\ WF_vars(StopStep) /\ WF_vars(Deadline) /\ WF_vars(PollerEnds)
  /\ \A r \in Request : WF_vars(Finish(r))
  /\ \A w \in Worker : WF_vars(Handle(w)) /\ WF_vars(End(w))
-----------------------------------------------------------------------------
TypeOK ==
  /\ file \in BOOLEAN /\ made \in 0..Statements /\ sessions \in BOOLEAN
  /\ phase \in {"down", "running"} \cup Starting \cup Stopping
  /\ next \in 1..Statements + 1 /\ lacking \in BOOLEAN
  /\ db \in BOOLEAN /\ nats \in BOOLEAN /\ listening \in BOOLEAN
  /\ poller \in {"off", "on", "cancelled"}
  /\ worker \in [Worker -> {"off", "idle", "busy", "ended"}] /\ cancelled \in BOOLEAN
  /\ request \in [Request -> {"none", "query", "stream"}] /\ expired \in BOOLEAN
  /\ fails \in 0..MaxFail /\ crashes \in 0..MaxCrash

(***************************************************************************)
(* Whoever is served is served by a database that has the tables           *)
(* (db/service.go, VerifySchema and MigrateSchema), wherever an earlier    *)
(* start was cut off while it made them, and by services that were         *)
(* started.  Only the table of sessions may lack, when its migration       *)
(* failed in this start, and a worker may have ended because it could not  *)
(* subscribe: both are only logged.                                        *)
(***************************************************************************)
ServedByAll ==
  listening => /\ db /\ nats /\ ~cancelled /\ \A w \in Worker : worker[w] # "off"
               /\ made >= Tables /\ (sessions \/ lacking)

(***************************************************************************)
(* Before the deadline no handler, stream or batch is cut off: the broker  *)
(* and the database stop when none is left and every worker has ended      *)
(* (services/service.go, Stop in reverse order; workers/manager.go, Stop). *)
(* The goroutine that copies an organization's new name into the bucket    *)
(* (organization.service.go:180) is waited for by none of them.            *)
(***************************************************************************)
NothingCutOff ==
  phase \in Stopping /\ ~expired /\ ~(nats /\ db) =>
    /\ \A w \in Worker : worker[w] = "ended"
    /\ \A r \in Request : request[r] = "none"

(***************************************************************************)
(* A signal ends the process, also when clients keep their streams open    *)
(* and workers are in the middle of a batch (main.go:278, the deadline).   *)
(***************************************************************************)
SignalEnds == phase = "poller" ~> phase = "down"
=============================================================================
