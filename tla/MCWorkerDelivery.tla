-------------------------- MODULE MCWorkerDelivery --------------------------
(***************************************************************************)
(* Instances of WorkerDelivery: a handful of messages about one entity.    *)
(***************************************************************************)
EXTENDS WorkerDelivery

CONSTANTS e1, boot, reboot, shutdown, position, broken

KindOf == [m \in Message |-> CASE m \in {boot, reboot} -> "bootsequence"
                               [] m = shutdown -> "shutdown"
                               [] m = position -> "telemetry"
                               [] m = broken -> "malformed"]

StreamOfKind == [m \in Message |-> IF m = position THEN "telemetry" ELSE "events"]

AboutOne == [m \in Message |-> e1]
=============================================================================
