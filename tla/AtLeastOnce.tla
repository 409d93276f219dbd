----------------------------- MODULE AtLeastOnce -----------------------------
(***************************************************************************)
(* What the workers promise of a published message, whatever the order of  *)
(* messages, the workers' steps and the restarts of the server:            *)
(* it is delivered at most MaxDeliver times, it counts as done only after  *)
(* a handler has succeeded on it (it may be handled again later), and it   *)
(* is given up only after its last delivery.                               *)
(***************************************************************************)
EXTENDS Naturals

CONSTANTS Message, MaxDeliver

VARIABLES
  sent,     \* published messages
  count,    \* count[m]: deliveries of m
  handled,  \* messages a handler has succeeded on
  acked,    \* messages that are done
  givenUp   \* messages that will not be delivered again, though not done

vars == <<sent, count, handled, acked, givenUp>>

Init ==
  /\ sent = {} /\ handled = {} /\ acked = {} /\ givenUp = {}
  /\ count = [m \in Message |-> 0]

Send(m) ==
  /\ m \notin sent
  /\ sent' = sent \cup {m}
  /\ UNCHANGED <<count, handled, acked, givenUp>>

\* Messages are delivered in batches.
Deliver(S) ==
  /\ S \subseteq sent \ (acked \cup givenUp)
  /\ \A m \in S : count[m] < MaxDeliver
  /\ count' = [m \in Message |-> IF m \in S THEN count[m] + 1 ELSE count[m]]
  /\ UNCHANGED <<sent, handled, acked, givenUp>>

Handle(m) ==
  /\ m \in sent /\ count[m] > 0
  /\ handled' = handled \cup {m}
  /\ UNCHANGED <<sent, count, acked, givenUp>>

Done(m) ==
  /\ m \in handled \ givenUp
  /\ acked' = acked \cup {m}
  /\ UNCHANGED <<sent, count, handled, givenUp>>

GiveUp(m) ==
  /\ m \in sent \ acked /\ count[m] = MaxDeliver
  /\ givenUp' = givenUp \cup {m}
  /\ UNCHANGED <<sent, count, handled, acked>>

Next ==
  \/ \E m \in Message : Send(m) \/ Handle(m) \/ Done(m) \/ GiveUp(m)
  \/ \E S \in SUBSET Message : Deliver(S)

Spec == Init /\ [][Next]_vars
=============================================================================
