----------------------------- MODULE WorkQueue -----------------------------
(***************************************************************************)
(* A NATS JetStream work-queue stream and the durable queue consumer that  *)
(* reads it, as the subscriptions of the workers use them: explicit acks,  *)
(* MaxDeliver, AckWait, MaxAckPending.  The server is external; this is    *)
(* what the options in the code ask of it.  A worker's module EXTENDS this *)
(* one and adds the worker's callback.                                     *)
(*                                                                         *)
(* The server pushes deliveries into the buffer of a worker's client, and  *)
(* a message's AckWait runs while the message is in that buffer.           *)
(***************************************************************************)
EXTENDS Naturals, Sequences, FiniteSets

CONSTANTS
  Msg,            \* the messages of a run
  Junk,           \* those whose payload the worker cannot unmarshal
  Worker,         \* members of the queue group
  MaxDeliver,     \* deliveries of one message
  MaxAckPending,  \* deliveries not acknowledged at one time
  Ages,           \* whether messages reach the MaxAge of the stream
  Faults          \* whether calls and acks are lost and workers die

ASSUME QueueAssumption ==
  /\ Junk \subseteq Msg
  /\ MaxDeliver \in Nat \ {0}
  /\ MaxAckPending \in Nat \ {0}
  /\ Ages \in BOOLEAN /\ Faults \in BOOLEAN

VARIABLES
  status,  \* the stream: what has become of each message
  tries,   \* the consumer: deliveries of each message
  inbox    \* the clients: deliveries not yet handed to the callback, in order

queueVars == <<status, tries, inbox>>

QueueTypeOK ==
  /\ status \in [Msg -> {"absent", "waiting", "pending", "acked", "spent", "aged"}]
  /\ tries \in [Msg -> 0..MaxDeliver]
  /\ inbox \in [Worker -> Seq(Msg)]

QueueInit ==
  /\ status = [m \in Msg |-> "absent"]
  /\ tries = [m \in Msg |-> 0]
  /\ inbox = [w \in Worker |-> <<>>]

\* What a message becomes that was not acknowledged: it waits for the next
\* delivery, and after the last one it stays in the stream, undelivered.
Unacked(m) == IF tries[m] < MaxDeliver THEN "waiting" ELSE "spent"

\* Effects of msg.Ack() and msg.Nak() on the stream.  Both are fire and forget.
Acked(m) ==
  \/ status' = [status EXCEPT ![m] = IF @ \in {"waiting", "pending"} THEN "acked" ELSE @]
  \/ Faults /\ UNCHANGED status

Naked(m) ==
  \/ status' = [status EXCEPT ![m] = IF @ = "pending" THEN Unacked(m) ELSE @]
  \/ Faults /\ UNCHANGED status

\* A producer publishes the message.
Store(m) ==
  /\ status[m] = "absent"
  /\ status' = [status EXCEPT ![m] = "waiting"]
  /\ UNCHANGED <<tries, inbox>>

Pending == {m \in Msg : status[m] = "pending"}

\* First deliveries and redeliveries mix, so any waiting message may be next.
Deliver(m, w) ==
  /\ status[m] = "waiting"
  /\ Cardinality(Pending) < MaxAckPending
  /\ status' = [status EXCEPT ![m] = "pending"]
  /\ tries' = [tries EXCEPT ![m] = @ + 1]
  /\ inbox' = [inbox EXCEPT ![w] = Append(@, m)]

\* AckWait has passed, wherever the delivery is.
Lapse(m) ==
  /\ status[m] = "pending"
  /\ status' = [status EXCEPT ![m] = Unacked(m)]
  /\ UNCHANGED <<tries, inbox>>

\* MaxAge of the stream has passed.
AgeOut(m) ==
  /\ Ages /\ status[m] \in {"waiting", "pending", "spent"}
  /\ status' = [status EXCEPT ![m] = "aged"]
  /\ UNCHANGED <<tries, inbox>>

QueueNext ==
  \/ \E m \in Msg : Store(m) \/ Lapse(m) \/ AgeOut(m)
  \/ \E m \in Msg, w \in Worker : Deliver(m, w)
=============================================================================
