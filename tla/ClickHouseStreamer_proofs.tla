---------------------- MODULE ClickHouseStreamer_proofs ----------------------
(***************************************************************************)
(* Proofs about ClickHouseStreamer for any messages, batch size, delivery  *)
(* limits and failures.                                                    *)
(*                                                                         *)
(* An event is acknowledged by the callback that appended it.  Between the *)
(* two, other goroutines may flush the batch any number of times, so the   *)
(* inductive invariant follows the callback's event from the append on: it *)
(* is buffered, or inserted, or was dropped with the process.              *)
(***************************************************************************)
EXTENDS ClickHouseStreamer, SequenceTheorems, FiniteSetTheorems, TLAPS

(* What every consumer of a work queue keeps is proved beside the          *)
(* enrichment workers; only the lemmas about the queue are taken from      *)
(* there, and they say nothing of a callback's state.                      *)
Queue == INSTANCE EnrichmentWorker_proofs WITH
           step <- pc, copies <- rows, harmed <- dropped

QueueInv == QueueTypeOK /\ Queue!DeliveriesLeft

Kept(m) == rows[m] > 0 \/ m \in Buffered \cup dropped

Elems(q) == {q[i] : i \in 1..Len(q)}

DataTypeOK ==
  /\ pc \in [Thread -> {"idle", "append", "flush", "inserting", "ok", "error"}]
  /\ cur \in Msg \cup {None}
  /\ pc["callback"] # "idle" => cur \in Msg
  /\ batch \in Seq(Msg)
  /\ rows \in [Msg -> Nat]
  /\ dropped \subseteq Msg

Inv ==
  /\ QueueInv /\ DataTypeOK
  /\ \A m \in Msg : status[m] = "acked" => Kept(m)
  /\ pc["callback"] \in {"flush", "inserting", "ok"} => Kept(cur)
-----------------------------------------------------------------------------
\* The lemmas hold of this queue: its constants are what they ask for.
LEMMA QueueApplies == Queue!QueueAssumption /\ Queue!WorkerAssumption
BY QueueAssumption, StreamerAssumption DEF Queue!QueueAssumption, Queue!WorkerAssumption

\* The instance and this module have one notion of size and of the queue.
LEMMA SameSize ==
  ASSUME NEW S
  PROVE  (IsFiniteSet(S) <=> Queue!IsFiniteSet(S)) /\ Cardinality(S) = Queue!Cardinality(S)
<1>1. IsFiniteSet(S) <=> Queue!IsFiniteSet(S)
  BY DEF IsFiniteSet, Queue!IsFiniteSet
<1>2. Cardinality(S) = Queue!Cardinality(S)
  BY DEF Cardinality, Queue!Cardinality
<1> QED
  BY <1>1, <1>2

LEMMA SameQueue ==
  /\ QueueInv <=> Queue!QueueInv
  /\ QueueInv' <=> Queue!QueueInv'
BY DEF QueueInv, Queue!QueueInv, QueueTypeOK, Queue!QueueTypeOK

LEMMA SameSteps ==
  ASSUME NEW m \in Msg
  PROVE  /\ Acked(m) => Queue!Acked(m)
         /\ Naked(m) => Queue!Naked(m)
         /\ Store(m) => Queue!Store(m)
         /\ Lapse(m) => Queue!Lapse(m)
         /\ AgeOut(m) => Queue!AgeOut(m)
         /\ \A w \in Worker : Deliver(m, w) => Queue!Deliver(m, w)
<1> USE DEF Unacked, Queue!Unacked, Pending, Queue!Pending
<1>1. Acked(m) => Queue!Acked(m)
  BY DEF Acked, Queue!Acked
<1>2. Naked(m) => Queue!Naked(m)
  BY DEF Naked, Queue!Naked
<1>3. Store(m) => Queue!Store(m)
  BY DEF Store, Queue!Store
<1>4. Lapse(m) => Queue!Lapse(m)
  BY DEF Lapse, Queue!Lapse
<1>5. AgeOut(m) => Queue!AgeOut(m)
  BY DEF AgeOut, Queue!AgeOut
<1>6. \A w \in Worker : Deliver(m, w) => Queue!Deliver(m, w)
  <2>1. Cardinality(Pending) = Queue!Cardinality(Queue!Pending)
    BY SameSize
  <2> QED
    BY <2>1 DEF Deliver, Queue!Deliver
<1> QED
  BY <1>1, <1>2, <1>3, <1>4, <1>5, <1>6

\* An answer, the server's own steps and a delivery leave a queue as it should be.
LEMMA Settling ==
  ASSUME QueueInv, NEW m \in Msg, Acked(m) \/ Naked(m), UNCHANGED <<tries, inbox>>
  PROVE  QueueInv'
BY QueueApplies, SameQueue, SameSteps, Queue!Settling

LEMMA ServerSteps ==
  ASSUME QueueInv, NEW m \in Msg, Store(m) \/ Lapse(m) \/ AgeOut(m), QueueAssumption
  PROVE  QueueInv'
BY QueueApplies, SameQueue, SameSteps, Queue!ServerSteps

LEMMA Delivery ==
  ASSUME QueueInv, NEW m \in Msg, NEW w \in Worker, Deliver(m, w), QueueAssumption
  PROVE  QueueInv'
BY QueueApplies, SameQueue, SameSteps, Queue!Delivery
-----------------------------------------------------------------------------
(* What a sequence is after an append, and what is in it.                  *)
LEMMA Appending ==
  ASSUME NEW S, NEW q \in Seq(S), NEW x \in S
  PROVE  /\ Append(q, x) \in Seq(S)
         /\ Elems(Append(q, x)) = Elems(q) \cup {x}
<1>1. Append(q, x) \in Seq(S)
  OBVIOUS
<1>2. Len(q) \in Nat
  OBVIOUS
<1>3. Len(Append(q, x)) = Len(q) + 1
  OBVIOUS
<1>4. Append(q, x)[Len(q) + 1] = x
  OBVIOUS
<1>5. \A i \in 1..Len(q) : Append(q, x)[i] = q[i]
  OBVIOUS
<1>6. \A i : i \in 1..(Len(q) + 1) <=> i \in 1..Len(q) \/ i = Len(q) + 1
  BY <1>2
<1>7. PICK r : r = Append(q, x)
  OBVIOUS
<1>8. PICK n : n = Len(q) + 1
  OBVIOUS
<1>9. {r[i] : i \in 1..n} = {q[i] : i \in 1..Len(q)} \cup {x}
  BY <1>4, <1>5, <1>6, <1>7, <1>8, Zenon
<1> QED
  BY <1>1, <1>3, <1>7, <1>8, <1>9 DEF Elems

LEMMA InSequence ==
  ASSUME NEW S, NEW q \in Seq(S)
  PROVE  {q[i] : i \in 1..Len(q)} \subseteq S
  OBVIOUS

LEMMA Emptied ==
  ASSUME NEW S, NEW T, NEW f \in [T -> Seq(S)], NEW x
  PROVE  [f EXCEPT ![x] = <<>>] \in [T -> Seq(S)]
  BY EmptySeq

(* How often an event is in the batch is a number, and not 0 if it is.     *)
LEMMA CountIn ==
  ASSUME NEW S, NEW q \in Seq(S), NEW m
  PROVE  /\ Cardinality({i \in 1..Len(q) : q[i] = m}) \in Nat
         /\ m \in Elems(q) => Cardinality({i \in 1..Len(q) : q[i] = m}) > 0
<1> DEFINE P == {i \in 1..Len(q) : q[i] = m}
<1>1. IsFiniteSet(1..Len(q)) /\ P \subseteq 1..Len(q)
  BY FS_Interval
<1>2. IsFiniteSet(P)
  BY <1>1, FS_Subset
<1>3. Cardinality(P) \in Nat /\ (Cardinality(P) = 0 <=> P = {})
  BY <1>2, FS_CardinalityType, FS_EmptySet
<1>4. m \in Elems(q) => P # {}
  BY DEF Elems
<1> QED
  BY <1>3, <1>4

LEMMA Counting ==
  ASSUME DataTypeOK, NEW m \in Msg
  PROVE  Occurrences(m) \in Nat /\ (m \in Buffered => Occurrences(m) > 0)
<1>1. PICK q \in Seq(Msg) : q = batch
  BY DEF DataTypeOK
<1> QED
  BY <1>1, CountIn DEF Occurrences, Buffered, Elems

(* An insert that is applied gives every buffered event a row, and takes   *)
(* no row away.                                                            *)
LEMMA Inserting ==
  ASSUME DataTypeOK, InsertBatch
  PROVE  /\ rows' \in [Msg -> Nat]
         /\ \A m \in Msg : rows[m] > 0 \/ m \in Buffered => rows'[m] > 0
<1>1. ASSUME NEW m \in Msg
      PROVE  rows'[m] \in Nat /\ (rows[m] > 0 \/ m \in Buffered => rows'[m] > 0)
  <2>1. PICK n \in Nat : n = Occurrences(m) /\ (m \in Buffered => n > 0)
    BY Counting
  <2>2. rows[m] \in Nat /\ rows'[m] = rows[m] + n
    BY <2>1 DEF InsertBatch, DataTypeOK
  <2> QED
    BY <2>1, <2>2
<1>2. rows' = [m \in Msg |-> rows'[m]]
  BY DEF InsertBatch
<1> QED
  BY <1>1, <1>2

(* A step after which what was kept is kept, that acknowledges only what   *)
(* is kept and takes the callback only to an event that is, keeps Inv.     *)
LEMMA KeptIsKept ==
  ASSUME Inv, QueueInv', DataTypeOK',
         \A m \in Msg : Kept(m) => Kept(m)',
         \A m \in Msg : status'[m] = "acked" => status[m] = "acked" \/ Kept(m)',
         pc'["callback"] \in {"flush", "inserting", "ok"} => Kept(cur)'
  PROVE  Inv'
  BY DEF Inv

(* Every step keeps the invariant.                                         *)
LEMMA NextKeepsInv ==
  ASSUME Inv, [Next]_vars, QueueAssumption, StreamerAssumption
  PROVE  Inv'
<1> USE DEF Inv
<1>1. ASSUME UNCHANGED queueVars
      PROVE  QueueInv'
  BY <1>1 DEF queueVars, QueueInv, QueueTypeOK, Queue!DeliveriesLeft
<1>2. ASSUME UNCHANGED <<status, tries>>, inbox' \in [Worker -> Seq(Msg)]
      PROVE  QueueInv'
  BY <1>2 DEF QueueInv, QueueTypeOK, Queue!DeliveriesLeft
<1>3. ASSUME UNCHANGED <<batch, rows, dropped>>
      PROVE  \A m \in Msg : Kept(m) => Kept(m)'
  BY <1>3 DEF Kept, Buffered
<1>4. Streamer \in Worker /\ Worker = {Streamer}
  BY DEF StreamerAssumption
<1>5. CASE Environment
  <2>1. UNCHANGED <<pc, cur, batch, rows, dropped>>
    BY <1>5 DEF Environment
  <2>2. DataTypeOK' /\ \A m : Kept(m) => Kept(m)'
    BY <2>1 DEF DataTypeOK, Kept, Buffered
  <2>3. ASSUME NEW m \in Msg, Store(m) \/ Lapse(m) \/ AgeOut(m)
        PROVE  QueueInv' /\ \A n \in Msg : status'[n] = "acked" => status[n] = "acked"
    BY <2>3, ServerSteps DEF Store, Lapse, AgeOut, Unacked, QueueInv, QueueTypeOK
  <2>4. ASSUME NEW m \in Msg, NEW w \in Worker, Deliver(m, w)
        PROVE  QueueInv' /\ \A n \in Msg : status'[n] = "acked" => status[n] = "acked"
    BY <2>4, Delivery DEF Deliver, QueueInv, QueueTypeOK
  <2>5. QueueInv' /\ \A n \in Msg : status'[n] = "acked" => status[n] = "acked"
    BY <1>5, <2>3, <2>4 DEF Environment, QueueNext
  <2> QED
    BY <2>1, <2>2, <2>5, KeptIsKept
<1>6. CASE Receive
  <2>1. PICK q \in Seq(Msg) : q = inbox[Streamer] /\ q # <<>>
    BY <1>4, <1>6 DEF Receive, QueueInv, QueueTypeOK
  <2>2. Head(q) \in Msg /\ Tail(q) \in Seq(Msg)
    BY <2>1, Queue!Taken
  <2>3. inbox' \in [Worker -> Seq(Msg)]
    BY <1>6, <2>1, <2>2 DEF Receive, QueueInv, QueueTypeOK
  <2>4. QueueInv'
    BY <1>2, <1>6, <2>3 DEF Receive
  <2>5. pc' = [pc EXCEPT !["callback"] = "error"] \/ pc' = [pc EXCEPT !["callback"] = "append"]
    BY <1>6 DEF Receive, At
  <2>6. DataTypeOK'
    BY <1>6, <2>1, <2>2, <2>5 DEF Receive, DataTypeOK, Thread
  <2> QED
    BY <1>3, <1>6, <2>4, <2>5, <2>6, KeptIsKept DEF Receive, DataTypeOK, Thread
<1>7. CASE AppendEvent
  <2>1. PICK b \in Seq(Msg) : b = batch
    BY DEF DataTypeOK
  <2>2. cur \in Msg /\ UNCHANGED <<queueVars, cur, rows, dropped>> /\ batch' = Append(b, cur)
    BY <1>7, <2>1 DEF AppendEvent, DataTypeOK
  <2>3. PICK c : c = Append(b, cur)
    OBVIOUS
  <2>4. c \in Seq(Msg) /\ batch' = c /\ Buffered' = Buffered \cup {cur}
    <3>1. c \in Seq(Msg) /\ Elems(c) = Elems(b) \cup {cur}
      BY <2>2, <2>3, Appending
    <3>2. Buffered = Elems(b)
      BY <2>1 DEF Buffered, Elems
    <3>3. batch' = c
      BY <2>2, <2>3
    <3>4. Buffered' = Elems(c)
      BY <3>3, Zenon DEF Buffered, Elems
    <3> QED
      BY <3>1, <3>2, <3>3, <3>4
  <2>5. (\A m \in Msg : Kept(m) => Kept(m)') /\ Kept(cur)'
    BY <2>2, <2>4 DEF Kept
  <2>6. pc' = [pc EXCEPT !["callback"] = "flush"] \/ pc' = [pc EXCEPT !["callback"] = "ok"]
    BY <1>7 DEF AppendEvent, At
  <2>7. DataTypeOK'
    BY <2>2, <2>4, <2>6 DEF DataTypeOK, Thread
  <2> QED
    BY <1>1, <2>2, <2>5, <2>7, KeptIsKept DEF queueVars
<1>8. CASE Answer
  <2>1. cur \in Msg /\ UNCHANGED <<tries, inbox, batch, rows, dropped>>
    BY <1>8 DEF Answer, DataTypeOK
  <2>2. QueueInv'
    BY <1>8, <2>1, Settling DEF Answer
  <2>3. \A m \in Msg : status'[m] = "acked" => status[m] = "acked" \/ Kept(m)
    BY <1>8, <2>1 DEF Answer, Acked, Naked, Unacked, QueueInv, QueueTypeOK
  <2>4. pc' = [pc EXCEPT !["callback"] = "idle"] /\ cur' = None
    BY <1>8 DEF Answer, At
  <2>5. DataTypeOK' /\ pc'["callback"] = "idle"
    BY <2>1, <2>4 DEF DataTypeOK, Thread
  <2> QED
    BY <1>3, <2>1, <2>2, <2>3, <2>5, KeptIsKept
<1>9. ASSUME NEW t \in Thread, Flush(t)
      PROVE  Inv'
  <2>1. \E x \in {"ok", "error", "inserting"} : pc' = [pc EXCEPT ![t] = x]
    BY <1>9 DEF Flush, At
  <2>2. pc[t] = "flush" /\ UNCHANGED <<queueVars, cur, batch, rows, dropped>>
    BY <1>9 DEF Flush
  <2>3. DataTypeOK'
    <3>1. PICK x \in {"ok", "error", "inserting"} : pc' = [pc EXCEPT ![t] = x]
      BY <2>1
    <3>2. /\ pc' \in [Thread -> {"idle", "append", "flush", "inserting", "ok", "error"}]
          /\ pc'["callback"] # "idle" => pc["callback"] # "idle"
      BY <2>2, <3>1 DEF DataTypeOK, Thread
    <3> QED
      BY <2>2, <3>2 DEF DataTypeOK
  <2>4. pc'["callback"] \in {"flush", "inserting", "ok"}
          => pc["callback"] \in {"flush", "inserting", "ok"}
    BY <2>1, <2>2 DEF DataTypeOK, Thread
  <2>5. Kept(cur) => Kept(cur)'
    BY <2>2 DEF Kept, Buffered
  <2> QED
    BY <1>1, <1>3, <2>2, <2>3, <2>4, <2>5, KeptIsKept DEF queueVars
<1>10. ASSUME NEW t \in Thread, Flushed(t) \/ FlushFails(t)
       PROVE  Inv'
  <2>1. \E x \in {"ok", "error"} : pc' = [pc EXCEPT ![t] = x]
    BY <1>10 DEF Flushed, FlushFails, At
  <2>2. pc[t] = "inserting" /\ UNCHANGED <<queueVars, cur, dropped>>
    BY <1>10 DEF Flushed, FlushFails
  <2>3. InsertBatch \/ (UNCHANGED <<rows, batch>>)
    BY <1>10 DEF Flushed, FlushFails
  <2>4. (batch' = <<>> /\ InsertBatch) \/ UNCHANGED batch
    BY <1>10 DEF Flushed, FlushFails
  <2>5. DataTypeOK'
    <3>1. PICK x \in {"ok", "error"} : pc' = [pc EXCEPT ![t] = x]
      BY <2>1
    <3>2. /\ pc' \in [Thread -> {"idle", "append", "flush", "inserting", "ok", "error"}]
          /\ pc'["callback"] # "idle" => pc["callback"] # "idle"
      BY <2>2, <3>1 DEF DataTypeOK, Thread
    <3>3. batch' \in Seq(Msg) /\ rows' \in [Msg -> Nat]
      BY <2>3, <2>4, Inserting, EmptySeq DEF DataTypeOK
    <3> QED
      BY <2>2, <3>2, <3>3 DEF DataTypeOK
  <2>6. \A m \in Msg : Kept(m) => Kept(m)'
    BY <2>2, <2>3, <2>4, Inserting DEF Kept, Buffered
  <2>7. pc'["callback"] \in {"flush", "inserting", "ok"}
          => pc["callback"] \in {"flush", "inserting", "ok"} /\ cur \in Msg
    BY <2>1, <2>2 DEF DataTypeOK, Thread
  <2>8. \A m \in Msg : cur = m => cur' = m
    BY <2>2
  <2>9. cur \in Msg /\ Kept(cur) => Kept(cur)'
    BY <2>2, <2>6 DEF Kept
  <2> QED
    BY <1>1, <2>2, <2>5, <2>6, <2>7, <2>9, KeptIsKept DEF queueVars
<1>11. CASE Exit \/ Kill
  <2>1. Gone
    BY <1>11 DEF Exit, Kill
  <2>2. inbox' \in [Worker -> Seq(Msg)]
    BY <2>1, Emptied DEF Gone, QueueInv, QueueTypeOK
  <2>3. QueueInv'
    BY <1>2, <2>1, <2>2 DEF Gone
  <2>4. Buffered \subseteq Msg
    BY InSequence DEF Buffered, DataTypeOK
  <2>5. DataTypeOK' /\ pc'["callback"] = "idle"
    <3>1. /\ pc' \in [Thread -> {"idle", "append", "flush", "inserting", "ok", "error"}]
          /\ pc'["callback"] = "idle"
      BY <2>1 DEF Gone, Thread
    <3>2. batch' \in Seq(Msg) /\ cur' = None
      BY <2>1, EmptySeq DEF Gone
    <3>3. dropped' \subseteq Msg /\ UNCHANGED rows
      BY <2>1, <2>4 DEF Gone, DataTypeOK
    <3> QED
      BY <3>1, <3>2, <3>3 DEF DataTypeOK
  <2>6. \A m \in Msg : Kept(m) => Kept(m)'
    BY <2>1 DEF Gone, Kept
  <2> QED
    BY <2>1, <2>3, <2>5, <2>6, KeptIsKept DEF Gone
<1>12. CASE Start \/ TickerFires \/ TickerReturns \/ Signal \/ UNCHANGED vars
  <2>1. UNCHANGED <<queueVars, cur, batch, rows, dropped>>
    BY <1>12 DEF Start, TickerFires, TickerReturns, Signal, vars
  <2>2. DataTypeOK' /\ pc'["callback"] = pc["callback"]
    BY <1>12, <2>1 DEF Start, TickerFires, TickerReturns, Signal, vars, At, DataTypeOK, Thread
  <2>3. Kept(cur) => Kept(cur)'
    BY <2>1 DEF Kept, Buffered
  <2> QED
    BY <1>1, <1>3, <2>1, <2>2, <2>3, KeptIsKept DEF queueVars
<1> QED
  BY <1>5, <1>6, <1>7, <1>8, <1>9, <1>10, <1>11, <1>12 DEF Next

(* It holds at the start.                                                  *)
LEMMA InitInv ==
  ASSUME Init, QueueAssumption
  PROVE  Inv
<1>1. QueueInv
  <2>1. inbox \in [Worker -> Seq(Msg)]
    BY EmptySeq DEF Init, QueueInit
  <2>2. tries \in [Msg -> 0..MaxDeliver] /\ Queue!DeliveriesLeft
    BY DEF Init, QueueInit, QueueAssumption, Queue!DeliveriesLeft
  <2> QED
    BY <2>1, <2>2 DEF Init, QueueInit, QueueInv, QueueTypeOK
<1>2. pc["callback"] = "idle" /\ DataTypeOK
  BY EmptySeq DEF Init, DataTypeOK, Thread
<1>3. \A m \in Msg : status[m] # "acked"
  BY DEF Init, QueueInit
<1> QED
  BY <1>1, <1>2, <1>3 DEF Inv

LEMMA Invariant == Spec => []Inv
<1> SUFFICES ASSUME QueueAssumption, StreamerAssumption
             PROVE  Spec => []Inv
  BY QueueAssumption, StreamerAssumption
<1>1. Init => Inv
  BY InitInv
<1>2. Inv /\ [Next]_vars => Inv'
  BY NextKeepsInv
<1> QED
  BY <1>1, <1>2, PTL DEF Spec

(* While the streamer runs, an acknowledged event is in ClickHouse or in   *)
(* the batch; what is lost is what the process held when it ended.         *)
THEOREM StreamerKeepsAcked == Spec => []AckedIsKept
<1>1. Inv => AckedIsKept
  BY DEF Inv, AckedIsKept, Kept
<1> QED
  BY <1>1, Invariant, PTL
-----------------------------------------------------------------------------
(* The goroutine that inserts is the one that holds the mutex.  main is at *)
(* its last flush only when the context is cancelled.                      *)
LockOK ==
  /\ ctx \in {"up", "cancelled", "down"}
  /\ lock \in Thread \cup {None}
  /\ \A t \in Thread : pc[t] = "inserting" <=> lock = t
  /\ ctx # "cancelled" => pc["main"] = "idle"
  /\ unsure \in Nat

\* A goroutine that moves, without the mutex before and after.
LEMMA MoveKeepsLock ==
  ASSUME LockOK, DataTypeOK, NEW t \in Thread,
         NEW x \in {"idle", "append", "flush", "ok", "error"}, At(t, x), pc[t] # "inserting",
         UNCHANGED <<lock, unsure>>,
         ctx' \in {"up", "cancelled", "down"}, ctx' # "cancelled" => ctx # "cancelled",
         t = "main" => ctx' = "cancelled"
  PROVE  LockOK'
BY DEF LockOK, DataTypeOK, At, Thread

LEMMA LockStep ==
  ASSUME LockOK, DataTypeOK, StreamerAssumption, [Next]_vars
  PROVE  LockOK'
<1>1. ASSUME NEW t \in Thread, Flush(t) PROVE LockOK'
  <2>1. ctx = "cancelled" \/ t # "main"
    BY <1>1 DEF Flush, LockOK
  <2>2. CASE At(t, "ok") \/ At(t, "error")
    <3>1. UNCHANGED lock
      BY <1>1, <2>2 DEF Flush, At, DataTypeOK
    <3> QED
      BY <1>1, <2>1, <2>2, <3>1, MoveKeepsLock DEF Flush, LockOK
  <2>3. CASE At(t, "inserting") /\ lock' = t
    <3>1. \A u \in Thread : pc[u] # "inserting"
      BY <1>1 DEF Flush, LockOK, Thread, None
    <3>2. pc'[t] = "inserting" /\ \A u \in Thread : u # t => pc'[u] = pc[u]
      BY <2>3 DEF At, DataTypeOK
    <3>3. UNCHANGED <<ctx, unsure>> /\ lock' \in Thread
      BY <1>1, <2>3 DEF Flush
    <3>4. ctx # "cancelled" => pc'["main"] = pc["main"]
      BY <2>1, <3>2 DEF Thread
    <3>5. \A u \in Thread : pc'[u] = "inserting" <=> lock' = u
      BY <2>3, <3>1, <3>2
    <3> QED
      BY <3>3, <3>4, <3>5 DEF LockOK
  <2> QED
    BY <1>1, <2>2, <2>3 DEF Flush
<1>2. ASSUME NEW t \in Thread, Flushed(t) \/ FlushFails(t) PROVE LockOK'
  <2>1. /\ pc[t] = "inserting" /\ lock' = None /\ ctx' = ctx
        /\ At(t, "ok") \/ At(t, "error")
    BY <1>2 DEF Flushed, FlushFails
  <2>2. unsure' \in Nat
    BY <1>2 DEF Flushed, FlushFails, LockOK
  <2>3. lock = t /\ \A u \in Thread : u # t => pc[u] # "inserting"
    BY <2>1 DEF LockOK
  <2>4. /\ \A u \in Thread : pc'[u] # "inserting"
        /\ t # "main" => pc'["main"] = pc["main"]
        /\ ctx # "cancelled" => t # "main"
    BY <2>1, <2>3 DEF At, LockOK, DataTypeOK, Thread
  <2>5. \A u \in Thread : u # None
    BY DEF Thread, None
  <2> QED
    BY <2>1, <2>2, <2>4, <2>5 DEF LockOK
<1>3. CASE Receive
  <2>1. At("callback", "error") \/ At("callback", "append")
    BY <1>3 DEF Receive
  <2> QED
    BY <1>3, <2>1, MoveKeepsLock DEF Receive, LockOK, Thread
<1>4. CASE AppendEvent
  <2>1. At("callback", "flush") \/ At("callback", "ok")
    BY <1>4 DEF AppendEvent
  <2> QED
    BY <1>4, <2>1, MoveKeepsLock DEF AppendEvent, LockOK, Thread
<1>5. CASE Answer
  BY <1>5, MoveKeepsLock DEF Answer, LockOK, Thread
<1>6. CASE TickerFires \/ TickerReturns
  BY <1>6, MoveKeepsLock DEF TickerFires, TickerReturns, LockOK, Thread
<1>7. CASE Signal
  BY <1>7, MoveKeepsLock DEF Signal, LockOK, Thread
<1>8. CASE Exit \/ Kill
  BY <1>8 DEF Exit, Kill, Gone, LockOK, Thread, None
<1>9. CASE Start
  BY <1>9 DEF Start, LockOK
<1>10. CASE Environment \/ UNCHANGED vars
  BY <1>10 DEF Environment, vars, LockOK
<1> QED
  BY <1>1, <1>2, <1>3, <1>4, <1>5, <1>6, <1>7, <1>8, <1>9, <1>10 DEF Next

LEMMA LockHeld == Spec => []LockOK
<1>1. Init => LockOK
  BY DEF Init, LockOK, Thread, None
<1>2. Inv => DataTypeOK
  BY DEF Inv
<1> QED
  BY <1>1, <1>2, LockStep, Invariant, StreamerAssumption, PTL DEF Spec

(* Type correctness, and with it that the mutex of the batch excludes: a   *)
(* goroutine inserts if and only if it holds batchMutex, through failed    *)
(* inserts, the flush at shutdown and restarts.                            *)
THEOREM StreamerTypes == Spec => []TypeOK
<1>1. Inv /\ LockOK => TypeOK
  BY DEF Inv, DataTypeOK, LockOK, QueueInv, TypeOK
<1> QED
  BY <1>1, Invariant, LockHeld, PTL
-----------------------------------------------------------------------------
(* The event the callback has taken and not yet appended.                  *)
Hand == [w \in Worker |-> IF pc["callback"] = "append" THEN cur ELSE None]

Held(m) == Queue!HeldIn(inbox, Hand, m)

(* d deliveries of m have been used: appended, or answered for without.    *)
(* Each gave the batch at most one occurrence, which every commit that was *)
(* applied and reported as failed turned into a row once more.             *)
Used(m, d) ==
  /\ d + Cardinality(Held(m)) <= tries[m]
  /\ Occurrences(m) <= d
  /\ rows[m] + Occurrences(m) <= d * (1 + unsure)

RowsCounted == \A m \in Msg : IsFiniteSet(Held(m)) /\ \E d \in Nat : Used(m, d)

\* How often a message is in a batch after it, or another, was appended.
LEMMA OccurrencesAdded ==
  ASSUME DataTypeOK, NEW x \in Msg, batch' = Append(batch, x), NEW m \in Msg
  PROVE  Occurrences(m)' = Occurrences(m) + (IF m = x THEN 1 ELSE 0)
<1> DEFINE P == {i \in 1..Len(batch) : batch[i] = m}
           Q == {i \in 1..Len(batch') : batch'[i] = m}
           k == Len(batch) + 1
<1>1. /\ Len(batch) \in Nat /\ Len(batch') = k /\ batch'[k] = x
      /\ \A i \in 1..Len(batch) : batch'[i] = batch[i]
  BY DEF DataTypeOK
<1>2. IsFiniteSet(P)
  <2>1. IsFiniteSet(1..Len(batch)) /\ P \subseteq 1..Len(batch)
    BY <1>1, FS_Interval
  <2> QED
    BY <2>1, FS_Subset
<1>3. k \notin P /\ Q = IF m = x THEN P \cup {k} ELSE P
  BY <1>1
<1> HIDE DEF P, Q, k
<1>4. CASE m = x
  BY <1>2, <1>3, <1>4, FS_AddElement DEF Occurrences, P, Q
<1>5. CASE m # x
  <2>1. Cardinality(P) \in Nat
    BY <1>2, FS_CardinalityType
  <2>2. Q = P
    BY <1>3, <1>5
  <2>3. Occurrences(m)' = Cardinality(Q) /\ Occurrences(m) = Cardinality(P)
    BY DEF Occurrences, P, Q
  <2> QED
    BY <1>5, <2>1, <2>2, <2>3
<1> QED
  BY <1>4, <1>5

LEMMA NoOccurrences ==
  ASSUME batch = <<>>, NEW m
  PROVE  Occurrences(m) = 0
<1>1. {i \in 1..Len(batch) : batch[i] = m} = {}
  OBVIOUS
<1> QED
  BY <1>1, FS_EmptySet DEF Occurrences

\* The products that come up: one more failed commit, one more delivery, all of them.
LEMMA OneMoreCommit ==
  ASSUME NEW d \in Nat, NEW u \in Nat, NEW r \in Nat, NEW o \in Nat, o <= d, r + o <= d * (1 + u)
  PROVE  (r + o) + o <= d * (1 + (u + 1))
<1>1. d * (1 + (u + 1)) = d * (1 + u) + d /\ d * (1 + u) \in Nat
  OBVIOUS
<1> QED
  BY <1>1

LEMMA OneMoreDelivery ==
  ASSUME NEW d \in Nat, NEW u \in Nat, NEW r \in Nat, NEW o \in Nat, r + o <= d * (1 + u)
  PROVE  r + (o + 1) <= (d + 1) * (1 + u)
<1>1. (d + 1) * (1 + u) = d * (1 + u) + (1 + u) /\ d * (1 + u) \in Nat
  OBVIOUS
<1> QED
  BY <1>1

LEMMA Product ==
  ASSUME NEW d \in Nat, NEW t \in Nat, NEW u \in Nat, d <= t
  PROVE  d * (1 + u) <= t * (1 + u)
<1>1. PICK e \in Nat : t = d + e
  <2>1. t - d \in Nat /\ t = d + (t - d)
    OBVIOUS
  <2> QED
    BY <2>1
<1>2. t * (1 + u) = d * (1 + u) + e * (1 + u) /\ d * (1 + u) \in Nat /\ e * (1 + u) \in Nat
  BY <1>1
<1> QED
  BY <1>2

\* The deliveries used stay those used: no more rows, no more held than delivered.
LEMMA UsedKept ==
  ASSUME DataTypeOK, DataTypeOK', QueueTypeOK, QueueTypeOK', NEW m \in Msg, NEW d \in Nat,
         IsFiniteSet(Held(m)), IsFiniteSet(Held(m)'), Used(m, d), unsure' = unsure,
         rows'[m] + Occurrences(m)' <= rows[m] + Occurrences(m),
         Occurrences(m)' <= Occurrences(m), unsure \in Nat,
         Cardinality(Held(m)') + tries[m] <= Cardinality(Held(m)) + tries'[m]
  PROVE  Used(m, d)'
<1>1. /\ Occurrences(m) \in Nat /\ Occurrences(m)' \in Nat
      /\ rows[m] \in Nat /\ rows'[m] \in Nat
      /\ tries[m] \in Int /\ tries'[m] \in Int
  <2>1. Occurrences(m) \in Nat
    BY Counting
  <2>2. Occurrences(m)' \in Nat
    <3>1. PICK q \in Seq(Msg) : q = batch'
      BY DEF DataTypeOK
    <3> QED
      BY <3>1, CountIn DEF Occurrences
  <2> QED
    BY <2>1, <2>2 DEF DataTypeOK, QueueTypeOK
<1>2. Cardinality(Held(m)) \in Nat /\ Cardinality(Held(m)') \in Nat
  BY FS_CardinalityType
<1>3. PICK p \in Nat : p = d * (1 + unsure) /\ p = d * (1 + unsure')
  OBVIOUS
<1>4. /\ d + Cardinality(Held(m)) <= tries[m]
      /\ Occurrences(m) <= d
      /\ rows[m] + Occurrences(m) <= p
  BY <1>3 DEF Used
<1>5. d + Cardinality(Held(m)') <= tries'[m]
  BY <1>1, <1>2, <1>4
<1>6. Occurrences(m)' <= d /\ rows'[m] + Occurrences(m)' <= p
  BY <1>1, <1>4
<1> QED
  BY <1>3, <1>5, <1>6 DEF Used

Types == DataTypeOK /\ QueueTypeOK /\ LockOK

\* A step that takes nothing new into the callback's hand and makes no new rows.
LEMMA CountKept ==
  ASSUME RowsCounted, Types, Types', StreamerAssumption, UNCHANGED <<tries, unsure>>,
         \A v \in Worker : inbox'[v] = inbox[v] \/ inbox'[v] = <<>>,
         pc'["callback"] = "append" => pc["callback"] = "append" /\ cur' = cur,
         \A m \in Msg : /\ rows'[m] + Occurrences(m)' <= rows[m] + Occurrences(m)
                        /\ Occurrences(m)' <= Occurrences(m)
  PROVE  RowsCounted'
<1> SUFFICES ASSUME NEW m \in Msg
             PROVE  IsFiniteSet(Held(m)') /\ \E d \in Nat : Used(m, d)'
  BY DEF RowsCounted
<1>1. PICK d \in Nat : Used(m, d)
  BY DEF RowsCounted
<1>2. IsFiniteSet(Held(m))
  BY DEF RowsCounted
<1>3. \A v \in Worker : Hand'[v] = m => Hand[v] = m
  BY DEF Hand, StreamerAssumption
<1>4. IsFiniteSet(Held(m)') /\ Cardinality(Held(m)') <= Cardinality(Held(m))
  BY <1>2, <1>3, QueueApplies, SameSize, Queue!HeldShrinks DEF Held
<1>5. tries[m] \in Int /\ Cardinality(Held(m)) \in Nat /\ Cardinality(Held(m)') \in Nat
  BY <1>2, <1>4, FS_CardinalityType DEF Types, QueueTypeOK
<1>6. Used(m, d)'
  BY <1>1, <1>2, <1>4, <1>5, UsedKept DEF Types, LockOK
<1> QED
  BY <1>4, <1>6

LEMMA DeliverCounted ==
  ASSUME RowsCounted, Types, Types', NEW n \in Msg, NEW w \in Worker, Deliver(n, w),
         UNCHANGED <<ctx, pc, cur, batch, lock, rows, dropped, unsure>>
  PROVE  RowsCounted'
<1> SUFFICES ASSUME NEW m \in Msg
             PROVE  IsFiniteSet(Held(m)') /\ \E d \in Nat : Used(m, d)'
  BY DEF RowsCounted
<1>1. PICK d \in Nat : Used(m, d)
  BY DEF RowsCounted
<1>2. IsFiniteSet(Held(m))
  BY DEF RowsCounted
<1>3. PICK box, hand, box2 : box = inbox /\ hand = Hand /\ box2 = inbox' /\ hand = Hand'
  BY DEF Hand
<1>4. /\ box[w] \in Seq(Msg) /\ box2[w] = Append(box[w], n)
      /\ \A v \in Worker : v # w => box2[v] = box[v]
  BY <1>3 DEF Deliver, Types, QueueTypeOK
<1>5. PICK S, T : S = Queue!HeldIn(box, hand, m) /\ T = Queue!HeldIn(box2, hand, m)
                  /\ S = Held(m) /\ T = Held(m)'
  BY <1>3 DEF Held
<1>6. /\ IsFiniteSet(Held(m)')
      /\ Cardinality(Held(m)') <= Cardinality(Held(m)) + (IF m = n THEN 1 ELSE 0)
  <2>1. S = Queue!HeldIn(box, hand, m) /\ T = Queue!HeldIn(box2, hand, m)
    BY <1>5
  <2>2. IsFiniteSet(S)
    BY <1>2, <1>5
  <2>3. IsFiniteSet(Queue!HeldIn(box, hand, m))
    BY <2>1, <2>2
  <2>4. /\ IsFiniteSet(Queue!HeldIn(box2, hand, m))
        /\ m = n => Cardinality(Queue!HeldIn(box2, hand, m))
                       <= Cardinality(Queue!HeldIn(box, hand, m)) + 1
        /\ m # n => Cardinality(Queue!HeldIn(box2, hand, m))
                       <= Cardinality(Queue!HeldIn(box, hand, m))
    BY <1>4, <2>3, QueueApplies, SameSize, Queue!HeldGrows
  <2>5. /\ IsFiniteSet(T)
        /\ m = n => Cardinality(T) <= Cardinality(S) + 1
        /\ m # n => Cardinality(T) <= Cardinality(S)
    BY <2>1, <2>4
  <2>6. Cardinality(S) \in Nat /\ Cardinality(T) \in Nat
    BY <2>2, <2>5, FS_CardinalityType
  <2> QED
    BY <1>5, <2>5, <2>6
<1>7. /\ tries[m] \in Int /\ tries'[m] = tries[m] + (IF m = n THEN 1 ELSE 0)
      /\ Cardinality(Held(m)) \in Nat /\ Cardinality(Held(m)') \in Nat
  BY <1>2, <1>6, FS_CardinalityType DEF Types, QueueTypeOK, Deliver
<1>8. Occurrences(m)' = Occurrences(m) /\ Occurrences(m) \in Nat /\ rows[m] \in Nat
  BY Counting DEF Occurrences, Types, DataTypeOK
<1>9. Cardinality(Held(m)') + tries[m] <= Cardinality(Held(m)) + tries'[m]
  BY <1>6, <1>7
<1>10. Used(m, d)'
  BY <1>1, <1>2, <1>6, <1>8, <1>9, UsedKept DEF Types, LockOK
<1> QED
  BY <1>6, <1>10

LEMMA ReceiveCounted ==
  ASSUME RowsCounted, Types, Types', StreamerAssumption, Receive
  PROVE  RowsCounted'
<1> SUFFICES ASSUME NEW m \in Msg
             PROVE  IsFiniteSet(Held(m)') /\ \E d \in Nat : Used(m, d)'
  BY DEF RowsCounted
<1>1. PICK d \in Nat : Used(m, d)
  BY DEF RowsCounted
<1>2. IsFiniteSet(Held(m))
  BY DEF RowsCounted
<1>3. PICK box, hand, box2, hand2 :
        box = inbox /\ hand = Hand /\ box2 = inbox' /\ hand2 = Hand'
  OBVIOUS
<1>4. PICK w \in Worker : w = Streamer /\ \A v \in Worker : v = w
  BY DEF StreamerAssumption
<1>5. /\ box[w] \in Seq(Msg) /\ box[w] # <<>> /\ box2[w] = Tail(box[w])
      /\ \A v \in Worker : v # w => box2[v] = box[v]
  BY <1>3, <1>4 DEF Receive, Types, QueueTypeOK
<1>6. \A v \in Worker : hand2[v] = m => (v = w /\ Head(box[w]) = m) \/ (v # w /\ hand[v] = m)
  BY <1>3, <1>4 DEF Receive, Hand, StreamerAssumption
<1>7. Held(m) = Queue!HeldIn(box, hand, m) /\ Held(m)' = Queue!HeldIn(box2, hand2, m)
  BY <1>3 DEF Held
<1>8. IsFiniteSet(Held(m)') /\ Cardinality(Held(m)') <= Cardinality(Held(m))
  BY <1>2, <1>5, <1>6, <1>7, QueueApplies, SameSize, Queue!HeldMoves
<1>9. /\ tries[m] \in Int /\ UNCHANGED <<tries, batch, rows, unsure>>
      /\ Cardinality(Held(m)) \in Nat /\ Cardinality(Held(m)') \in Nat
  BY <1>2, <1>8, FS_CardinalityType DEF Types, QueueTypeOK, Receive
<1>10. Occurrences(m)' = Occurrences(m) /\ Occurrences(m) \in Nat /\ rows[m] \in Nat
  BY <1>9, Counting DEF Occurrences, Types, DataTypeOK
<1>11. Used(m, d)'
  BY <1>1, <1>2, <1>8, <1>9, <1>10, UsedKept DEF Types, LockOK
<1> QED
  BY <1>8, <1>11

\* The delivery that is appended is used.
LEMMA AppendCounted ==
  ASSUME RowsCounted, Types, Types', StreamerAssumption, AppendEvent
  PROVE  RowsCounted'
<1> SUFFICES ASSUME NEW m \in Msg
             PROVE  IsFiniteSet(Held(m)') /\ \E d \in Nat : Used(m, d)'
  BY DEF RowsCounted
<1>1. PICK d \in Nat : Used(m, d)
  BY DEF RowsCounted
<1>2. IsFiniteSet(Held(m))
  BY DEF RowsCounted
<1>3. PICK w \in Worker : \A v \in Worker : v = w
  BY DEF StreamerAssumption
<1>4. /\ pc["callback"] = "append" /\ pc'["callback"] # "append" /\ cur \in Msg
      /\ batch' = Append(batch, cur) /\ UNCHANGED <<tries, inbox, rows, unsure>>
  BY DEF AppendEvent, At, Types, DataTypeOK, Thread, queueVars
<1>5. Hand[w] = cur /\ Hand'[w] = None /\ \A v \in Worker : v # w => Hand'[v] = Hand[v]
  BY <1>3, <1>4 DEF Hand
<1>6. Occurrences(m)' = Occurrences(m) + (IF m = cur THEN 1 ELSE 0)
  BY <1>4, OccurrencesAdded DEF Types
<1>7. Occurrences(m) \in Nat /\ rows[m] \in Nat /\ tries[m] \in Int /\ unsure \in Nat
  BY Counting DEF Types, DataTypeOK, QueueTypeOK, LockOK
<1>8. m # None
  BY DEF StreamerAssumption
<1>9. CASE m = cur
  <2>1. IsFiniteSet(Held(m)') /\ Cardinality(Held(m)') + 1 <= Cardinality(Held(m))
    <3>1. PICK box, hand, hand2 : box = inbox /\ box = inbox' /\ hand = Hand /\ hand2 = Hand'
      BY <1>4
    <3>2. hand[w] = m /\ hand2[w] # m /\ \A v \in Worker : v # w => hand2[v] = hand[v]
      BY <1>5, <1>8, <1>9, <3>1
    <3>3. Held(m) = Queue!HeldIn(box, hand, m) /\ Held(m)' = Queue!HeldIn(box, hand2, m)
      BY <3>1 DEF Held
    <3>4. IsFiniteSet(Queue!HeldIn(box, hand, m))
      BY <1>2, <3>3
    <3>5. /\ IsFiniteSet(Queue!HeldIn(box, hand2, m))
          /\ Cardinality(Queue!HeldIn(box, hand2, m)) + 1
               <= Cardinality(Queue!HeldIn(box, hand, m))
      BY <3>2, <3>4, QueueApplies, SameSize, Queue!HeldLeaves
    <3> QED
      BY <3>3, <3>5
  <2>2. Cardinality(Held(m)) \in Nat /\ Cardinality(Held(m)') \in Nat
    BY <1>2, <2>1, FS_CardinalityType
  <2>3. PICK o \in Nat, n \in Nat, u \in Nat :
          o = Occurrences(m) /\ n = rows[m] /\ u = unsure
    BY <1>7
  <2>4. d + Cardinality(Held(m)) <= tries[m] /\ o <= d /\ n + o <= d * (1 + u)
    BY <1>1, <2>3 DEF Used
  <2>5. n + (o + 1) <= (d + 1) * (1 + u)
    BY <2>4, OneMoreDelivery
  <2>6. Occurrences(m)' = o + 1 /\ rows'[m] = n /\ unsure' = u /\ tries'[m] = tries[m]
    BY <1>4, <1>6, <1>9, <2>3
  <2>7. (d + 1) + Cardinality(Held(m)') <= tries'[m] /\ o + 1 <= d + 1
    BY <1>7, <2>1, <2>2, <2>4, <2>6
  <2>8. Used(m, d + 1)'
    BY <2>5, <2>6, <2>7 DEF Used
  <2> QED
    BY <2>1, <2>8
<1>10. CASE m # cur
  <2>1. \A v \in Worker : Hand'[v] = m => Hand[v] = m
    BY <1>3, <1>5, <1>8
  <2>2. IsFiniteSet(Held(m)') /\ Cardinality(Held(m)') <= Cardinality(Held(m))
    BY <1>2, <1>4, <2>1, QueueApplies, SameSize, Queue!HeldShrinks DEF Held
  <2>3. Cardinality(Held(m)) \in Nat /\ Cardinality(Held(m)') \in Nat
    BY <1>2, <2>2, FS_CardinalityType
  <2>4. Used(m, d)'
    BY <1>1, <1>2, <1>4, <1>6, <1>7, <1>10, <2>2, <2>3, UsedKept DEF Types, LockOK
  <2> QED
    BY <2>2, <2>4
<1> QED
  BY <1>9, <1>10

\* A commit that was applied and reported as failed makes every row once more.
LEMMA UnsureCounted ==
  ASSUME RowsCounted, Types, Types', StreamerAssumption, InsertBatch,
         UNCHANGED <<tries, inbox, batch, cur>>, unsure' = unsure + 1,
         pc'["callback"] = "append" => pc["callback"] = "append"
  PROVE  RowsCounted'
<1> SUFFICES ASSUME NEW m \in Msg
             PROVE  IsFiniteSet(Held(m)') /\ \E d \in Nat : Used(m, d)'
  BY DEF RowsCounted
<1>1. PICK d \in Nat : Used(m, d)
  BY DEF RowsCounted
<1>2. IsFiniteSet(Held(m))
  BY DEF RowsCounted
<1>3. \A v \in Worker : Hand'[v] = m => Hand[v] = m
  BY DEF Hand, StreamerAssumption
<1>4. IsFiniteSet(Held(m)') /\ Cardinality(Held(m)') <= Cardinality(Held(m))
  BY <1>2, <1>3, QueueApplies, SameSize, Queue!HeldShrinks DEF Held
<1>5. tries[m] \in Int /\ Cardinality(Held(m)) \in Nat /\ Cardinality(Held(m)') \in Nat
  BY <1>2, <1>4, FS_CardinalityType DEF Types, QueueTypeOK
<1>6. PICK o \in Nat, n \in Nat, u \in Nat :
        o = Occurrences(m) /\ n = rows[m] /\ u = unsure
  BY Counting DEF Types, DataTypeOK, LockOK
<1>7. d + Cardinality(Held(m)) <= tries[m] /\ o <= d /\ n + o <= d * (1 + u)
  BY <1>1, <1>6 DEF Used
<1>8. (n + o) + o <= d * (1 + (u + 1))
  BY <1>7, OneMoreCommit
<1>9. Occurrences(m)' = o /\ rows'[m] = n + o /\ unsure' = u + 1 /\ tries'[m] = tries[m]
  BY <1>6 DEF InsertBatch, Occurrences
<1>10. d + Cardinality(Held(m)') <= tries'[m]
  BY <1>4, <1>5, <1>7, <1>9
<1>11. Used(m, d)'
  BY <1>7, <1>8, <1>9, <1>10 DEF Used
<1> QED
  BY <1>4, <1>11

LEMMA CountedStep ==
  ASSUME RowsCounted, Types, Types', StreamerAssumption, [Next]_vars
  PROVE  RowsCounted'
<1>1. \A m \in Msg : Occurrences(m) \in Nat /\ rows[m] \in Nat
  BY Counting DEF Types, DataTypeOK
<1>2. ASSUME UNCHANGED <<tries, inbox, cur, batch, rows, unsure>>,
             pc'["callback"] = "append" => pc["callback"] = "append"
      PROVE  RowsCounted'
  <2>1. \A m \in Msg : Occurrences(m)' = Occurrences(m)
    BY <1>2 DEF Occurrences
  <2>2. \A m \in Msg : /\ rows'[m] + Occurrences(m)' <= rows[m] + Occurrences(m)
                       /\ Occurrences(m)' <= Occurrences(m)
    BY <1>1, <1>2, <2>1
  <2> QED
    BY <1>2, <2>2, CountKept
<1>3. CASE Environment
  <2>1. UNCHANGED <<ctx, pc, cur, batch, lock, rows, dropped, unsure>>
    BY <1>3 DEF Environment
  <2>2. ASSUME NEW m \in Msg, Store(m) \/ Lapse(m) \/ AgeOut(m) PROVE RowsCounted'
    BY <1>2, <2>1, <2>2 DEF Store, Lapse, AgeOut
  <2> QED
    BY <1>3, <2>1, <2>2, DeliverCounted DEF Environment, QueueNext
<1>4. CASE Start \/ TickerFires \/ TickerReturns \/ Signal \/ UNCHANGED vars
  <2>1. UNCHANGED <<tries, inbox, cur, batch, rows, unsure>> /\ pc'["callback"] = pc["callback"]
    BY <1>4 DEF Start, TickerFires, TickerReturns, Signal, vars, queueVars, At, Types,
                DataTypeOK, Thread
  <2> QED
    BY <1>2, <2>1
<1>5. CASE Answer
  <2>1. /\ UNCHANGED <<tries, inbox, batch, rows, unsure>> /\ pc'["callback"] = "idle"
    BY <1>5 DEF Answer, At, Types, DataTypeOK, Thread
  <2>2. \A m \in Msg : /\ rows'[m] + Occurrences(m)' <= rows[m] + Occurrences(m)
                       /\ Occurrences(m)' <= Occurrences(m)
    BY <1>1, <2>1 DEF Occurrences
  <2> QED
    BY <2>1, <2>2, CountKept
<1>6. ASSUME NEW t \in Thread, Flush(t) PROVE RowsCounted'
  <2>1. At(t, "ok") \/ At(t, "error") \/ At(t, "inserting")
    BY <1>6 DEF Flush
  <2>2. UNCHANGED <<tries, inbox, cur, batch, rows, unsure>>
    BY <1>6 DEF Flush, queueVars
  <2>3. pc'["callback"] = "append" => pc["callback"] = "append"
    BY <2>1 DEF At, Types, DataTypeOK, Thread
  <2> QED
    BY <1>2, <2>2, <2>3
<1>7. ASSUME NEW t \in Thread, At(t, "ok") \/ At(t, "error")
      PROVE  pc'["callback"] = "append" => pc["callback"] = "append"
  BY <1>7 DEF At, Types, DataTypeOK, Thread
<1>8. ASSUME NEW t \in Thread, Flushed(t) PROVE RowsCounted'
  <2>1. InsertBatch /\ batch' = <<>> /\ At(t, "ok") /\ UNCHANGED <<tries, inbox, cur, unsure>>
    BY <1>8 DEF Flushed, queueVars
  <2>2. ASSUME NEW m \in Msg
        PROVE  /\ rows'[m] + Occurrences(m)' <= rows[m] + Occurrences(m)
               /\ Occurrences(m)' <= Occurrences(m)
    <3>1. Occurrences(m)' = 0
      <4>1. {i \in 1..Len(batch') : batch'[i] = m} = {}
        BY <2>1
      <4> QED
        BY <4>1, FS_EmptySet DEF Occurrences
    <3>2. rows'[m] = rows[m] + Occurrences(m)
      BY <2>1 DEF InsertBatch
    <3> QED
      BY <1>1, <3>1, <3>2
  <2> QED
    BY <1>7, <2>1, <2>2, CountKept
<1>9. ASSUME NEW t \in Thread, FlushFails(t) PROVE RowsCounted'
  <2>1. At(t, "error") /\ UNCHANGED <<tries, inbox, cur, batch>>
    BY <1>9 DEF FlushFails, queueVars
  <2>2. CASE UNCHANGED <<rows, unsure>>
    BY <1>2, <1>7, <2>1, <2>2
  <2>3. CASE InsertBatch /\ unsure' = unsure + 1
    BY <1>7, <2>1, <2>3, UnsureCounted
  <2> QED
    BY <1>9, <2>2, <2>3 DEF FlushFails
<1>10. CASE Exit \/ Kill
  <2>1. Gone
    BY <1>10 DEF Exit, Kill
  <2>2. /\ batch' = <<>> /\ UNCHANGED <<tries, rows, unsure>> /\ pc'["callback"] # "append"
        /\ \A v \in Worker : inbox'[v] = inbox[v] \/ inbox'[v] = <<>>
    BY <2>1 DEF Gone, Thread, Types, QueueTypeOK
  <2>3. ASSUME NEW m \in Msg
        PROVE  /\ rows'[m] + Occurrences(m)' <= rows[m] + Occurrences(m)
               /\ Occurrences(m)' <= Occurrences(m)
    <3>1. Occurrences(m)' = 0
      <4>1. {i \in 1..Len(batch') : batch'[i] = m} = {}
        BY <2>2
      <4> QED
        BY <4>1, FS_EmptySet DEF Occurrences
    <3> QED
      BY <1>1, <2>2, <3>1
  <2> QED
    BY <2>2, <2>3, CountKept
<1> QED
  BY <1>3, <1>4, <1>5, <1>6, <1>8, <1>9, <1>10, ReceiveCounted, AppendCounted DEF Next

LEMMA InitCounted ==
  ASSUME Init, StreamerAssumption
  PROVE  RowsCounted
<1> SUFFICES ASSUME NEW m \in Msg
             PROVE  IsFiniteSet(Held(m)) /\ Used(m, 0)
  BY DEF RowsCounted
<1>1. \A v \in Worker : inbox[v] = <<>> /\ Hand[v] # m
  BY DEF Init, QueueInit, Hand, Thread, StreamerAssumption
<1>2. IsFiniteSet(Held(m)) /\ Cardinality(Held(m)) = 0
  BY <1>1, QueueApplies, SameSize, Queue!NothingHeld DEF Held
<1>3. Occurrences(m) = 0
  BY NoOccurrences DEF Init
<1>4. rows[m] = 0 /\ tries[m] = 0 /\ unsure = 0
  BY DEF Init, QueueInit
<1> QED
  BY <1>2, <1>3, <1>4 DEF Used

(* No event has more rows in ClickHouse and occurrences in the batch than  *)
(* deliveries, times one more than the commits that failed after they were *)
(* applied: for any batch size and number of events, whatever is redelivered *)
(* to a batch that still has it and whichever goroutine flushes.           *)
THEOREM StreamerRowsWithinDeliveries == Spec => []RowsWithinDeliveries
<1>1. Inv /\ LockOK => Types
  BY DEF Inv, QueueInv, Types
<1>2. RowsCounted /\ Types => RowsWithinDeliveries
  <2> SUFFICES ASSUME RowsCounted, Types, NEW m \in Msg
               PROVE  rows[m] + Occurrences(m) <= tries[m] * (1 + unsure)
    BY DEF RowsWithinDeliveries
  <2>1. PICK d \in Nat : Used(m, d)
    BY DEF RowsCounted
  <2>2. IsFiniteSet(Held(m))
    BY DEF RowsCounted
  <2>3. PICK o \in Nat, n \in Nat, u \in Nat, t \in Int :
          o = Occurrences(m) /\ n = rows[m] /\ u = unsure /\ t = tries[m]
    <3>1. Occurrences(m) \in Nat /\ rows[m] \in Nat /\ unsure \in Nat
      BY Counting DEF Types, DataTypeOK, LockOK
    <3>2. tries[m] \in Int
      BY DEF Types, QueueTypeOK
    <3> QED
      BY <3>1, <3>2
  <2>4. d + Cardinality(Held(m)) <= t /\ n + o <= d * (1 + u)
    BY <2>1, <2>3 DEF Used
  <2>5. t \in Nat /\ d <= t
    BY <2>2, <2>4, FS_CardinalityType
  <2>6. d * (1 + u) <= t * (1 + u)
    BY <2>5, Product
  <2>7. d * (1 + u) \in Nat /\ t * (1 + u) \in Nat
    BY <2>5
  <2> QED
    BY <2>3, <2>4, <2>6, <2>7
<1> QED
  BY <1>1, <1>2, InitCounted, CountedStep, Invariant, LockHeld, StreamerAssumption, PTL DEF Spec
=============================================================================
