----------------------- MODULE EnrichmentWorker_proofs -----------------------
(***************************************************************************)
(* Proofs about EnrichmentWorker for any set of messages and replicas, any *)
(* delivery limits and with every fault.                                   *)
(*                                                                         *)
(* The enriched scan is handed on before its raw scan is settled because a *)
(* callback acknowledges from the step that follows its own publish.  The  *)
(* inductive invariant adds that what a client buffers or works on was     *)
(* stored before (a result is never that of a message yet to come) and     *)
(* that a message waits only while it has deliveries left.                 *)
(*                                                                         *)
(* The first part is about the queue alone: what every consumer of a       *)
(* WorkQueue keeps, whatever its callback does.  The streamer, the agent   *)
(* and the indexer take it from here.                                      *)
(***************************************************************************)
EXTENDS EnrichmentWorker, SequenceTheorems, FiniteSetTheorems, TLAPS

(* The types of the queue; a message waits only while it has deliveries    *)
(* left.                                                                   *)
DeliveriesLeft ==
  \A m \in Msg :
    /\ status[m] = "absent" => tries[m] = 0
    /\ status[m] = "waiting" => tries[m] < MaxDeliver

QueueInv == QueueTypeOK /\ DeliveriesLeft

\* Every step takes the stream to one of its states and brings no message back.
StreamStep ==
  /\ status' \in [Msg -> {"absent", "waiting", "pending", "acked", "spent", "aged"}]
  /\ \A m \in Msg : status[m] # "absent" => status'[m] # "absent"
  /\ \A m \in Msg : status'[m] = "absent" => status[m] = "absent"
-----------------------------------------------------------------------------
(* What a client's buffer holds after a delivery was taken from it.        *)
LEMMA Taken ==
  ASSUME NEW S, NEW q \in Seq(S), q # <<>>
  PROVE  /\ Len(q) \in Nat /\ Len(q) > 0
         /\ Head(q) \in S /\ Head(q) = q[1]
         /\ Tail(q) \in Seq(S)
         /\ \A i \in 1..Len(Tail(q)) : i + 1 \in 1..Len(q) /\ Tail(q)[i] = q[i + 1]
  OBVIOUS

(* What it holds after a delivery was added.                               *)
LEMMA Added ==
  ASSUME NEW S, NEW q \in Seq(S), NEW m \in S
  PROVE  /\ Append(q, m) \in Seq(S)
         /\ \A i \in 1..Len(Append(q, m)) :
              Append(q, m)[i] = m \/ (i \in 1..Len(q) /\ Append(q, m)[i] = q[i])
  OBVIOUS

(* An ack or a nak is a step of the stream, and a message it sends back to *)
(* wait has deliveries left.                                               *)
LEMMA Settling ==
  ASSUME QueueInv, NEW m \in Msg, Acked(m) \/ Naked(m), UNCHANGED <<tries, inbox>>
  PROVE  StreamStep /\ QueueInv'
<1> USE DEF QueueInv, QueueTypeOK, StreamStep, DeliveriesLeft
<1>1. CASE UNCHANGED status
  BY <1>1
<1>2. CASE status' = [status EXCEPT ![m] = IF @ \in {"waiting", "pending"} THEN "acked" ELSE @]
  BY <1>2
<1>3. CASE status' = [status EXCEPT ![m] = IF @ = "pending" THEN Unacked(m) ELSE @]
  BY <1>3 DEF Unacked
<1> QED
  BY <1>1, <1>2, <1>3 DEF Acked, Naked

(* So are the server's own steps.                                          *)
LEMMA ServerSteps ==
  ASSUME QueueInv, NEW m \in Msg, Store(m) \/ Lapse(m) \/ AgeOut(m), QueueAssumption
  PROVE  StreamStep /\ QueueInv'
<1> USE DEF QueueInv, QueueTypeOK, StreamStep, DeliveriesLeft
<1>1. CASE Store(m)
  BY <1>1 DEF Store, QueueAssumption
<1>2. CASE Lapse(m)
  BY <1>2 DEF Lapse, Unacked
<1>3. CASE AgeOut(m)
  BY <1>3 DEF AgeOut
<1> QED
  BY <1>1, <1>2, <1>3

(* A delivery counts, and is one more message in a buffer.                 *)
LEMMA Delivery ==
  ASSUME QueueInv, NEW m \in Msg, NEW w \in Worker, Deliver(m, w), QueueAssumption
  PROVE  /\ StreamStep /\ QueueInv'
         /\ \A v \in Worker : \A i \in 1..Len(inbox'[v]) :
              inbox'[v][i] = m \/ (i \in 1..Len(inbox[v]) /\ inbox'[v][i] = inbox[v][i])
<1> USE DEF QueueInv, QueueTypeOK
<1>1. StreamStep
  BY DEF StreamStep, Deliver
<1>2. tries[m] \in Nat /\ tries[m] < MaxDeliver /\ MaxDeliver \in Nat
  BY DEF Deliver, DeliveriesLeft, QueueAssumption
<1>3. tries' \in [Msg -> 0..MaxDeliver]
  BY <1>2 DEF Deliver
<1>4. DeliveriesLeft'
  BY <1>2 DEF Deliver, DeliveriesLeft
<1>5. inbox[w] \in Seq(Msg)
  OBVIOUS
<1>6. inbox' = [inbox EXCEPT ![w] = Append(inbox[w], m)]
  BY DEF Deliver
<1>7. /\ Append(inbox[w], m) \in Seq(Msg)
      /\ \A i \in 1..Len(Append(inbox[w], m)) :
           Append(inbox[w], m)[i] = m
           \/ (i \in 1..Len(inbox[w]) /\ Append(inbox[w], m)[i] = inbox[w][i])
  BY <1>5, Added
<1>8. PICK q : q = Append(inbox[w], m)
  OBVIOUS
<1>9. inbox' \in [Worker -> Seq(Msg)]
  BY <1>6, <1>7, <1>8
<1>10. ASSUME NEW v \in Worker, NEW i \in 1..Len(inbox'[v])
       PROVE  inbox'[v][i] = m \/ (i \in 1..Len(inbox[v]) /\ inbox'[v][i] = inbox[v][i])
  <2>1. CASE v = w
    BY <1>6, <1>7, <1>8, <2>1
  <2>2. CASE v # w
    <3>1. inbox'[v] = inbox[v]
      BY <1>6, <2>2
    <3> QED
      BY <3>1
  <2> QED
    BY <2>1, <2>2
<1> QED
  BY <1>1, <1>3, <1>4, <1>9, <1>10 DEF StreamStep
-----------------------------------------------------------------------------
(* The deliveries of m that the workers have and have not answered for: in *)
(* a client's buffer, or in the hand of its callback, slot 0.              *)
InSlot(box, hand, m, v, i) ==
  \/ i \in 1..Len(box[v]) /\ box[v][i] = m
  \/ i = 0 /\ hand[v] = m

HeldIn(box, hand, m) == {s \in Worker \X Nat : InSlot(box, hand, m, s[1], s[2])}

LEMMA HeldSlots ==
  ASSUME NEW box, NEW hand, NEW m, NEW S, S = HeldIn(box, hand, m)
  PROVE  /\ \A s \in S : \E v \in Worker, i \in Nat : s = <<v, i>>
         /\ \A v \in Worker, i \in Nat : <<v, i>> \in S <=> InSlot(box, hand, m, v, i)
BY DEF HeldIn

\* What is held at the start, when all is empty.
LEMMA NothingHeld ==
  ASSUME NEW box, NEW hand, NEW m, \A v \in Worker : box[v] = <<>> /\ hand[v] # m
  PROVE  IsFiniteSet(HeldIn(box, hand, m)) /\ Cardinality(HeldIn(box, hand, m)) = 0
<1>1. HeldIn(box, hand, m) = {}
  BY DEF HeldIn, InSlot
<1> QED
  BY <1>1, FS_EmptySet

\* Buffers that are kept or emptied and hands that are kept or opened hold no more.
LEMMA HeldShrinks ==
  ASSUME NEW box, NEW hand, NEW box2, NEW hand2, NEW m,
         \A v \in Worker : box2[v] = box[v] \/ box2[v] = <<>>,
         \A v \in Worker : hand2[v] = m => hand[v] = m,
         IsFiniteSet(HeldIn(box, hand, m))
  PROVE  /\ IsFiniteSet(HeldIn(box2, hand2, m))
         /\ Cardinality(HeldIn(box2, hand2, m)) <= Cardinality(HeldIn(box, hand, m))
<1>1. HeldIn(box2, hand2, m) \subseteq HeldIn(box, hand, m)
  BY DEF HeldIn, InSlot
<1> QED
  BY <1>1, FS_Subset

\* A delivery of m adds a slot to those of m and none to those of another.
LEMMA HeldGrows ==
  ASSUME NEW box, NEW hand, NEW w \in Worker, NEW m \in Msg, NEW n \in Msg, NEW box2,
         box[w] \in Seq(Msg), box2[w] = Append(box[w], m),
         \A v \in Worker : v # w => box2[v] = box[v],
         IsFiniteSet(HeldIn(box, hand, n))
  PROVE  /\ IsFiniteSet(HeldIn(box2, hand, n))
         /\ n = m => Cardinality(HeldIn(box2, hand, n)) <= Cardinality(HeldIn(box, hand, n)) + 1
         /\ n # m => Cardinality(HeldIn(box2, hand, n)) <= Cardinality(HeldIn(box, hand, n))
<1> DEFINE H == HeldIn(box, hand, n)
           H2 == HeldIn(box2, hand, n)
           k == Len(box[w]) + 1
<1>0. /\ \A v \in Worker, i \in Nat : <<v, i>> \in H <=> InSlot(box, hand, n, v, i)
      /\ \A v \in Worker, i \in Nat : <<v, i>> \in H2 <=> InSlot(box2, hand, n, v, i)
      /\ \A s \in H2 : \E v \in Worker, i \in Nat : s = <<v, i>>
  <2>1. PICK S, S2 : S = HeldIn(box, hand, n) /\ S2 = HeldIn(box2, hand, n)
    OBVIOUS
  <2>2. \A v \in Worker, i \in Nat : <<v, i>> \in S <=> InSlot(box, hand, n, v, i)
    BY <2>1, HeldSlots
  <2>3. /\ \A v \in Worker, i \in Nat : <<v, i>> \in S2 <=> InSlot(box2, hand, n, v, i)
        /\ \A s \in S2 : \E v \in Worker, i \in Nat : s = <<v, i>>
    BY <2>1, HeldSlots
  <2> QED
    BY <2>1, <2>2, <2>3
<1>1. box[w] \in Seq(Msg) /\ Len(box[w]) \in Nat
  OBVIOUS
<1>2. /\ Len(box2[w]) = k /\ box2[w][k] = m /\ \A i \in 1..Len(box[w]) : box2[w][i] = box[w][i]
      /\ \A v \in Worker : v # w => box2[v] = box[v]
  <2>1. box2[w] = Append(box[w], m)
    OBVIOUS
  <2> QED
    BY <1>1, <2>1
<1>3. Cardinality(H) \in Nat
  BY FS_CardinalityType
<1> HIDE DEF H, H2, k
<1>4. ASSUME NEW s \in H2
      PROVE  s \in H \/ (s = <<w, k>> /\ n = m)
  <2>1. PICK v \in Worker, i \in Nat : s = <<v, i>>
    BY <1>0 DEF InSlot
  <2>2. CASE i = 0 \/ v # w
    BY <1>2, <2>1, <2>2, <1>0 DEF InSlot
  <2>3. CASE v = w /\ i \in 1..Len(box[w])
    <3>1. i # 0
      BY <2>3
    <3> QED
      BY <1>2, <2>1, <2>3, <3>1, <1>0 DEF InSlot
  <2>4. CASE v = w /\ i # 0 /\ i \notin 1..Len(box[w])
    <3>1. i \in 1..Len(box2[w]) /\ box2[w][i] = n
      BY <2>1, <2>4, <1>0 DEF InSlot
    <3>2. i = k
      BY <1>1, <1>2, <2>4, <3>1
    <3> QED
      BY <1>2, <2>1, <2>4, <3>1, <3>2
  <2> QED
    BY <2>2, <2>3, <2>4
<1>5. CASE n = m
  <2>1. H2 \subseteq H \cup {<<w, k>>}
    BY <1>4
  <2>2. IsFiniteSet(H \cup {<<w, k>>}) /\ Cardinality(H \cup {<<w, k>>}) <= Cardinality(H) + 1
    <3>1. IsFiniteSet(H)
      BY DEF H
    <3>2. /\ IsFiniteSet(H \cup {<<w, k>>})
          /\ Cardinality(H \cup {<<w, k>>})
               = IF <<w, k>> \in H THEN Cardinality(H) ELSE Cardinality(H) + 1
      BY <3>1, FS_AddElement
    <3> QED
      BY <1>3, <3>2
  <2>3. /\ IsFiniteSet(H2) /\ Cardinality(H2) <= Cardinality(H \cup {<<w, k>>})
        /\ Cardinality(H2) \in Nat /\ Cardinality(H \cup {<<w, k>>}) \in Nat
    BY <2>1, <2>2, FS_Subset, FS_CardinalityType
  <2> QED
    BY <1>3, <1>5, <2>2, <2>3 DEF H, H2
<1>6. CASE n # m
  <2>1. H2 \subseteq H
    BY <1>4, <1>6
  <2>2. IsFiniteSet(H2) /\ Cardinality(H2) <= Cardinality(H) /\ Cardinality(H2) \in Nat
    BY <2>1, FS_Subset, FS_CardinalityType DEF H
  <2> QED
    BY <1>3, <1>6, <2>2 DEF H, H2
<1> QED
  BY <1>5, <1>6

\* Handing the callback the head of its client's buffer moves the slots by one.
LEMMA HeldMoves ==
  ASSUME NEW box, NEW hand, NEW w \in Worker, NEW m \in Msg, NEW box2, NEW hand2,
         box[w] \in Seq(Msg), box[w] # <<>>, box2[w] = Tail(box[w]),
         \A v \in Worker : v # w => box2[v] = box[v],
         \A v \in Worker : hand2[v] = m => (v = w /\ Head(box[w]) = m) \/ (v # w /\ hand[v] = m),
         IsFiniteSet(HeldIn(box, hand, m))
  PROVE  /\ IsFiniteSet(HeldIn(box2, hand2, m))
         /\ Cardinality(HeldIn(box2, hand2, m)) <= Cardinality(HeldIn(box, hand, m))
<1> DEFINE H == HeldIn(box, hand, m)
           H2 == HeldIn(box2, hand2, m)
           f == [s \in H2 |-> IF s[1] = w THEN <<w, s[2] + 1>> ELSE s]
<1>0. /\ \A v \in Worker, i \in Nat : <<v, i>> \in H <=> InSlot(box, hand, m, v, i)
      /\ \A v \in Worker, i \in Nat : <<v, i>> \in H2 <=> InSlot(box2, hand2, m, v, i)
      /\ \A s \in H2 : \E v \in Worker, i \in Nat : s = <<v, i>>
  <2>1. PICK S, S2 : S = HeldIn(box, hand, m) /\ S2 = HeldIn(box2, hand2, m)
    OBVIOUS
  <2>2. \A v \in Worker, i \in Nat : <<v, i>> \in S <=> InSlot(box, hand, m, v, i)
    BY <2>1, HeldSlots
  <2>3. /\ \A v \in Worker, i \in Nat : <<v, i>> \in S2 <=> InSlot(box2, hand2, m, v, i)
        /\ \A s \in S2 : \E v \in Worker, i \in Nat : s = <<v, i>>
    BY <2>1, HeldSlots
  <2> QED
    BY <2>1, <2>2, <2>3
<1>1. /\ Len(box[w]) \in Nat /\ Len(box[w]) > 0 /\ Head(box[w]) = box[w][1]
      /\ \A i \in 1..Len(box2[w]) : i + 1 \in 1..Len(box[w]) /\ box2[w][i] = box[w][i + 1]
      /\ \A v \in Worker : v # w => box2[v] = box[v]
  <2>1. box2[w] = Tail(box[w]) /\ box[w] \in Seq(Msg)
    OBVIOUS
  <2> QED
    BY <2>1, Taken
<1> HIDE DEF H, H2
<1>2. ASSUME NEW s \in H2
      PROVE  \E v \in Worker, i \in Nat :
               s = <<v, i>> /\ (IF s[1] = w THEN <<w, s[2] + 1>> ELSE s) \in H
  <2>1. PICK v \in Worker, i \in Nat : s = <<v, i>>
    BY <1>0 DEF InSlot
  <2>2. CASE v # w
    BY <1>1, <2>1, <2>2, <1>0 DEF InSlot
  <2>3. CASE v = w /\ i = 0
    <3>1. box[w][1] = m /\ 1 \in 1..Len(box[w])
      BY <1>1, <2>1, <2>3, <1>0 DEF InSlot
    <3>2. <<w, 1>> \in H
      BY <3>1, <1>0 DEF InSlot
    <3> QED
      BY <2>1, <2>3, <3>2
  <2>4. CASE v = w /\ i # 0
    <3>1. i \in 1..Len(box2[w]) /\ box2[w][i] = m
      BY <2>1, <2>4, <1>0 DEF InSlot
    <3>2. <<w, i + 1>> \in H
      BY <1>1, <3>1, <1>0 DEF InSlot
    <3> QED
      BY <2>1, <2>4, <3>2
  <2> QED
    BY <2>2, <2>3, <2>4
<1>3. f \in [H2 -> H]
  BY <1>2
<1>4. ASSUME NEW s \in H2, NEW r \in H2, f[s] = f[r] PROVE s = r
  <2>1. PICK v \in Worker, i \in Nat : s = <<v, i>>
    BY <1>0
  <2>2. PICK u \in Worker, j \in Nat : r = <<u, j>>
    BY <1>0
  <2>3. f[s] = IF v = w THEN <<w, i + 1>> ELSE <<v, i>>
    BY <2>1
  <2>4. f[r] = IF u = w THEN <<w, j + 1>> ELSE <<u, j>>
    BY <2>2
  <2> QED
    BY <1>4, <2>1, <2>2, <2>3, <2>4
<1>5. f \in Injection(H2, H)
  <2>1. DOMAIN f = H2
    OBVIOUS
  <2> HIDE DEF f
  <2> QED
    BY <1>3, <1>4, <2>1 DEF Injection, IsInjective
<1> QED
  BY <1>5, FS_Injection DEF H, H2

\* A callback that is done with m gives up one slot of m.
LEMMA HeldLeaves ==
  ASSUME NEW box, NEW hand, NEW w \in Worker, NEW m, hand[w] = m,
         NEW hand2, hand2[w] # m, \A v \in Worker : v # w => hand2[v] = hand[v],
         IsFiniteSet(HeldIn(box, hand, m))
  PROVE  /\ IsFiniteSet(HeldIn(box, hand2, m))
         /\ Cardinality(HeldIn(box, hand2, m)) + 1 <= Cardinality(HeldIn(box, hand, m))
<1> DEFINE H == HeldIn(box, hand, m)
           H2 == HeldIn(box, hand2, m)
<1>0. /\ \A v \in Worker, i \in Nat : <<v, i>> \in H <=> InSlot(box, hand, m, v, i)
      /\ \A v \in Worker, i \in Nat : <<v, i>> \in H2 <=> InSlot(box, hand2, m, v, i)
      /\ \A s \in H2 : \E v \in Worker, i \in Nat : s = <<v, i>>
  <2>1. PICK S, S2 : S = HeldIn(box, hand, m) /\ S2 = HeldIn(box, hand2, m)
    OBVIOUS
  <2>2. \A v \in Worker, i \in Nat : <<v, i>> \in S <=> InSlot(box, hand, m, v, i)
    BY <2>1, HeldSlots
  <2>3. /\ \A v \in Worker, i \in Nat : <<v, i>> \in S2 <=> InSlot(box, hand2, m, v, i)
        /\ \A s \in S2 : \E v \in Worker, i \in Nat : s = <<v, i>>
    BY <2>1, HeldSlots
  <2> QED
    BY <2>1, <2>2, <2>3
<1> HIDE DEF H, H2
<1>1. <<w, 0>> \in H
  BY <1>0 DEF InSlot
<1>2. ASSUME NEW s \in H2 PROVE s \in H \ {<<w, 0>>}
  <2>1. PICK v \in Worker, i \in Nat : s = <<v, i>>
    BY <1>0 DEF InSlot
  <2>2. CASE i = 0
    <3>1. hand2[v] = m
      BY <2>1, <2>2, <1>0 DEF InSlot
    <3>2. v # w /\ hand[v] = m
      BY <3>1
    <3> QED
      BY <2>1, <2>2, <3>2, <1>0 DEF InSlot
  <2>3. CASE i # 0
    BY <2>1, <2>3, <1>0 DEF InSlot
  <2> QED
    BY <2>2, <2>3
<1>3. /\ IsFiniteSet(H \ {<<w, 0>>}) /\ Cardinality(H \ {<<w, 0>>}) = Cardinality(H) - 1
      /\ Cardinality(H) \in Nat
  BY <1>1, FS_RemoveElement, FS_CardinalityType DEF H
<1>4. H2 \subseteq H \ {<<w, 0>>}
  BY <1>2
<1>5. IsFiniteSet(H2) /\ Cardinality(H2) <= Cardinality(H) - 1 /\ Cardinality(H2) \in Nat
  BY <1>3, <1>4, FS_Subset, FS_CardinalityType
<1> QED
  BY <1>3, <1>5 DEF H, H2
-----------------------------------------------------------------------------
Known(m) == m \in Msg /\ status[m] # "absent"

WorkIsStored ==
  /\ \A w \in Worker : step[w] # "idle" => Known(cur[w])
  /\ \A w \in Worker : \A i \in 1..Len(inbox[w]) : Known(inbox[w][i])

Inv == TypeOK /\ PublishedFirst /\ WorkIsStored /\ QueueInv
-----------------------------------------------------------------------------
(* The server's steps keep the invariant.                                  *)
LEMMA QueueKeepsInv ==
  ASSUME Inv, Environment, QueueAssumption
  PROVE  Inv'
<1>1. UNCHANGED <<step, cur, copies, harmed>>
  BY DEF Environment
<1>2. ASSUME NEW m \in Msg, Store(m) \/ Lapse(m) \/ AgeOut(m)
      PROVE  Inv'
  <2>1. StreamStep /\ QueueInv' /\ UNCHANGED <<tries, inbox>>
    BY <1>2, ServerSteps DEF Inv, Store, Lapse, AgeOut
  <2>2. TypeOK'
    BY <1>1, <2>1 DEF Inv, TypeOK, QueueInv
  <2>3. PublishedFirst'
    BY <1>1 DEF Inv, PublishedFirst
  <2>4. WorkIsStored'
    BY <1>1, <2>1 DEF Inv, WorkIsStored, Known, StreamStep
  <2> QED
    BY <2>1, <2>2, <2>3, <2>4 DEF Inv
<1>3. ASSUME NEW m \in Msg, NEW w \in Worker, Deliver(m, w)
      PROVE  Inv'
  <2>1. /\ StreamStep /\ QueueInv'
        /\ \A v \in Worker : \A i \in 1..Len(inbox'[v]) :
             inbox'[v][i] = m \/ (i \in 1..Len(inbox[v]) /\ inbox'[v][i] = inbox[v][i])
    BY <1>3, Delivery DEF Inv
  <2>2. TypeOK'
    BY <1>1, <2>1 DEF Inv, TypeOK, QueueInv
  <2>3. PublishedFirst'
    BY <1>1 DEF Inv, PublishedFirst
  <2>4. status'[m] # "absent"
    BY <1>3 DEF Deliver, Inv, TypeOK, QueueTypeOK
  <2>5. \A n : Known(n) => Known(n)'
    BY <2>1 DEF Known, StreamStep
  <2>6. \A v \in Worker : step'[v] # "idle" => Known(cur[v])'
    BY <1>1, <2>5 DEF Inv, WorkIsStored, Known
  <2>7. ASSUME NEW v \in Worker, NEW i \in 1..Len(inbox'[v])
        PROVE  inbox'[v][i] \in Msg /\ status'[inbox'[v][i]] # "absent"
    <3>1. CASE inbox'[v][i] = m
      BY <2>4, <3>1
    <3>2. CASE i \in 1..Len(inbox[v]) /\ inbox'[v][i] = inbox[v][i]
      BY <2>1, <3>2 DEF Inv, WorkIsStored, Known, StreamStep
    <3> QED
      BY <2>1, <3>1, <3>2
  <2>8. WorkIsStored'
    BY <1>1, <2>6, <2>7 DEF WorkIsStored, Known
  <2> QED
    BY <2>1, <2>2, <2>3, <2>8 DEF Inv
<1> QED
  BY <1>2, <1>3 DEF Environment, QueueNext

(* So do the steps of a replica.                                           *)
LEMMA WorkerKeepsInv ==
  ASSUME Inv, NEW w \in Worker, Callback(w) \/ PublishFails(w) \/ Crash(w),
         WorkerAssumption
  PROVE  Inv'
<1> USE DEF Inv
<1>1. CASE Begin(w)
  <2>1. PICK q \in Seq(Msg) : q = inbox[w] /\ q # <<>>
    BY <1>1 DEF Begin, TypeOK, QueueTypeOK
  <2>2. /\ Head(q) \in Msg /\ Head(q) = q[1] /\ 1 \in 1..Len(q)
        /\ Tail(q) \in Seq(Msg)
        /\ \A i \in 1..Len(Tail(q)) : i + 1 \in 1..Len(q) /\ Tail(q)[i] = q[i + 1]
    BY <2>1, Taken
  <2>3. PICK h, t : h = Head(q) /\ t = Tail(q)
    OBVIOUS
  <2>4. /\ inbox' = [inbox EXCEPT ![w] = t]
        /\ step' = [step EXCEPT ![w] = "enriching"] /\ cur' = [cur EXCEPT ![w] = h]
        /\ UNCHANGED <<status, tries, copies, harmed>>
    BY <1>1, <2>1, <2>3 DEF Begin
  <2>5. Known(h) /\ \A i \in 1..Len(t) : Known(t[i])
    BY <2>1, <2>2, <2>3 DEF WorkIsStored
  <2>6. TypeOK'
    BY <2>2, <2>3, <2>4, WorkerAssumption DEF TypeOK, QueueTypeOK
  <2>7. PublishedFirst'
    BY <2>4 DEF TypeOK, QueueTypeOK, PublishedFirst
  <2>8. WorkIsStored'
    BY <2>4, <2>5 DEF TypeOK, QueueTypeOK, WorkIsStored, Known
  <2>9. QueueInv'
    BY <2>4, <2>6 DEF TypeOK, QueueInv, DeliveriesLeft
  <2> QED
    BY <2>6, <2>7, <2>8, <2>9
<1>2. CASE Reject(w) \/ Acknowledge(w) \/ Retry(w)
  <2>1. cur[w] \in Msg
    BY <1>2 DEF Reject, Acknowledge, Retry, TypeOK, QueueTypeOK
  <2>2. /\ Acked(cur[w]) \/ Naked(cur[w])
        /\ Return(w) /\ UNCHANGED <<tries, inbox, copies, harmed>>
    BY <1>2 DEF Reject, Acknowledge, Retry
  <2>3. StreamStep /\ QueueInv'
    BY <2>1, <2>2, Settling
  <2>4. TypeOK'
    BY <2>2, <2>3 DEF TypeOK, QueueTypeOK, StreamStep, Return
  <2>5. PublishedFirst'
    BY <2>2 DEF PublishedFirst, Return, TypeOK
  <2>6. WorkIsStored'
    BY <2>2, <2>3 DEF WorkIsStored, Known, StreamStep, Return, TypeOK
  <2> QED
    BY <2>3, <2>4, <2>5, <2>6
<1>3. CASE Publish(w) \/ PublishFails(w)
  <2>1. cur[w] \in Msg /\ cur[w] \notin Junk /\ step[w] = "enriching"
    BY <1>3 DEF Publish, PublishFails, TypeOK
  <2>2. UNCHANGED <<status, tries, inbox, cur>>
    BY <1>3 DEF Publish, PublishFails, queueVars
  <2>3. StoreEnriched(cur[w]) \/ UNCHANGED copies
    BY <1>3 DEF Publish, PublishFails
  <2>4. /\ copies' \in [Msg -> Nat]
        /\ \A m \in Msg : copies[m] > 0 => copies'[m] > 0
    BY <2>1, <2>3 DEF TypeOK, StoreEnriched
  <2>5. \/ step' = [step EXCEPT ![w] = "published"] /\ copies'[cur[w]] > 0
        \/ step' = [step EXCEPT ![w] = "failed"]
    BY <1>3, <2>1 DEF Publish, PublishFails, StoreEnriched, TypeOK
  <2>6. TypeOK'
    <3>1. harmed' \subseteq Msg
      BY <1>3, <2>1 DEF Publish, PublishFails, TypeOK
    <3> QED
      BY <2>1, <2>2, <2>4, <2>5, <3>1 DEF TypeOK, QueueTypeOK
  <2>7. PublishedFirst'
    BY <2>1, <2>2, <2>4, <2>5 DEF TypeOK, PublishedFirst
  <2>8. WorkIsStored'
    BY <2>1, <2>2, <2>5 DEF WorkIsStored, Known, TypeOK
  <2>9. QueueInv'
    BY <2>2 DEF QueueInv, QueueTypeOK, DeliveriesLeft
  <2> QED
    BY <2>6, <2>7, <2>8, <2>9
<1>4. CASE Crash(w)
  <2>1. /\ inbox' = [inbox EXCEPT ![w] = <<>>] /\ Return(w)
        /\ UNCHANGED <<status, tries, copies>>
    BY <1>4 DEF Crash
  <2>2. TypeOK'
    <3>1. harmed' \subseteq Msg
      BY <1>4 DEF Crash, TypeOK
    <3> QED
      BY <2>1, <3>1 DEF TypeOK, QueueTypeOK, Return
  <2>3. PublishedFirst'
    BY <2>1 DEF PublishedFirst, Return, TypeOK
  <2>4. WorkIsStored'
    BY <2>1 DEF WorkIsStored, Known, Return, TypeOK, QueueTypeOK
  <2>5. QueueInv'
    BY <2>1 DEF QueueInv, QueueTypeOK, DeliveriesLeft
  <2> QED
    BY <2>2, <2>3, <2>4, <2>5
<1> QED
  BY <1>1, <1>2, <1>3, <1>4 DEF Callback

(* The invariant holds at the start and every step keeps it.               *)
LEMMA InvInductive ==
  ASSUME QueueAssumption, WorkerAssumption
  PROVE  (Init => Inv) /\ (Inv /\ [Next]_vars => Inv')
<1>1. Init => Inv
  BY DEF Init, QueueInit, Inv, TypeOK, QueueTypeOK, PublishedFirst, WorkIsStored,
         QueueInv, DeliveriesLeft, QueueAssumption
<1>2. ASSUME Inv, UNCHANGED vars
      PROVE  Inv'
  BY <1>2 DEF vars, queueVars, Inv, TypeOK, QueueTypeOK, PublishedFirst, WorkIsStored,
              Known, QueueInv, DeliveriesLeft
<1>3. Inv /\ [Next]_vars => Inv'
  BY <1>2, QueueKeepsInv, WorkerKeepsInv DEF Next
<1> QED
  BY <1>1, <1>3

\* So it always holds.
LEMMA Invariant == Spec => []Inv
BY InvInductive, QueueAssumption, WorkerAssumption, PTL DEF Spec

(* The variables keep their types and a replica acknowledges only what it  *)
(* published itself, in every behaviour.                                   *)
THEOREM WorkersPublishFirst == Spec => [](TypeOK /\ PublishedFirst)
<1>1. Inv => TypeOK /\ PublishedFirst
  BY DEF Inv
<1> QED
  BY <1>1, Invariant, PTL
-----------------------------------------------------------------------------
(* What a change of one message in the stream is for the abstract stage.   *)
LEMMA FateStep ==
  ASSUME Inv, NEW m \in Msg,
         NEW x \in {"absent", "waiting", "pending", "acked", "spent", "aged"},
         status' = [status EXCEPT ![m] = x]
  PROVE  /\ [n \in Msg |-> Fate(n)] \in [Msg -> {"absent", "held", "settled", "given up"}]
         /\ [n \in Msg |-> Fate(n)]'
              = [[n \in Msg |-> Fate(n)] EXCEPT ![m] = FateOf(x)]
<1>1. status \in [Msg -> {"absent", "waiting", "pending", "acked", "spent", "aged"}]
  BY DEF Inv, TypeOK, QueueTypeOK
<1>2. \A s \in {"absent", "waiting", "pending", "acked", "spent", "aged"} :
        FateOf(s) \in {"absent", "held", "settled", "given up"}
  BY DEF FateOf
<1> QED
  BY <1>1, <1>2 DEF Fate

(* Every step of the workers is a step of the stage or is invisible to it. *)
LEMMA NextRefinesStage ==
  ASSUME Inv, [Next]_vars, QueueAssumption
  PROVE  [Promise!Next]_(Promise!stageVars)
<1> DEFINE fate == [n \in Msg |-> Fate(n)]
<1>0. ASSUME NEW m \in Msg, fate[m] = "held", fate' = [fate EXCEPT ![m] = "given up"],
             UNCHANGED copies
      PROVE  [Promise!Next]_(Promise!stageVars)
  <2>1. \A n \in {m} : fate[n] = "held"
    BY <1>0
  <2>2. fate' = [n \in Msg |-> IF n \in {m} THEN "given up" ELSE fate[n]]
    BY <1>0
  <2>3. {m} \in SUBSET Msg
    OBVIOUS
  <2> QED
    BY <1>0, <2>1, <2>2, <2>3 DEF Promise!Next, Promise!GiveUp
<1>1. ASSUME UNCHANGED <<status, copies>>
      PROVE  UNCHANGED Promise!stageVars
  BY <1>1 DEF Promise!stageVars, Fate
<1>2. ASSUME NEW m \in Msg, status' = [status EXCEPT ![m] = Unacked(m)],
             status[m] = "pending", UNCHANGED copies
      PROVE  [Promise!Next]_(Promise!stageVars)
  <2>1. PICK x \in {"waiting", "spent"} : x = Unacked(m)
    BY DEF Unacked
  <2>2. fate' = [fate EXCEPT ![m] = FateOf(x)] /\ fate[m] = "held"
    BY <1>2, <2>1, FateStep DEF Fate, FateOf
  <2>3. CASE x = "waiting"
    BY <1>2, <2>2, <2>3, FateStep DEF Promise!stageVars, FateOf
  <2>4. CASE x = "spent"
    BY <1>2, <2>2, <2>4, <1>0 DEF FateOf
  <2> QED
    BY <2>1, <2>3, <2>4
<1>3. ASSUME NEW m \in Msg, Naked(m), UNCHANGED copies
      PROVE  [Promise!Next]_(Promise!stageVars)
  <2>1. CASE status[m] = "pending"
    BY <1>1, <1>2, <1>3, <2>1 DEF Naked
  <2>2. CASE status[m] # "pending"
    <3>1. UNCHANGED status
      BY <1>3, <2>2 DEF Naked, Inv, TypeOK, QueueTypeOK
    <3> QED
      BY <1>1, <1>3, <3>1
  <2> QED
    BY <2>1, <2>2
<1>4. ASSUME NEW m \in Msg, Acked(m), copies[m] > 0, UNCHANGED copies
      PROVE  [Promise!Next]_(Promise!stageVars)
  <2>1. CASE status[m] \in {"waiting", "pending"} /\ status' = [status EXCEPT ![m] = "acked"]
    <3>1. fate' = [fate EXCEPT ![m] = FateOf("acked")] /\ fate[m] = "held"
      BY <2>1, FateStep DEF Fate, FateOf
    <3> QED
      BY <1>4, <3>1 DEF Promise!Next, Promise!Settle, FateOf
  <2>2. CASE UNCHANGED status
    BY <1>1, <1>4, <2>2
  <2>3. CASE status[m] \notin {"waiting", "pending"}
    <3>1. UNCHANGED status
      BY <1>4, <2>3 DEF Acked, Inv, TypeOK, QueueTypeOK
    <3> QED
      BY <1>1, <1>4, <3>1
  <2> QED
    BY <1>4, <2>1, <2>2, <2>3 DEF Acked
<1>5. ASSUME NEW m \in Msg, Store(m), UNCHANGED copies
      PROVE  [Promise!Next]_(Promise!stageVars)
  <2>1. fate' = [fate EXCEPT ![m] = FateOf("waiting")] /\ fate[m] = "absent"
    BY <1>5, FateStep DEF Store, Fate, FateOf
  <2> QED
    BY <1>5, <2>1 DEF Promise!Next, Promise!Accept, FateOf
<1>6. ASSUME NEW m \in Msg, AgeOut(m), UNCHANGED copies
      PROVE  [Promise!Next]_(Promise!stageVars)
  <2>1. fate' = [fate EXCEPT ![m] = "given up"] /\ fate[m] \in {"held", "given up"}
    BY <1>6, FateStep DEF AgeOut, Fate, FateOf
  <2>2. CASE fate[m] = "held"
    BY <1>0, <1>6, <2>1, <2>2
  <2>3. CASE fate[m] = "given up"
    BY <1>6, <2>1, <2>3 DEF Promise!stageVars
  <2> QED
    BY <2>1, <2>2, <2>3
<1>7. ASSUME NEW m \in Msg, NEW w \in Worker, Deliver(m, w), UNCHANGED copies
      PROVE  [Promise!Next]_(Promise!stageVars)
  <2>1. fate' = [fate EXCEPT ![m] = FateOf("pending")] /\ fate[m] = "held"
    BY <1>7, FateStep DEF Deliver, Fate, FateOf
  <2> QED
    BY <1>7, <2>1, FateStep DEF Promise!stageVars, FateOf
<1>8. ASSUME NEW w \in Worker, Publish(w) \/ PublishFails(w)
      PROVE  [Promise!Next]_(Promise!stageVars)
  <2>1. /\ cur[w] \in Msg \ Junk /\ Known(cur[w]) /\ UNCHANGED status
        /\ StoreEnriched(cur[w]) \/ UNCHANGED copies
    BY <1>8 DEF Publish, PublishFails, Inv, TypeOK, WorkIsStored, queueVars
  <2>2. CASE StoreEnriched(cur[w])
    <3>1. fate' = fate /\ fate[cur[w]] # "absent"
      BY <2>1 DEF Fate, FateOf, Known, Inv, TypeOK, QueueTypeOK
    <3> QED
      BY <2>1, <2>2, <3>1 DEF Promise!Next, Promise!HandOn, StoreEnriched
  <2> QED
    BY <1>1, <2>1, <2>2
<1>9. ASSUME NEW w \in Worker, Callback(w) \/ PublishFails(w) \/ Crash(w)
      PROVE  [Promise!Next]_(Promise!stageVars)
  <2>1. CASE Begin(w) \/ Crash(w)
    BY <1>1, <2>1 DEF Begin, Crash
  <2>2. CASE Reject(w) \/ Retry(w)
    BY <1>3, <2>2 DEF Reject, Retry, Inv, TypeOK
  <2>3. CASE Acknowledge(w)
    BY <1>4, <2>3 DEF Acknowledge, Inv, TypeOK, PublishedFirst
  <2> QED
    BY <1>8, <1>9, <2>1, <2>2, <2>3 DEF Callback
<1>10. CASE Environment
  <2>1. UNCHANGED copies
    BY <1>10 DEF Environment
  <2>2. ASSUME NEW m \in Msg, Lapse(m)
        PROVE  [Promise!Next]_(Promise!stageVars)
    BY <1>2, <2>1, <2>2 DEF Lapse
  <2> QED
    BY <1>5, <1>6, <1>7, <1>10, <2>1, <2>2 DEF Environment, QueueNext
<1>11. CASE UNCHANGED vars
  BY <1>1, <1>11 DEF vars, queueVars
<1> QED
  BY <1>9, <1>10, <1>11 DEF Next

(* The workers implement the stage, in every behaviour and with every      *)
(* fault: no raw scan is settled before its enriched scan was handed on.   *)
THEOREM WorkersKeepPromise == Spec => StageSpec
<1> SUFFICES ASSUME QueueAssumption, WorkerAssumption
             PROVE  Spec => StageSpec
  BY QueueAssumption, WorkerAssumption
<1>1. Init => Promise!Init
  BY DEF Init, QueueInit, Promise!Init, Fate, FateOf
<1>2. (Init => Inv) /\ (Inv /\ [Next]_vars => Inv')
  BY InvInductive
<1>3. Inv /\ [Next]_vars => [Promise!Next]_(Promise!stageVars)
  BY NextRefinesStage
<1> QED
  BY <1>1, <1>2, <1>3, PTL DEF Spec, StageSpec, Promise!Spec
-----------------------------------------------------------------------------
(* The raw scan of a delivery the callback has not answered with a publish. *)
Hand == [w \in Worker |-> IF step[w] = "enriching" THEN cur[w] ELSE None]

Held(m) == HeldIn(inbox, Hand, m)

(* Each delivery is a publish at most once: those that are still in a      *)
(* buffer or a hand have been none.                                        *)
CopiesCounted ==
  \A m \in Msg : IsFiniteSet(Held(m)) /\ copies[m] + Cardinality(Held(m)) <= tries[m]

\* A step that gives no new copies and leaves no more deliveries held.
LEMMA NoMoreHeld ==
  ASSUME CopiesCounted, TypeOK, UNCHANGED <<copies, tries>>,
         \A m \in Msg : /\ IsFiniteSet(Held(m)) => IsFiniteSet(Held(m)')
                        /\ IsFiniteSet(Held(m)) => Cardinality(Held(m)') <= Cardinality(Held(m))
  PROVE  CopiesCounted'
<1> SUFFICES ASSUME NEW m \in Msg
             PROVE  IsFiniteSet(Held(m)') /\ copies[m] + Cardinality(Held(m)') <= tries[m]
  BY DEF CopiesCounted
<1>1. PICK S, T : S = Held(m) /\ T = Held(m)'
  OBVIOUS
<1>2. IsFiniteSet(S) /\ IsFiniteSet(T) /\ Cardinality(T) <= Cardinality(S)
      /\ copies[m] + Cardinality(S) <= tries[m]
  BY <1>1 DEF CopiesCounted
<1>3. Cardinality(S) \in Nat /\ Cardinality(T) \in Nat /\ copies[m] \in Nat /\ tries[m] \in Int
  BY <1>2, FS_CardinalityType DEF TypeOK, QueueTypeOK
<1>4. copies[m] + Cardinality(T) <= tries[m]
  BY <1>2, <1>3
<1> QED
  BY <1>1, <1>2, <1>4

LEMMA DeliverCounted ==
  ASSUME CopiesCounted, TypeOK, NEW m \in Msg, NEW w \in Worker, Deliver(m, w),
         UNCHANGED <<step, cur, copies, harmed>>
  PROVE  CopiesCounted'
<1> SUFFICES ASSUME NEW n \in Msg
             PROVE  IsFiniteSet(Held(n)') /\ copies[n] + Cardinality(Held(n)') <= tries'[n]
  BY DEF CopiesCounted
<1>1. Hand' = Hand /\ inbox' = [inbox EXCEPT ![w] = Append(@, m)] /\ inbox \in [Worker -> Seq(Msg)]
  BY DEF Hand, Deliver, TypeOK, QueueTypeOK
<1>2. PICK S, T, d : S = Held(n) /\ T = Held(n)' /\ d = (IF n = m THEN 1 ELSE 0)
  OBVIOUS
<1>3. IsFiniteSet(S) /\ copies[n] + Cardinality(S) <= tries[n]
  BY <1>2 DEF CopiesCounted
<1>4. IsFiniteSet(T) /\ Cardinality(T) <= Cardinality(S) + d
  <2>1. PICK box, hand, box2 : box = inbox /\ hand = Hand /\ box2 = inbox'
    OBVIOUS
  <2>2. /\ box[w] \in Seq(Msg) /\ box2[w] = Append(box[w], m)
        /\ \A v \in Worker : v # w => box2[v] = box[v]
    BY <1>1, <2>1
  <2>3. S = HeldIn(box, hand, n) /\ T = HeldIn(box2, hand, n)
    BY <1>1, <1>2, <2>1 DEF Held
  <2>4. /\ IsFiniteSet(T)
        /\ n = m => Cardinality(T) <= Cardinality(S) + 1
        /\ n # m => Cardinality(T) <= Cardinality(S)
    BY <1>3, <2>2, <2>3, HeldGrows
  <2>5. Cardinality(S) \in Nat /\ Cardinality(T) \in Nat
    BY <1>3, <2>4, FS_CardinalityType
  <2> QED
    BY <1>2, <2>4, <2>5
<1>5. /\ Cardinality(S) \in Nat /\ Cardinality(T) \in Nat
      /\ copies[n] \in Nat /\ tries[n] \in Int /\ d \in Nat /\ tries'[n] = tries[n] + d
  BY <1>2, <1>3, <1>4, FS_CardinalityType DEF TypeOK, QueueTypeOK, Deliver
<1>6. copies[n] + Cardinality(T) <= tries'[n]
  BY <1>3, <1>4, <1>5
<1> QED
  BY <1>2, <1>4, <1>6

\* A publish counts, and the delivery is out of the callback's hand.
LEMMA PublishCounted ==
  ASSUME CopiesCounted, TypeOK, WorkerAssumption, NEW w \in Worker, Publish(w) \/ PublishFails(w)
  PROVE  CopiesCounted'
<1> SUFFICES ASSUME NEW n \in Msg
             PROVE  IsFiniteSet(Held(n)') /\ copies'[n] + Cardinality(Held(n)') <= tries[n]
  BY DEF CopiesCounted, Publish, PublishFails, queueVars
<1>1. /\ step[w] = "enriching" /\ cur[w] \in Msg
      /\ UNCHANGED <<inbox, tries, cur>>
      /\ StoreEnriched(cur[w]) \/ UNCHANGED copies
  BY DEF Publish, PublishFails, queueVars, TypeOK
<1>2. /\ Hand[w] = cur[w] /\ Hand'[w] = None
      /\ \A v \in Worker : v # w => Hand'[v] = Hand[v]
  BY <1>1 DEF Hand, Publish, PublishFails, TypeOK
<1>3. PICK S, T : S = Held(n) /\ T = Held(n)'
  OBVIOUS
<1>4. IsFiniteSet(S) /\ copies[n] + Cardinality(S) <= tries[n]
  BY <1>3 DEF CopiesCounted
<1>5. copies[n] \in Nat /\ tries[n] \in Int /\ Cardinality(S) \in Nat
  BY <1>4, FS_CardinalityType DEF TypeOK, QueueTypeOK
<1>6. CASE n = cur[w]
  <2>1. Hand'[w] # n
    BY <1>2, <1>6, WorkerAssumption
  <2>2. IsFiniteSet(T) /\ Cardinality(T) + 1 <= Cardinality(S)
    BY <1>1, <1>2, <1>3, <1>4, <1>6, <2>1, HeldLeaves DEF Held
  <2>3. Cardinality(T) \in Nat
    BY <2>2, FS_CardinalityType
  <2>4. copies'[n] \in Nat /\ copies'[n] <= copies[n] + 1
    BY <1>1, <1>5, <1>6 DEF StoreEnriched, TypeOK
  <2>5. copies'[n] + Cardinality(T) <= tries[n]
    BY <1>4, <1>5, <2>2, <2>3, <2>4
  <2> QED
    BY <1>3, <2>2, <2>5
<1>7. CASE n # cur[w]
  <2>1. \A v \in Worker : Hand'[v] = n => Hand[v] = n
    BY <1>2, WorkerAssumption
  <2>2. IsFiniteSet(T) /\ Cardinality(T) <= Cardinality(S)
    BY <1>1, <1>3, <1>4, <2>1, HeldShrinks DEF Held
  <2>3. Cardinality(T) \in Nat
    BY <2>2, FS_CardinalityType
  <2>4. copies'[n] = copies[n]
    BY <1>1, <1>7 DEF StoreEnriched, TypeOK
  <2>5. copies'[n] + Cardinality(T) <= tries[n]
    BY <1>4, <1>5, <2>2, <2>3, <2>4
  <2> QED
    BY <1>3, <2>2, <2>5
<1> QED
  BY <1>6, <1>7

LEMMA CountedStep ==
  ASSUME CopiesCounted, TypeOK, QueueAssumption, WorkerAssumption, [Next]_vars
  PROVE  CopiesCounted'
<1>1. inbox \in [Worker -> Seq(Msg)] /\ \A m \in Msg : m # None
  BY WorkerAssumption DEF TypeOK, QueueTypeOK
<1>2. ASSUME \A v \in Worker : inbox'[v] = inbox[v] \/ inbox'[v] = <<>>,
             \A v \in Worker : Hand'[v] = Hand[v] \/ Hand'[v] = None,
             UNCHANGED <<copies, tries>>
      PROVE  CopiesCounted'
  <2>1. ASSUME NEW m \in Msg, IsFiniteSet(Held(m))
        PROVE  IsFiniteSet(Held(m)') /\ Cardinality(Held(m)') <= Cardinality(Held(m))
    <3>1. \A v \in Worker : Hand'[v] = m => Hand[v] = m
      BY <1>1, <1>2
    <3> QED
      BY <1>2, <2>1, <3>1, HeldShrinks DEF Held
  <2> QED
    BY <1>2, <2>1, NoMoreHeld
<1>3. CASE Environment
  <2>1. UNCHANGED <<step, cur, copies, harmed>> /\ Hand' = Hand
    BY <1>3 DEF Environment, Hand
  <2>2. ASSUME NEW m \in Msg, Store(m) \/ Lapse(m) \/ AgeOut(m) PROVE CopiesCounted'
    BY <1>2, <2>1, <2>2 DEF Store, Lapse, AgeOut
  <2> QED
    BY <1>3, <2>1, <2>2, DeliverCounted DEF Environment, QueueNext
<1>4. ASSUME NEW w \in Worker, Begin(w) PROVE CopiesCounted'
  <2>1. /\ inbox[w] # <<>> /\ inbox' = [inbox EXCEPT ![w] = Tail(@)]
        /\ UNCHANGED <<tries, copies>>
    BY <1>4 DEF Begin
  <2>2. Hand'[w] = Head(inbox[w]) /\ \A v \in Worker : v # w => Hand'[v] = Hand[v]
    BY <1>4 DEF Begin, Hand, TypeOK
  <2>3. ASSUME NEW m \in Msg, IsFiniteSet(Held(m))
        PROVE  IsFiniteSet(Held(m)') /\ Cardinality(Held(m)') <= Cardinality(Held(m))
    <3>1. \A v \in Worker : Hand'[v] = m => (v = w /\ Head(inbox[w]) = m) \/ (v # w /\ Hand[v] = m)
      BY <2>2
    <3>2. PICK box, hand, box2, hand2 :
            box = inbox /\ hand = Hand /\ box2 = inbox' /\ hand2 = Hand'
      OBVIOUS
    <3>3. /\ box[w] \in Seq(Msg) /\ box[w] # <<>> /\ box2[w] = Tail(box[w])
          /\ \A v \in Worker : v # w => box2[v] = box[v]
          /\ \A v \in Worker : hand2[v] = m => (v = w /\ Head(box[w]) = m) \/ (v # w /\ hand[v] = m)
      BY <1>1, <2>1, <3>1, <3>2
    <3>4. Held(m) = HeldIn(box, hand, m) /\ Held(m)' = HeldIn(box2, hand2, m)
      BY <3>2 DEF Held
    <3> QED
      BY <2>3, <3>3, <3>4, HeldMoves
  <2> QED
    BY <2>1, <2>3, NoMoreHeld
<1>5. ASSUME NEW w \in Worker, Reject(w) \/ Acknowledge(w) \/ Retry(w) \/ Crash(w)
      PROVE  CopiesCounted'
  <2>1. Return(w) /\ UNCHANGED <<tries, copies>>
    BY <1>5 DEF Reject, Acknowledge, Retry, Crash
  <2>2. \A v \in Worker : inbox'[v] = inbox[v] \/ inbox'[v] = <<>>
    BY <1>5 DEF Reject, Acknowledge, Retry, Crash, TypeOK, QueueTypeOK
  <2>3. \A v \in Worker : Hand'[v] = Hand[v] \/ Hand'[v] = None
    BY <2>1 DEF Return, Hand, TypeOK
  <2> QED
    BY <1>2, <2>1, <2>2, <2>3
<1>6. CASE UNCHANGED vars
  BY <1>2, <1>6 DEF vars, queueVars, Hand
<1> QED
  BY <1>3, <1>4, <1>5, <1>6, PublishCounted DEF Next, Callback

LEMMA InitCounted ==
  ASSUME Init, WorkerAssumption
  PROVE  CopiesCounted
<1> SUFFICES ASSUME NEW m \in Msg
             PROVE  IsFiniteSet(Held(m)) /\ copies[m] + Cardinality(Held(m)) <= tries[m]
  BY DEF CopiesCounted
<1>1. \A v \in Worker : inbox[v] = <<>> /\ Hand[v] # m
  BY WorkerAssumption DEF Init, QueueInit, Hand
<1>2. IsFiniteSet(Held(m)) /\ Cardinality(Held(m)) = 0
  BY <1>1, NothingHeld DEF Held
<1> QED
  BY <1>2 DEF Init, QueueInit

\* So in every behaviour each publish has a delivery of its own.
LEMMA CopiesAlwaysCounted == Spec => []CopiesCounted
<1>1. WorkerAssumption /\ Init => CopiesCounted
  BY InitCounted
<1>2. QueueAssumption /\ WorkerAssumption /\ CopiesCounted /\ TypeOK /\ [Next]_vars => CopiesCounted'
  BY CountedStep
<1> QED
  BY <1>1, <1>2, WorkersPublishFirst, QueueAssumption, WorkerAssumption, PTL DEF Spec

(* No raw scan has more enriched scans than deliveries: for any number of  *)
(* replicas, with deliveries that overlap, lapse in a buffer, outlive the  *)
(* ack of another, or are published by a call that reports a failure.      *)
THEOREM WorkersCopyOncePerDelivery == Spec => []OneCopyPerDelivery
<1>1. CopiesCounted /\ TypeOK => OneCopyPerDelivery
  <2> SUFFICES ASSUME CopiesCounted, TypeOK, NEW m \in Msg
               PROVE  copies[m] <= tries[m]
    BY DEF OneCopyPerDelivery
  <2>1. PICK S : S = Held(m)
    OBVIOUS
  <2>2. IsFiniteSet(S) /\ copies[m] + Cardinality(S) <= tries[m]
    BY <2>1 DEF CopiesCounted
  <2>3. Cardinality(S) \in Nat /\ copies[m] \in Nat /\ tries[m] \in Int
    BY <2>2, FS_CardinalityType DEF TypeOK, QueueTypeOK
  <2> QED
    BY <2>2, <2>3
<1> QED
  BY <1>1, CopiesAlwaysCounted, WorkersPublishFirst, PTL
=============================================================================
