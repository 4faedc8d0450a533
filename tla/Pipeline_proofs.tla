--------------------------- MODULE Pipeline_proofs ---------------------------
(***************************************************************************)
(* Proofs about Pipeline for any tasks, agents, indexers and limits, and   *)
(* with every fault.                                                       *)
(*                                                                         *)
(* The two queues are those of the enrichment workers' proofs: of the      *)
(* agents' queue the lemmas about deliveries are used, and the indexer is  *)
(* shown to be an enrichment worker whose results are writes, so that what *)
(* is proved of one holds of the other.                                    *)
(***************************************************************************)
EXTENDS Pipeline, SequenceTheorems, FiniteSetTheorems, TLAPS

TaskQueue == INSTANCE EnrichmentWorker_proofs WITH
               Msg <- Task, Junk <- {}, Ages <- FALSE, Worker <- Agent,
               MaxDeliver <- TaskDeliver, None <- A!None,
               status <- taskStatus, tries <- taskTries, inbox <- taskInbox,
               step <- sweep, cur <- sweeping, copies <- raw, harmed <- taskHarmed

\* Where an enrichment worker is when the indexer is where it is.
AsWorker(s) ==
  CASE s = "indexing" -> "enriching"
    [] s = "indexed" -> "published"
    [] OTHER -> s

ScanQueue == INSTANCE EnrichmentWorker_proofs WITH
               Msg <- Scan, Junk <- {}, Ages <- FALSE, Worker <- Indexer,
               MaxDeliver <- IndexDeliver, None <- I!None,
               status <- scanStatus, tries <- scanTries, inbox <- scanInbox,
               step <- [w \in Indexer |-> AsWorker(indexing[w])], cur <- indexed,
               copies <- writes, harmed <- scanHarmed
-----------------------------------------------------------------------------
(* What a sequence is after an append.                                     *)
LEMMA Appended ==
  ASSUME NEW S, NEW q \in Seq(S), NEW x \in S, NEW s, s = Append(q, x)
  PROVE  /\ s \in Seq(S) /\ Len(s) = Len(q) + 1 /\ s[Len(q) + 1] = x
         /\ \A i \in 1..Len(q) : s[i] = q[i]
<1>1. Append(q, x) \in Seq(S)
  OBVIOUS
<1>2. Len(Append(q, x)) = Len(q) + 1
  OBVIOUS
<1>3. Append(q, x)[Len(q) + 1] = x
  OBVIOUS
<1>4. \A i \in 1..Len(q) : Append(q, x)[i] = q[i]
  OBVIOUS
<1> QED
  BY <1>1, <1>2, <1>3, <1>4

LEMMA Triple ==
  ASSUME NEW a, NEW b, NEW c 
  PROVE  Append(<<a, b>>, c) = <<a, b, c>>
<1>0. PICK S : a \in S /\ b \in S /\ c \in S
  <2>1. a \in {a, b, c} /\ b \in {a, b, c} /\ c \in {a, b, c}
    OBVIOUS
  <2> QED
    BY <2>1
<1>1. <<a, b>> \in Seq(S) /\ <<a, b, c>> \in Seq(S) /\ Len(<<a, b>>) = 2 /\ Len(<<a, b, c>>) = 3
  BY <1>0
<1>2. PICK q : q = <<a, b>>
  OBVIOUS
<1>3. PICK r : r = <<a, b, c>>
  OBVIOUS
<1>4. /\ q \in Seq(S) /\ Len(q) = 2 /\ r \in Seq(S) /\ Len(r) = 3
      /\ q[1] = a /\ q[2] = b /\ r[1] = a /\ r[2] = b /\ r[3] = c
  BY <1>1, <1>2, <1>3
<1>5. PICK s : s = Append(q, c)
  OBVIOUS
<1>6. /\ s \in Seq(S) /\ Len(s) = Len(q) + 1 /\ s[Len(q) + 1] = c
      /\ \A i \in 1..Len(q) : s[i] = q[i]
  <2>1. q \in Seq(S)
    BY <1>4
  <2> QED
    BY <1>0, <1>5, <2>1, Appended
<1>7. Len(s) = 3 /\ s[1] = a /\ s[2] = b /\ s[3] = c
  BY <1>4, <1>6
<1>8. \A i \in 1..3 : s[i] = r[i]
  <2>1. \A i \in 1..3 : i = 1 \/ i = 2 \/ i = 3
    OBVIOUS
  <2> QED
    BY <1>4, <1>7, <2>1
<1>9. s = r
  BY <1>4, <1>6, <1>7, <1>8, SeqEqual
<1> QED
  BY <1>2, <1>3, <1>5, <1>9
-----------------------------------------------------------------------------
(* The lemmas about a queue hold of both: their constants are what they    *)
(* ask for, and the instances have one notion of size.                     *)
LEMMA NoScanIsNone == I!None \notin Scan
BY DEF I!None, Scan

LEMMA TaskQueueApplies == TaskQueue!QueueAssumption /\ TaskQueue!WorkerAssumption
BY PipelineAssumption DEF TaskQueue!QueueAssumption, TaskQueue!WorkerAssumption

LEMMA ScanQueueApplies == ScanQueue!QueueAssumption /\ ScanQueue!WorkerAssumption
BY PipelineAssumption, NoScanIsNone DEF ScanQueue!QueueAssumption, ScanQueue!WorkerAssumption

LEMMA TaskQueueSizes ==
  ASSUME NEW S
  PROVE  /\ IsFiniteSet(S) <=> TaskQueue!IsFiniteSet(S)
         /\ Cardinality(S) = TaskQueue!Cardinality(S)
<1>1. IsFiniteSet(S) <=> TaskQueue!IsFiniteSet(S)
  BY DEF IsFiniteSet, TaskQueue!IsFiniteSet
<1>2. Cardinality(S) = TaskQueue!Cardinality(S)
  BY DEF Cardinality, TaskQueue!Cardinality
<1> QED
  BY <1>1, <1>2

LEMMA ScanQueueSizes ==
  ASSUME NEW S
  PROVE  /\ IsFiniteSet(S) <=> ScanQueue!IsFiniteSet(S)
         /\ Cardinality(S) = ScanQueue!Cardinality(S)
<1>1. IsFiniteSet(S) <=> ScanQueue!IsFiniteSet(S)
  BY DEF IsFiniteSet, ScanQueue!IsFiniteSet
<1>2. Cardinality(S) = ScanQueue!Cardinality(S)
  BY DEF Cardinality, ScanQueue!Cardinality
<1> QED
  BY <1>1, <1>2

LEMMA StageSizes ==
  ASSUME NEW S
  PROVE  Cardinality(S) = A!Cardinality(S) /\ Cardinality(S) = I!Cardinality(S)
BY DEF Cardinality, A!Cardinality, I!Cardinality
-----------------------------------------------------------------------------
(* The indexer is an enrichment worker.                                    *)
IndexTypes ==
  /\ indexing \in [Indexer -> {"idle", "indexing", "indexed", "failed"}]
  /\ copies \in [Raw -> 0..Copies]
  /\ rawFate \in [Raw -> {"absent", "held", "settled", "given up"}]

LEMMA OneMore ==
  ASSUME NEW c \in Nat, NEW k \in 0..c, k < c
  PROVE  k + 1 \in 0..c
OBVIOUS

\* What the workers store is a scan by its name.
LEMMA NextScan ==
  ASSUME NEW r \in Raw, copies \in [Raw -> 0..Copies], copies[r] < Copies
  PROVE  Append(r, copies[r] + 1) \in Scan
<1>1. PICK t \in Task, n \in 1..TaskDeliver : r = <<t, n>>
  BY DEF Raw
<1>2. copies[r] + 1 \in 1..Copies
  BY PipelineAssumption
<1>3. PICK k : k = copies[r] + 1
  OBVIOUS
<1>4. Append(<<t, n>>, k) = <<t, n, k>>
  BY Triple
<1> QED
  BY <1>1, <1>2, <1>3, <1>4 DEF Scan

LEMMA SameScanSteps ==
  ASSUME NEW e
  PROVE  /\ I!Acked(e) => ScanQueue!Acked(e)
         /\ I!Naked(e) => ScanQueue!Naked(e)
         /\ I!Store(e) => ScanQueue!Store(e)
         /\ I!Lapse(e) => ScanQueue!Lapse(e)
         /\ \A w \in Indexer : I!Deliver(e, w) => ScanQueue!Deliver(e, w)
<1> USE DEF I!Unacked, ScanQueue!Unacked, I!Pending, ScanQueue!Pending
<1>1. I!Acked(e) => ScanQueue!Acked(e)
  BY DEF I!Acked, ScanQueue!Acked
<1>2. I!Naked(e) => ScanQueue!Naked(e)
  BY DEF I!Naked, ScanQueue!Naked
<1>3. I!Store(e) => ScanQueue!Store(e)
  BY DEF I!Store, ScanQueue!Store
<1>4. I!Lapse(e) => ScanQueue!Lapse(e)
  BY DEF I!Lapse, ScanQueue!Lapse
<1>5. \A w \in Indexer : I!Deliver(e, w) => ScanQueue!Deliver(e, w)
  <2>1. I!Cardinality(I!Pending) = ScanQueue!Cardinality(ScanQueue!Pending)
    BY StageSizes, ScanQueueSizes
  <2> QED
    BY <2>1 DEF I!Deliver, ScanQueue!Deliver
<1> QED
  BY <1>1, <1>2, <1>3, <1>4, <1>5

\* Every step of an indexer is one of a worker.
LEMMA IndexerIsWorker ==
  ASSUME IndexTypes, NEW w \in Indexer, I!Callback(w) \/ I!Fault(w)
  PROVE  /\ ScanQueue!Callback(w) \/ ScanQueue!PublishFails(w) \/ ScanQueue!Crash(w)
         /\ indexing' \in [Indexer -> {"idle", "indexing", "indexed", "failed"}]
<1> DEFINE at == [v \in Indexer |-> AsWorker(indexing[v])]
<1>1. indexing \in [Indexer -> {"idle", "indexing", "indexed", "failed"}]
  BY DEF IndexTypes
<1>2. ASSUME NEW x \in {"idle", "indexing", "indexed", "failed"},
             indexing' = [indexing EXCEPT ![w] = x]
      PROVE  /\ at' = [at EXCEPT ![w] = AsWorker(x)]
             /\ indexing' \in [Indexer -> {"idle", "indexing", "indexed", "failed"}]
  BY <1>1, <1>2
<1>3. /\ AsWorker("idle") = "idle" /\ AsWorker("indexing") = "enriching"
      /\ AsWorker("indexed") = "published" /\ AsWorker("failed") = "failed"
  BY DEF AsWorker
<1>4. at[w] = AsWorker(indexing[w])
  OBVIOUS
<1> HIDE DEF at
<1>5. CASE I!Begin(w)
  <2>1. ScanQueue!Begin(w)
    BY <1>2, <1>3, <1>4, <1>5 DEF I!Begin, ScanQueue!Begin, at
  <2> QED
    BY <1>2, <1>5, <2>1 DEF I!Begin, ScanQueue!Callback
<1>6. CASE I!Index(w)
  <2>1. ScanQueue!Publish(w)
    BY <1>2, <1>3, <1>4, <1>6
       DEF I!Index, I!Write, I!queueVars, ScanQueue!Publish, ScanQueue!StoreEnriched,
           ScanQueue!queueVars, at
  <2> QED
    BY <1>2, <1>6, <2>1 DEF I!Index, ScanQueue!Callback
<1>7. CASE I!Acknowledge(w)
  <2>1. ScanQueue!Acknowledge(w)
    BY <1>2, <1>3, <1>4, <1>7, SameScanSteps
       DEF I!Acknowledge, I!Return, ScanQueue!Acknowledge, ScanQueue!Return, at
  <2> QED
    BY <1>2, <1>7, <2>1 DEF I!Acknowledge, I!Return, ScanQueue!Callback
<1>8. CASE I!Retry(w)
  <2>1. ScanQueue!Retry(w)
    BY <1>2, <1>3, <1>4, <1>8, SameScanSteps
       DEF I!Retry, I!Return, ScanQueue!Retry, ScanQueue!Return, at
  <2> QED
    BY <1>2, <1>8, <2>1 DEF I!Retry, I!Return, ScanQueue!Callback
<1>9. CASE I!IndexFails(w)
  <2>1. ScanQueue!PublishFails(w)
    BY <1>2, <1>3, <1>4, <1>9
       DEF I!IndexFails, I!Write, I!queueVars, ScanQueue!PublishFails, ScanQueue!StoreEnriched,
           ScanQueue!queueVars, at
  <2> QED
    BY <1>2, <1>9, <2>1 DEF I!IndexFails
<1>10. CASE I!Crash(w)
  <2>1. ScanQueue!Crash(w)
    BY <1>2, <1>3, <1>10 DEF I!Crash, I!Return, ScanQueue!Crash, ScanQueue!Return, at
  <2> QED
    BY <1>2, <1>10, <2>1 DEF I!Crash, I!Return
<1> QED
  BY <1>5, <1>6, <1>7, <1>8, <1>9, <1>10 DEF I!Callback, I!Fault

\* So is every step of the pipeline, or it leaves the indexer alone.
LEMMA PipelineIsWorker ==
  ASSUME IndexTypes, [Next]_vars
  PROVE  [ScanQueue!Next]_(ScanQueue!vars) /\ IndexTypes'
<1> USE DEF IndexTypes
<1>1. ASSUME UNCHANGED indexVars
      PROVE  [ScanQueue!Next]_(ScanQueue!vars)
             /\ indexing' \in [Indexer -> {"idle", "indexing", "indexed", "failed"}]
  BY <1>1 DEF indexVars, ScanQueue!vars, ScanQueue!queueVars
<1>2. CASE AgentStep \/ UNCHANGED vars
  BY <1>1, <1>2 DEF AgentStep, vars, enrichVars
<1>3. ASSUME NEW w \in Agent, PublishRaw(w)
      PROVE  [ScanQueue!Next]_(ScanQueue!vars) /\ IndexTypes'
  BY <1>1, <1>3 DEF PublishRaw, E!Accept
<1>4. ASSUME NEW r \in Raw, Leave(r)
      PROVE  [ScanQueue!Next]_(ScanQueue!vars) /\ IndexTypes'
  BY <1>1, <1>4 DEF Leave, E!Settle, E!GiveUp
<1>5. ASSUME NEW r \in Raw, Enrich(r)
      PROVE  [ScanQueue!Next]_(ScanQueue!vars) /\ IndexTypes'
  <2>1. PICK e \in Scan : e = Append(r, copies[r] + 1)
    BY <1>5, NextScan DEF Enrich
  <2>2. ScanQueue!Store(e) /\ UNCHANGED <<indexing, indexed, writes, puts, scanHarmed>>
    BY <1>5, <2>1, SameScanSteps DEF Enrich
  <2>3. ScanQueue!Environment
    BY <2>2 DEF ScanQueue!Environment, ScanQueue!QueueNext
  <2>4. IndexTypes'
    <3>1. copies[r] + 1 \in 0..Copies
      <4>1. PICK k \in 0..Copies : k = copies[r] /\ k < Copies
        BY <1>5 DEF Enrich
      <4>2. Copies \in Nat
        BY PipelineAssumption
      <4>3. k + 1 \in 0..Copies
        BY <4>1, <4>2, OneMore
      <4> QED
        BY <4>1, <4>3
    <3>2. copies' = [copies EXCEPT ![r] = copies[r] + 1] /\ UNCHANGED rawFate
      BY <1>5 DEF Enrich, E!HandOn
    <3> QED
      BY <2>2, <3>1, <3>2
  <2> QED
    BY <2>3, <2>4 DEF ScanQueue!Next
<1>6. CASE IndexStep
  <2>1. UNCHANGED enrichVars
    BY <1>6 DEF IndexStep
  <2>2. CASE \E w \in Indexer : I!Callback(w) \/ I!Fault(w)
    BY <2>1, <2>2, IndexerIsWorker DEF enrichVars, ScanQueue!Next
  <2>3. CASE /\ \/ \E e \in Scan : I!Lapse(e)
                \/ \E e \in Scan, w \in Indexer : I!Deliver(e, w)
             /\ UNCHANGED <<indexing, indexed, writes, puts, scanHarmed>>
    <3>1. ScanQueue!Environment
      BY <2>3, SameScanSteps DEF ScanQueue!Environment, ScanQueue!QueueNext
    <3> QED
      BY <2>1, <2>3, <3>1 DEF enrichVars, ScanQueue!Next
  <2> QED
    BY <1>6, <2>2, <2>3 DEF IndexStep
<1> QED
  BY <1>2, <1>3, <1>4, <1>5, <1>6 DEF Next

\* What is proved of the workers holds of the indexer.
IndexInv == IndexTypes /\ ScanQueue!Inv /\ ScanQueue!CopiesCounted

LEMMA IndexerInvariant == Spec => []IndexInv
<1>1. Init => IndexTypes /\ ScanQueue!Init
  <2>1. Init => IndexTypes
    BY PipelineAssumption DEF Init, I!Init, E!Init, IndexTypes
  <2>2. Init => ScanQueue!Init
    BY DEF Init, I!Init, I!QueueInit, ScanQueue!Init, ScanQueue!QueueInit, AsWorker
  <2> QED
    BY <2>1, <2>2
<1>2. IndexTypes /\ [Next]_vars => [ScanQueue!Next]_(ScanQueue!vars) /\ IndexTypes'
  BY PipelineIsWorker
<1>3. ScanQueue!Spec => []ScanQueue!Inv
  BY ScanQueueApplies, ScanQueue!Invariant
<1>4. ScanQueue!Spec => []ScanQueue!CopiesCounted
  BY ScanQueueApplies, ScanQueue!CopiesAlwaysCounted
<1> QED
  BY <1>1, <1>2, <1>3, <1>4, PTL DEF Spec, ScanQueue!Spec, IndexInv
-----------------------------------------------------------------------------
(* The agents.  A sweep whose publish was lost is acknowledged without a   *)
(* raw scan, so they are no enrichment workers; but their queue is.        *)
AgentTypes == A!TypeOK /\ TaskQueue!QueueInv /\ TaskQueue!WorkIsStored

LEMMA SameTaskSteps ==
  ASSUME NEW t
  PROVE  /\ A!Acked(t) => TaskQueue!Acked(t)
         /\ A!Store(t) => TaskQueue!Store(t)
         /\ A!Lapse(t) => TaskQueue!Lapse(t)
         /\ ~A!AgeOut(t)
         /\ \A w \in Agent : A!Deliver(t, w) => TaskQueue!Deliver(t, w)
<1> USE DEF A!Unacked, TaskQueue!Unacked, A!Pending, TaskQueue!Pending
<1>1. A!Acked(t) => TaskQueue!Acked(t)
  BY DEF A!Acked, TaskQueue!Acked
<1>2. A!Store(t) => TaskQueue!Store(t)
  BY DEF A!Store, TaskQueue!Store
<1>3. A!Lapse(t) => TaskQueue!Lapse(t)
  BY DEF A!Lapse, TaskQueue!Lapse
<1>4. ~A!AgeOut(t)
  BY DEF A!AgeOut
<1>5. \A w \in Agent : A!Deliver(t, w) => TaskQueue!Deliver(t, w)
  <2>1. A!Cardinality(A!Pending) = TaskQueue!Cardinality(TaskQueue!Pending)
    BY StageSizes, TaskQueueSizes
  <2> QED
    BY <2>1 DEF A!Deliver, TaskQueue!Deliver
<1> QED
  BY <1>1, <1>2, <1>3, <1>4, <1>5

\* The types of the queue are part of both.
LEMMA SameTaskTypes ==
  /\ TaskQueue!QueueInv => A!QueueTypeOK
  /\ TaskQueue!QueueInv' => A!QueueTypeOK'
BY DEF TaskQueue!QueueInv, TaskQueue!QueueTypeOK, A!QueueTypeOK

\* The server's steps keep the types.
LEMMA TaskServerTypes ==
  ASSUME AgentTypes, A!Environment
  PROVE  AgentTypes'
<1>1. UNCHANGED <<sweep, sweeping, raw, taskHarmed>>
  BY DEF A!Environment
<1>2. ASSUME NEW t \in Task, A!Store(t) \/ A!Lapse(t)
      PROVE  AgentTypes'
  <2>1. TaskQueue!StreamStep /\ TaskQueue!QueueInv' /\ UNCHANGED <<taskTries, taskInbox>>
    <3>1. TaskQueue!Store(t) \/ TaskQueue!Lapse(t) \/ TaskQueue!AgeOut(t)
      BY <1>2, SameTaskSteps
    <3>2. TaskQueue!StreamStep /\ TaskQueue!QueueInv'
      BY <3>1, TaskQueueApplies, TaskQueue!ServerSteps DEF AgentTypes
    <3> QED
      BY <1>2, <3>2 DEF A!Store, A!Lapse
  <2>2. A!TypeOK'
    BY <1>1, <2>1, SameTaskTypes DEF AgentTypes, A!TypeOK
  <2>3. TaskQueue!WorkIsStored'
    BY <1>1, <2>1 DEF AgentTypes, TaskQueue!WorkIsStored, TaskQueue!Known, TaskQueue!StreamStep
  <2> QED
    BY <2>1, <2>2, <2>3 DEF AgentTypes
<1>3. ASSUME NEW t \in Task, NEW w \in Agent, A!Deliver(t, w)
      PROVE  AgentTypes'
  <2>1. /\ TaskQueue!StreamStep /\ TaskQueue!QueueInv'
        /\ \A v \in Agent : \A i \in 1..Len(taskInbox'[v]) :
             taskInbox'[v][i] = t
             \/ (i \in 1..Len(taskInbox[v]) /\ taskInbox'[v][i] = taskInbox[v][i])
    BY <1>3, SameTaskSteps, TaskQueueApplies, TaskQueue!Delivery DEF AgentTypes
  <2>2. A!TypeOK'
    BY <1>1, <2>1, SameTaskTypes DEF AgentTypes, A!TypeOK
  <2>3. taskStatus'[t] # "absent"
    BY <1>3 DEF A!Deliver, AgentTypes, A!TypeOK, A!QueueTypeOK
  <2>4. \A v \in Agent : sweep'[v] # "idle" => TaskQueue!Known(sweeping[v])'
    BY <1>1, <2>1 DEF AgentTypes, TaskQueue!WorkIsStored, TaskQueue!Known, TaskQueue!StreamStep
  <2>5. ASSUME NEW v \in Agent, NEW i \in 1..Len(taskInbox'[v])
        PROVE  taskInbox'[v][i] \in Task /\ taskStatus'[taskInbox'[v][i]] # "absent"
    <3>1. CASE taskInbox'[v][i] = t
      BY <2>3, <3>1
    <3>2. CASE i \in 1..Len(taskInbox[v]) /\ taskInbox'[v][i] = taskInbox[v][i]
      BY <2>1, <3>2
         DEF AgentTypes, TaskQueue!WorkIsStored, TaskQueue!Known, TaskQueue!StreamStep
    <3> QED
      BY <2>1, <3>1, <3>2
  <2>6. TaskQueue!WorkIsStored'
    BY <1>1, <2>4, <2>5 DEF TaskQueue!WorkIsStored, TaskQueue!Known
  <2> QED
    BY <2>1, <2>2, <2>6 DEF AgentTypes
<1> QED
  BY <1>2, <1>3, SameTaskSteps DEF A!Environment, A!QueueNext

\* So do those of an agent.
LEMMA SweepTypes ==
  ASSUME AgentTypes, NEW w \in Agent, A!Callback(w) \/ A!Fault(w) \/ A!Publish(w)
  PROVE  AgentTypes'
<1> USE DEF AgentTypes
<1>1. CASE A!Begin(w)
  <2>1. PICK q \in Seq(Task) : q = taskInbox[w] /\ q # <<>>
    BY <1>1 DEF A!Begin, A!TypeOK, A!QueueTypeOK
  <2>2. /\ Head(q) \in Task /\ Head(q) = q[1] /\ 1 \in 1..Len(q)
        /\ Tail(q) \in Seq(Task)
        /\ \A i \in 1..Len(Tail(q)) : i + 1 \in 1..Len(q) /\ Tail(q)[i] = q[i + 1]
    BY <2>1, TaskQueueApplies, TaskQueue!Taken
  <2>3. PICK h, r : h = Head(q) /\ r = Tail(q)
    OBVIOUS
  <2>4. /\ taskInbox' = [taskInbox EXCEPT ![w] = r]
        /\ sweep' = [sweep EXCEPT ![w] = "sweeping"]
        /\ sweeping' = [sweeping EXCEPT ![w] = h]
        /\ UNCHANGED <<taskStatus, taskTries, raw, taskHarmed>>
    BY <1>1, <2>1, <2>3 DEF A!Begin
  <2>5. TaskQueue!Known(h) /\ \A i \in 1..Len(r) : TaskQueue!Known(r[i])
    BY <2>1, <2>2, <2>3 DEF TaskQueue!WorkIsStored
  <2>6. A!TypeOK'
    BY <2>2, <2>3, <2>4, PipelineAssumption DEF A!TypeOK, A!QueueTypeOK
  <2>7. TaskQueue!WorkIsStored'
    BY <2>4, <2>5 DEF A!TypeOK, A!QueueTypeOK, TaskQueue!WorkIsStored, TaskQueue!Known
  <2>8. TaskQueue!QueueInv'
    BY <2>4, <2>6 DEF A!TypeOK, A!QueueTypeOK, TaskQueue!QueueTypeOK, TaskQueue!QueueInv,
                      TaskQueue!DeliveriesLeft
  <2> QED
    BY <2>6, <2>7, <2>8
<1>2. CASE A!Acknowledge(w)
  <2>1. sweeping[w] \in Task
    BY <1>2 DEF A!Acknowledge, A!TypeOK
  <2>2. /\ TaskQueue!Acked(sweeping[w]) /\ A!Return(w)
        /\ UNCHANGED <<taskTries, taskInbox, raw, taskHarmed>>
    BY <1>2, SameTaskSteps DEF A!Acknowledge
  <2>3. TaskQueue!StreamStep /\ TaskQueue!QueueInv'
    BY <2>1, <2>2, TaskQueueApplies, TaskQueue!Settling
  <2>4. A!TypeOK'
    BY <2>2, <2>3, SameTaskTypes DEF A!TypeOK, A!Return
  <2>5. TaskQueue!WorkIsStored'
    BY <2>2, <2>3 DEF TaskQueue!WorkIsStored, TaskQueue!Known, TaskQueue!StreamStep, A!Return,
                      A!TypeOK
  <2> QED
    BY <2>3, <2>4, <2>5
<1>3. CASE A!Publish(w) \/ A!PublishLost(w)
  <2>1. /\ sweeping[w] \in Task /\ sweep[w] = "sweeping"
        /\ sweep' = [sweep EXCEPT ![w] = "swept"]
        /\ UNCHANGED <<taskStatus, taskTries, taskInbox, sweeping>>
    BY <1>3 DEF A!Publish, A!PublishLost, A!TypeOK, A!queueVars
  <2>2. raw' \in [Task -> Nat] /\ taskHarmed' \subseteq Task
    BY <1>3, <2>1 DEF A!Publish, A!PublishLost, A!TypeOK
  <2>3. A!TypeOK'
    BY <2>1, <2>2 DEF A!TypeOK, A!QueueTypeOK
  <2>4. TaskQueue!WorkIsStored'
    BY <2>1 DEF TaskQueue!WorkIsStored, TaskQueue!Known, A!TypeOK
  <2>5. TaskQueue!QueueInv'
    BY <2>1 DEF TaskQueue!QueueInv, TaskQueue!QueueTypeOK, TaskQueue!DeliveriesLeft
  <2> QED
    BY <2>3, <2>4, <2>5
<1>4. CASE A!Crash(w)
  <2>1. /\ taskInbox' = [taskInbox EXCEPT ![w] = <<>>] /\ A!Return(w)
        /\ UNCHANGED <<taskStatus, taskTries, raw>>
    BY <1>4 DEF A!Crash
  <2>2. taskHarmed' \subseteq Task
    BY <1>4 DEF A!Crash, A!TypeOK
  <2>3. A!TypeOK'
    BY <2>1, <2>2 DEF A!TypeOK, A!QueueTypeOK, A!Return
  <2>4. TaskQueue!WorkIsStored'
    BY <2>1 DEF TaskQueue!WorkIsStored, TaskQueue!Known, A!Return, A!TypeOK, A!QueueTypeOK
  <2>5. TaskQueue!QueueInv'
    BY <2>1 DEF TaskQueue!QueueInv, TaskQueue!QueueTypeOK, TaskQueue!DeliveriesLeft
  <2> QED
    BY <2>3, <2>4, <2>5
<1> QED
  BY <1>1, <1>2, <1>3, <1>4 DEF A!Callback, A!Fault
-----------------------------------------------------------------------------
(* Each delivery of a task is a raw scan at most once: those that are in a *)
(* buffer, or are swept but not published, have been none.                 *)
TaskHand == [w \in Agent |-> IF sweep[w] = "sweeping" THEN sweeping[w] ELSE A!None]

TaskHeld(t) == TaskQueue!HeldIn(taskInbox, TaskHand, t)

RawCounted ==
  \A t \in Task :
    IsFiniteSet(TaskHeld(t)) /\ raw[t] + Cardinality(TaskHeld(t)) <= taskTries[t]

\* A step that makes no raw scan and leaves no more deliveries held.
LEMMA NoMoreTasksHeld ==
  ASSUME RawCounted, AgentTypes, UNCHANGED <<raw, taskTries>>,
         \A t \in Task : IsFiniteSet(TaskHeld(t)) =>
                           /\ IsFiniteSet(TaskHeld(t)')
                           /\ Cardinality(TaskHeld(t)') <= Cardinality(TaskHeld(t))
  PROVE  RawCounted'
<1> SUFFICES ASSUME NEW t \in Task
             PROVE  IsFiniteSet(TaskHeld(t)') /\ raw[t] + Cardinality(TaskHeld(t)') <= taskTries[t]
  BY DEF RawCounted
<1>1. PICK S, T : S = TaskHeld(t) /\ T = TaskHeld(t)'
  OBVIOUS
<1>2. IsFiniteSet(S) /\ IsFiniteSet(T) /\ Cardinality(T) <= Cardinality(S)
      /\ raw[t] + Cardinality(S) <= taskTries[t]
  BY <1>1 DEF RawCounted
<1>3. /\ Cardinality(S) \in Nat /\ Cardinality(T) \in Nat
      /\ raw[t] \in Nat /\ taskTries[t] \in Int
  BY <1>2, FS_CardinalityType DEF AgentTypes, A!TypeOK, A!QueueTypeOK
<1>4. raw[t] + Cardinality(T) <= taskTries[t]
  BY <1>2, <1>3
<1> QED
  BY <1>1, <1>2, <1>4

LEMMA TaskHeldGrows ==
  ASSUME NEW box, NEW hand, NEW w \in Agent, NEW u \in Task, NEW t \in Task, NEW box2,
         box[w] \in Seq(Task), box2[w] = Append(box[w], u),
         \A v \in Agent : v # w => box2[v] = box[v],
         IsFiniteSet(TaskQueue!HeldIn(box, hand, t))
  PROVE  /\ IsFiniteSet(TaskQueue!HeldIn(box2, hand, t))
         /\ t = u => Cardinality(TaskQueue!HeldIn(box2, hand, t))
                        <= Cardinality(TaskQueue!HeldIn(box, hand, t)) + 1
         /\ t # u => Cardinality(TaskQueue!HeldIn(box2, hand, t))
                        <= Cardinality(TaskQueue!HeldIn(box, hand, t))
BY TaskQueueApplies, TaskQueueSizes, TaskQueue!HeldGrows

\* A delivery counts, and is one more that is held.
LEMMA TaskDeliverCounted ==
  ASSUME RawCounted, AgentTypes, NEW u \in Task, NEW w \in Agent, A!Deliver(u, w),
         UNCHANGED <<sweep, sweeping, raw>>
  PROVE  RawCounted'
<1> SUFFICES ASSUME NEW t \in Task
             PROVE  IsFiniteSet(TaskHeld(t)') /\ raw[t] + Cardinality(TaskHeld(t)') <= taskTries'[t]
  BY DEF RawCounted
<1>1. /\ TaskHand' = TaskHand /\ taskInbox \in [Agent -> Seq(Task)]
      /\ taskInbox' = [taskInbox EXCEPT ![w] = Append(@, u)]
  BY DEF TaskHand, A!Deliver, AgentTypes, A!TypeOK, A!QueueTypeOK
<1>2. PICK S, T, d : S = TaskHeld(t) /\ T = TaskHeld(t)' /\ d = (IF t = u THEN 1 ELSE 0)
  OBVIOUS
<1>3. IsFiniteSet(S) /\ raw[t] + Cardinality(S) <= taskTries[t]
  BY <1>2 DEF RawCounted
<1>4. IsFiniteSet(T) /\ Cardinality(T) <= Cardinality(S) + d
  <2>1. PICK box, hand, box2 : box = taskInbox /\ hand = TaskHand /\ box2 = taskInbox'
    OBVIOUS
  <2>2. /\ box[w] \in Seq(Task) /\ box2[w] = Append(box[w], u)
        /\ \A v \in Agent : v # w => box2[v] = box[v]
    BY <1>1, <2>1
  <2>3. S = TaskQueue!HeldIn(box, hand, t) /\ T = TaskQueue!HeldIn(box2, hand, t)
    BY <1>1, <1>2, <2>1 DEF TaskHeld
  <2>4. IsFiniteSet(TaskQueue!HeldIn(box, hand, t))
    BY <1>3, <2>3
  <2>5. /\ IsFiniteSet(TaskQueue!HeldIn(box2, hand, t))
        /\ t = u => Cardinality(TaskQueue!HeldIn(box2, hand, t))
                       <= Cardinality(TaskQueue!HeldIn(box, hand, t)) + 1
        /\ t # u => Cardinality(TaskQueue!HeldIn(box2, hand, t))
                       <= Cardinality(TaskQueue!HeldIn(box, hand, t))
    BY <2>2, <2>4, TaskHeldGrows
  <2>6. Cardinality(S) \in Nat /\ Cardinality(T) \in Nat
    BY <1>3, <2>3, <2>5, FS_CardinalityType
  <2> QED
    BY <1>2, <2>3, <2>5, <2>6
<1>5. /\ Cardinality(S) \in Nat /\ Cardinality(T) \in Nat /\ d \in Nat
      /\ raw[t] \in Nat /\ taskTries[t] \in Int /\ taskTries'[t] = taskTries[t] + d
  BY <1>2, <1>3, <1>4, FS_CardinalityType DEF AgentTypes, A!TypeOK, A!QueueTypeOK, A!Deliver
<1>6. raw[t] + Cardinality(T) <= taskTries'[t]
  BY <1>3, <1>4, <1>5
<1> QED
  BY <1>2, <1>4, <1>6

\* A publish counts, and the delivery is out of the agent's hand; a sweep that
\* is published has a delivery to pay for it.
LEMMA PublishRawCounted ==
  ASSUME RawCounted, AgentTypes, NEW w \in Agent, A!Publish(w) \/ A!PublishLost(w)
  PROVE  RawCounted' /\ raw[sweeping[w]] + 1 \in 1..TaskDeliver
<1>1. /\ sweep[w] = "sweeping" /\ sweeping[w] \in Task
      /\ UNCHANGED <<taskInbox, taskTries, sweeping>>
      /\ raw' = [raw EXCEPT ![sweeping[w]] = @ + 1] \/ UNCHANGED raw
  BY DEF A!Publish, A!PublishLost, A!queueVars, AgentTypes, A!TypeOK
<1>2. /\ TaskHand[w] = sweeping[w] /\ TaskHand'[w] = A!None
      /\ \A v \in Agent : v # w => TaskHand'[v] = TaskHand[v]
  BY <1>1 DEF TaskHand, A!Publish, A!PublishLost, AgentTypes, A!TypeOK
<1>3. ASSUME NEW t \in Task
      PROVE  /\ IsFiniteSet(TaskHeld(t)') /\ raw'[t] + Cardinality(TaskHeld(t)') <= taskTries[t]
             /\ t = sweeping[w] => raw[t] + 1 <= taskTries[t]
  <2>1. PICK S, T, box, hand, hand2 :
          /\ S = TaskHeld(t) /\ T = TaskHeld(t)'
          /\ box = taskInbox /\ box = taskInbox' /\ hand = TaskHand /\ hand2 = TaskHand'
    BY <1>1
  <2>2. S = TaskQueue!HeldIn(box, hand, t) /\ T = TaskQueue!HeldIn(box, hand2, t)
    BY <2>1 DEF TaskHeld
  <2>3. IsFiniteSet(S) /\ raw[t] + Cardinality(S) <= taskTries[t]
    BY <2>1 DEF RawCounted
  <2>4. raw[t] \in Nat /\ taskTries[t] \in Int /\ Cardinality(S) \in Nat
    BY <2>3, FS_CardinalityType DEF AgentTypes, A!TypeOK, A!QueueTypeOK
  <2>5. IsFiniteSet(TaskQueue!HeldIn(box, hand, t)) /\ t # A!None
    BY <2>2, <2>3, PipelineAssumption
  <2>6. CASE t = sweeping[w]
    <3>1. hand[w] = t /\ hand2[w] # t /\ \A v \in Agent : v # w => hand2[v] = hand[v]
      BY <1>2, <2>1, <2>5, <2>6
    <3>2. /\ IsFiniteSet(TaskQueue!HeldIn(box, hand2, t))
          /\ Cardinality(TaskQueue!HeldIn(box, hand2, t)) + 1
               <= Cardinality(TaskQueue!HeldIn(box, hand, t))
      BY <2>5, <3>1, TaskQueueApplies, TaskQueueSizes, TaskQueue!HeldLeaves
    <3>3. IsFiniteSet(T) /\ Cardinality(T) + 1 <= Cardinality(S) /\ Cardinality(T) \in Nat
      BY <2>2, <3>2, FS_CardinalityType
    <3>4. raw'[t] \in Nat /\ raw'[t] <= raw[t] + 1
      BY <1>1, <2>4, <2>6 DEF AgentTypes, A!TypeOK
    <3>5. raw'[t] + Cardinality(T) <= taskTries[t] /\ raw[t] + 1 <= taskTries[t]
      BY <2>3, <2>4, <3>3, <3>4
    <3> QED
      BY <2>1, <3>3, <3>5
  <2>7. CASE t # sweeping[w]
    <3>1. \A v \in Agent : hand2[v] = t => hand[v] = t
      BY <1>2, <2>1, <2>5
    <3>2. /\ IsFiniteSet(TaskQueue!HeldIn(box, hand2, t))
          /\ Cardinality(TaskQueue!HeldIn(box, hand2, t))
               <= Cardinality(TaskQueue!HeldIn(box, hand, t))
      BY <2>5, <3>1, TaskQueueApplies, TaskQueueSizes, TaskQueue!HeldShrinks
    <3>3. IsFiniteSet(T) /\ Cardinality(T) <= Cardinality(S) /\ Cardinality(T) \in Nat
      BY <2>2, <3>2, FS_CardinalityType
    <3>4. raw'[t] = raw[t]
      BY <1>1, <2>7 DEF AgentTypes, A!TypeOK
    <3>5. raw'[t] + Cardinality(T) <= taskTries[t]
      BY <2>3, <2>4, <3>3, <3>4
    <3> QED
      BY <2>1, <2>7, <3>3, <3>5
  <2> QED
    BY <2>6, <2>7
<1>4. RawCounted'
  BY <1>1, <1>3 DEF RawCounted
<1>5. raw[sweeping[w]] \in Nat /\ taskTries[sweeping[w]] \in 0..TaskDeliver
  BY <1>1 DEF AgentTypes, A!TypeOK, A!QueueTypeOK
<1>6. raw[sweeping[w]] + 1 <= taskTries[sweeping[w]]
  BY <1>1, <1>3
<1> QED
  BY <1>4, <1>5, <1>6, PipelineAssumption

AgentInv == AgentTypes /\ RawCounted

LEMMA RawCountedStep ==
  ASSUME AgentInv,
         A!Environment \/ \E w \in Agent : A!Callback(w) \/ A!Fault(w) \/ A!Publish(w)
  PROVE  RawCounted'
<1> USE DEF AgentInv
<1>1. taskInbox \in [Agent -> Seq(Task)] /\ \A t \in Task : t # A!None
  BY PipelineAssumption DEF AgentTypes, A!TypeOK, A!QueueTypeOK
<1>2. ASSUME \A v \in Agent : taskInbox'[v] = taskInbox[v] \/ taskInbox'[v] = <<>>,
             \A v \in Agent : TaskHand'[v] = TaskHand[v] \/ TaskHand'[v] = A!None,
             UNCHANGED <<raw, taskTries>>
      PROVE  RawCounted'
  <2>1. ASSUME NEW t \in Task, IsFiniteSet(TaskHeld(t))
        PROVE  IsFiniteSet(TaskHeld(t)') /\ Cardinality(TaskHeld(t)') <= Cardinality(TaskHeld(t))
    <3>1. PICK box, hand, box2, hand2 :
            box = taskInbox /\ hand = TaskHand /\ box2 = taskInbox' /\ hand2 = TaskHand'
      OBVIOUS
    <3>2. /\ \A v \in Agent : hand2[v] = t => hand[v] = t
          /\ \A v \in Agent : box2[v] = box[v] \/ box2[v] = <<>>
      BY <1>1, <1>2, <3>1
    <3>3. /\ TaskHeld(t) = TaskQueue!HeldIn(box, hand, t)
          /\ TaskHeld(t)' = TaskQueue!HeldIn(box2, hand2, t)
      BY <3>1 DEF TaskHeld
    <3>4. IsFiniteSet(TaskQueue!HeldIn(box, hand, t))
      BY <2>1, <3>3
    <3>5. /\ IsFiniteSet(TaskQueue!HeldIn(box2, hand2, t))
          /\ Cardinality(TaskQueue!HeldIn(box2, hand2, t))
               <= Cardinality(TaskQueue!HeldIn(box, hand, t))
      BY <3>2, <3>4, TaskQueueApplies, TaskQueueSizes, TaskQueue!HeldShrinks
    <3> QED
      BY <3>3, <3>5
  <2> QED
    BY <1>2, <2>1, NoMoreTasksHeld
<1>3. CASE A!Environment
  <2>1. UNCHANGED <<sweep, sweeping, raw, taskHarmed>> /\ TaskHand' = TaskHand
    BY <1>3 DEF A!Environment, TaskHand
  <2>2. ASSUME NEW t \in Task, A!Store(t) \/ A!Lapse(t) PROVE RawCounted'
    BY <1>2, <2>1, <2>2 DEF A!Store, A!Lapse
  <2> QED
    BY <1>3, <2>1, <2>2, TaskDeliverCounted, SameTaskSteps DEF A!Environment, A!QueueNext
<1>4. ASSUME NEW w \in Agent, A!Begin(w) PROVE RawCounted'
  <2>1. /\ taskInbox[w] # <<>> /\ taskInbox' = [taskInbox EXCEPT ![w] = Tail(@)]
        /\ UNCHANGED <<taskTries, raw>>
    BY <1>4 DEF A!Begin
  <2>2. /\ TaskHand'[w] = Head(taskInbox[w])
        /\ \A v \in Agent : v # w => TaskHand'[v] = TaskHand[v]
    BY <1>4 DEF A!Begin, TaskHand, AgentTypes, A!TypeOK
  <2>3. ASSUME NEW t \in Task, IsFiniteSet(TaskHeld(t))
        PROVE  IsFiniteSet(TaskHeld(t)') /\ Cardinality(TaskHeld(t)') <= Cardinality(TaskHeld(t))
    <3>1. PICK box, hand, box2, hand2 :
            box = taskInbox /\ hand = TaskHand /\ box2 = taskInbox' /\ hand2 = TaskHand'
      OBVIOUS
    <3>2. /\ box[w] \in Seq(Task) /\ box[w] # <<>> /\ box2[w] = Tail(box[w])
          /\ \A v \in Agent : v # w => box2[v] = box[v]
      BY <1>1, <2>1, <3>1
    <3>3. \A v \in Agent : hand2[v] = t => (v = w /\ Head(box[w]) = t) \/ (v # w /\ hand[v] = t)
      BY <2>2, <3>1
    <3>4. /\ TaskHeld(t) = TaskQueue!HeldIn(box, hand, t)
          /\ TaskHeld(t)' = TaskQueue!HeldIn(box2, hand2, t)
      BY <3>1 DEF TaskHeld
    <3>5. IsFiniteSet(TaskQueue!HeldIn(box, hand, t))
      BY <2>3, <3>4
    <3>6. /\ IsFiniteSet(TaskQueue!HeldIn(box2, hand2, t))
          /\ Cardinality(TaskQueue!HeldIn(box2, hand2, t))
               <= Cardinality(TaskQueue!HeldIn(box, hand, t))
      BY <3>2, <3>3, <3>5, TaskQueueApplies, TaskQueueSizes, TaskQueue!HeldMoves
    <3> QED
      BY <3>4, <3>6
  <2> QED
    BY <2>1, <2>3, NoMoreTasksHeld
<1>5. ASSUME NEW w \in Agent, A!Acknowledge(w) \/ A!Crash(w)
      PROVE  RawCounted'
  <2>1. A!Return(w) /\ UNCHANGED <<taskTries, raw>>
    BY <1>5 DEF A!Acknowledge, A!Crash
  <2>2. \A v \in Agent : taskInbox'[v] = taskInbox[v] \/ taskInbox'[v] = <<>>
    BY <1>1, <1>5 DEF A!Acknowledge, A!Crash
  <2>3. \A v \in Agent : TaskHand'[v] = TaskHand[v] \/ TaskHand'[v] = A!None
    BY <2>1 DEF A!Return, TaskHand, AgentTypes, A!TypeOK
  <2> QED
    BY <1>2, <2>1, <2>2, <2>3
<1> QED
  BY <1>3, <1>4, <1>5, PublishRawCounted DEF A!Callback, A!Fault

\* The agents' invariant is kept by every step of the pipeline.
LEMMA AgentKeepsInv ==
  ASSUME AgentInv, [Next]_vars
  PROVE  AgentInv'
<1> USE DEF AgentInv
<1>1. CASE A!Environment \/ \E w \in Agent : A!Callback(w) \/ A!Fault(w) \/ A!Publish(w)
  BY <1>1, TaskServerTypes, SweepTypes, RawCountedStep
<1>2. CASE UNCHANGED agentVars
  BY <1>2 DEF agentVars, AgentTypes, A!TypeOK, A!QueueTypeOK, TaskQueue!QueueInv,
              TaskQueue!QueueTypeOK, TaskQueue!DeliveriesLeft, TaskQueue!WorkIsStored,
              TaskQueue!Known, RawCounted, TaskHeld, TaskHand
<1>3. ASSUME NEW r \in Raw, Enrich(r) \/ Leave(r) PROVE UNCHANGED agentVars
  BY <1>3 DEF Enrich, Leave, agentVars
<1> QED
  BY <1>1, <1>2, <1>3 DEF Next, AgentStep, PublishRaw, IndexStep, vars

\* It holds at the start.
LEMMA AgentStarts ==
  ASSUME Init
  PROVE  AgentInv
<1>1. AgentTypes
  BY PipelineAssumption
     DEF Init, A!Init, A!QueueInit, AgentTypes, A!TypeOK, A!QueueTypeOK, TaskQueue!QueueInv,
         TaskQueue!QueueTypeOK, TaskQueue!DeliveriesLeft, TaskQueue!WorkIsStored
<1>2. ASSUME NEW t \in Task
      PROVE  IsFiniteSet(TaskHeld(t)) /\ raw[t] + Cardinality(TaskHeld(t)) <= taskTries[t]
  <2>1. PICK box, hand : box = taskInbox /\ hand = TaskHand
    OBVIOUS
  <2>2. \A v \in Agent : box[v] = <<>> /\ hand[v] # t
    BY <2>1, PipelineAssumption DEF Init, A!Init, A!QueueInit, TaskHand
  <2>3. IsFiniteSet(TaskQueue!HeldIn(box, hand, t)) /\ Cardinality(TaskQueue!HeldIn(box, hand, t)) = 0
    BY <2>2, TaskQueueApplies, TaskQueueSizes, TaskQueue!NothingHeld
  <2> QED
    BY <2>1, <2>3 DEF TaskHeld, Init, A!Init, A!QueueInit
<1> QED
  BY <1>1, <1>2 DEF AgentInv, RawCounted
-----------------------------------------------------------------------------
(* Where things come from: a raw scan that was stored is one its task made *)
(* and an enriched scan one its raw scan made; an acknowledged scan was    *)
(* written; and a request writes no more often than it is attempted.       *)
Lineage ==
  /\ \A t \in Task, n \in 1..TaskDeliver :
       /\ rawFate[<<t, n>>] # "absent" <=> n <= raw[t]
       /\ rawFate[<<t, n>>] = "absent" => copies[<<t, n>>] = 0
  /\ \A t \in Task, n \in 1..TaskDeliver, k \in 1..Copies :
       /\ scanStatus[<<t, n, k>>] # "absent" <=> k <= copies[<<t, n>>]
       /\ scanStatus[<<t, n, k>>] = "acked" => writes[<<t, n, k>>] > 0
  /\ puts \in [Scan -> Nat]
  /\ \A e \in Scan : puts[e] <= Attempts * writes[e]

PipelineInv == AgentInv /\ IndexInv /\ Lineage

\* What a request may write is paid for by it, and by its delivery.
LEMMA RequestPays ==
  ASSUME NEW a \in Nat, NEW k \in Nat, NEW p \in Nat, p <= a * k, NEW n \in 1..a
  PROVE  p + n <= a * (k + 1)
<1>1. a * (k + 1) = a * k + a /\ a * k \in Nat
  OBVIOUS
<1> QED
  BY <1>1

LEMMA DeliveryPays ==
  ASSUME NEW a \in Nat, NEW k \in Nat, NEW t \in Nat, k <= t, NEW p \in Nat, p <= a * k
  PROVE  p <= a * t /\ (p > 0 => k > 0)
<1>1. PICK d \in Nat : t = k + d
  <2>1. t - k \in Nat /\ t = k + (t - k)
    OBVIOUS
  <2> QED
    BY <2>1
<1>2. a * t = a * k + a * d /\ a * k \in Nat /\ a * d \in Nat
  BY <1>1
<1>3. k = 0 => a * k = 0
  OBVIOUS
<1> QED
  BY <1>2, <1>3

\* What becomes of a count that one scan is added to.
LEMMA AddedTo ==
  ASSUME NEW f \in [Scan -> Nat], NEW e \in Scan, NEW n \in Nat, NEW g,
         g = [f EXCEPT ![e] = @ + n]
  PROVE  /\ g \in [Scan -> Nat] /\ g[e] = f[e] + n
         /\ \A d \in Scan : d # e => g[d] = f[d]
         /\ \A d \in Scan : f[d] > 0 => g[d] > 0
<1>1. g \in [Scan -> Nat] /\ g[e] = f[e] + n /\ \A d \in Scan : d # e => g[d] = f[d]
  OBVIOUS
<1>2. ASSUME NEW d \in Scan, f[d] > 0
      PROVE  g[d] > 0
  <2>1. CASE d = e
    BY <1>1, <1>2, <2>1
  <2>2. CASE d # e
    BY <1>1, <1>2, <2>2
  <2> QED
    BY <2>1, <2>2
<1> QED
  BY <1>1, <1>2

\* What the indexer has in its hand.
LEMMA IndexerHand ==
  ASSUME IndexInv, NEW w \in Indexer
  PROVE  /\ indexing[w] # "idle" => indexed[w] \in Scan /\ scanStatus[indexed[w]] # "absent"
         /\ indexing[w] = "indexed" => writes[indexed[w]] > 0
         /\ indexing[w] = "idle" <=> indexed[w] = I!None
<1> DEFINE at == [v \in Indexer |-> AsWorker(indexing[v])]
<1>1. /\ AsWorker(indexing[w]) = "idle" <=> indexing[w] = "idle"
      /\ indexing[w] = "indexed" => AsWorker(indexing[w]) = "published"
  BY DEF IndexInv, IndexTypes, AsWorker
<1>2. at[w] = AsWorker(indexing[w])
  OBVIOUS
<1>3. /\ at[w] = "idle" <=> indexed[w] = I!None
      /\ at[w] # "idle" => ScanQueue!Known(indexed[w])
      /\ at[w] = "published" => writes[indexed[w]] > 0
  BY DEF IndexInv, ScanQueue!Inv, ScanQueue!TypeOK, ScanQueue!PublishedFirst,
         ScanQueue!WorkIsStored
<1> QED
  BY <1>1, <1>2, <1>3 DEF ScanQueue!Known

\* What the indexer's steps do to the scans, and what they write.
LEMMA IndexSteps ==
  ASSUME IndexInv, IndexStep
  PROVE  /\ \A e \in Scan : scanStatus'[e] = "absent" <=> scanStatus[e] = "absent"
         /\ \A e \in Scan : scanStatus'[e] = "acked" => scanStatus[e] = "acked" \/ writes[e] > 0
         /\ \/ UNCHANGED <<writes, puts>>
            \/ \E e \in Scan, n \in 1..Attempts :
                 /\ writes' = [writes EXCEPT ![e] = @ + 1]
                 /\ puts' = [puts EXCEPT ![e] = @ + n]
<1>1. /\ scanStatus \in [Scan -> {"absent", "waiting", "pending", "acked", "spent", "aged"}]
      /\ writes \in [Scan -> Nat]
  BY DEF IndexInv, ScanQueue!Inv, ScanQueue!TypeOK, ScanQueue!QueueTypeOK
<1>2. ASSUME NEW w \in Indexer, I!Index(w) \/ I!IndexFails(w)
      PROVE  \/ UNCHANGED <<writes, puts>>
             \/ \E e \in Scan, n \in 1..Attempts :
                  /\ writes' = [writes EXCEPT ![e] = @ + 1]
                  /\ puts' = [puts EXCEPT ![e] = @ + n]
  <2>1. PICK e \in Scan : e = indexed[w]
    BY <1>2, IndexerHand DEF I!Index, I!IndexFails
  <2>2. 1 \in 1..Attempts
    BY PipelineAssumption
  <2>3. \/ UNCHANGED <<writes, puts>>
        \/ \E n \in 1..Attempts : I!Write(e, n)
    BY <1>2, <2>1, <2>2 DEF I!Index, I!IndexFails
  <2> QED
    BY <2>3 DEF I!Write
<1>3. ASSUME NEW w \in Indexer, I!Index(w) \/ I!IndexFails(w)
      PROVE  UNCHANGED scanStatus
  BY <1>3 DEF I!Index, I!IndexFails, I!queueVars
<1>4. ASSUME NEW w \in Indexer, I!Acknowledge(w)
      PROVE  /\ \A e \in Scan : scanStatus'[e] = "absent" <=> scanStatus[e] = "absent"
             /\ \A e \in Scan : scanStatus'[e] = "acked" => scanStatus[e] = "acked" \/ writes[e] > 0
             /\ UNCHANGED <<writes, puts>>
  BY <1>1, <1>4, IndexerHand DEF I!Acknowledge, I!Acked
<1>5. ASSUME NEW e \in Scan
      PROVE  I!Unacked(e) \in {"waiting", "spent"}
  BY DEF I!Unacked
<1>6. ASSUME NEW w \in Indexer, I!Retry(w)
      PROVE  /\ \A e \in Scan : scanStatus'[e] = "absent" <=> scanStatus[e] = "absent"
             /\ \A e \in Scan : scanStatus'[e] = "acked" => scanStatus[e] = "acked"
             /\ UNCHANGED <<writes, puts>>
  <2>1. indexed[w] \in Scan
    BY <1>6, IndexerHand DEF I!Retry
  <2> QED
    BY <1>1, <1>5, <1>6, <2>1 DEF I!Retry, I!Naked
<1>7. ASSUME NEW w \in Indexer, I!Begin(w) \/ I!Crash(w)
      PROVE  UNCHANGED <<scanStatus, writes, puts>>
  BY <1>7 DEF I!Begin, I!Crash
<1>8. ASSUME NEW e \in Scan, I!Lapse(e) \/ \E w \in Indexer : I!Deliver(e, w)
      PROVE  /\ \A f \in Scan : scanStatus'[f] = "absent" <=> scanStatus[f] = "absent"
             /\ \A f \in Scan : scanStatus'[f] = "acked" => scanStatus[f] = "acked"
  BY <1>1, <1>5, <1>8 DEF I!Lapse, I!Deliver
<1>9. CASE \E w \in Indexer : I!Callback(w) \/ I!Fault(w)
  <2>1. PICK w \in Indexer : I!Callback(w) \/ I!Fault(w)
    BY <1>9
  <2>2. CASE I!Index(w) \/ I!IndexFails(w)
    BY <1>2, <1>3, <2>2
  <2>3. CASE I!Acknowledge(w)
    BY <1>4, <2>3
  <2>4. CASE I!Retry(w)
    BY <1>6, <2>4
  <2>5. CASE I!Begin(w) \/ I!Crash(w)
    BY <1>7, <2>5
  <2> QED
    BY <2>1, <2>2, <2>3, <2>4, <2>5 DEF I!Callback, I!Fault
<1>10. CASE /\ \/ \E e \in Scan : I!Lapse(e)
               \/ \E e \in Scan, w \in Indexer : I!Deliver(e, w)
            /\ UNCHANGED <<indexing, indexed, writes, puts, scanHarmed>>
  BY <1>8, <1>10
<1> QED
  BY <1>9, <1>10 DEF IndexStep

\* The agents' steps, but for a publish, make no raw scans.
LEMMA AgentStepsMakeNone ==
  ASSUME AgentStep
  PROVE  UNCHANGED <<raw, enrichVars, indexVars>>
BY DEF AgentStep, A!Environment, A!Callback, A!Fault, A!Begin, A!Acknowledge, A!PublishLost,
       A!Crash

\* The raw scan that is published is the next one of its task.
LEMMA NextRaw ==
  ASSUME AgentInv, NEW w \in Agent, PublishRaw(w)
  PROVE  \E t \in Task, n \in 1..TaskDeliver :
           /\ t = sweeping[w] /\ sweep[w] = "sweeping" /\ n = raw[t] + 1
           /\ raw' = [raw EXCEPT ![t] = n]
           /\ rawFate[<<t, n>>] = "absent" /\ rawFate' = [rawFate EXCEPT ![<<t, n>>] = "held"]
           /\ UNCHANGED <<taskStatus, taskInbox, sweeping, copies, indexVars>>
<1>1. A!Publish(w)
  BY DEF PublishRaw
<1>2. sweeping[w] \in Task /\ sweep[w] = "sweeping"
  BY <1>1 DEF A!Publish, AgentInv, AgentTypes, A!TypeOK
<1>3. raw[sweeping[w]] + 1 \in 1..TaskDeliver
  BY <1>1, PublishRawCounted DEF AgentInv
<1>4. PICK t, n : t = sweeping[w] /\ n = raw[t] + 1
  OBVIOUS
<1>5. rawFate[<<t, n>>] = "absent" /\ rawFate' = [rawFate EXCEPT ![<<t, n>>] = "held"]
  BY <1>4 DEF PublishRaw, E!Accept
<1>6. /\ raw' = [raw EXCEPT ![t] = n]
      /\ UNCHANGED <<taskStatus, taskInbox, sweeping, copies, indexVars>>
  BY <1>1, <1>4 DEF PublishRaw, A!Publish, A!queueVars, E!Accept
<1> QED
  BY <1>2, <1>3, <1>4, <1>5, <1>6

\* The enriched scan that is stored is the next one of its raw scan.
LEMMA NextCopy ==
  ASSUME IndexTypes, NEW r \in Raw, Enrich(r)
  PROVE  \E t \in Task, n \in 1..TaskDeliver, k \in 1..Copies :
           /\ r = <<t, n>> /\ k = copies[<<t, n>>] + 1
           /\ rawFate[<<t, n>>] # "absent" /\ copies' = [copies EXCEPT ![<<t, n>>] = k]
           /\ scanStatus[<<t, n, k>>] = "absent"
           /\ scanStatus' = [scanStatus EXCEPT ![<<t, n, k>>] = "waiting"]
           /\ UNCHANGED <<agentVars, rawFate, scanTries, scanInbox, indexing, indexed, writes, puts>>
<1>1. PICK t \in Task, n \in 1..TaskDeliver : r = <<t, n>>
  BY DEF Raw
<1>2. PICK c \in 0..Copies : c = copies[<<t, n>>] /\ c < Copies
  BY <1>1 DEF IndexTypes, Enrich
<1>3. PICK k \in 1..Copies : k = c + 1
  <2>1. Copies \in Nat
    BY PipelineAssumption
  <2>2. c + 1 \in 1..Copies
    BY <1>2, <2>1
  <2> QED
    BY <2>2
<1>4. Append(r, copies[r] + 1) = <<t, n, k>>
  <2>1. Append(<<t, n>>, k) = <<t, n, k>>
    BY Triple
  <2> QED
    BY <1>1, <1>2, <1>3, <2>1
<1>5. /\ scanStatus[<<t, n, k>>] = "absent"
      /\ scanStatus' = [scanStatus EXCEPT ![<<t, n, k>>] = "waiting"]
      /\ UNCHANGED <<scanTries, scanInbox>>
  BY <1>4 DEF Enrich, I!Store
<1>6. rawFate[<<t, n>>] # "absent" /\ copies' = [copies EXCEPT ![<<t, n>>] = k]
      /\ UNCHANGED rawFate
  BY <1>1, <1>2, <1>3 DEF Enrich, E!HandOn
<1>7. UNCHANGED <<agentVars, indexing, indexed, writes, puts>>
  BY DEF Enrich
<1> QED
  BY <1>1, <1>2, <1>3, <1>5, <1>6, <1>7

\* Every step keeps the lineage.
LEMMA LineageStep ==
  ASSUME PipelineInv, [Next]_vars
  PROVE  Lineage'
<1> USE DEF PipelineInv
<1>0. /\ rawFate \in [Raw -> {"absent", "held", "settled", "given up"}]
      /\ copies \in [Raw -> 0..Copies]
      /\ raw \in [Task -> Nat]
      /\ scanStatus \in [Scan -> {"absent", "waiting", "pending", "acked", "spent", "aged"}]
      /\ writes \in [Scan -> Nat]
  BY DEF AgentInv, AgentTypes, A!TypeOK, IndexInv, IndexTypes, ScanQueue!Inv,
         ScanQueue!TypeOK, ScanQueue!QueueTypeOK
<1>1. ASSUME UNCHANGED <<raw, rawFate, copies, scanStatus, writes, puts>>
      PROVE  Lineage'
  BY <1>1 DEF Lineage
<1>2. CASE AgentStep \/ UNCHANGED vars
  BY <1>1, <1>2, AgentStepsMakeNone DEF vars, agentVars, enrichVars, indexVars
<1>3. ASSUME NEW w \in Agent, PublishRaw(w)
      PROVE  Lineage'
  <2>1. PICK t \in Task, n \in 1..TaskDeliver :
          /\ n = raw[t] + 1 /\ raw' = [raw EXCEPT ![t] = n]
          /\ rawFate[<<t, n>>] = "absent" /\ rawFate' = [rawFate EXCEPT ![<<t, n>>] = "held"]
          /\ UNCHANGED <<copies, scanStatus, writes, puts>>
    BY <1>3, NextRaw DEF indexVars
  <2>2. <<t, n>> \in Raw
    BY DEF Raw
  <2>3. ASSUME NEW u \in Task, NEW m \in 1..TaskDeliver
        PROVE  /\ rawFate'[<<u, m>>] # "absent" <=> m <= raw'[u]
               /\ rawFate'[<<u, m>>] = "absent" => copies[<<u, m>>] = 0
    <3>1. <<u, m>> \in Raw
      BY DEF Raw
    <3>2. /\ rawFate[<<u, m>>] # "absent" <=> m <= raw[u]
          /\ rawFate[<<u, m>>] = "absent" => copies[<<u, m>>] = 0
      BY DEF Lineage
    <3>3. CASE u # t
      <4>1. rawFate'[<<u, m>>] = rawFate[<<u, m>>] /\ raw'[u] = raw[u]
        BY <1>0, <2>1, <3>1, <3>3
      <4> QED
        BY <3>2, <4>1
    <3>4. CASE u = t /\ m # n
      <4>1. rawFate'[<<u, m>>] = rawFate[<<u, m>>] /\ raw'[u] = raw[u] + 1 /\ raw[u] \in Nat
        BY <1>0, <2>1, <3>1, <3>4
      <4>2. m <= raw[u] + 1 <=> m <= raw[u]
        BY <2>1, <3>4, <4>1
      <4> QED
        BY <3>2, <4>1, <4>2
    <3>5. CASE u = t /\ m = n
      <4>1. rawFate'[<<u, m>>] = "held" /\ raw'[u] = n
        BY <1>0, <2>1, <2>2, <3>5
      <4> QED
        BY <3>5, <4>1
    <3> QED
      BY <3>3, <3>4, <3>5
  <2> QED
    BY <2>1, <2>3 DEF Lineage
<1>4. ASSUME NEW r \in Raw, Leave(r)
      PROVE  Lineage'
  <2>1. /\ \A s \in Raw : rawFate'[s] = "absent" <=> rawFate[s] = "absent"
        /\ UNCHANGED <<raw, copies, scanStatus, writes, puts>>
    BY <1>0, <1>4 DEF Leave, E!Settle, E!GiveUp, agentVars, indexVars
  <2>2. \A t \in Task, n \in 1..TaskDeliver : <<t, n>> \in Raw
    BY DEF Raw
  <2> QED
    BY <2>1, <2>2 DEF Lineage
<1>5. ASSUME NEW r \in Raw, Enrich(r)
      PROVE  Lineage'
  <2>1. PICK t \in Task, n \in 1..TaskDeliver, k \in 1..Copies :
          /\ k = copies[<<t, n>>] + 1
          /\ rawFate[<<t, n>>] # "absent" /\ copies' = [copies EXCEPT ![<<t, n>>] = k]
          /\ scanStatus' = [scanStatus EXCEPT ![<<t, n, k>>] = "waiting"]
          /\ UNCHANGED <<raw, rawFate, writes, puts>>
    BY <1>5, NextCopy DEF IndexInv, agentVars
  <2>2. ASSUME NEW u \in Task, NEW m \in 1..TaskDeliver
        PROVE  rawFate[<<u, m>>] = "absent" => copies'[<<u, m>>] = 0
    <3>1. <<u, m>> \in Raw
      BY DEF Raw
    <3>2. rawFate[<<u, m>>] = "absent" => copies[<<u, m>>] = 0 /\ <<u, m>> # <<t, n>>
      BY <2>1 DEF Lineage
    <3> QED
      BY <1>0, <2>1, <3>1, <3>2
  <2>3. ASSUME NEW u \in Task, NEW m \in 1..TaskDeliver, NEW j \in 1..Copies
        PROVE  /\ scanStatus'[<<u, m, j>>] # "absent" <=> j <= copies'[<<u, m>>]
               /\ scanStatus'[<<u, m, j>>] = "acked" => writes[<<u, m, j>>] > 0
    <3>1. <<u, m, j>> \in Scan /\ <<u, m>> \in Raw
      BY DEF Scan, Raw
    <3>2. /\ scanStatus[<<u, m, j>>] # "absent" <=> j <= copies[<<u, m>>]
          /\ scanStatus[<<u, m, j>>] = "acked" => writes[<<u, m, j>>] > 0
      BY DEF Lineage
    <3>3. CASE u # t \/ m # n
      <4>1. scanStatus'[<<u, m, j>>] = scanStatus[<<u, m, j>>] /\ copies'[<<u, m>>] = copies[<<u, m>>]
        BY <1>0, <2>1, <3>1, <3>3
      <4> QED
        BY <3>2, <4>1
    <3>4. CASE u = t /\ m = n /\ j # k
      <4>1. scanStatus'[<<u, m, j>>] = scanStatus[<<u, m, j>>] /\ copies'[<<u, m>>] = k
        BY <1>0, <2>1, <3>1, <3>4
      <4>2. PICK c \in 0..Copies : c = copies[<<u, m>>] /\ k = c + 1
        BY <1>0, <2>1, <3>1, <3>4
      <4>3. j <= c + 1 <=> j <= c
        BY <3>4, <4>2
      <4> QED
        BY <3>2, <4>1, <4>2, <4>3
    <3>5. CASE u = t /\ m = n /\ j = k
      <4>1. scanStatus'[<<u, m, j>>] = "waiting" /\ copies'[<<u, m>>] = k
        BY <1>0, <2>1, <3>1, <3>5
      <4> QED
        BY <3>5, <4>1
    <3> QED
      BY <3>3, <3>4, <3>5
  <2> QED
    BY <2>1, <2>2, <2>3 DEF Lineage
<1>6. CASE IndexStep
  <2>1. /\ \A e \in Scan : scanStatus'[e] = "absent" <=> scanStatus[e] = "absent"
        /\ \A e \in Scan : scanStatus'[e] = "acked" => scanStatus[e] = "acked" \/ writes[e] > 0
        /\ \/ UNCHANGED <<writes, puts>>
           \/ \E e \in Scan, n \in 1..Attempts :
                /\ writes' = [writes EXCEPT ![e] = @ + 1]
                /\ puts' = [puts EXCEPT ![e] = @ + n]
    BY <1>6, IndexSteps
  <2>2. UNCHANGED <<raw, rawFate, copies>>
    BY <1>6 DEF IndexStep, agentVars, enrichVars
  <2>3. \A t \in Task, n \in 1..TaskDeliver, k \in 1..Copies : <<t, n, k>> \in Scan
    BY DEF Scan
  <2>4. /\ puts' \in [Scan -> Nat] /\ \A e \in Scan : puts'[e] <= Attempts * writes'[e]
        /\ \A e \in Scan : writes[e] > 0 => writes'[e] > 0
    <3>1. puts \in [Scan -> Nat] /\ \A e \in Scan : puts[e] <= Attempts * writes[e]
      BY DEF Lineage
    <3>2. CASE UNCHANGED <<writes, puts>>
      BY <3>1, <3>2
    <3>3. ASSUME NEW e \in Scan, NEW n \in 1..Attempts,
                 writes' = [writes EXCEPT ![e] = @ + 1], puts' = [puts EXCEPT ![e] = @ + n]
          PROVE  /\ puts' \in [Scan -> Nat]
                 /\ \A f \in Scan : puts'[f] <= Attempts * writes'[f]
                 /\ \A f \in Scan : writes[f] > 0 => writes'[f] > 0
      <4>1. /\ puts'[e] = puts[e] + n /\ writes'[e] = writes[e] + 1
            /\ \A f \in Scan : f # e => puts'[f] = puts[f] /\ writes'[f] = writes[f]
            /\ puts' \in [Scan -> Nat]
        <5>1. n \in Nat /\ 1 \in Nat
          BY PipelineAssumption
        <5>2. PICK p, w : p = puts' /\ w = writes'
          OBVIOUS
        <5>3. /\ p[e] = puts[e] + n /\ p \in [Scan -> Nat]
              /\ \A f \in Scan : f # e => p[f] = puts[f]
          BY <3>1, <3>3, <5>1, <5>2, AddedTo
        <5>4. w[e] = writes[e] + 1 /\ \A f \in Scan : f # e => w[f] = writes[f]
          BY <1>0, <3>3, <5>1, <5>2, AddedTo
        <5> QED
          BY <5>2, <5>3, <5>4
      <4>2. PICK a \in Nat, k \in Nat, p \in Nat : a = Attempts /\ k = writes[e] /\ p = puts[e]
        BY <1>0, <3>1, PipelineAssumption
      <4>3. p + n <= a * (k + 1)
        BY <3>1, <4>2, RequestPays
      <4>4. puts'[e] <= Attempts * writes'[e]
        BY <4>1, <4>2, <4>3
      <4>5. \A f \in Scan : writes[f] > 0 => writes'[f] > 0
        <5>1. PICK w : w = writes'
          OBVIOUS
        <5>2. \A f \in Scan : writes[f] > 0 => w[f] > 0
          BY <1>0, <3>3, <5>1, AddedTo
        <5> QED
          BY <5>1, <5>2
      <4> QED
        BY <3>1, <4>1, <4>4, <4>5
    <3> QED
      BY <2>1, <3>2, <3>3
  <2> QED
    BY <2>1, <2>2, <2>3, <2>4 DEF Lineage
<1> QED
  BY <1>2, <1>3, <1>4, <1>5, <1>6 DEF Next

\* It holds at the start, and so always.
LEMMA LineageStarts ==
  ASSUME Init
  PROVE  Lineage
<1>1. /\ \A t \in Task : raw[t] = 0
      /\ rawFate = [r \in Raw |-> "absent"] /\ copies = [r \in Raw |-> 0]
      /\ scanStatus = [e \in Scan |-> "absent"]
      /\ writes = [e \in Scan |-> 0] /\ puts = [e \in Scan |-> 0]
  BY DEF Init, A!Init, E!Init, I!Init, I!QueueInit
<1>2. puts \in [Scan -> Nat] /\ \A e \in Scan : puts[e] <= Attempts * writes[e]
  BY <1>1, PipelineAssumption
<1>3. /\ \A t \in Task, n \in 1..TaskDeliver : <<t, n>> \in Raw
      /\ \A t \in Task, n \in 1..TaskDeliver, k \in 1..Copies : <<t, n, k>> \in Scan
  BY DEF Raw, Scan
<1> QED
  BY <1>1, <1>2, <1>3 DEF Lineage

LEMMA PipelineInvariant == Spec => []PipelineInv
<1>1. Init => AgentInv /\ Lineage
  BY AgentStarts, LineageStarts
<1>2. AgentInv /\ [Next]_vars => AgentInv'
  BY AgentKeepsInv
<1>3. AgentInv /\ IndexInv /\ Lineage /\ [Next]_vars => Lineage'
  BY LineageStep DEF PipelineInv
<1> QED
  BY <1>1, <1>2, <1>3, IndexerInvariant, PTL DEF Spec, PipelineInv

(* The variables of the pipeline keep their types: those of the agents, of *)
(* the stage of the enrichment workers and of the indexer.                 *)
THEOREM PipelineTypes == Spec => []TypeOK
<1>1. ASSUME PipelineInv
      PROVE  TypeOK
  <2>1. A!TypeOK
    BY <1>1 DEF PipelineInv, AgentInv, AgentTypes
  <2>2. /\ I!QueueTypeOK /\ indexed \in [Indexer -> Scan \cup {I!None}]
        /\ writes \in [Scan -> Nat] /\ scanHarmed \subseteq Scan
    BY <1>1 DEF PipelineInv, IndexInv, ScanQueue!Inv, ScanQueue!TypeOK,
                ScanQueue!QueueTypeOK, I!QueueTypeOK
  <2>3. \A w \in Indexer : indexing[w] = "idle" <=> indexed[w] = I!None
    BY <1>1, IndexerHand DEF PipelineInv
  <2>4. puts \in [Scan -> Nat]
    BY <1>1 DEF PipelineInv, Lineage
  <2>5. I!TypeOK
    BY <1>1, <2>2, <2>3, <2>4 DEF PipelineInv, IndexInv, IndexTypes, I!TypeOK
  <2> QED
    BY <1>1, <2>1, <2>5 DEF PipelineInv, IndexInv, IndexTypes, TypeOK
<1>2. PipelineInv => TypeOK
  BY <1>1
<1> QED
  BY <1>2, PipelineInvariant, PTL
-----------------------------------------------------------------------------
(* A set that the numbers up to n name has n elements.                     *)
LEMMA Numbered ==
  ASSUME NEW n \in Nat, NEW S, NEW T, NEW t \in T,
         \A i \in 1..n : <<t, i>> \in S, \A s \in S : \E i \in 1..n : s = <<t, i>>
  PROVE  Cardinality(S) = n
<1> DEFINE f == [i \in 1..n |-> <<t, i>>]
<1>1. f \in [1..n -> S] /\ DOMAIN f = 1..n
  OBVIOUS
<1>2. \A i, j \in 1..n : f[i] = f[j] => i = j
  OBVIOUS
<1>3. \A s \in S : \E i \in 1..n : f[i] = s
  OBVIOUS
<1> HIDE DEF f
<1>4. f \in Bijection(1..n, S)
  BY <1>1, <1>2, <1>3 DEF Bijection, Injection, IsInjective, Surjection
<1>5. 1 \in Int /\ n \in Int
  OBVIOUS
<1>6. IsFiniteSet(1..n) /\ Cardinality(1..n) = n
  BY <1>5, FS_Interval
<1>7. ExistsBijection(1..n, S)
  BY <1>4 DEF ExistsBijection
<1> QED
  BY <1>6, <1>7, FS_Bijection

\* The raw scans of a task are numbered.
LEMMA RawScansNumbered ==
  ASSUME PipelineInv, NEW t \in Task
  PROVE  raw[t] <= taskTries[t] /\ raw[t] \in 0..TaskDeliver /\ Cardinality(RawsOf(t)) = raw[t]
<1>1. /\ IsFiniteSet(TaskHeld(t)) /\ raw[t] + Cardinality(TaskHeld(t)) <= taskTries[t]
      /\ raw[t] \in Nat /\ taskTries[t] \in 0..TaskDeliver
  BY DEF PipelineInv, AgentInv, RawCounted, AgentTypes, A!TypeOK, A!QueueTypeOK
<1>2. PICK c \in Nat : c = Cardinality(TaskHeld(t))
  BY <1>1, FS_CardinalityType
<1>3. PICK n \in Nat : n = raw[t]
  BY <1>1
<1>4. n <= taskTries[t] /\ n \in 0..TaskDeliver
  BY <1>1, <1>2, <1>3, PipelineAssumption
<1>5. RawsOf(t) = {<<t, i>> : i \in 1..n}
  <2>1. \A i \in 1..TaskDeliver : rawFate[<<t, i>>] # "absent" <=> i <= n
    BY <1>3 DEF PipelineInv, Lineage
  <2>2. \A i \in 1..n : i \in 1..TaskDeliver /\ i <= n
    BY <1>4, PipelineAssumption
  <2>3. \A i \in 1..TaskDeliver : i <= n => i \in 1..n
    OBVIOUS
  <2> QED
    BY <2>1, <2>2, <2>3 DEF RawsOf, Raw
<1>6. PICK S : S = RawsOf(t)
  OBVIOUS
<1>7. Cardinality(S) = n
  <2>1. (\A i \in 1..n : <<t, i>> \in S) /\ \A s \in S : \E i \in 1..n : s = <<t, i>>
    BY <1>5, <1>6
  <2> QED
    BY <2>1, Numbered
<1> QED
  BY <1>3, <1>4, <1>6, <1>7

\* A scan that has been written was stored, and paid for by a delivery.
LEMMA WritesPaidFor ==
  ASSUME PipelineInv, NEW e \in Scan
  PROVE  /\ writes[e] <= scanTries[e] /\ writes[e] \in Nat /\ scanTries[e] \in 0..IndexDeliver
         /\ writes[e] > 0 => scanStatus[e] # "absent"
<1>1. /\ IsFiniteSet(ScanQueue!Held(e))
      /\ writes[e] + Cardinality(ScanQueue!Held(e)) <= scanTries[e]
      /\ writes[e] \in Nat /\ scanTries[e] \in 0..IndexDeliver
      /\ scanStatus[e] = "absent" => scanTries[e] = 0
  <2>1. /\ ScanQueue!IsFiniteSet(ScanQueue!Held(e))
        /\ writes[e] + ScanQueue!Cardinality(ScanQueue!Held(e)) <= scanTries[e]
    BY DEF PipelineInv, IndexInv, ScanQueue!CopiesCounted
  <2>2. /\ IsFiniteSet(ScanQueue!Held(e))
        /\ Cardinality(ScanQueue!Held(e)) = ScanQueue!Cardinality(ScanQueue!Held(e))
    BY <2>1, ScanQueueSizes
  <2>3. /\ writes[e] \in Nat /\ scanTries[e] \in 0..IndexDeliver
        /\ scanStatus[e] = "absent" => scanTries[e] = 0
    BY DEF PipelineInv, IndexInv, ScanQueue!Inv, ScanQueue!TypeOK, ScanQueue!QueueTypeOK,
           ScanQueue!QueueInv, ScanQueue!DeliveriesLeft
  <2> QED
    BY <2>1, <2>2, <2>3
<1>2. PICK c \in Nat : c = Cardinality(ScanQueue!Held(e))
  BY <1>1, FS_CardinalityType
<1>3. PICK k \in Nat : k = writes[e]
  BY <1>1
<1>4. k <= scanTries[e]
  BY <1>1, <1>2, <1>3, PipelineAssumption
<1> QED
  BY <1>1, <1>3, <1>4, PipelineAssumption

(* No stage multiplies work on its own account: a task has one raw scan    *)
(* for each number up to its count, at most one per delivery; at most one  *)
(* request per delivery of a scan writes its document, at most as often as *)
(* the client attempts it; and a scan that was written went through every  *)
(* stage.                                                                  *)
THEOREM PipelineAccounts == Spec => []Accounted
<1>1. ASSUME PipelineInv
      PROVE  Accounted
  <2>1. ASSUME NEW e \in Scan
        PROVE  /\ puts[e] > 0 => copies[<<e[1], e[2]>>] >= e[3]
               /\ writes[e] <= scanTries[e] /\ puts[e] <= Attempts * scanTries[e]
    <3>1. PICK t \in Task, n \in 1..TaskDeliver, k \in 1..Copies : e = <<t, n, k>>
      BY DEF Scan
    <3>2. e[1] = t /\ e[2] = n /\ e[3] = k
      BY <3>1
    <3>3. <<t, n>> \in Raw
      BY DEF Raw
    <3>4. copies[<<t, n>>] \in 0..Copies
      BY <1>1, <3>3 DEF PipelineInv, IndexInv, IndexTypes
    <3>5. writes[e] > 0 => k <= copies[<<t, n>>]
      BY <1>1, <3>1, WritesPaidFor DEF PipelineInv, Lineage
    <3>6. k <= copies[<<t, n>>] => copies[<<t, n>>] >= k
      BY <3>4
    <3>7. puts[e] <= Attempts * scanTries[e] /\ (puts[e] > 0 => writes[e] > 0)
      <4>1. PICK a \in Nat, i \in Nat, j \in Nat, p \in Nat :
              a = Attempts /\ i = writes[e] /\ j = scanTries[e] /\ p = puts[e]
        BY <1>1, WritesPaidFor, PipelineAssumption DEF PipelineInv, Lineage
      <4>2. i <= j /\ p <= a * i
        BY <1>1, <4>1, WritesPaidFor DEF PipelineInv, Lineage
      <4> QED
        BY <4>1, <4>2, DeliveryPays
    <3> QED
      BY <1>1, <3>2, <3>5, <3>6, <3>7, WritesPaidFor
  <2> QED
    BY <1>1, <2>1, RawScansNumbered DEF PipelineInv, Lineage, Accounted
<1>2. PipelineInv => Accounted
  BY <1>1
<1> QED
  BY <1>2, PipelineInvariant, PTL
-----------------------------------------------------------------------------
(* The end-to-end promise.  Whether something of a task is with a worker   *)
(* is asked of a client's buffers and of the callbacks' hands.             *)
HasIn(W, box, hand, m) ==
  \E w \in W : hand[w] = m \/ \E i \in 1..Len(box[w]) : box[w][i] = m

\* Taking a delivery from the buffer gives a client nothing it had not.
LEMMA HasTaken ==
  ASSUME NEW W, NEW S, NEW box \in [W -> Seq(S)], NEW hand, NEW w \in W, box[w] # <<>>,
         NEW box2, NEW hand2, box2 = [box EXCEPT ![w] = Tail(@)],
         \A v \in W : hand2[v] = IF v = w THEN Head(box[w]) ELSE hand[v],
         NEW m, HasIn(W, box2, hand2, m)
  PROVE  HasIn(W, box, hand, m)
<1>1. PICK q \in Seq(S) : q = box[w] /\ q # <<>>
  OBVIOUS
<1>2. /\ Head(q) = q[1] /\ 1 \in 1..Len(q)
      /\ \A i \in 1..Len(Tail(q)) : i + 1 \in 1..Len(q) /\ Tail(q)[i] = q[i + 1]
  BY <1>1, TaskQueueApplies, TaskQueue!Taken
<1>3. PICK r : r = Tail(q)
  OBVIOUS
<1>4. box2[w] = r /\ \A v \in W : v # w => box2[v] = box[v]
  BY <1>1, <1>3
<1>5. PICK v \in W : hand2[v] = m \/ \E i \in 1..Len(box2[v]) : box2[v][i] = m
  BY DEF HasIn
<1>6. CASE v # w
  BY <1>4, <1>5, <1>6 DEF HasIn
<1>7. CASE v = w
  <2>1. m = q[1] \/ \E i \in 1..Len(r) : r[i] = m
    BY <1>1, <1>2, <1>4, <1>5, <1>7
  <2>2. \E i \in 1..Len(q) : q[i] = m
    BY <1>2, <1>3, <2>1
  <2> QED
    BY <1>1, <2>2 DEF HasIn
<1> QED
  BY <1>6, <1>7

\* A delivery gives it its own message only.
LEMMA OnlyAppended ==
  ASSUME NEW S, NEW q \in Seq(S), NEW n \in S, NEW r, r = Append(q, n)
  PROVE  \A i \in 1..Len(r) : r[i] = n \/ \E j \in 1..Len(q) : q[j] = r[i]
<1>1. PICK k \in Nat : k = Len(q)
  OBVIOUS
<1>2. Len(r) = k + 1 /\ r[k + 1] = n /\ \A i \in 1..k : r[i] = q[i]
  BY <1>1, Appended
<1>3. \A i \in 1..(k + 1) : i = k + 1 \/ i \in 1..k
  OBVIOUS
<1> QED
  BY <1>1, <1>2, <1>3

HasAlsoOnly(W, box, box2, w, n) ==
  /\ \A i \in 1..Len(box2[w]) :
       box2[w][i] = n \/ \E j \in 1..Len(box[w]) : box[w][j] = box2[w][i]
  /\ \A v \in W : v # w => box2[v] = box[v]

LEMMA HasDelivered ==
  ASSUME NEW W, NEW box, NEW hand, NEW w, NEW n, NEW box2, HasAlsoOnly(W, box, box2, w, n),
         NEW m, m # n, HasIn(W, box2, hand, m)
  PROVE  HasIn(W, box, hand, m)
<1>1. PICK v \in W : hand[v] = m \/ \E i \in 1..Len(box2[v]) : box2[v][i] = m
  BY DEF HasIn
<1>2. CASE v # w \/ hand[v] = m
  BY <1>1, <1>2 DEF HasIn, HasAlsoOnly
<1>3. CASE v = w /\ hand[v] # m
  <2>1. \E j \in 1..Len(box[w]) : box[w][j] = m
    BY <1>1, <1>3 DEF HasAlsoOnly
  <2> QED
    BY <1>3, <2>1 DEF HasIn
<1> QED
  BY <1>2, <1>3

\* Nor does a return or an end.
LEMMA HasReturned ==
  ASSUME NEW W, NEW box, NEW hand, NEW box2, NEW hand2, NEW m,
         \A v \in W : box2[v] = box[v] \/ box2[v] = <<>>,
         \A v \in W : hand2[v] = m => hand[v] = m,
         HasIn(W, box2, hand2, m)
  PROVE  HasIn(W, box, hand, m)
<1>1. PICK v \in W : hand2[v] = m \/ \E i \in 1..Len(box2[v]) : box2[v][i] = m
  BY DEF HasIn
<1>2. CASE hand2[v] = m
  BY <1>2 DEF HasIn
<1>3. CASE \E i \in 1..Len(box2[v]) : box2[v][i] = m
  <2>1. box2[v] # <<>>
    BY <1>3
  <2>2. box2[v] = box[v]
    BY <2>1
  <2> QED
    BY <1>3, <2>2 DEF HasIn
<1> QED
  BY <1>1, <1>2, <1>3
-----------------------------------------------------------------------------
(* What a task's fate hangs on.                                            *)
Settled(t) == \E e \in Scan : e[1] = t /\ scanStatus[e] = "acked"

TaskLive(t) == taskStatus[t] \in {"waiting", "pending"} \/ HasIn(Agent, taskInbox, sweeping, t)

RawLive(t) ==
  \E r \in Raw : r[1] = t /\ rawFate[r] # "absent" /\ (rawFate[r] = "held" \/ copies[r] < Copies)

ScanLive(t) ==
  \E e \in Scan : /\ e[1] = t
                  /\ \/ scanStatus[e] \in {"waiting", "pending"}
                     \/ HasIn(Indexer, scanInbox, indexed, e)

LEMMA LiveIs ==
  ASSUME NEW t
  PROVE  /\ Live(t) <=> TaskLive(t) \/ RawLive(t) \/ ScanLive(t)
         /\ Live(t)' <=> TaskLive(t)' \/ RawLive(t)' \/ ScanLive(t)'
BY DEF Live, TaskLive, RawLive, ScanLive, HasIn, A!Has, I!Has

LEMMA FateIs ==
  ASSUME NEW t
  PROVE  /\ taskStatus[t] = "absent" => FateOf(t) = "absent"
         /\ taskStatus[t] # "absent" /\ Settled(t) => FateOf(t) = "settled"
         /\ taskStatus[t] # "absent" /\ ~Settled(t) /\ Live(t) => FateOf(t) = "held"
         /\ taskStatus[t] # "absent" /\ ~Settled(t) /\ ~Live(t) => FateOf(t) = "given up"
BY DEF FateOf, Settled

LEMMA NextFateIs ==
  ASSUME NEW t
  PROVE  /\ taskStatus'[t] = "absent" => FateOf(t)' = "absent"
         /\ taskStatus'[t] # "absent" /\ Settled(t)' => FateOf(t)' = "settled"
         /\ taskStatus'[t] # "absent" /\ ~Settled(t)' /\ Live(t)' => FateOf(t)' = "held"
         /\ taskStatus'[t] # "absent" /\ ~Settled(t)' /\ ~Live(t)' => FateOf(t)' = "given up"
BY DEF FateOf, Settled

\* What each step of the stage asks of the pipeline.
LEMMA StageAccepts ==
  ASSUME NEW t \in Task, FateOf(t) = "absent", FateOf(t)' = "held",
         \A u \in Task : u # t => FateOf(u)' = FateOf(u),
         \A u \in Task : Writes(u)' = Writes(u)
  PROVE  Promise!Accept(t)
BY DEF Promise!Accept

LEMMA StageHandsOn ==
  ASSUME NEW t \in Task, FateOf(t) # "absent",
         \A u \in Task : FateOf(u)' = FateOf(u),
         Writes(t)' = Writes(t) + 1,
         \A u \in Task : u # t => Writes(u)' = Writes(u)
  PROVE  Promise!HandOn(t)
BY DEF Promise!HandOn

LEMMA StageSettles ==
  ASSUME NEW t \in Task, FateOf(t) = "held", FateOf(t)' = "settled", Writes(t) > 0,
         \A u \in Task : u # t => FateOf(u)' = FateOf(u),
         \A u \in Task : Writes(u)' = Writes(u)
  PROVE  Promise!Settle(t)
BY DEF Promise!Settle

LEMMA StageGivesUp ==
  ASSUME NEW lost \in SUBSET Task,
         \A t \in lost : FateOf(t) = "held" /\ FateOf(t)' = "given up",
         \A t \in Task \ lost : FateOf(t)' = FateOf(t),
         \A t \in Task : Writes(t)' = Writes(t)
  PROVE  Promise!GiveUp(lost)
BY DEF Promise!GiveUp

(* A step after which no task has come to life, none was settled and none  *)
(* has a new write gives up those tasks of which nothing lives any more,   *)
(* which may be none, one, or several.                                     *)
LEMMA NothingNew ==
  ASSUME \A t \in Task : taskStatus'[t] = "absent" <=> taskStatus[t] = "absent",
         \A t \in Task : Settled(t)' <=> Settled(t),
         \A t \in Task : Live(t)' => Live(t),
         \A t \in Task : Writes(t)' = Writes(t)
  PROVE  Promise!Next
<1> DEFINE lost == {t \in Task : FateOf(t) = "held" /\ FateOf(t)' # "held"}
<1>1. ASSUME NEW t \in Task
      PROVE  FateOf(t)' = FateOf(t) \/ (FateOf(t) = "held" /\ FateOf(t)' = "given up")
  <2>1. CASE taskStatus[t] = "absent" \/ Settled(t)
    BY <2>1, FateIs, NextFateIs
  <2>2. CASE taskStatus[t] # "absent" /\ ~Settled(t)
    BY <2>2, FateIs, NextFateIs
  <2> QED
    BY <2>1, <2>2
<1>2. Promise!GiveUp(lost)
  BY <1>1, StageGivesUp
<1> QED
  BY <1>2 DEF Promise!Next
-----------------------------------------------------------------------------
(* The writes of a task.                                                   *)
ScansNamed(t) == {e \in Scan : e[1] = t}

LEMMA TaskHasFewWrites ==
  ASSUME NEW t \in Task
  PROVE  IsFiniteSet(ScansNamed(t) \X (1..IndexDeliver))
<1> DEFINE P == (1..TaskDeliver) \X (1..Copies)
           f == [p \in P |-> <<t, p[1], p[2]>>]
<1>1. IsFiniteSet(1..TaskDeliver) /\ IsFiniteSet(1..Copies) /\ IsFiniteSet(1..IndexDeliver)
  BY FS_Interval, PipelineAssumption
<1>2. IsFiniteSet(P)
  BY <1>1, FS_Product
<1>3. f \in [P -> ScansNamed(t)]
  BY DEF ScansNamed, Scan
<1>4. \A e \in ScansNamed(t) : \E p \in P : f[p] = e
  <2>1. SUFFICES ASSUME NEW e \in ScansNamed(t)
                 PROVE  \E p \in P : f[p] = e
    OBVIOUS
  <2>2. PICK n \in 1..TaskDeliver, k \in 1..Copies : e = <<t, n, k>>
    BY DEF ScansNamed, Scan
  <2>3. <<n, k>> \in P /\ f[<<n, k>>] = e
    BY <2>2
  <2> QED
    BY <2>3
<1> HIDE DEF P, f
<1>5. f \in Surjection(P, ScansNamed(t))
  BY <1>3, <1>4 DEF Surjection
<1>6. IsFiniteSet(ScansNamed(t))
  BY <1>2, <1>5, FS_Surjection
<1> QED
  BY <1>1, <1>6, FS_Product

LEMMA WritesFinite ==
  ASSUME NEW t \in Task
  PROVE  IsFiniteSet(WritesOf(t)) /\ IsFiniteSet(WritesOf(t)')
<1>1. PICK S : S = ScansNamed(t) \X (1..IndexDeliver) /\ IsFiniteSet(S)
  BY TaskHasFewWrites
<1>2. PICK T, U : T = WritesOf(t) /\ U = WritesOf(t)'
  OBVIOUS
<1>3. T \subseteq S
  BY <1>1, <1>2 DEF WritesOf, ScansOf, ScansNamed
<1>4. U \subseteq S
  BY <1>1, <1>2 DEF WritesOf, ScansOf, ScansNamed
<1>5. IsFiniteSet(T) /\ IsFiniteSet(U)
  BY <1>1, <1>3, <1>4, FS_Subset
<1> QED
  BY <1>2, <1>5

LEMMA SameWrites ==
  ASSUME UNCHANGED writes,
         \A e \in Scan : scanStatus'[e] = "absent" <=> scanStatus[e] = "absent",
         NEW t \in Task
  PROVE  Writes(t)' = Writes(t)
<1>1. WritesOf(t)' = WritesOf(t)
  BY DEF WritesOf, ScansOf
<1> QED
  BY <1>1 DEF Writes

LEMMA FirstCopyHasNoWrites ==
  ASSUME PipelineInv, NEW e \in Scan, scanStatus[e] = "absent",
         scanStatus' = [scanStatus EXCEPT ![e] = "waiting"], UNCHANGED writes,
         NEW t \in Task
  PROVE  Writes(t)' = Writes(t)
<1>1. writes[e] \in Nat /\ ~(writes[e] > 0) /\ \A n \in 1..IndexDeliver : ~(n <= writes[e])
  BY WritesPaidFor
<1>2. scanStatus \in [Scan -> {"absent", "waiting", "pending", "acked", "spent", "aged"}]
  BY DEF PipelineInv, IndexInv, ScanQueue!Inv, ScanQueue!TypeOK, ScanQueue!QueueTypeOK
<1>3. \A f \in Scan : f # e => scanStatus'[f] = scanStatus[f]
  BY <1>2
<1>4. WritesOf(t)' = WritesOf(t)
  BY <1>1, <1>3 DEF WritesOf, ScansOf
<1> QED
  BY <1>4 DEF Writes

\* No scan is written more often than it is delivered, before and after a step.
LEMMA WritesBounded == PipelineInv => \A e \in Scan : writes[e] <= IndexDeliver
<1>1. ASSUME PipelineInv, NEW e \in Scan
      PROVE  writes[e] <= IndexDeliver
  BY <1>1, WritesPaidFor, PipelineAssumption
<1> QED
  BY <1>1

LEMMA NextWritesBounded == PipelineInv' => \A e \in Scan : writes'[e] <= IndexDeliver
<1>1. (PipelineInv => \A e \in Scan : writes[e] <= IndexDeliver)'
  BY WritesBounded, PTL
<1> QED
  BY <1>1

LEMMA OneMoreWrite ==
  ASSUME PipelineInv, PipelineInv', NEW e \in Scan, scanStatus[e] # "absent",
         UNCHANGED scanStatus, writes' = [writes EXCEPT ![e] = @ + 1],
         NEW t \in Task
  PROVE  /\ e[1] = t => Writes(t)' = Writes(t) + 1
         /\ e[1] # t => Writes(t)' = Writes(t)
<1>1. writes \in [Scan -> Nat]
  BY DEF PipelineInv, IndexInv, ScanQueue!Inv, ScanQueue!TypeOK
<1>2. PICK k \in Nat : k = writes[e]
  BY <1>1
<1>3. writes'[e] = k + 1 /\ \A f \in Scan : f # e => writes'[f] = writes[f]
  BY <1>1, <1>2
<1>4. k + 1 <= IndexDeliver
  <2>1. writes'[e] <= IndexDeliver
    BY NextWritesBounded
  <2> QED
    BY <1>3, <2>1
<1>5. k + 1 \in 1..IndexDeliver /\ \A n \in 1..IndexDeliver : n <= k + 1 <=> n <= k \/ n = k + 1
  BY <1>4, PipelineAssumption
<1>6. ASSUME e[1] = t
      PROVE  Writes(t)' = Writes(t) + 1
  <2>1. PICK S, T, d : S = WritesOf(t) /\ T = WritesOf(t)' /\ d = <<e, k + 1>>
    OBVIOUS
  <2>2. ASSUME NEW f \in Scan, f[1] = t, scanStatus[f] # "absent", NEW n \in 1..IndexDeliver
        PROVE  n <= writes'[f] <=> n <= writes[f] \/ <<f, n>> = d
    <3>1. CASE f = e
      BY <1>2, <1>3, <1>5, <2>1, <3>1
    <3>2. CASE f # e
      BY <1>3, <2>1, <3>2
    <3> QED
      BY <3>1, <3>2
  <2>3. T = S \cup {d}
    <3>1. d \in T
      BY <1>3, <1>5, <1>6, <2>1 DEF WritesOf, ScansOf
    <3> QED
      BY <2>1, <2>2, <3>1 DEF WritesOf, ScansOf
  <2>4. d \notin S
    BY <1>2, <2>1 DEF WritesOf, ScansOf
  <2>5. IsFiniteSet(S)
    BY <2>1, WritesFinite
  <2>6. Cardinality(T) = Cardinality(S) + 1
    BY <2>3, <2>4, <2>5, FS_AddElement
  <2> QED
    BY <2>1, <2>6 DEF Writes
<1>7. ASSUME e[1] # t
      PROVE  Writes(t)' = Writes(t)
  <2>1. WritesOf(t)' = WritesOf(t)
    BY <1>3, <1>7 DEF WritesOf, ScansOf
  <2> QED
    BY <2>1 DEF Writes
<1> QED
  BY <1>6, <1>7

LEMMA WrittenCounts ==
  ASSUME PipelineInv, NEW e \in Scan, NEW t \in Task, e[1] = t,
         scanStatus[e] # "absent", writes[e] > 0
  PROVE  Writes(t) > 0
<1>1. PICK S : S = WritesOf(t)
  OBVIOUS
<1>2. 1 \in 1..IndexDeliver /\ 1 <= writes[e]
  BY WritesPaidFor, PipelineAssumption
<1>3. <<e, 1>> \in S
  BY <1>1, <1>2 DEF WritesOf, ScansOf
<1>4. IsFiniteSet(S)
  BY <1>1, WritesFinite
<1>5. Cardinality(S) \in Nat /\ Cardinality(S) # 0
  BY <1>3, <1>4, FS_EmptySet, FS_CardinalityType
<1> QED
  BY <1>1, <1>5 DEF Writes
-----------------------------------------------------------------------------
(* What the agents' steps leave alive.                                     *)
LEMMA SweepHasNoMore ==
  ASSUME AgentInv, NEW w \in Agent, A!Callback(w) \/ A!Fault(w), NEW t \in Task, TaskLive(t)'
  PROVE  TaskLive(t)
<1>1. /\ taskInbox \in [Agent -> Seq(Task)] /\ t # A!None
      /\ taskStatus \in [Task -> {"absent", "waiting", "pending", "acked", "spent", "aged"}]
      /\ sweeping \in [Agent -> Task \cup {A!None}]
  BY PipelineAssumption DEF AgentInv, AgentTypes, A!TypeOK, A!QueueTypeOK
<1>2. taskStatus'[t] \in {"waiting", "pending"} => taskStatus[t] \in {"waiting", "pending"}
  BY <1>1 DEF A!Callback, A!Fault, A!Begin, A!Acknowledge, A!Acked, A!PublishLost, A!queueVars,
              A!Crash
<1>3. PICK box, hand, box2, hand2 :
        box = taskInbox /\ hand = sweeping /\ box2 = taskInbox' /\ hand2 = sweeping'
  OBVIOUS
<1>4. CASE A!Begin(w)
  <2>1. /\ box \in [Agent -> Seq(Task)] /\ box[w] # <<>> /\ box2 = [box EXCEPT ![w] = Tail(@)]
        /\ \A v \in Agent : hand2[v] = IF v = w THEN Head(box[w]) ELSE hand[v]
    BY <1>1, <1>3, <1>4 DEF A!Begin
  <2>2. HasIn(Agent, box2, hand2, t) => HasIn(Agent, box, hand, t)
    BY <2>1, HasTaken
  <2> QED
    BY <1>2, <1>3, <2>2 DEF TaskLive
<1>5. CASE A!Acknowledge(w) \/ A!PublishLost(w) \/ A!Crash(w)
  <2>1. /\ \A v \in Agent : box2[v] = box[v] \/ box2[v] = <<>>
        /\ \A v \in Agent : hand2[v] = t => hand[v] = t
    BY <1>1, <1>3, <1>5
       DEF A!Acknowledge, A!PublishLost, A!Crash, A!Return, A!queueVars
  <2>2. HasIn(Agent, box2, hand2, t) => HasIn(Agent, box, hand, t)
    BY <2>1, HasReturned
  <2> QED
    BY <1>2, <1>3, <2>2 DEF TaskLive
<1> QED
  BY <1>4, <1>5 DEF A!Callback, A!Fault

\* The stream's own steps bring to life only what is stored.
LEMMA TaskServerHasNoMore ==
  ASSUME AgentInv, NEW u \in Task,
         A!Store(u) \/ A!Lapse(u) \/ \E w \in Agent : A!Deliver(u, w),
         UNCHANGED sweeping, NEW t \in Task
  PROVE  /\ ~A!Store(u) => (taskStatus'[t] = "absent" <=> taskStatus[t] = "absent")
         /\ t # u => taskStatus'[t] = taskStatus[t]
         /\ t # u \/ ~A!Store(u) => (TaskLive(t)' => TaskLive(t))
<1>1. /\ taskInbox \in [Agent -> Seq(Task)]
      /\ taskStatus \in [Task -> {"absent", "waiting", "pending", "acked", "spent", "aged"}]
  BY DEF AgentInv, AgentTypes, A!TypeOK, A!QueueTypeOK
<1>2. CASE A!Store(u)
  BY <1>1, <1>2 DEF A!Store, TaskLive, HasIn
<1>3. CASE A!Lapse(u)
  BY <1>1, <1>3 DEF A!Lapse, A!Unacked, TaskLive, HasIn
<1>4. ASSUME NEW w \in Agent, A!Deliver(u, w)
      PROVE  /\ taskStatus'[t] = "absent" <=> taskStatus[t] = "absent"
             /\ t # u => taskStatus'[t] = taskStatus[t]
             /\ TaskLive(t)' => TaskLive(t)
  <2>1. PICK box, hand, box2 : box = taskInbox /\ hand = sweeping /\ box2 = taskInbox'
    OBVIOUS
  <2>2. box \in [Agent -> Seq(Task)] /\ box2 = [box EXCEPT ![w] = Append(@, u)]
    BY <1>1, <1>4, <2>1 DEF A!Deliver
  <2>3. ASSUME t # u, HasIn(Agent, box2, hand, t)
        PROVE  HasIn(Agent, box, hand, t)
    <3>0. PICK q \in Seq(Task) : q = box[w]
      BY <2>2
    <3>1. PICK r : r = box2[w] /\ r = Append(q, u)
      BY <3>0, <2>2
    <3>2. \A i \in 1..Len(r) : r[i] = u \/ \E j \in 1..Len(q) : q[j] = r[i]
      BY <3>0, <3>1, OnlyAppended
    <3>3. \A v \in Agent : v # w => box2[v] = box[v]
      BY <2>2
    <3>4. HasAlsoOnly(Agent, box, box2, w, u)
      BY <3>0, <3>1, <3>2, <3>3 DEF HasAlsoOnly
    <3> QED
      BY <2>3, <3>4, HasDelivered
  <2>4. taskStatus' = [taskStatus EXCEPT ![u] = "pending"] /\ taskStatus[u] = "waiting"
    BY <1>4 DEF A!Deliver
  <2> QED
    BY <1>1, <2>1, <2>3, <2>4 DEF TaskLive
<1> QED
  BY <1>2, <1>3, <1>4

\* Of a task that is not in the stream there is nothing further on.
LEMMA AbsentTask ==
  ASSUME PipelineInv, NEW t \in Task, taskStatus[t] = "absent"
  PROVE  /\ raw[t] = 0 /\ \A e \in Scan : e[1] = t => scanStatus[e] = "absent"
         /\ ~Settled(t)
<1>1. taskTries[t] = 0
  BY DEF PipelineInv, AgentInv, AgentTypes, TaskQueue!QueueInv, TaskQueue!DeliveriesLeft
<1>2. raw[t] = 0
  BY <1>1, RawScansNumbered
<1>3. ASSUME NEW e \in Scan, e[1] = t
      PROVE  scanStatus[e] = "absent"
  <2>1. PICK n \in 1..TaskDeliver, k \in 1..Copies : e = <<t, n, k>>
    BY <1>3 DEF Scan
  <2>2. ~(n <= raw[t]) /\ ~(k <= 0)
    BY <1>2
  <2>3. copies[<<t, n>>] = 0
    BY <2>2 DEF PipelineInv, Lineage
  <2> QED
    BY <2>1, <2>2, <2>3 DEF PipelineInv, Lineage
<1> QED
  BY <1>2, <1>3 DEF Settled

\* A scan that is stored is one of a task that is in the stream.
LEMMA ScanHasTask ==
  ASSUME PipelineInv, NEW e \in Scan, scanStatus[e] # "absent"
  PROVE  e[1] \in Task /\ taskStatus[e[1]] # "absent"
<1>1. e[1] \in Task
  BY DEF Scan
<1> QED
  BY <1>1, AbsentTask

\* The agents' steps keep the promise.
LEMMA AgentStepKeepsPromise ==
  ASSUME PipelineInv, AgentStep
  PROVE  Promise!Next
<1>1. UNCHANGED <<raw, rawFate, copies, scanStatus, scanInbox, indexed, writes>>
  BY AgentStepsMakeNone DEF enrichVars, indexVars
<1>2. ASSUME NEW t \in Task
      PROVE  /\ Settled(t)' <=> Settled(t)
             /\ Writes(t)' = Writes(t)
             /\ RawLive(t)' <=> RawLive(t)
             /\ ScanLive(t)' <=> ScanLive(t)
  BY <1>1, SameWrites DEF Settled, RawLive, ScanLive, HasIn
<1>3. ASSUME \A t \in Task : taskStatus'[t] = "absent" <=> taskStatus[t] = "absent",
             \A t \in Task : TaskLive(t)' => TaskLive(t)
      PROVE  Promise!Next
  BY <1>2, <1>3, LiveIs, NothingNew
<1>4. ASSUME NEW w \in Agent, A!Callback(w) \/ A!Fault(w)
      PROVE  Promise!Next
  <2>1. \A t \in Task : taskStatus'[t] = "absent" <=> taskStatus[t] = "absent"
    BY <1>4 DEF PipelineInv, AgentInv, AgentTypes, A!TypeOK, A!QueueTypeOK, A!Callback, A!Fault,
                A!Begin, A!Acknowledge, A!Acked, A!PublishLost, A!queueVars, A!Crash
  <2>2. \A t \in Task : TaskLive(t)' => TaskLive(t)
    BY <1>4, SweepHasNoMore DEF PipelineInv
  <2> QED
    BY <1>3, <2>1, <2>2
<1>5. ASSUME UNCHANGED sweeping, NEW u \in Task,
             A!Lapse(u) \/ \E w \in Agent : A!Deliver(u, w)
      PROVE  Promise!Next
  <2>1. ~A!Store(u)
    BY <1>5 DEF A!Lapse, A!Deliver, A!Store
  <2>2. /\ \A t \in Task : taskStatus'[t] = "absent" <=> taskStatus[t] = "absent"
        /\ \A t \in Task : TaskLive(t)' => TaskLive(t)
    BY <1>5, <2>1, TaskServerHasNoMore DEF PipelineInv
  <2> QED
    BY <1>3, <2>2
<1>6. ASSUME UNCHANGED sweeping, NEW u \in Task, A!Store(u)
      PROVE  Promise!Next
  <2>1. taskStatus[u] = "absent" /\ taskStatus' = [taskStatus EXCEPT ![u] = "waiting"]
        /\ UNCHANGED taskInbox
    BY <1>6 DEF A!Store
  <2>2. taskStatus'[u] = "waiting" /\ \A t \in Task : t # u => taskStatus'[t] = taskStatus[t]
    BY <2>1 DEF PipelineInv, AgentInv, AgentTypes, A!TypeOK, A!QueueTypeOK
  <2>3. FateOf(u) = "absent" /\ FateOf(u)' = "held"
    <3>1. ~Settled(u)'
      BY <1>2, <2>1, AbsentTask
    <3>2. TaskLive(u)'
      BY <2>2 DEF TaskLive
    <3> QED
      BY <2>1, <2>2, <3>1, <3>2, LiveIs, FateIs, NextFateIs
  <2>4. ASSUME NEW t \in Task, t # u
        PROVE  FateOf(t)' = FateOf(t)
    <3>1. TaskLive(t)' <=> TaskLive(t)
      BY <1>6, <2>1, <2>2, <2>4 DEF TaskLive
    <3>2. Live(t)' <=> Live(t)
      BY <1>2, <3>1, LiveIs
    <3> QED
      BY <1>2, <2>2, <2>4, <3>2, FateIs, NextFateIs
  <2>5. Promise!Accept(u)
    BY <1>2, <2>3, <2>4, StageAccepts
  <2> QED
    BY <2>5 DEF Promise!Next
<1> QED
  BY <1>4, <1>5, <1>6, SameTaskSteps DEF AgentStep, A!Environment, A!QueueNext

\* So do the steps of the enrichment workers.
LEMMA EnrichKeepsPromise ==
  ASSUME PipelineInv, (\E w \in Agent : PublishRaw(w)) \/ \E r \in Raw : Enrich(r) \/ Leave(r)
  PROVE  Promise!Next
<1>1. /\ rawFate \in [Raw -> {"absent", "held", "settled", "given up"}]
      /\ copies \in [Raw -> 0..Copies]
      /\ scanStatus \in [Scan -> {"absent", "waiting", "pending", "acked", "spent", "aged"}]
  BY DEF PipelineInv, IndexInv, IndexTypes, ScanQueue!Inv, ScanQueue!TypeOK,
         ScanQueue!QueueTypeOK
<1>2. ASSUME NEW w \in Agent, PublishRaw(w)
      PROVE  Promise!Next
  <2>1. PICK t \in Task, n \in 1..TaskDeliver :
          /\ t = sweeping[w]
          /\ rawFate[<<t, n>>] = "absent" /\ rawFate' = [rawFate EXCEPT ![<<t, n>>] = "held"]
          /\ UNCHANGED <<taskStatus, taskInbox, sweeping, copies, indexVars>>
    BY <1>2, NextRaw DEF PipelineInv
  <2>2. UNCHANGED <<scanStatus, scanInbox, indexed, writes>>
    BY <2>1 DEF indexVars
  <2>3. TaskLive(t)
    BY <2>1 DEF TaskLive, HasIn
  <2>4. ASSUME NEW u \in Task
        PROVE  (Settled(u)' <=> Settled(u)) /\ Writes(u)' = Writes(u) /\ (Live(u)' => Live(u))
    <3>1. (Settled(u)' <=> Settled(u)) /\ Writes(u)' = Writes(u)
      BY <2>2, SameWrites DEF Settled
    <3>2. (TaskLive(u)' <=> TaskLive(u)) /\ (ScanLive(u)' <=> ScanLive(u))
      BY <2>1, <2>2 DEF TaskLive, ScanLive, HasIn
    <3>3. u # t => (RawLive(u)' => RawLive(u))
      <4>1. ASSUME NEW r \in Raw, r[1] = u, u # t
            PROVE  rawFate'[r] = rawFate[r]
        <5>1. r # <<t, n>>
          BY <4>1
        <5> QED
          BY <1>1, <2>1, <5>1
      <4> QED
        BY <2>1, <4>1 DEF RawLive
    <3> QED
      BY <2>3, <3>1, <3>2, <3>3, LiveIs
  <2> QED
    BY <2>1, <2>4, NothingNew
<1>3. ASSUME NEW r \in Raw, Leave(r)
      PROVE  Promise!Next
  <2>1. /\ \A s \in Raw : rawFate'[s] = "absent" <=> rawFate[s] = "absent"
        /\ \A s \in Raw : rawFate'[s] = "held" => rawFate[s] = "held"
        /\ UNCHANGED <<taskStatus, taskInbox, sweeping, copies>>
        /\ UNCHANGED <<scanStatus, scanInbox, indexed, writes>>
    BY <1>1, <1>3 DEF Leave, E!Settle, E!GiveUp, agentVars, indexVars
  <2>2. ASSUME NEW u \in Task
        PROVE  (Settled(u)' <=> Settled(u)) /\ Writes(u)' = Writes(u) /\ (Live(u)' => Live(u))
    <3>1. (Settled(u)' <=> Settled(u)) /\ Writes(u)' = Writes(u)
      BY <2>1, SameWrites DEF Settled
    <3>2. (TaskLive(u)' <=> TaskLive(u)) /\ (ScanLive(u)' <=> ScanLive(u))
      BY <2>1 DEF TaskLive, ScanLive, HasIn
    <3>3. RawLive(u)' => RawLive(u)
      BY <2>1 DEF RawLive
    <3> QED
      BY <3>1, <3>2, <3>3, LiveIs
  <2> QED
    BY <2>1, <2>2, NothingNew
<1>4. ASSUME NEW r \in Raw, Enrich(r)
      PROVE  Promise!Next
  <2>1. PICK t \in Task, n \in 1..TaskDeliver, k \in 1..Copies :
          /\ r = <<t, n>>
          /\ rawFate[<<t, n>>] # "absent" /\ copies' = [copies EXCEPT ![<<t, n>>] = k]
          /\ scanStatus[<<t, n, k>>] = "absent"
          /\ scanStatus' = [scanStatus EXCEPT ![<<t, n, k>>] = "waiting"]
          /\ UNCHANGED <<agentVars, rawFate, scanTries, scanInbox, indexing, indexed, writes, puts>>
    BY <1>4, NextCopy DEF PipelineInv, IndexInv
  <2>2. UNCHANGED <<taskStatus, taskInbox, sweeping>>
    BY <2>1 DEF agentVars
  <2>3. RawLive(t)
    <3>1. r \in Raw /\ r[1] = t /\ rawFate[r] # "absent" /\ copies[r] < Copies
      BY <1>4, <2>1 DEF Enrich
    <3> QED
      BY <3>1 DEF RawLive
  <2>4. PICK e \in Scan : e = <<t, n, k>>
    BY DEF Scan
  <2>5. /\ scanStatus[e] = "absent" /\ scanStatus' = [scanStatus EXCEPT ![e] = "waiting"]
        /\ e[1] = t
    BY <2>1, <2>4
  <2>6. scanStatus'[e] = "waiting" /\ \A f \in Scan : f # e => scanStatus'[f] = scanStatus[f]
    BY <1>1, <2>5
  <2>7. ASSUME NEW u \in Task
        PROVE  (Settled(u)' <=> Settled(u)) /\ Writes(u)' = Writes(u) /\ (Live(u)' => Live(u))
    <3>1. Settled(u)' <=> Settled(u)
      BY <2>5, <2>6 DEF Settled
    <3>2. Writes(u)' = Writes(u)
      BY <2>1, <2>5, FirstCopyHasNoWrites
    <3>3. TaskLive(u)' <=> TaskLive(u)
      BY <2>2 DEF TaskLive, HasIn
    <3>4. u # t => (RawLive(u)' => RawLive(u)) /\ (ScanLive(u)' => ScanLive(u))
      <4>1. ASSUME NEW s \in Raw, s[1] = u, u # t
            PROVE  copies'[s] = copies[s]
        <5>1. s # <<t, n>>
          BY <4>1
        <5> QED
          BY <1>1, <2>1, <5>1
      <4>2. \A f \in Scan : f[1] = u /\ u # t => scanStatus'[f] = scanStatus[f]
        BY <2>5, <2>6
      <4>3. UNCHANGED <<rawFate, scanInbox, indexed>>
        BY <2>1
      <4> QED
        BY <4>1, <4>2, <4>3 DEF RawLive, ScanLive, HasIn
    <3> QED
      BY <2>3, <3>1, <3>2, <3>3, <3>4, LiveIs
  <2> QED
    BY <2>2, <2>7, NothingNew
<1> QED
  BY <1>2, <1>3, <1>4
-----------------------------------------------------------------------------
(* The indexer's steps.                                                    *)
LEMMA IndexerTypes ==
  ASSUME IndexInv
  PROVE  /\ scanInbox \in [Indexer -> Seq(Scan)] /\ indexed \in [Indexer -> Scan \cup {I!None}]
         /\ scanStatus \in [Scan -> {"absent", "waiting", "pending", "acked", "spent", "aged"}]
BY DEF IndexInv, ScanQueue!Inv, ScanQueue!TypeOK, ScanQueue!QueueTypeOK

\* A step that brings no scan to life, acknowledges none and writes none.
LEMMA NoNewScans ==
  ASSUME UNCHANGED <<agentVars, enrichVars, writes>>,
         \A e \in Scan : /\ scanStatus'[e] = "absent" <=> scanStatus[e] = "absent"
                         /\ scanStatus'[e] = "acked" <=> scanStatus[e] = "acked"
                         /\ scanStatus'[e] \in {"waiting", "pending"}
                              => scanStatus[e] \in {"waiting", "pending"}
                         /\ HasIn(Indexer, scanInbox', indexed', e)
                              => \/ HasIn(Indexer, scanInbox, indexed, e)
                                 \/ scanStatus[e] \in {"waiting", "pending"}
  PROVE  Promise!Next
<1>1. UNCHANGED <<taskStatus, taskInbox, sweeping, rawFate, copies>>
  BY DEF agentVars, enrichVars
<1>2. ASSUME NEW u \in Task
      PROVE  (Settled(u)' <=> Settled(u)) /\ Writes(u)' = Writes(u) /\ (Live(u)' => Live(u))
  <2>1. (Settled(u)' <=> Settled(u)) /\ Writes(u)' = Writes(u)
    BY SameWrites DEF Settled
  <2>2. (TaskLive(u)' <=> TaskLive(u)) /\ (RawLive(u)' <=> RawLive(u))
    BY <1>1 DEF TaskLive, RawLive, HasIn
  <2>3. ScanLive(u)' => ScanLive(u)
    BY DEF ScanLive
  <2> QED
    BY <2>1, <2>2, <2>3, LiveIs
<1> QED
  BY <1>1, <1>2, NothingNew

\* A write hands the task on, and keeps everything else.
LEMMA WriteHandsOn ==
  ASSUME PipelineInv, PipelineInv', NEW e \in Scan, scanStatus[e] # "absent",
         UNCHANGED <<agentVars, enrichVars, scanStatus, scanInbox, indexed>>,
         writes' = [writes EXCEPT ![e] = @ + 1]
  PROVE  Promise!Next
<1>1. UNCHANGED <<taskStatus, taskInbox, sweeping, rawFate, copies>>
  BY DEF agentVars, enrichVars
<1>2. PICK t \in Task : t = e[1] /\ taskStatus[t] # "absent"
  BY ScanHasTask
<1>3. ASSUME NEW u \in Task
      PROVE  FateOf(u)' = FateOf(u)
  BY <1>1 DEF FateOf, Live, A!Has, I!Has
<1>4. FateOf(t) # "absent"
  BY <1>2, FateIs
<1>5. Promise!HandOn(t)
  BY <1>2, <1>3, <1>4, OneMoreWrite, StageHandsOn
<1> QED
  BY <1>5 DEF Promise!Next

\* An acknowledged scan settles its task, unless it was settled before.
LEMMA AckSettles ==
  ASSUME PipelineInv, NEW w \in Indexer, I!Acknowledge(w), UNCHANGED <<agentVars, enrichVars>>
  PROVE  Promise!Next
<1>1. PICK e \in Scan : e = indexed[w] /\ scanStatus[e] # "absent" /\ writes[e] > 0
  BY IndexerHand DEF I!Acknowledge, PipelineInv
<1>2. PICK t \in Task : t = e[1] /\ taskStatus[t] # "absent"
  BY <1>1, ScanHasTask
<1>3. /\ indexed' = [indexed EXCEPT ![w] = I!None] /\ UNCHANGED <<scanInbox, writes>>
      /\ UNCHANGED <<taskStatus, taskInbox, sweeping, rawFate, copies>>
  BY DEF I!Acknowledge, I!Return, agentVars, enrichVars
<1>4. /\ indexed \in [Indexer -> Scan \cup {I!None}]
      /\ scanStatus \in [Scan -> {"absent", "waiting", "pending", "acked", "spent", "aged"}]
      /\ I!None \notin Scan
  BY IndexerTypes, NoScanIsNone DEF PipelineInv
<1>5. /\ \A f \in Scan : f # e => scanStatus'[f] = scanStatus[f]
      /\ \/ scanStatus'[e] = scanStatus[e]
         \/ scanStatus'[e] = "acked" /\ scanStatus[e] \in {"waiting", "pending"}
  <2>1. \/ UNCHANGED scanStatus
        \/ scanStatus' = [scanStatus EXCEPT ![e] = IF scanStatus[e] \in {"waiting", "pending"}
                                                  THEN "acked" ELSE scanStatus[e]]
    BY <1>1 DEF I!Acknowledge, I!Acked
  <2>2. CASE UNCHANGED scanStatus
    BY <2>2
  <2>3. CASE scanStatus[e] \in {"waiting", "pending"} /\ ~UNCHANGED scanStatus
    BY <1>4, <2>1, <2>3
  <2>4. CASE scanStatus[e] \notin {"waiting", "pending"} /\ ~UNCHANGED scanStatus
    BY <1>4, <2>1, <2>4
  <2> QED
    BY <2>2, <2>3, <2>4
<1>6. ASSUME NEW f \in Scan
      PROVE  /\ HasIn(Indexer, scanInbox', indexed', f) => HasIn(Indexer, scanInbox, indexed, f)
             /\ f # e => (HasIn(Indexer, scanInbox, indexed, f)
                            => HasIn(Indexer, scanInbox', indexed', f))
  BY <1>1, <1>3, <1>4 DEF HasIn
<1>7. CASE scanStatus'[e] = scanStatus[e]
  BY <1>3, <1>5, <1>6, <1>7, NoNewScans
<1>8. CASE scanStatus'[e] = "acked" /\ scanStatus[e] \in {"waiting", "pending"}
  <2>1. ASSUME NEW u \in Task
        PROVE  Writes(u)' = Writes(u)
    <3>1. \A f \in Scan : scanStatus'[f] = "absent" <=> scanStatus[f] = "absent"
      BY <1>5, <1>8
    <3> QED
      BY <1>3, <3>1, SameWrites
  <2>2. ASSUME NEW u \in Task, u # t
        PROVE  FateOf(u)' = FateOf(u)
    <3>1. \A f \in Scan : f[1] = u =>
            /\ scanStatus'[f] = scanStatus[f]
            /\ HasIn(Indexer, scanInbox', indexed', f) <=> HasIn(Indexer, scanInbox, indexed, f)
      BY <1>2, <1>5, <1>6, <2>2
    <3>2. (Settled(u)' <=> Settled(u)) /\ (ScanLive(u)' <=> ScanLive(u))
      BY <3>1 DEF Settled, ScanLive
    <3>3. (TaskLive(u)' <=> TaskLive(u)) /\ (RawLive(u)' <=> RawLive(u))
      BY <1>3 DEF TaskLive, RawLive, HasIn
    <3>4. Live(u)' <=> Live(u)
      BY <3>2, <3>3, LiveIs
    <3> QED
      BY <1>3, <3>2, <3>4, FateIs, NextFateIs
  <2>3. FateOf(t)' = "settled"
    <3>1. Settled(t)'
      BY <1>2, <1>8 DEF Settled
    <3> QED
      BY <1>2, <1>3, <3>1, NextFateIs
  <2>4. CASE Settled(t)
    <3>1. FateOf(t)' = FateOf(t)
      BY <1>2, <2>3, <2>4, FateIs
    <3>2. Promise!GiveUp({})
      BY <2>1, <2>2, <3>1, StageGivesUp
    <3> QED
      BY <3>2 DEF Promise!Next
  <2>5. CASE ~Settled(t)
    <3>1. ScanLive(t)
      BY <1>2, <1>8 DEF ScanLive
    <3>2. FateOf(t) = "held"
      BY <1>2, <2>5, <3>1, LiveIs, FateIs
    <3>3. Writes(t) > 0
      BY <1>1, <1>2, WrittenCounts
    <3>4. Promise!Settle(t)
      BY <2>1, <2>2, <2>3, <3>2, <3>3, StageSettles
    <3> QED
      BY <3>4 DEF Promise!Next
  <2> QED
    BY <2>4, <2>5
<1> QED
  BY <1>5, <1>7, <1>8

\* The other steps of the indexer and its stream bring nothing to life.
LEMMA IndexStepKeepsPromise ==
  ASSUME PipelineInv, PipelineInv', IndexStep
  PROVE  Promise!Next
<1>1. UNCHANGED <<agentVars, enrichVars>>
  BY DEF IndexStep
<1>2. /\ scanInbox \in [Indexer -> Seq(Scan)] /\ indexed \in [Indexer -> Scan \cup {I!None}]
      /\ scanStatus \in [Scan -> {"absent", "waiting", "pending", "acked", "spent", "aged"}]
      /\ I!None \notin Scan
  BY IndexerTypes, NoScanIsNone DEF PipelineInv
<1>3. \A e : I!Unacked(e) \in {"waiting", "spent"}
  BY DEF I!Unacked
<1>4. PICK box, hand, box2, hand2 :
        box = scanInbox /\ hand = indexed /\ box2 = scanInbox' /\ hand2 = indexed'
  OBVIOUS
<1>5. ASSUME NEW e \in Scan, I!Lapse(e), UNCHANGED <<indexed, writes>>
      PROVE  Promise!Next
  BY <1>1, <1>2, <1>3, <1>5, NoNewScans DEF I!Lapse
<1>6. ASSUME NEW e \in Scan, NEW w \in Indexer, I!Deliver(e, w), UNCHANGED <<indexed, writes>>
      PROVE  Promise!Next
  <2>1. /\ scanStatus[e] = "waiting" /\ scanStatus' = [scanStatus EXCEPT ![e] = "pending"]
        /\ box2 = [box EXCEPT ![w] = Append(@, e)] /\ hand2 = hand
    BY <1>4, <1>6 DEF I!Deliver
  <2>2. ASSUME NEW f \in Scan, f # e, HasIn(Indexer, box2, hand, f)
        PROVE  HasIn(Indexer, box, hand, f)
    <3>0. PICK q \in Seq(Scan) : q = box[w]
      BY <1>2, <1>4, <2>1
    <3>1. PICK r : r = box2[w] /\ r = Append(q, e)
      BY <3>0, <1>2, <1>4, <2>1
    <3>2. \A i \in 1..Len(r) : r[i] = e \/ \E j \in 1..Len(q) : q[j] = r[i]
      BY <3>0, <3>1, OnlyAppended
    <3>3. \A v \in Indexer : v # w => box2[v] = box[v]
      BY <1>2, <1>4, <2>1
    <3>4. HasAlsoOnly(Indexer, box, box2, w, e)
      BY <3>0, <3>1, <3>2, <3>3 DEF HasAlsoOnly
    <3> QED
      BY <2>2, <3>4, HasDelivered
  <2> QED
    BY <1>1, <1>2, <1>4, <1>6, <2>1, <2>2, NoNewScans
<1>7. ASSUME NEW w \in Indexer, I!Begin(w)
      PROVE  Promise!Next
  <2>1. /\ box[w] # <<>> /\ box2 = [box EXCEPT ![w] = Tail(@)]
        /\ \A v \in Indexer : hand2[v] = IF v = w THEN Head(box[w]) ELSE hand[v]
        /\ UNCHANGED <<scanStatus, writes>>
    BY <1>2, <1>4, <1>7 DEF I!Begin
  <2>2. \A f \in Scan : HasIn(Indexer, box2, hand2, f) => HasIn(Indexer, box, hand, f)
    BY <1>2, <1>4, <2>1, HasTaken
  <2> QED
    BY <1>1, <1>4, <2>1, <2>2, NoNewScans
<1>8. ASSUME NEW w \in Indexer, I!Retry(w) \/ I!Crash(w)
      PROVE  Promise!Next
  <2>1. /\ \A v \in Indexer : box2[v] = box[v] \/ box2[v] = <<>>
        /\ \A v \in Indexer : hand2[v] = hand[v] \/ hand2[v] = I!None
        /\ UNCHANGED writes
    BY <1>2, <1>4, <1>8 DEF I!Retry, I!Crash, I!Return
  <2>2. ASSUME NEW f \in Scan, HasIn(Indexer, box2, hand2, f)
        PROVE  HasIn(Indexer, box, hand, f)
    <3>1. \A v \in Indexer : hand2[v] = f => hand[v] = f
      BY <1>2, <2>1
    <3>2. \A v \in Indexer : box2[v] = box[v] \/ box2[v] = <<>>
      BY <2>1
    <3> QED
      BY <2>2, <3>1, <3>2, HasReturned
  <2>3. \A f \in Scan :
          \/ scanStatus'[f] = scanStatus[f]
          \/ scanStatus[f] = "pending" /\ scanStatus'[f] \in {"waiting", "spent"}
    BY <1>2, <1>3, <1>8 DEF I!Retry, I!Naked, I!Crash
  <2> QED
    BY <1>1, <1>4, <2>1, <2>2, <2>3, NoNewScans
<1>9. ASSUME NEW w \in Indexer, I!Index(w) \/ I!IndexFails(w)
      PROVE  Promise!Next
  <2>1. PICK e \in Scan : e = indexed[w] /\ scanStatus[e] # "absent"
    BY <1>9, IndexerHand DEF I!Index, I!IndexFails, PipelineInv
  <2>2. /\ UNCHANGED <<scanStatus, scanInbox, indexed>>
        /\ writes' = [writes EXCEPT ![e] = @ + 1] \/ UNCHANGED writes
    BY <1>9, <2>1 DEF I!Index, I!IndexFails, I!Write, I!queueVars
  <2>3. CASE writes' = [writes EXCEPT ![e] = @ + 1]
    BY <1>1, <2>1, <2>2, <2>3, WriteHandsOn
  <2>4. CASE UNCHANGED writes
    BY <1>1, <2>2, <2>4, NoNewScans
  <2> QED
    BY <2>2, <2>3, <2>4
<1> QED
  BY <1>1, <1>5, <1>6, <1>7, <1>8, <1>9, AckSettles DEF IndexStep, I!Callback, I!Fault
-----------------------------------------------------------------------------
\* At the start there is nothing, for the stages and for the whole.
LEMMA PromiseStarts ==
  ASSUME Init
  PROVE  Promise!Init
<1>1. ASSUME NEW t \in Task
      PROVE  FateOf(t) = "absent" /\ Writes(t) = 0
  <2>1. taskStatus[t] = "absent" /\ \A e \in Scan : scanStatus[e] = "absent"
    BY DEF Init, A!Init, A!QueueInit, I!Init, I!QueueInit
  <2>2. WritesOf(t) = {}
    BY <2>1 DEF WritesOf, ScansOf
  <2> QED
    BY <2>1, <2>2, FateIs, FS_EmptySet DEF Writes
<1> QED
  BY <1>1 DEF Promise!Init

\* A step of nobody is one of the promise.
LEMMA StutterKeepsPromise ==
  ASSUME UNCHANGED vars
  PROVE  UNCHANGED Promise!stageVars
<1>1. UNCHANGED <<taskStatus, taskInbox, sweeping, rawFate, copies, scanStatus, scanInbox,
                  indexed, writes>>
  BY DEF vars, agentVars, enrichVars, indexVars
<1>2. ASSUME NEW t \in Task
      PROVE  FateOf(t)' = FateOf(t) /\ Writes(t)' = Writes(t)
  BY <1>1 DEF FateOf, Live, A!Has, I!Has, Writes, WritesOf, ScansOf
<1> QED
  BY <1>2 DEF Promise!stageVars

(* The pipeline keeps as a whole the promise that each of its stages keeps *)
(* alone: a published task is settled, that is its scan acknowledged at    *)
(* the end, only after a document was written for it, and a task of which  *)
(* nothing is in a stream or a client any more never comes back.           *)
THEOREM PipelineEndToEnd == Spec => EndToEnd
<1>1. Init => Promise!Init
  BY PromiseStarts
<1>2. PipelineInv /\ PipelineInv' /\ [Next]_vars => [Promise!Next]_(Promise!stageVars)
  <2>1. ASSUME PipelineInv, PipelineInv', Next
        PROVE  Promise!Next
    BY <2>1, AgentStepKeepsPromise, EnrichKeepsPromise, IndexStepKeepsPromise DEF Next
  <2> QED
    BY <2>1, StutterKeepsPromise
<1> QED
  BY <1>1, <1>2, PipelineInvariant, PTL DEF Spec, EndToEnd, Promise!Spec
=============================================================================
