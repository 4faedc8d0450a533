------------------------------ MODULE Pipeline ------------------------------
(***************************************************************************)
(* The scan pipeline from end to end: tasks go through the scanner agent   *)
(* into RAW_SCANS, through the enrichment workers into ENRICHED_SCANS and  *)
(* through the indexer into the index.  The agent and the indexer are the  *)
(* detailed modules; the enrichment workers are the stage that             *)
(* EnrichmentWorker was shown to implement.                                *)
(*                                                                         *)
(* A raw scan is named by its task and its number among the task's raw     *)
(* scans, an enriched scan by its raw scan and its number among its        *)
(* copies.  A redelivery thus gives new messages, as it does in NATS.  No  *)
(* message reaches the MaxAge of its stream here (24 and 48 hours).        *)
(***************************************************************************)
EXTENDS Naturals, Sequences, FiniteSets

CONSTANTS
  Task,            \* the tasks of a run, all of one host
  Agent, Indexer,  \* the processes
  TaskDeliver,     \* MaxDeliver of the agents' consumer
  Copies,          \* enriched scans of a raw scan, at most (a bound)
  IndexDeliver,    \* MaxDeliver of the indexer's consumer
  Attempts,        \* of the indexer's client at a request
  MaxRepeated,     \* scans that a repeated request wrote (a bound)
  MaxAckPending, Faults

VARIABLES
  taskStatus, taskTries, taskInbox, sweep, sweeping, raw, taskHarmed,
  rawFate, copies,
  scanStatus, scanTries, scanInbox, indexing, indexed, writes, puts, scanHarmed

agentVars  == <<taskStatus, taskTries, taskInbox, sweep, sweeping, raw, taskHarmed>>
enrichVars == <<rawFate, copies>>
indexVars  == <<scanStatus, scanTries, scanInbox, indexing, indexed, writes, puts, scanHarmed>>
vars == <<agentVars, enrichVars, indexVars>>

Raw  == Task \X (1..TaskDeliver)
Scan == Task \X (1..TaskDeliver) \X (1..Copies)

A == INSTANCE ScannerAgent WITH
       Msg <- Task, Junk <- {}, Ages <- FALSE, Worker <- Agent, MaxDeliver <- TaskDeliver,
       status <- taskStatus, tries <- taskTries, inbox <- taskInbox,
       step <- sweep, cur <- sweeping, harmed <- taskHarmed

E == INSTANCE Stage WITH Msg <- Raw, Junk <- {}, fate <- rawFate, results <- copies

I == INSTANCE HostIndexer WITH
       Msg <- Scan, Junk <- {}, Ages <- FALSE, Worker <- Indexer, MaxDeliver <- IndexDeliver,
       status <- scanStatus, tries <- scanTries, inbox <- scanInbox,
       step <- indexing, cur <- indexed, harmed <- scanHarmed

ASSUME PipelineAssumption ==
  /\ TaskDeliver \in Nat \ {0} /\ IndexDeliver \in Nat \ {0}
  /\ Copies \in Nat \ {0} /\ Attempts \in Nat \ {0} /\ MaxRepeated \in Nat
  /\ MaxAckPending \in Nat \ {0}
  /\ Faults \in BOOLEAN
  /\ Task # {} /\ A!None \notin Task

TypeOK ==
  /\ A!TypeOK
  /\ I!TypeOK
  /\ rawFate \in [Raw -> {"absent", "held", "settled", "given up"}]
  /\ copies \in [Raw -> 0..Copies]

Init ==
  A!Init /\ E!Init /\ I!Init

\* The agent and its stream, but for the publish of a raw scan.
AgentStep ==
  /\ \/ A!Environment
     \/ \E w \in Agent : A!Callback(w) \/ A!Fault(w)
  /\ UNCHANGED <<enrichVars, indexVars>>

\* A raw scan is stored in RAW_SCANS.
PublishRaw(w) ==
  /\ A!Publish(w)
  /\ E!Accept(<<sweeping[w], raw[sweeping[w]] + 1>>)
  /\ UNCHANGED indexVars

\* An enriched scan is stored in ENRICHED_SCANS.
Enrich(r) ==
  /\ copies[r] < Copies
  /\ E!HandOn(r)
  /\ I!Store(Append(r, copies[r] + 1))
  /\ UNCHANGED <<indexing, indexed, writes, puts, scanHarmed, agentVars>>

\* The raw scan is acknowledged, or faults used up its deliveries.
Leave(r) ==
  /\ E!Settle(r) \/ (Faults /\ E!GiveUp({r}))
  /\ UNCHANGED <<agentVars, indexVars>>

\* The indexer and its stream, but for what the workers store in it.
IndexStep ==
  /\ \/ /\ \/ \E e \in Scan : I!Lapse(e)
           \/ \E e \in Scan, w \in Indexer : I!Deliver(e, w)
        /\ UNCHANGED <<indexing, indexed, writes, puts, scanHarmed>>
     \/ \E w \in Indexer : I!Callback(w) \/ I!Fault(w)
  /\ UNCHANGED <<agentVars, enrichVars>>

Next ==
  \/ AgentStep
  \/ \E w \in Agent : PublishRaw(w)
  \/ \E r \in Raw : Enrich(r) \/ Leave(r)
  \/ IndexStep

Spec == Init /\ [][Next]_vars

\* Around the clients: the server delivers what waits, AckWait ends, the
\* workers keep what they promise.
Around ==
  \/ /\ UNCHANGED <<sweep, sweeping, raw, taskHarmed, enrichVars, indexVars>>
     /\ \E t \in Task : A!Lapse(t) \/ \E w \in Agent : A!Deliver(t, w)
  \/ /\ UNCHANGED <<indexing, indexed, writes, puts, scanHarmed, agentVars, enrichVars>>
     /\ \E e \in Scan : I!Lapse(e) \/ \E w \in Indexer : I!Deliver(e, w)
  \/ \E r \in Raw : rawFate[r] = "held" /\ copies[r] = 0 /\ Enrich(r)

\* The processes run, and what is around them.  What a run can do is finite,
\* so nobody needs to be served before another.
FairSpec ==
  /\ Spec
  /\ \A w \in Agent :
       WF_vars((A!Callback(w) /\ UNCHANGED <<enrichVars, indexVars>>) \/ PublishRaw(w))
  /\ \A w \in Indexer : WF_vars(I!Callback(w) /\ UNCHANGED <<agentVars, enrichVars>>)
  /\ WF_vars(Around)
-----------------------------------------------------------------------------
RawsOf(t)  == {r \in Raw : r[1] = t /\ rawFate[r] # "absent"}
ScansOf(t) == {e \in Scan : e[1] = t /\ scanStatus[e] # "absent"}

\* The requests that wrote a document for the task: the n-th one of the scan e.
WritesOf(t) == {d \in ScansOf(t) \X (1..IndexDeliver) : d[2] <= writes[d[1]]}
Writes(t)   == Cardinality(WritesOf(t))

\* Whether something of the task may still reach the index.
Live(t) ==
  \/ taskStatus[t] \in {"waiting", "pending"} \/ A!Has(t)
  \/ \E r \in Raw : r[1] = t /\ rawFate[r] # "absent" /\ (rawFate[r] = "held" \/ copies[r] < Copies)
  \/ \E e \in Scan : e[1] = t /\ (scanStatus[e] \in {"waiting", "pending"} \/ I!Has(e))

FateOf(t) ==
  IF taskStatus[t] = "absent" THEN "absent"
  ELSE IF \E e \in Scan : e[1] = t /\ scanStatus[e] = "acked" THEN "settled"
  ELSE IF Live(t) THEN "held"
  ELSE "given up"

Promise == INSTANCE Stage WITH
             Msg <- Task, Junk <- {},
             fate <- [t \in Task |-> FateOf(t)],
             results <- [t \in Task |-> Writes(t)]

(* The stages keep together what each promises alone: a task whose scan    *)
(* was acknowledged at the end of the pipeline is in the index, and once   *)
(* it is done with, nothing of it comes back as unfinished work.           *)
EndToEnd == Promise!Spec

(* No stage multiplies work on its own account: each raw scan of a task    *)
(* also when AckWait passes during a sweep and the subnet is swept again;  *)
(* each request that wrote a document by a delivery of the enriched scan,  *)
(* and a request writes no more often than the client makes attempts; and  *)
(* what was written went through every stage.                              *)
Accounted ==
  /\ \A t \in Task : raw[t] <= taskTries[t] /\ Cardinality(RawsOf(t)) = raw[t]
  /\ \A e \in Scan : /\ writes[e] <= scanTries[e] /\ puts[e] <= Attempts * scanTries[e]
                     /\ puts[e] > 0 => copies[<<e[1], e[2]>>] >= e[3]

(* A published task ends in the index unless a stage lost it to a fault    *)
(* that left a mark: a raw scan the agent could not publish and            *)
(* acknowledged all the same, or deliveries that crashes and refused       *)
(* requests used up.  Lapses alone, in buffers or during a sweep, lose none. *)
IndexedUnlessHarmed ==
  \A t \in Task :
    taskStatus[t] = "waiting" ~>
      \/ Writes(t) > 0
      \/ t \in taskHarmed /\ raw[t] = 0
      \/ \E r \in RawsOf(t) : rawFate[r] = "given up" /\ copies[r] = 0
      \/ \E e \in ScansOf(t) : scanStatus[e] = "spent" /\ e \in scanHarmed
=============================================================================
