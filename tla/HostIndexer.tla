----------------------------- MODULE HostIndexer -----------------------------
(***************************************************************************)
(* The OpenSearch indexer (cmd/opensearch-indexer/main.go): takes enriched *)
(* scans from ENRICHED_SCANS and writes the document of the scan's host,   *)
(* replacing the one that is there.  Its client runs one callback at a     *)
(* time.  It unmarshals the type that the enrichment worker marshals, so   *)
(* the early naks of indexMessage are not reached: Junk is empty.          *)
(*                                                                         *)
(* The OpenSearch client repeats a request by itself when the connection   *)
(* breaks or the answer is 502, 503 or 504.  Each attempt may have written *)
(* the document by then, or write it when the request has long returned,   *)
(* or never.  A write replaces the document whole; which one is there when *)
(* sweeps overlap is left out, so a late write counts with its request.    *)
(***************************************************************************)
EXTENDS WorkQueue

CONSTANTS
  Attempts,    \* of the client at a request: 1 + MaxRetries, 4
  MaxRepeated  \* scans that a repeated request wrote (a bound)

VARIABLES
  step,    \* where the callback is
  cur,     \* the enriched scan it has
  writes,  \* history: the requests of each enriched scan that wrote its document
  puts,    \* history: how often the document of each enriched scan was written
  harmed   \* history: scans whose delivery a crash or a failed write cost

vars == <<queueVars, step, cur, writes, puts, harmed>>

None == <<>>    \* scans are named by tuples

TypeOK ==
  /\ QueueTypeOK
  /\ step \in [Worker -> {"idle", "indexing", "indexed", "failed"}]
  /\ cur \in [Worker -> Msg \cup {None}]
  /\ \A w \in Worker : step[w] = "idle" <=> cur[w] = None
  /\ writes \in [Msg -> Nat] /\ puts \in [Msg -> Nat]
  /\ harmed \subseteq Msg

Init ==
  /\ QueueInit
  /\ step = [w \in Worker |-> "idle"]
  /\ cur = [w \in Worker |-> None]
  /\ writes = [m \in Msg |-> 0] /\ puts = [m \in Msg |-> 0]
  /\ harmed = {}

\* Mutant: the callback returns and its scan is not forgotten.
ReturnKeepsScan(w) ==
  /\ step' = [step EXCEPT ![w] = "idle"]
  /\ UNCHANGED cur

Return(w) ==
  /\ step' = [step EXCEPT ![w] = "idle"]
  /\ cur' = [cur EXCEPT ![w] = None]

\* Mutant: a delivery the server no longer waits for is dropped.
BeginDropsStale(w) ==
  /\ step[w] = "idle" /\ inbox[w] # <<>>
  /\ inbox' = [inbox EXCEPT ![w] = Tail(@)]
  /\ IF status[Head(inbox[w])] = "pending"
     THEN /\ step' = [step EXCEPT ![w] = "indexing"]
          /\ cur' = [cur EXCEPT ![w] = Head(inbox[w])]
     ELSE UNCHANGED <<step, cur>>
  /\ UNCHANGED <<status, tries, writes, puts, harmed>>

Begin(w) ==
  /\ step[w] = "idle" /\ inbox[w] # <<>>
  /\ step' = [step EXCEPT ![w] = "indexing"]
  /\ cur' = [cur EXCEPT ![w] = Head(inbox[w])]
  /\ inbox' = [inbox EXCEPT ![w] = Tail(@)]
  /\ UNCHANGED <<status, tries, writes, puts, harmed>>

\* A request of which n attempts write the document.
Write(m, n) ==
  /\ n > 1 => Cardinality({m} \cup {e \in Msg : puts[e] > writes[e]}) <= MaxRepeated
  /\ writes' = [writes EXCEPT ![m] = @ + 1]
  /\ puts' = [puts EXCEPT ![m] = @ + n]

\* An attempt is answered; those before it were not.
Index(w) ==
  /\ step[w] = "indexing"
  /\ \E n \in 1..(IF Faults THEN Attempts ELSE 1) : Write(cur[w], n)
  /\ step' = [step EXCEPT ![w] = "indexed"]
  /\ UNCHANGED <<queueVars, cur, harmed>>

\* No attempt is answered, or the request is refused.
IndexFails(w) ==
  /\ Faults
  /\ step[w] = "indexing"
  /\ (\E n \in 1..Attempts : Write(cur[w], n)) \/ UNCHANGED <<writes, puts>>
  /\ step' = [step EXCEPT ![w] = "failed"]
  /\ harmed' = harmed \cup {cur[w]}
  /\ UNCHANGED <<queueVars, cur>>

\* Mutant: a failed request is acknowledged all the same.
AcknowledgeAnyway(w) ==
  /\ step[w] \in {"indexed", "failed"}
  /\ Acked(cur[w])
  /\ Return(w)
  /\ UNCHANGED <<tries, inbox, writes, puts, harmed>>

Acknowledge(w) ==
  /\ step[w] = "indexed"
  /\ Acked(cur[w])
  /\ Return(w)
  /\ UNCHANGED <<tries, inbox, writes, puts, harmed>>

\* NakWithDelay.
Retry(w) ==
  /\ step[w] = "failed"
  /\ Naked(cur[w])
  /\ Return(w)
  /\ UNCHANGED <<tries, inbox, writes, puts, harmed>>

\* The process ends with its callback and its buffer, and is restarted.
Crash(w) ==
  /\ Faults
  /\ step[w] # "idle" \/ inbox[w] # <<>>
  /\ harmed' = harmed \cup (Msg \cap ({cur[w]} \cup {inbox[w][i] : i \in 1..Len(inbox[w])}))
  /\ inbox' = [inbox EXCEPT ![w] = <<>>]
  /\ Return(w)
  /\ UNCHANGED <<status, tries, writes, puts>>

Callback(w) == Begin(w) \/ Index(w) \/ Acknowledge(w) \/ Retry(w)

Fault(w) == IndexFails(w) \/ Crash(w)

\* Whether the indexer has the scan or a delivery of it.
Has(m) == \E w \in Worker : cur[w] = m \/ \E i \in 1..Len(inbox[w]) : inbox[w][i] = m
=============================================================================
