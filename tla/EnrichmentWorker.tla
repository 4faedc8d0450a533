-------------------------- MODULE EnrichmentWorker --------------------------
(***************************************************************************)
(* The enrichment workers (cmd/enrichment-worker/main.go): replicas in one *)
(* queue group that take raw scans from RAW_SCANS, enrich them and publish *)
(* the result to ENRICHED_SCANS.  A client runs one callback at a time.    *)
(* The look-ups of processMessage (GeoIP, rDNS, CPE, CVE) change nothing   *)
(* here and never fail a message; what they do is take time.               *)
(***************************************************************************)
EXTENDS WorkQueue

CONSTANT None    \* no message

VARIABLES
  step,    \* where each worker's callback is
  cur,     \* the message it has
  copies,  \* ENRICHED_SCANS: enriched scans stored for each raw scan
  harmed   \* history: raw scans whose delivery a crash or a failed publish cost

vars == <<queueVars, step, cur, copies, harmed>>

ASSUME WorkerAssumption == None \notin Msg

TypeOK ==
  /\ QueueTypeOK
  /\ step \in [Worker -> {"idle", "enriching", "published", "failed"}]
  /\ cur \in [Worker -> Msg \cup {None}]
  /\ \A w \in Worker : step[w] = "idle" <=> cur[w] = None
  /\ copies \in [Msg -> Nat]
  /\ harmed \subseteq Msg

Init ==
  /\ QueueInit
  /\ step = [w \in Worker |-> "idle"]
  /\ cur = [w \in Worker |-> None]
  /\ copies = [m \in Msg |-> 0]
  /\ harmed = {}

\* Mutant: the callback returns and its message is not forgotten.
ReturnKeepsMessage(w) ==
  /\ step' = [step EXCEPT ![w] = "idle"]
  /\ UNCHANGED cur

\* The callback returns.
Return(w) ==
  /\ step' = [step EXCEPT ![w] = "idle"]
  /\ cur' = [cur EXCEPT ![w] = None]

\* Mutant: the message is taken by the callback and left in the buffer.
BeginKeepsBuffer(w) ==
  /\ step[w] = "idle" /\ inbox[w] # <<>>
  /\ step' = [step EXCEPT ![w] = "enriching"]
  /\ cur' = [cur EXCEPT ![w] = Head(inbox[w])]
  /\ UNCHANGED <<status, tries, inbox, copies, harmed>>

\* Mutant: a delivery the server no longer waits for is dropped.
BeginDropsStale(w) ==
  /\ step[w] = "idle" /\ inbox[w] # <<>>
  /\ inbox' = [inbox EXCEPT ![w] = Tail(@)]
  /\ IF status[Head(inbox[w])] = "pending"
     THEN /\ step' = [step EXCEPT ![w] = "enriching"]
          /\ cur' = [cur EXCEPT ![w] = Head(inbox[w])]
     ELSE UNCHANGED <<step, cur>>
  /\ UNCHANGED <<status, tries, copies, harmed>>

\* The client hands the callback the next delivery.
Begin(w) ==
  /\ step[w] = "idle" /\ inbox[w] # <<>>
  /\ step' = [step EXCEPT ![w] = "enriching"]
  /\ cur' = [cur EXCEPT ![w] = Head(inbox[w])]
  /\ inbox' = [inbox EXCEPT ![w] = Tail(@)]
  /\ UNCHANGED <<status, tries, copies, harmed>>

\* json.Unmarshal fails.
Reject(w) ==
  /\ step[w] = "enriching" /\ cur[w] \in Junk
  /\ Naked(cur[w])
  /\ Return(w)
  /\ UNCHANGED <<tries, inbox, copies, harmed>>

StoreEnriched(m) == copies' = [copies EXCEPT ![m] = @ + 1]

Publish(w) ==
  /\ step[w] = "enriching" /\ cur[w] \notin Junk
  /\ StoreEnriched(cur[w])
  /\ step' = [step EXCEPT ![w] = "published"]
  /\ UNCHANGED <<queueVars, cur, harmed>>

\* js.Publish returns an error; the stream may have stored the scan or not.
PublishFails(w) ==
  /\ Faults
  /\ step[w] = "enriching" /\ cur[w] \notin Junk
  /\ StoreEnriched(cur[w]) \/ UNCHANGED copies
  /\ step' = [step EXCEPT ![w] = "failed"]
  /\ harmed' = harmed \cup {cur[w]}
  /\ UNCHANGED <<queueVars, cur>>

\* Mutant: a failed publish is acknowledged all the same.
AcknowledgeAnyway(w) ==
  /\ step[w] \in {"published", "failed"}
  /\ Acked(cur[w])
  /\ Return(w)
  /\ UNCHANGED <<tries, inbox, copies, harmed>>

Acknowledge(w) ==
  /\ step[w] = "published"
  /\ Acked(cur[w])
  /\ Return(w)
  /\ UNCHANGED <<tries, inbox, copies, harmed>>

\* NakWithDelay after a failed publish.
Retry(w) ==
  /\ step[w] = "failed"
  /\ Naked(cur[w])
  /\ Return(w)
  /\ UNCHANGED <<tries, inbox, copies, harmed>>

\* The process ends, killed or told to, with its callback and buffer, and is restarted.
Crash(w) ==
  /\ Faults
  /\ harmed' = harmed \cup (Msg \cap ({cur[w]} \cup {inbox[w][i] : i \in 1..Len(inbox[w])}))
  /\ inbox' = [inbox EXCEPT ![w] = <<>>]
  /\ Return(w)
  /\ UNCHANGED <<status, tries, copies>>

Callback(w) ==
  Begin(w) \/ Reject(w) \/ Publish(w) \/ Acknowledge(w) \/ Retry(w)

Environment == QueueNext /\ UNCHANGED <<step, cur, copies, harmed>>

Next ==
  \/ Environment
  \/ \E w \in Worker : Callback(w) \/ PublishFails(w) \/ Crash(w)

Spec == Init /\ [][Next]_vars

\* Replicas and server run; AckWait, a timer of the server, ends.
FairSpec ==
  /\ Spec
  /\ \A w \in Worker : WF_vars(Callback(w))
  /\ \A m \in Msg :
       /\ WF_vars((\E w \in Worker : Deliver(m, w)) /\ UNCHANGED <<step, cur, copies, harmed>>)
       /\ WF_vars(Lapse(m) /\ UNCHANGED <<step, cur, copies, harmed>>)
-----------------------------------------------------------------------------
\* The stage as its neighbours see it.
FateOf(s) ==
  CASE s = "absent" -> "absent"
    [] s \in {"waiting", "pending"} -> "held"
    [] s = "acked" -> "settled"
    [] s \in {"spent", "aged"} -> "given up"

Fate(m) == FateOf(status[m])

Promise == INSTANCE Stage WITH fate <- [m \in Msg |-> Fate(m)], results <- copies

(* The workers keep the promise of a pipeline stage: a raw scan leaves     *)
(* RAW_SCANS only after its enriched scan is in ENRICHED_SCANS, whichever  *)
(* replicas die, whatever publishes and acks are lost and however often    *)
(* its delivery lapses while another replica works on it.                  *)
StageSpec == Promise!Spec

(* Why they keep it: a callback that will acknowledge has published.       *)
PublishedFirst ==
  \A w \in Worker : step[w] = "published" => cur[w] \notin Junk /\ copies[cur[w]] > 0

(* A raw scan gives at most one enriched scan per delivery, so at most     *)
(* MaxDeliver duplicates reach the next stage, although the deliveries of  *)
(* a scan may be with several replicas at once and outlive its ack.        *)
OneCopyPerDelivery == \A m \in Msg : copies[m] <= tries[m]

(* A raw scan is enriched, unless it was given up, and it is given up only *)
(* when it aged out or crashes and failed publishes cost it a delivery: a  *)
(* delivery that lapses in a client's buffer (MaxAckPending is 1000 and a  *)
(* callback may take seconds) is still worked on, also after the last one, *)
(* and no scan is held for ever or settled without its result.             *)
EnrichedUnlessHarmed ==
  \A m \in Msg \ Junk :
    status[m] = "waiting" ~>
      \/ copies[m] > 0
      \/ status[m] = "aged"
      \/ status[m] = "spent" /\ m \in harmed
=============================================================================
