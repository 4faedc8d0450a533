---------------------------- MODULE ScannerAgent ----------------------------
(***************************************************************************)
(* The scanner agents (cmd/scanner-agent/main.go): a queue group that      *)
(* takes tasks from SCAN_TASKS, sweeps the subnet and publishes what it    *)
(* found to RAW_SCANS.  runZMapMock never fails and always finds one host, *)
(* so a sweep gives one raw scan; and a task is what the coordinator       *)
(* marshalled from the type that the agent unmarshals, so the two early    *)
(* naks of processTask are not reached: Junk is empty.                     *)
(***************************************************************************)
EXTENDS WorkQueue

VARIABLES
  step,    \* where each agent's callback is
  cur,     \* the task it has
  raw,     \* RAW_SCANS: raw scans stored for each task
  harmed   \* history: tasks whose delivery a crash or a failed publish cost

vars == <<queueVars, step, cur, raw, harmed>>

None == "none"

TypeOK ==
  /\ QueueTypeOK
  /\ step \in [Worker -> {"idle", "sweeping", "swept"}]
  /\ cur \in [Worker -> Msg \cup {None}]
  /\ \A w \in Worker : step[w] = "idle" <=> cur[w] = None
  /\ raw \in [Msg -> Nat]
  /\ harmed \subseteq Msg

Init ==
  /\ QueueInit
  /\ step = [w \in Worker |-> "idle"]
  /\ cur = [w \in Worker |-> None]
  /\ raw = [m \in Msg |-> 0]
  /\ harmed = {}

Return(w) ==
  /\ step' = [step EXCEPT ![w] = "idle"]
  /\ cur' = [cur EXCEPT ![w] = None]

Begin(w) ==
  /\ step[w] = "idle" /\ inbox[w] # <<>>
  /\ step' = [step EXCEPT ![w] = "sweeping"]
  /\ cur' = [cur EXCEPT ![w] = Head(inbox[w])]
  /\ inbox' = [inbox EXCEPT ![w] = Tail(@)]
  /\ UNCHANGED <<status, tries, raw, harmed>>

\* Mutant: the sweep is published and the callback begins it again.
PublishTwice(w) ==
  /\ step[w] = "sweeping"
  /\ raw' = [raw EXCEPT ![cur[w]] = @ + 1]
  /\ UNCHANGED <<queueVars, step, cur, harmed>>

\* The sweep, and the publish of the host it found.
Publish(w) ==
  /\ step[w] = "sweeping"
  /\ raw' = [raw EXCEPT ![cur[w]] = @ + 1]
  /\ step' = [step EXCEPT ![w] = "swept"]
  /\ UNCHANGED <<queueVars, cur, harmed>>

\* js.Publish returns an error, which is dropped, and nothing was stored.
PublishLost(w) ==
  /\ Faults
  /\ step[w] = "sweeping"
  /\ step' = [step EXCEPT ![w] = "swept"]
  /\ harmed' = harmed \cup {cur[w]}
  /\ UNCHANGED <<queueVars, cur, raw>>

Acknowledge(w) ==
  /\ step[w] = "swept"
  /\ Acked(cur[w])
  /\ Return(w)
  /\ UNCHANGED <<tries, inbox, raw, harmed>>

\* The process ends with its callback and its buffer, and is restarted.
Crash(w) ==
  /\ Faults
  /\ step[w] # "idle" \/ inbox[w] # <<>>
  /\ harmed' = harmed \cup (Msg \cap ({cur[w]} \cup {inbox[w][i] : i \in 1..Len(inbox[w])}))
  /\ inbox' = [inbox EXCEPT ![w] = <<>>]
  /\ Return(w)
  /\ UNCHANGED <<status, tries, raw>>

\* What an agent does that leaves RAW_SCANS alone.
Callback(w) == Begin(w) \/ Acknowledge(w)

Fault(w) == PublishLost(w) \/ Crash(w)

Environment == QueueNext /\ UNCHANGED <<step, cur, raw, harmed>>

\* Whether an agent has the task or a delivery of it.
Has(m) == \E w \in Worker : cur[w] = m \/ \E i \in 1..Len(inbox[w]) : inbox[w][i] = m
=============================================================================
