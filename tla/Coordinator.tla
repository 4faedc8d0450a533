----------------------------- MODULE Coordinator -----------------------------
(***************************************************************************)
(* The scan coordinator (cmd/coordinator/main.go): the in-memory port      *)
(* schedule (internal/coordinator/priority_scheduler.go), the ticker loop  *)
(* of runContinuous, and scanDuePorts, which walks the due ports and the   *)
(* /24 subnets and publishes one task per pair the rate limiter admits.    *)
(*                                                                         *)
(* The limiter and the clock are those of ASNRateLimiter, with the         *)
(* coordinator as its only caller.                                         *)
(***************************************************************************)
EXTENDS Naturals, Sequences, FiniteSets

CONSTANTS
  Port,      \* ports of the registry
  Interval,  \* [Port -> Nat]: ScanInterval of the port's tier
  Subnets,   \* the /24 subnets of the target CIDR, in the order of SplitInto24
  AsnOf,     \* GetASNForIP of a subnet's network address
  Blocked,   \* subnets whose network address the blocklist contains
  Period,    \* of the ticker: 5 minutes
  SlowPass,  \* whether time passes during a pass or before a tick is served
  ASN, Rate, TTL, Faults, MaxTime

VARIABLES
  now, key, call, grants,   \* of ASNRateLimiter
  pc,        \* where the coordinator is
  next,      \* the schedules: NextScan of each port
  due,       \* due ports of the pass in progress that are not done
  port,      \* the port being walked, or NoPort
  idx,       \* the index in Subnets it has reached
  ticker,    \* when the ticker fires next
  fired,     \* the tick in the ticker's channel, which holds one
  tasks,     \* history: the tasks published to SCAN_TASKS, by ASN, oldest first
  answer     \* history: what its last walk over a port made of each subnet

limiterVars == <<now, key, call, grants>>
passVars    == <<pc, next, due, port, idx>>
historyVars == <<tasks, answer>>
vars == <<limiterVars, passVars, ticker, fired, historyVars>>

Self    == "coordinator"
NoPort  == "none"
Limiter == INSTANCE ASNRateLimiter WITH Caller <- {Self}

ASSUME CoordinatorAssumption ==
  /\ Interval \in [Port -> Nat \ {0}]
  /\ NoPort \notin Port
  /\ AsnOf \in [{Subnets[i] : i \in 1..Len(Subnets)} -> ASN]
  /\ Subnets \in Seq(DOMAIN AsnOf)
  /\ Period \in Nat \ {0}
  /\ SlowPass \in BOOLEAN
  /\ Limiter!LimiterAssumption

\* A task is published at "at"; one whose publish failed may be in the client's
\* reconnect buffer, or on its way, and the stream stores it later or never.
Task == [port : Port, subnet : DOMAIN AsnOf, at : Nat, stored : BOOLEAN]

Answer   == {"none", "tasked", "missed"}
Unwalked == [s \in DOMAIN AsnOf |-> "none"]

TypeOK ==
  /\ Limiter!TypeOK
  /\ pc \in {"down", "idle", "pass", "checked", "publish"}
  /\ next \in [Port -> Nat]
  /\ due \in SUBSET Port
  /\ port \in Port \cup {NoPort}
  /\ idx \in 1..(Len(Subnets) + 1)
  /\ ticker \in Nat
  /\ fired \in BOOLEAN
  /\ tasks \in [ASN -> Seq(Task)]
  /\ answer \in [Port -> [DOMAIN AsnOf -> Answer]]
-----------------------------------------------------------------------------
\* GetDuePorts.
DuePorts == {p \in Port : next[p] <= now}

Subnet == Subnets[idx]
Walking == pc = "pass" /\ port # NoPort /\ idx <= Len(Subnets)

\* The next subnet of the port's walk.
Advance ==
  /\ pc' = "pass"
  /\ idx' = idx + 1
  /\ UNCHANGED <<next, due, port, ticker, fired>>

\* What this walk made of the subnet it is at.
Answered(ans) == answer' = [answer EXCEPT ![port][Subnet] = ans]

Init ==
  /\ Limiter!Init
  /\ pc = "down"
  /\ next = [p \in Port |-> 0]
  /\ due = {} /\ port = NoPort /\ idx = 1
  /\ ticker = 0 /\ fired = FALSE
  /\ tasks = [a \in ASN |-> <<>>]
  /\ answer = [p \in Port |-> Unwalked]

\* run: NewScheduler makes every port due, and the first pass is immediate.
Start ==
  /\ pc = "down"
  /\ pc' = "pass"
  /\ next' = [p \in Port |-> now]
  /\ due' = Port
  /\ ticker' = now + Period
  /\ fired' = FALSE
  /\ UNCHANGED <<limiterVars, port, idx, historyVars>>

\* runContinuous receives the tick; scanDuePorts returns at once if nothing is due.
BeginPass ==
  /\ pc = "idle" /\ fired
  /\ fired' = FALSE
  /\ due' = DuePorts
  /\ pc' = IF DuePorts = {} THEN "idle" ELSE "pass"
  /\ UNCHANGED <<limiterVars, next, port, idx, ticker, historyVars>>

\* Mutant: the walk starts before the first subnet.
PickPortFromZero ==
  /\ pc = "pass" /\ port = NoPort
  /\ port' \in due
  /\ idx' = 0
  /\ UNCHANGED <<limiterVars, pc, next, due, ticker, fired, historyVars>>

\* The outer loop takes a due port, in the random order of a map.
PickPort ==
  /\ pc = "pass" /\ port = NoPort
  /\ port' \in due
  /\ idx' = 1
  /\ answer' = [answer EXCEPT ![port'] = Unwalked]
  /\ UNCHANGED <<limiterVars, pc, next, due, ticker, fired, tasks>>

SkipBlocked ==
  /\ Walking /\ Subnet \in Blocked
  /\ Advance
  /\ UNCHANGED <<limiterVars, historyVars>>

\* CheckAndIncrement, up to its GET.
CheckSubnet ==
  /\ Walking /\ Subnet \notin Blocked
  /\ Limiter!Check(Self, AsnOf[Subnet])
  /\ pc' = "checked"
  /\ UNCHANGED <<next, due, port, idx, ticker, fired, historyVars>>

\* Mutant: a refused subnet is published all the same.
PublishRefused ==
  /\ Walking /\ Subnet \notin Blocked
  /\ Limiter!Refuse(Self, AsnOf[Subnet]) \/ Limiter!GetFails(Self)
  /\ pc' = "publish"
  /\ UNCHANGED <<next, due, port, idx, ticker, fired, historyVars>>

\* Rate-limited, or an error from Redis: the subnet is skipped.
RefuseSubnet ==
  /\ Walking /\ Subnet \notin Blocked
  /\ \/ Limiter!Refuse(Self, AsnOf[Subnet]) /\ Answered("missed")
     \/ Limiter!GetFails(Self) /\ Answered("missed")
  /\ Advance
  /\ UNCHANGED tasks

SubnetGranted ==
  /\ pc = "checked"
  /\ Limiter!Grant(Self)
  /\ pc' = "publish"
  /\ UNCHANGED <<next, due, port, idx, ticker, fired, historyVars>>

SubnetSetFails ==
  /\ pc = "checked"
  /\ Limiter!SetFails(Self)
  /\ Answered("missed")
  /\ Advance
  /\ UNCHANGED tasks

Record(stored) ==
  tasks' = [tasks EXCEPT ![AsnOf[Subnet]] =
              Append(@, [port |-> port, subnet |-> Subnet, at |-> now, stored |-> stored])]

\* js.Publish of the task, which returns the stream's acknowledgement or fails.
Publish ==
  /\ pc = "publish"
  /\ \/ Record(TRUE) /\ Answered("tasked")
     \/ Faults /\ Record(FALSE) /\ Answered("missed")
  /\ Advance
  /\ UNCHANGED limiterVars

\* The stream stores a task whose publish failed: before the answer was lost, or
\* when a client that was cut off is connected again and sends its buffer.  The
\* coordinator has gone on, and learns nothing of it.
StoreLate(a, i) ==
  /\ i \in 1..Len(tasks[a]) /\ ~tasks[a][i].stored
  /\ tasks' = [tasks EXCEPT ![a][i].stored = TRUE]
  /\ UNCHANGED <<limiterVars, passVars, ticker, fired, answer>>

\* Mutant: the first port's pass marks every due port.
MarkAllScanned ==
  /\ pc = "pass" /\ port # NoPort /\ idx = Len(Subnets) + 1
  /\ next' = [p \in Port |-> IF p \in due THEN now + Interval[p] ELSE next[p]]
  /\ due' = {} /\ port' = NoPort
  /\ idx' = 1
  /\ pc' = "idle"
  /\ UNCHANGED <<limiterVars, ticker, fired, historyVars>>

\* MarkScanned, whatever became of the port's subnets.
MarkScanned ==
  /\ pc = "pass" /\ port # NoPort /\ idx = Len(Subnets) + 1
  /\ next' = [next EXCEPT ![port] = now + Interval[port]]
  /\ due' = due \ {port}
  /\ port' = NoPort
  /\ idx' = 1
  /\ pc' = IF due' = {} THEN "idle" ELSE "pass"
  /\ UNCHANGED <<limiterVars, ticker, fired, historyVars>>

\* Mutant: a restart that clears the limiter's keys.
CrashClearsKeys ==
  /\ Faults /\ pc # "down"
  /\ call' = [call EXCEPT ![Self] = [pending |-> FALSE, answer |-> "none"]]
  /\ key' = [a \in ASN |-> [count |-> 0, expires |-> 0]]
  /\ pc' = "down"
  /\ due' = {} /\ port' = NoPort /\ idx' = 1 /\ fired' = FALSE
  /\ answer' = [p \in Port |-> Unwalked]
  /\ UNCHANGED <<now, grants, next, ticker, tasks>>

\* The process ends, killed or told to; Redis and NATS keep what they have.
Crash ==
  /\ Faults /\ pc # "down"
  /\ Limiter!Die(Self)
  /\ pc' = "down"
  /\ due' = {} /\ port' = NoPort /\ idx' = 1 /\ fired' = FALSE
  /\ answer' = [p \in Port |-> Unwalked]
  /\ UNCHANGED <<next, ticker, tasks>>

\* ResetASNCounter; the count of tasks starts anew with the limit.
Reset(a) ==
  /\ Limiter!ResetASNCounter(a)
  /\ tasks' = [tasks EXCEPT ![a] = <<>>]
  /\ UNCHANGED <<passVars, ticker, fired, answer>>

\* Mutant: a tick that comes while a pass is running is lost.
TickLost ==
  /\ SlowPass \/ pc = "down" \/ (pc = "idle" /\ ~fired)
  /\ Limiter!Tick
  /\ IF pc # "down" /\ now' >= ticker
     THEN fired' = (fired \/ pc = "idle") /\ ticker' = ticker + Period
     ELSE UNCHANGED <<fired, ticker>>
  /\ UNCHANGED <<passVars, historyVars>>

\* A tick that finds the channel full is dropped.
Tick ==
  /\ SlowPass \/ pc = "down" \/ (pc = "idle" /\ ~fired)
  /\ Limiter!Tick
  /\ IF pc # "down" /\ now' >= ticker
     THEN fired' = TRUE /\ ticker' = ticker + Period
     ELSE UNCHANGED <<fired, ticker>>
  /\ UNCHANGED <<passVars, historyVars>>

Next ==
  \/ Start \/ BeginPass \/ PickPort
  \/ SkipBlocked \/ CheckSubnet \/ RefuseSubnet
  \/ SubnetGranted \/ SubnetSetFails \/ Publish
  \/ MarkScanned
  \/ Crash
  \/ \E a \in ASN : Reset(a)
  \/ \E a \in ASN : \E i \in 1..Len(tasks[a]) : StoreLate(a, i)
  \/ Tick

Spec == Init /\ [][Next]_vars
-----------------------------------------------------------------------------
(* The coordinator is a faithful caller of the limiter: its passes, skips, *)
(* crashes and restarts are steps of ASNRateLimiter or leave it alone, so  *)
(* what is proved of the limiter holds of the tasks it grants.             *)
LimiterSpec == Limiter!Spec

(* Publishing comes after granting, by as long as NATS takes, so the tasks *)
(* of one ASN are a little less evenly spaced than the grants: at most     *)
(* Rate + 1 of them are published in any TTL, those included whose publish *)
(* failed and which the stream stores late, across crashes and restarts.   *)
(* When they are stored is another matter: what waited in the client's     *)
(* reconnect buffer arrives at once, all windows of an outage together.    *)
TaskWindow ==
  \A a \in ASN : \A i \in 1..Len(tasks[a]) :
    i + Rate + 1 <= Len(tasks[a]) =>
      tasks[a][i].at + TTL <= tasks[a][i + Rate + 1].at

(* A coordinator that waits for its ticker has left no port overdue for as *)
(* much as a period of it, however long its passes and however often it    *)
(* was restarted.                                                          *)
NotOverdue ==
  pc = "idle" /\ ~fired => \A p \in Port : now < next[p] + Period

(* A pass that is over has answered for every subnet that is not blocked,  *)
(* on every port: tasked, or missed because the limiter refused it or a    *)
(* call failed, in the last walk over the port.  So a subnet misses its    *)
(* scan of an interval for one of these reasons only, however the port was *)
(* reached: after a start, at its tick, or at a later one.                 *)
EverySubnetAnswered ==
  pc = "idle" =>
    \A p \in Port, s \in DOMAIN AsnOf \ Blocked : answer[p][s] # "none"

(* README.md:136 "Critical | 10 | Every 6h" and the tiers below it: every  *)
(* port of every subnet that is not blocked is tasked once per interval,   *)
(* give or take a period of the ticker.                                    *)
EverySubnetTasked ==
  pc = "idle" /\ ~fired =>
    \A p \in Port, s \in DOMAIN AsnOf \ Blocked :
      \E i \in 1..Len(tasks[AsnOf[s]]) :
        LET t == tasks[AsnOf[s]][i]
        IN  t.port = p /\ t.subnet = s /\ now < t.at + Interval[p] + Period
=============================================================================
