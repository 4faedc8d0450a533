------------------------- MODULE Coordinator_proofs -------------------------
(***************************************************************************)
(* The coordinator uses the limiter as ASNRateLimiter assumes, so the      *)
(* limiter's rolling window holds of the coordinator, for every set of     *)
(* ports, subnets and autonomous systems and every schedule.               *)
(***************************************************************************)
EXTENDS Coordinator, FiniteSetTheorems, TLAPS

\* The limiter's module again, with its theorems.
LimiterProofs == INSTANCE ASNRateLimiter_proofs WITH Caller <- {Self}

\* The ASN of the subnet being walked is one the limiter knows.
LEMMA SubnetHasASN == Walking /\ idx \in Nat \ {0} => AsnOf[Subnet] \in ASN
BY CoordinatorAssumption DEF Walking, Subnet

\* Every step of the coordinator is a step of its limiter or leaves it alone.
LEMMA StepRefines ==
  ASSUME idx \in Nat \ {0}, [Next]_vars
  PROVE  [Limiter!Next]_(Limiter!limiterVars)
<1> USE DEF limiterVars, Limiter!limiterVars
<1>1. CASE Start \/ BeginPass \/ PickPort \/ SkipBlocked \/ Publish \/ MarkScanned
  BY <1>1 DEF Start, BeginPass, PickPort, SkipBlocked, Publish, MarkScanned
<1>2. CASE CheckSubnet
  BY <1>2, SubnetHasASN DEF CheckSubnet, Limiter!Next
<1>3. CASE RefuseSubnet
  BY <1>3, SubnetHasASN DEF RefuseSubnet, Limiter!Next
<1>4. CASE SubnetGranted
  BY <1>4 DEF SubnetGranted, Limiter!Next
<1>5. CASE SubnetSetFails
  BY <1>5 DEF SubnetSetFails, Limiter!Next
<1>6. CASE Crash
  BY <1>6 DEF Crash, Limiter!Next
<1>7. ASSUME NEW a \in ASN, Reset(a)
      PROVE  [Limiter!Next]_(Limiter!limiterVars)
  BY <1>7 DEF Reset, Limiter!Next
<1>8. CASE Tick
  BY <1>8 DEF Tick, Limiter!Next
<1>9. ASSUME NEW a, NEW i, StoreLate(a, i)
      PROVE  [Limiter!Next]_(Limiter!limiterVars)
  BY <1>9 DEF StoreLate
<1>10. CASE UNCHANGED vars
  BY <1>10 DEF vars
<1> QED
  BY <1>1, <1>2, <1>3, <1>4, <1>5, <1>6, <1>7, <1>8, <1>9, <1>10 DEF Next

\* The walk's index stays an index.
LEMMA IndexPositive == Spec => [](idx \in Nat \ {0})
<1>1. Init => idx \in Nat \ {0}
  BY DEF Init
<1>2. ASSUME idx \in Nat \ {0}, [Next]_vars PROVE (idx \in Nat \ {0})'
  <2>1. CASE SkipBlocked \/ RefuseSubnet \/ SubnetSetFails \/ Publish
    <3>1. Advance
      BY <2>1 DEF SkipBlocked, RefuseSubnet, SubnetSetFails, Publish
    <3> QED
      BY <1>2, <3>1 DEF Advance
  <2>2. CASE PickPort \/ MarkScanned \/ Crash
    BY <2>2 DEF PickPort, MarkScanned, Crash
  <2>3. CASE UNCHANGED idx
    BY <1>2, <2>3
  <2> QED
    BY <1>2, <2>1, <2>2, <2>3
       DEF Next, vars, passVars, Start, BeginPass, CheckSubnet, SubnetGranted, Reset, StoreLate, Tick
<1> QED
  BY <1>1, <1>2, PTL DEF Spec

(* The coordinator implements the limiter's specification with itself as   *)
(* the only caller: none of its steps reads or writes a key otherwise.     *)
THEOREM CoordinatorRefinesLimiter == Spec => LimiterSpec
<1>1. Init => Limiter!Init
  BY DEF Init
<1> QED
  BY <1>1, StepRefines, IndexPositive, PTL DEF Spec, LimiterSpec, Limiter!Spec

\* The two instances of the limiter are one.
LEMMA SameLimiter ==
  /\ Limiter!Init => LimiterProofs!Init
  /\ [Limiter!Next]_(Limiter!limiterVars) => [LimiterProofs!Next]_(LimiterProofs!limiterVars)
  /\ LimiterProofs!WindowBound => Limiter!WindowBound
BY DEF Limiter!Init, LimiterProofs!Init, Limiter!Next, LimiterProofs!Next,
  Limiter!limiterVars, LimiterProofs!limiterVars,
  Limiter!WindowBound, LimiterProofs!WindowBound, Limiter!Spaced, LimiterProofs!Spaced,
  Limiter!Check, LimiterProofs!Check, Limiter!Refuse, LimiterProofs!Refuse,
  Limiter!GetFails, LimiterProofs!GetFails, Limiter!Grant, LimiterProofs!Grant,
  Limiter!SetFails, LimiterProofs!SetFails, Limiter!Die, LimiterProofs!Die,
  Limiter!ResetASNCounter, LimiterProofs!ResetASNCounter, Limiter!Tick, LimiterProofs!Tick,
  Limiter!Return, LimiterProofs!Return, Limiter!Store, LimiterProofs!Store,
  Limiter!Count, LimiterProofs!Count

(* No more than Rate grants for one ASN in any TTL, in every behaviour of  *)
(* the coordinator, with its crashes, restarts and failing calls.          *)
THEOREM CoordinatorKeepsWindow == Spec => []Limiter!WindowBound
<1>1. LimiterProofs!OneCaller
  BY DEF LimiterProofs!OneCaller
<1>2. LimiterProofs!LimiterAssumption
  BY CoordinatorAssumption DEF Limiter!LimiterAssumption, LimiterProofs!LimiterAssumption
<1>3. LimiterProofs!OneCaller => (LimiterProofs!Spec => []LimiterProofs!WindowBound)
  BY <1>2, LimiterProofs!OneCallerKeepsWindow
<1> QED
  BY <1>1, <1>3, SameLimiter, CoordinatorRefinesLimiter, PTL
     DEF LimiterSpec, Limiter!Spec, LimiterProofs!Spec
-----------------------------------------------------------------------------
\* The two instances of the limiter have one notion of a type.
LEMMA SameTypes == LimiterProofs!TypeOK <=> Limiter!TypeOK
BY DEF LimiterProofs!TypeOK, Limiter!TypeOK, LimiterProofs!Key, Limiter!Key,
  LimiterProofs!Answer, Limiter!Answer, LimiterProofs!Read, Limiter!Read

\* The limiter's types hold of the coordinator's limiter.
LEMMA LimiterTypes == Spec => []Limiter!TypeOK
<1>1. LimiterProofs!LimiterAssumption
  BY CoordinatorAssumption DEF Limiter!LimiterAssumption, LimiterProofs!LimiterAssumption
<1>2. LimiterProofs!Spec => []LimiterProofs!TypeOK
  BY <1>1, LimiterProofs!TypeCorrect
<1> QED
  BY <1>2, SameTypes, SameLimiter, CoordinatorRefinesLimiter, PTL
     DEF LimiterSpec, Limiter!Spec, LimiterProofs!Spec

\* What the coordinator keeps in memory, apart from its tasks.
PassTypeOK ==
  /\ pc \in {"down", "idle", "pass", "checked", "publish"}
  /\ next \in [Port -> Nat]
  /\ due \in SUBSET Port
  /\ port \in Port \cup {NoPort}
  /\ idx \in 1..(Len(Subnets) + 1)
  /\ ticker \in Nat
  /\ fired \in BOOLEAN
  /\ pc \in {"checked", "publish"} => port \in Port /\ idx <= Len(Subnets)
  /\ pc = "idle" => due = {}

LEMMA PassTypesStep ==
  ASSUME PassTypeOK, Limiter!TypeOK, Limiter!TypeOK', [Next]_vars
  PROVE  PassTypeOK'
<1>0. /\ Len(Subnets) \in Nat
      /\ Interval \in [Port -> Nat \ {0}] /\ Period \in Nat \ {0}
      /\ now \in Nat /\ now' \in Nat /\ NoPort \notin Port
  BY CoordinatorAssumption DEF Limiter!TypeOK
<1>1. CASE Start
  <2>1. next' \in [Port -> Nat] /\ due' \in SUBSET Port /\ ticker' \in Nat
    BY <1>0, <1>1 DEF Start
  <2> QED
    BY <1>1, <2>1 DEF Start, PassTypeOK
<1>2. CASE BeginPass
  BY <1>0, <1>2 DEF BeginPass, PassTypeOK, DuePorts
<1>3. CASE PickPort
  BY <1>0, <1>3 DEF PickPort, PassTypeOK
<1>4. CASE SkipBlocked \/ RefuseSubnet \/ SubnetSetFails \/ Publish
  <2>1. /\ Advance
        /\ pc \in {"checked", "publish"} \/ (port # NoPort /\ idx <= Len(Subnets))
    BY <1>4 DEF SkipBlocked, RefuseSubnet, SubnetSetFails, Publish, Walking
  <2> QED
    BY <1>0, <2>1 DEF Advance, PassTypeOK
<1>5. CASE CheckSubnet \/ SubnetGranted
  BY <1>0, <1>5 DEF CheckSubnet, SubnetGranted, Walking, PassTypeOK
<1>6. CASE MarkScanned
  <2>1. now + Interval[port] \in Nat
    BY <1>0, <1>6 DEF MarkScanned, PassTypeOK
  <2> QED
    BY <1>0, <1>6, <2>1 DEF MarkScanned, PassTypeOK
<1>7. CASE Crash
  <2>1. idx' \in 1..(Len(Subnets) + 1) /\ due' \in SUBSET Port /\ port' \in Port \cup {NoPort}
    BY <1>0, <1>7 DEF Crash
  <2> QED
    BY <1>7, <2>1 DEF Crash, PassTypeOK
<1>8. ASSUME NEW a \in ASN, Reset(a) PROVE PassTypeOK'
  BY <1>8 DEF Reset, passVars, PassTypeOK
<1>9. CASE Tick
  <2>1. ticker' \in Nat /\ fired' \in BOOLEAN
    <3>1. ticker \in Nat /\ ticker + Period \in Nat /\ fired \in BOOLEAN
      BY <1>0 DEF PassTypeOK
    <3>2. \/ fired' = TRUE /\ ticker' = ticker + Period
          \/ fired' = fired /\ ticker' = ticker
      BY <1>9 DEF Tick
    <3> QED
      BY <3>1, <3>2
  <2>2. UNCHANGED <<pc, next, due, port, idx>>
    BY <1>9 DEF Tick, passVars
  <2> QED
    BY <2>1, <2>2 DEF PassTypeOK
<1>10. ASSUME NEW a, NEW i, StoreLate(a, i) PROVE PassTypeOK'
  BY <1>10 DEF StoreLate, passVars, PassTypeOK
<1>11. CASE UNCHANGED vars
  BY <1>11 DEF vars, passVars, PassTypeOK
<1> QED
  BY <1>1, <1>2, <1>3, <1>4, <1>5, <1>6, <1>7, <1>8, <1>9, <1>10, <1>11 DEF Next

LEMMA InitPassTypes == Init => PassTypeOK
<1>1. Len(Subnets) \in Nat
  BY CoordinatorAssumption
<1>2. Init => /\ next \in [Port -> Nat] /\ due \in SUBSET Port /\ ticker \in Nat
              /\ idx \in 1..(Len(Subnets) + 1) /\ port \in Port \cup {NoPort}
  BY <1>1 DEF Init
<1> QED
  BY <1>2 DEF Init, PassTypeOK

LEMMA PassTypes == Spec => []PassTypeOK
BY InitPassTypes, PassTypesStep, LimiterTypes, PTL DEF Spec

\* The history of tasks has its type.
TasksTypeOK == tasks \in [ASN -> Seq(Task)]

LEMMA NoTasks == <<>> \in Seq(Task)
OBVIOUS

LEMMA MarkedStored ==
  ASSUME NEW o \in Task
  PROVE  [o EXCEPT !.stored = TRUE] \in Task /\ [o EXCEPT !.stored = TRUE].at = o.at
BY DEF Task

LEMMA OneReplaced ==
  ASSUME NEW S, NEW q \in Seq(S), NEW i \in 1..Len(q), NEW k \in S
  PROVE  [q EXCEPT ![i] = k] \in Seq(S)
OBVIOUS

\* A late store changes no instant.
LEMMA LateKeepsInstants ==
  ASSUME TasksTypeOK, NEW a \in ASN, NEW i \in 1..Len(tasks[a]), StoreLate(a, i)
  PROVE  /\ TasksTypeOK'
         /\ \A b \in ASN : /\ Len(tasks'[b]) = Len(tasks[b])
                          /\ \A j \in 1..Len(tasks[b]) : tasks'[b][j].at = tasks[b][j].at
<1>1. PICK t \in Seq(Task) : t = tasks[a]
  BY DEF TasksTypeOK
<1>2. PICK k \in Task : k = [t[i] EXCEPT !.stored = TRUE] /\ k.at = t[i].at
  <2>1. PICK o \in Task : o = t[i]
    BY <1>1
  <2> QED
    BY <2>1, MarkedStored
<1>3. PICK u \in Seq(Task) : u = [t EXCEPT ![i] = k]
  BY <1>1, OneReplaced
<1>4. Len(u) = Len(t) /\ \A j \in 1..Len(t) : u[j].at = t[j].at
  BY <1>1, <1>2, <1>3
<1>5. tasks' = [tasks EXCEPT ![a] = u]
  BY <1>1, <1>2, <1>3 DEF StoreLate
<1> QED
  BY <1>1, <1>3, <1>4, <1>5 DEF TasksTypeOK

LEMMA TasksStep ==
  ASSUME TasksTypeOK, PassTypeOK, Limiter!TypeOK, [Next]_vars
  PROVE  TasksTypeOK'
<1>1. CASE Publish
  <2>1. Subnet \in DOMAIN AsnOf /\ AsnOf[Subnet] \in ASN
    <3>1. idx \in 1..Len(Subnets) /\ port \in Port
      BY <1>1, CoordinatorAssumption DEF Publish, PassTypeOK
    <3>2. Subnets[idx] \in DOMAIN AsnOf
      BY <3>1, CoordinatorAssumption
    <3> QED
      BY <3>2, CoordinatorAssumption DEF Subnet
  <2>2. PICK b \in BOOLEAN : Record(b)
    BY <1>1 DEF Publish
  <2>3. [port |-> port, subnet |-> Subnet, at |-> now, stored |-> b] \in Task
    BY <1>1, <2>1 DEF Publish, PassTypeOK, Task, Limiter!TypeOK
  <2>4. Append(tasks[AsnOf[Subnet]],
               [port |-> port, subnet |-> Subnet, at |-> now, stored |-> b]) \in Seq(Task)
    BY <2>1, <2>3 DEF TasksTypeOK
  <2> QED
    BY <2>2, <2>4 DEF Record, TasksTypeOK
<1>2. ASSUME NEW a \in ASN, Reset(a) PROVE TasksTypeOK'
  BY <1>2, NoTasks DEF Reset, TasksTypeOK
<1>3. ASSUME NEW a \in ASN, NEW i \in 1..Len(tasks[a]), StoreLate(a, i) PROVE TasksTypeOK'
  BY <1>3, LateKeepsInstants
<1>4. CASE UNCHANGED tasks
  BY <1>4 DEF TasksTypeOK
<1> QED
  BY <1>1, <1>2, <1>3, <1>4 DEF Next, vars, historyVars, Start, BeginPass, PickPort, SkipBlocked,
     CheckSubnet, RefuseSubnet, SubnetGranted, SubnetSetFails, MarkScanned, Crash, Tick

LEMMA InitTasks == Init => TasksTypeOK
BY NoTasks DEF Init, TasksTypeOK

\* The history of answers has its type.
AnswersTypeOK == answer \in [Port -> [DOMAIN AsnOf -> Answer]]

\* An answer for the subnet the walk is at takes back none.
LEMMA AnsweredKeeps ==
  ASSUME AnswersTypeOK, port \in Port, idx \in 1..Len(Subnets), NEW ans \in Answer \ {"none"},
         Answered(ans)
  PROVE  /\ AnswersTypeOK'
         /\ answer'[port][Subnet] # "none"
         /\ \A p \in Port, s \in DOMAIN AsnOf : answer[p][s] # "none" => answer'[p][s] # "none"
<1>1. Subnet \in DOMAIN AsnOf
  BY CoordinatorAssumption DEF Subnet
<1>2. PICK s0 \in DOMAIN AsnOf : s0 = Subnet
  BY <1>1
<1>3. PICK w \in [DOMAIN AsnOf -> Answer] : w = [answer[port] EXCEPT ![s0] = ans]
  BY DEF AnswersTypeOK
<1>4. answer' = [answer EXCEPT ![port] = w]
  BY <1>2, <1>3 DEF Answered
<1>5. w[s0] # "none" /\ \A s \in DOMAIN AsnOf : answer[port][s] # "none" => w[s] # "none"
  BY <1>3 DEF AnswersTypeOK
<1> QED
  BY <1>2, <1>3, <1>4, <1>5 DEF AnswersTypeOK

\* What the last steps at a subnet have in common.
LEMMA AnswersSubnet ==
  ASSUME PassTypeOK, RefuseSubnet \/ SubnetSetFails \/ Publish
  PROVE  /\ pc \in {"pass", "checked", "publish"} /\ pc' = "pass"
         /\ port \in Port /\ port' = port /\ due' = due
         /\ idx \in 1..Len(Subnets) /\ idx' = idx + 1
         /\ \E ans \in Answer \ {"none"} : Answered(ans)
<1>1. \A ans \in {"tasked", "missed"} : ans \in Answer \ {"none"}
  BY DEF Answer
<1>2. \E ans \in {"tasked", "missed"} : Answered(ans)
  BY DEF RefuseSubnet, SubnetSetFails, Publish
<1>3. /\ Advance
      /\ pc \in {"checked", "publish"} \/ (pc = "pass" /\ port # NoPort /\ idx <= Len(Subnets))
  BY DEF RefuseSubnet, SubnetSetFails, Publish, Walking
<1>4. port \in Port /\ idx \in 1..Len(Subnets)
  BY <1>3, CoordinatorAssumption DEF PassTypeOK
<1> QED
  BY <1>1, <1>2, <1>3, <1>4 DEF Advance

LEMMA AnswersStep ==
  ASSUME AnswersTypeOK, PassTypeOK, PassTypeOK', [Next]_vars
  PROVE  AnswersTypeOK'
<1>1. Unwalked \in [DOMAIN AsnOf -> Answer]
  BY DEF Unwalked, Answer
<1>2. CASE RefuseSubnet \/ SubnetSetFails \/ Publish
  BY <1>2, AnswersSubnet, AnsweredKeeps
<1>3. CASE PickPort
  BY <1>1, <1>3 DEF PickPort, AnswersTypeOK
<1>4. CASE Crash
  BY <1>1, <1>4 DEF Crash, AnswersTypeOK
<1>5. CASE UNCHANGED answer
  BY <1>5 DEF AnswersTypeOK
<1> QED
  BY <1>2, <1>3, <1>4, <1>5 DEF Next, vars, historyVars, Start, BeginPass, SkipBlocked,
     CheckSubnet, SubnetGranted, MarkScanned, Reset, StoreLate, Tick

LEMMA InitAnswers == Init => AnswersTypeOK
BY DEF Init, AnswersTypeOK, Unwalked, Answer

LEMMA Answers == Spec => []AnswersTypeOK
BY InitAnswers, AnswersStep, PassTypes, PTL DEF Spec

(* Type correctness of the coordinator and of the limiter it uses.         *)
THEOREM CoordinatorTypes == Spec => []TypeOK
<1>1. PassTypeOK /\ Limiter!TypeOK /\ TasksTypeOK /\ AnswersTypeOK => TypeOK
  BY DEF PassTypeOK, TasksTypeOK, AnswersTypeOK, TypeOK
<1> QED
  BY <1>1, InitTasks, TasksStep, PassTypes, LimiterTypes, Answers, PTL DEF Spec
-----------------------------------------------------------------------------
(* The ticker's next instant lies ahead and within a period; and unless a  *)
(* tick waits to be served, every port that the pass is not about to scan  *)
(* was not due when the last tick was served, less than a period before.   *)
Punctual ==
  pc # "down" =>
    /\ now < ticker /\ ticker <= now + Period
    /\ ~fired => \A p \in Port \ due : ticker < next[p] + Period

LEMMA PunctualStep ==
  ASSUME Punctual, PassTypeOK, PassTypeOK', Limiter!TypeOK, Limiter!TypeOK', [Next]_vars
  PROVE  Punctual'
<1>0. /\ Interval \in [Port -> Nat \ {0}] /\ Period \in Nat \ {0}
      /\ now \in Nat /\ now' \in Nat /\ ticker \in Nat /\ next \in [Port -> Nat]
  BY CoordinatorAssumption DEF Limiter!TypeOK, PassTypeOK
<1>1. CASE Start
  BY <1>0, <1>1 DEF Start, Punctual, limiterVars
<1>2. CASE BeginPass
  BY <1>0, <1>2 DEF BeginPass, Punctual, limiterVars, DuePorts
<1>3. CASE MarkScanned
  <2>1. ASSUME NEW p \in Port \ due', ~fired PROVE ticker < next'[p] + Period
    <3>1. CASE p = port
      <4>1. next'[p] = now + Interval[p] /\ ticker <= now + Period /\ Interval[p] \in Nat \ {0}
        BY <1>0, <1>3, <3>1 DEF MarkScanned, Punctual
      <4> QED
        BY <1>0, <4>1
    <3>2. CASE p # port
      BY <1>0, <1>3, <2>1, <3>2 DEF MarkScanned, Punctual
    <3> QED
      BY <3>1, <3>2
  <2> QED
    BY <1>0, <1>3, <2>1 DEF MarkScanned, Punctual, limiterVars
<1>4. CASE Tick
  <2>1. now' = now + 1
    BY <1>4 DEF Tick, Limiter!Tick
  <2> QED
    BY <1>0, <1>4, <2>1 DEF Tick, Punctual, passVars
<1>5. CASE Crash
  BY <1>5 DEF Crash, Punctual
<1>6. CASE UNCHANGED <<now, ticker, fired, next, due>> /\ (pc = "down" <=> pc' = "down")
  BY <1>6 DEF Punctual
<1>7. CASE PickPort \/ SkipBlocked \/ Publish \/ UNCHANGED vars
  BY <1>6, <1>7 DEF PickPort, SkipBlocked, Publish, Walking, Advance, limiterVars, vars, passVars
<1>8. CASE CheckSubnet \/ RefuseSubnet \/ SubnetGranted \/ SubnetSetFails
  BY <1>6, <1>8 DEF CheckSubnet, RefuseSubnet, SubnetGranted, SubnetSetFails, Walking, Advance,
     Limiter!Check, Limiter!Refuse, Limiter!GetFails, Limiter!Grant, Limiter!SetFails
<1>9. ASSUME NEW a \in ASN, Reset(a) PROVE Punctual'
  BY <1>6, <1>9 DEF Reset, passVars, Limiter!ResetASNCounter
<1>10. ASSUME NEW a, NEW i, StoreLate(a, i) PROVE Punctual'
  BY <1>6, <1>10 DEF StoreLate, passVars, limiterVars
<1> QED
  BY <1>1, <1>2, <1>3, <1>4, <1>5, <1>7, <1>8, <1>9, <1>10 DEF Next

LEMMA InitPunctual == Init => Punctual
BY DEF Init, Punctual

(* When the coordinator waits for its ticker no port is overdue by as much *)
(* as a period, for any ports, intervals and subnets, however long its     *)
(* passes take, whichever ticks were coalesced and whenever it restarted.  *)
THEOREM CoordinatorNeverOverdue == Spec => []NotOverdue
<1>1. Punctual /\ PassTypeOK /\ Limiter!TypeOK => NotOverdue
  <2> SUFFICES ASSUME Punctual, PassTypeOK, Limiter!TypeOK, pc = "idle", ~fired, NEW p \in Port
               PROVE  now < next[p] + Period
    BY DEF NotOverdue
  <2>1. now < ticker /\ ticker < next[p] + Period
    BY DEF Punctual, PassTypeOK
  <2> QED
    BY <2>1, CoordinatorAssumption DEF PassTypeOK, Limiter!TypeOK
<1> QED
  BY <1>1, InitPunctual, PunctualStep, PassTypes, LimiterTypes, PTL DEF Spec
-----------------------------------------------------------------------------
(* Each task is credited to the grant f[i] it was published under: no two  *)
(* tasks to one grant, a task after its grant and before the next.  A task *)
(* whose grant an administrator's reset has forgotten has grant 0.         *)
Credited(f, g, t) ==
  /\ f \in [1..Len(t) -> 0..Len(g)]
  /\ \A i, j \in 1..Len(t) : i <= j => j - i <= f[j] - f[i]
  /\ \A i \in 1..Len(t) : f[i] > 0 => g[f[i]] <= t[i].at
  /\ \A i \in 1..Len(t) : f[i] < Len(g) => t[i].at <= g[f[i] + 1]

\* No task is credited to the last grant, which waits for one.
Unused(f, g, t) == \A i \in 1..Len(t) : f[i] < Len(g)

\* Instants in the order in which they were appended, none after n.
Ordered(g, n) ==
  /\ \A i, j \in 1..Len(g) : i <= j => g[i] <= g[j]
  /\ \A i \in 1..Len(g) : g[i] <= n

TaskCredit ==
  /\ pc = "checked" => call[Self].asn = AsnOf[Subnet]
  /\ \A a \in ASN :
       /\ Ordered(grants[a], now)
       /\ \A i \in 1..Len(tasks[a]) : tasks[a][i].at <= now
       /\ \E f : /\ Credited(f, grants[a], tasks[a])
                 /\ pc = "publish" /\ AsnOf[Subnet] = a => Unused(f, grants[a], tasks[a])

LEMMA TaskInstants ==
  ASSUME NEW t \in Seq(Task)
  PROVE  Len(t) \in Nat /\ \A i \in 1..Len(t) : t[i].at \in Nat
<1>1. \A i \in 1..Len(t) : t[i] \in Task
  OBVIOUS
<1>2. \A k \in Task : k.at \in Nat
  BY DEF Task
<1> QED
  BY <1>1, <1>2

\* A new grant is after every task, and no task is credited to it.
LEMMA GrantUnused ==
  ASSUME NEW g \in Seq(Nat), NEW t \in Seq(Task), NEW n \in Nat, NEW f,
         Ordered(g, n), \A i \in 1..Len(t) : t[i].at <= n, Credited(f, g, t)
  PROVE  LET h == Append(g, n)
         IN  Ordered(h, n) /\ Credited(f, h, t) /\ Unused(f, h, t)
<1> DEFINE h == Append(g, n)
<1>1. /\ Len(g) \in Nat /\ Len(t) \in Nat /\ Len(h) = Len(g) + 1 /\ h[Len(g) + 1] = n
      /\ \A i \in 1..Len(g) : h[i] = g[i] /\ g[i] \in Nat
  OBVIOUS
<1>2. \A i \in 1..Len(t) : f[i] \in 0..Len(g)
  BY DEF Credited
<1> HIDE DEF h
<1>3. Ordered(h, n)
  <2>1. \A i \in 1..Len(h) : h[i] <= n /\ h[i] \in Nat /\ (i \in 1..Len(g) \/ i = Len(g) + 1)
    BY <1>1 DEF Ordered
  <2>2. ASSUME NEW i \in 1..Len(h), NEW j \in 1..Len(h), i <= j PROVE h[i] <= h[j]
    <3>1. CASE j = Len(g) + 1
      BY <1>1, <2>1, <3>1
    <3>2. CASE j \in 1..Len(g)
      <4>1. i \in 1..Len(g)
        BY <1>1, <2>2, <3>2
      <4> QED
        BY <1>1, <2>2, <3>2, <4>1 DEF Ordered
    <3> QED
      BY <2>1, <3>1, <3>2
  <2> QED
    BY <2>1, <2>2 DEF Ordered
<1>4. Unused(f, h, t)
  BY <1>1, <1>2 DEF Unused
<1>5. f \in [1..Len(t) -> 0..Len(h)]
  <2>1. 0..Len(g) \subseteq 0..Len(h)
    BY <1>1
  <2> QED
    BY <2>1 DEF Credited
<1>6. ASSUME NEW i \in 1..Len(t), f[i] > 0 PROVE h[f[i]] <= t[i].at
  <2>1. f[i] \in 1..Len(g)
    BY <1>1, <1>2, <1>6
  <2>2. g[f[i]] <= t[i].at
    BY <1>6 DEF Credited
  <2> QED
    BY <1>1, <2>1, <2>2
<1>7. ASSUME NEW i \in 1..Len(t), f[i] < Len(h) PROVE t[i].at <= h[f[i] + 1]
  <2>1. CASE f[i] = Len(g)
    BY <1>1, <2>1
  <2>2. CASE f[i] < Len(g)
    <3>1. f[i] + 1 \in 1..Len(g)
      BY <1>1, <1>2, <2>2
    <3> QED
      BY <1>1, <2>2, <3>1 DEF Credited
  <2> QED
    BY <1>1, <1>2, <2>1, <2>2
<1> QED
  BY <1>3, <1>4, <1>5, <1>6, <1>7 DEF Credited, h

\* The task that is published is credited to the grant that waits for one.
LEMMA TaskIsCredited ==
  ASSUME NEW g \in Seq(Nat), NEW t \in Seq(Task), NEW k \in Task, NEW f,
         Ordered(g, k.at), Credited(f, g, t), Unused(f, g, t)
  PROVE  \E e : Credited(e, g, Append(t, k))
<1> DEFINE u == Append(t, k)
           e == [i \in 1..Len(u) |-> IF i \in 1..Len(t) THEN f[i] ELSE Len(g)]
<1>1. /\ Len(g) \in Nat /\ Len(t) \in Nat /\ Len(u) = Len(t) + 1 /\ u[Len(t) + 1] = k
      /\ \A i \in 1..Len(t) : u[i] = t[i]
      /\ \A i \in 1..Len(g) : g[i] \in Nat
  OBVIOUS
<1>2. /\ \A i \in 1..Len(t) : e[i] = f[i] /\ f[i] \in 0..Len(g) /\ f[i] < Len(g)
      /\ e[Len(t) + 1] = Len(g)
  <2>1. \A i \in 1..Len(t) : f[i] \in 0..Len(g) /\ f[i] < Len(g)
    BY DEF Credited, Unused
  <2>2. 1..Len(t) \subseteq 1..Len(u) /\ Len(t) + 1 \in 1..Len(u) /\ Len(t) + 1 \notin 1..Len(t)
    BY <1>1
  <2> HIDE DEF u
  <2> QED
    BY <2>1, <2>2
<1>3. e \in [1..Len(u) -> 0..Len(g)]
  <2>1. Len(g) \in 0..Len(g) /\ \A i \in 1..Len(t) : f[i] \in 0..Len(g)
    <3>1. Len(g) \in 0..Len(g)
      BY <1>1
    <3> QED
      BY <1>2, <3>1
  <2> HIDE DEF u
  <2> QED
    BY <2>1
<1>4. \A i \in 1..Len(u) : i \in 1..Len(t) \/ i = Len(t) + 1
  BY <1>1
<1> HIDE DEF u, e
<1>5. ASSUME NEW i \in 1..Len(u), NEW j \in 1..Len(u), i <= j PROVE j - i <= e[j] - e[i]
  <2>1. CASE j \in 1..Len(t)
    <3>1. i \in 1..Len(t)
      BY <1>1, <1>4, <1>5, <2>1
    <3> QED
      BY <1>2, <1>5, <2>1, <3>1 DEF Credited
  <2>2. CASE j = Len(t) + 1 /\ i = Len(t) + 1
    BY <1>1, <1>2, <2>2
  <2>3. CASE j = Len(t) + 1 /\ i \in 1..Len(t)
    <3>1. Len(t) \in 1..Len(t) /\ i <= Len(t)
      BY <1>1, <2>3
    <3>2. Len(t) - i <= f[Len(t)] - f[i]
      BY <2>3, <3>1 DEF Credited
    <3>3. f[Len(t)] < Len(g) /\ f[Len(t)] \in 0..Len(g) /\ f[i] \in 0..Len(g)
      BY <1>2, <2>3, <3>1
    <3> QED
      BY <1>1, <1>2, <2>3, <3>1, <3>2, <3>3
  <2> QED
    BY <1>4, <2>1, <2>2, <2>3
<1>6. ASSUME NEW i \in 1..Len(u), e[i] > 0 PROVE g[e[i]] <= u[i].at
  <2>1. CASE i \in 1..Len(t)
    BY <1>1, <1>2, <1>6, <2>1 DEF Credited
  <2>2. CASE i = Len(t) + 1
    BY <1>1, <1>2, <1>6, <2>2 DEF Ordered
  <2> QED
    BY <1>4, <2>1, <2>2
<1>7. ASSUME NEW i \in 1..Len(u), e[i] < Len(g) PROVE u[i].at <= g[e[i] + 1]
  <2>1. CASE i \in 1..Len(t)
    <3>1. t[i].at <= g[f[i] + 1]
      BY <1>2, <2>1 DEF Credited
    <3> QED
      BY <1>1, <1>2, <2>1, <3>1
  <2>2. CASE i = Len(t) + 1
    BY <1>1, <1>2, <1>7, <2>2
  <2> QED
    BY <1>4, <2>1, <2>2
<1>8. Credited(e, g, u)
  BY <1>3, <1>5, <1>6, <1>7 DEF Credited
<1> QED
  BY <1>8 DEF u

\* The indices of the grants between two tasks Rate + 1 apart.
LEMMA GrantsBetween ==
  ASSUME NEW l \in Nat, NEW r \in Nat, NEW x \in 0..l, NEW y \in 0..l, r + 1 <= y - x
  PROVE  /\ x < l /\ x + 1 \in 1..l /\ y > 0 /\ y \in 1..l
         /\ (x + 1) + r \in 1..l /\ (x + 1) + r <= y
OBVIOUS

\* The limiter's window, seen through the grants the tasks are credited to.
LEMMA CreditSpaces ==
  ASSUME NEW g \in Seq(Nat), NEW t \in Seq(Task), NEW f, NEW n \in Nat,
         Ordered(g, n), Credited(f, g, t), Limiter!Spaced(g),
         NEW i \in 1..Len(t), i + Rate + 1 <= Len(t)
  PROVE  t[i].at + TTL <= t[i + Rate + 1].at
<1>1. Rate \in Nat /\ TTL \in Nat /\ Len(g) \in Nat /\ \A k \in 1..Len(g) : g[k] \in Nat
  BY CoordinatorAssumption DEF Limiter!LimiterAssumption
<1>2. PICK j \in 1..Len(t) : j = i + Rate + 1 /\ i <= j /\ j - i = Rate + 1
  BY <1>1, TaskInstants
<1>3. PICK x \in 0..Len(g), y \in 0..Len(g) : x = f[i] /\ y = f[j] /\ Rate + 1 <= y - x
  BY <1>2 DEF Credited
<1>4. /\ x < Len(g) /\ x + 1 \in 1..Len(g) /\ y > 0 /\ y \in 1..Len(g)
      /\ (x + 1) + Rate \in 1..Len(g) /\ (x + 1) + Rate <= y
  BY <1>1, <1>3, GrantsBetween
<1>5. PICK z \in 1..Len(g) : z = x + 1 /\ z + Rate \in 1..Len(g) /\ z + Rate <= y
  BY <1>4
<1>6. t[i].at <= g[z] /\ g[y] <= t[j].at
  <2>1. f[i] > 0 => g[f[i]] <= t[i].at
    BY DEF Credited
  <2>2. f[i] < Len(g) => t[i].at <= g[f[i] + 1]
    BY DEF Credited
  <2>3. f[j] > 0 => g[f[j]] <= t[j].at
    BY DEF Credited
  <2> QED
    BY <1>3, <1>4, <1>5, <2>2, <2>3
<1>7. g[z] + TTL <= g[z + Rate]
  BY <1>5 DEF Limiter!Spaced
<1>8. g[z + Rate] <= g[y]
  BY <1>5 DEF Ordered
<1>9. g[z] \in Nat /\ g[z + Rate] \in Nat /\ g[y] \in Nat /\ t[i].at \in Nat /\ t[j].at \in Nat
  BY <1>1, <1>2, <1>4, <1>5, TaskInstants
<1>10. \A p, q, v, w, e, d \in Nat :
         p <= q /\ q + d <= v /\ v <= w /\ w <= e => p + d <= e
  OBVIOUS
<1>11. t[i].at + TTL <= t[j].at
  <2>1. PICK p \in Nat, q \in Nat, v \in Nat, w \in Nat, e \in Nat :
          p = t[i].at /\ q = g[z] /\ v = g[z + Rate] /\ w = g[y] /\ e = t[j].at
    BY <1>9
  <2>2. p <= q /\ q + TTL <= v /\ v <= w /\ w <= e
    BY <1>6, <1>7, <1>8, <2>1
  <2>3. p + TTL <= e
    BY <1>1, <1>10, <2>2
  <2> QED
    BY <2>1, <2>3
<1> QED
  BY <1>2, <1>11

\* Steps that neither grant nor publish nor reset.
LEMMA CreditKept ==
  ASSUME TaskCredit, TasksTypeOK, Limiter!TypeOK, now' \in Nat, now <= now',
         UNCHANGED <<grants, tasks>>,
         pc' = "checked" => call'[Self].asn = AsnOf[Subnet'],
         pc' = "publish" => pc = "publish" /\ Subnet' = Subnet
  PROVE  TaskCredit'
<1>1. now \in Nat
  BY DEF Limiter!TypeOK
<1>2. ASSUME NEW a \in ASN
      PROVE  /\ Ordered(grants'[a], now')
             /\ \A i \in 1..Len(tasks'[a]) : tasks'[a][i].at <= now'
             /\ \E f : /\ Credited(f, grants'[a], tasks'[a])
                       /\ pc' = "publish" /\ AsnOf[Subnet'] = a
                            => Unused(f, grants'[a], tasks'[a])
  <2>1. grants[a] \in Seq(Nat) /\ tasks[a] \in Seq(Task)
    BY DEF Limiter!TypeOK, TasksTypeOK
  <2>2. \A n \in Nat : n <= now => n <= now'
    BY <1>1
  <2>3. Ordered(grants[a], now')
    BY <2>1, <2>2 DEF TaskCredit, Ordered
  <2>4. \A i \in 1..Len(tasks[a]) : tasks[a][i].at <= now'
    BY <2>1, <2>2, TaskInstants DEF TaskCredit
  <2> QED
    BY <2>3, <2>4 DEF TaskCredit
<1> QED
  BY <1>2 DEF TaskCredit

LEMMA CreditGrant ==
  ASSUME TaskCredit, TasksTypeOK, Limiter!TypeOK, SubnetGranted
  PROVE  TaskCredit'
<1>1. PICK b \in ASN : b = call[Self].asn /\ b = AsnOf[Subnet]
  <2>1. call[Self].asn \in ASN
    <3>1. call[Self] \in Limiter!Answer \/ call[Self] \in Limiter!Read
      BY DEF Limiter!TypeOK
    <3>2. ASSUME call[Self] \in Limiter!Answer PROVE FALSE
      <4>1. call[Self].pending = FALSE
        BY <3>2 DEF Limiter!Answer
      <4> QED
        BY <4>1 DEF SubnetGranted, Limiter!Grant
    <3> QED
      BY <3>1, <3>2 DEF Limiter!Read
  <2> QED
    BY <2>1 DEF TaskCredit, SubnetGranted
<1>2. /\ grants' = [grants EXCEPT ![b] = Append(@, now)]
      /\ UNCHANGED <<now, tasks, idx>> /\ pc' = "publish"
  BY <1>1 DEF SubnetGranted, Limiter!Grant, historyVars
<1>3. Subnet' = Subnet
  BY <1>2 DEF Subnet
<1>4. ASSUME NEW a \in ASN
      PROVE  /\ Ordered(grants'[a], now)
             /\ \A i \in 1..Len(tasks[a]) : tasks[a][i].at <= now
             /\ \E f : Credited(f, grants'[a], tasks[a]) /\ (b = a => Unused(f, grants'[a], tasks[a]))
  <2>1. grants[a] \in Seq(Nat) /\ tasks[a] \in Seq(Task) /\ now \in Nat
    BY DEF Limiter!TypeOK, TasksTypeOK
  <2>2. PICK f : Credited(f, grants[a], tasks[a])
    BY DEF TaskCredit
  <2>3. Ordered(grants[a], now) /\ \A i \in 1..Len(tasks[a]) : tasks[a][i].at <= now
    BY DEF TaskCredit
  <2>4. CASE a = b
    <3>1. grants'[a] = Append(grants[a], now)
      BY <1>2, <2>4 DEF Limiter!TypeOK
    <3> QED
      BY <2>1, <2>2, <2>3, <3>1, GrantUnused
  <2>5. CASE a # b
    <3>1. grants'[a] = grants[a]
      BY <1>2, <2>5 DEF Limiter!TypeOK
    <3> QED
      BY <2>2, <2>3, <2>5, <3>1
  <2> QED
    BY <2>4, <2>5
<1> QED
  BY <1>1, <1>2, <1>3, <1>4 DEF TaskCredit

LEMMA CreditPublish ==
  ASSUME TaskCredit, TasksTypeOK, PassTypeOK, Limiter!TypeOK, Publish
  PROVE  TaskCredit'
<1>1. pc = "publish" /\ pc' = "pass" /\ UNCHANGED <<now, key, call, grants>>
  BY DEF Publish, Advance, limiterVars
<1>2. PICK b \in ASN, k \in Task :
        b = AsnOf[Subnet] /\ k.at = now /\ tasks' = [tasks EXCEPT ![b] = Append(@, k)]
  <2>1. Subnet \in DOMAIN AsnOf /\ AsnOf[Subnet] \in ASN
    <3>1. idx \in 1..Len(Subnets)
      BY <1>1, CoordinatorAssumption DEF PassTypeOK
    <3>2. Subnets[idx] \in DOMAIN AsnOf
      BY <3>1, CoordinatorAssumption
    <3> QED
      BY <3>2, CoordinatorAssumption DEF Subnet
  <2>2. PICK r \in BOOLEAN : Record(r)
    BY DEF Publish
  <2>3. [port |-> port, subnet |-> Subnet, at |-> now, stored |-> r] \in Task
    BY <1>1, <2>1 DEF PassTypeOK, Task, Limiter!TypeOK
  <2> QED
    BY <2>1, <2>2, <2>3 DEF Record
<1>3. ASSUME NEW a \in ASN
      PROVE  /\ Ordered(grants[a], now)
             /\ \A i \in 1..Len(tasks'[a]) : tasks'[a][i].at <= now
             /\ \E f : Credited(f, grants[a], tasks'[a])
  <2>1. grants[a] \in Seq(Nat) /\ tasks[a] \in Seq(Task) /\ now \in Nat
    BY DEF Limiter!TypeOK, TasksTypeOK
  <2>2. Ordered(grants[a], now) /\ \A i \in 1..Len(tasks[a]) : tasks[a][i].at <= now
    BY DEF TaskCredit
  <2>3. PICK f : Credited(f, grants[a], tasks[a])
                 /\ (pc = "publish" /\ AsnOf[Subnet] = a => Unused(f, grants[a], tasks[a]))
    BY DEF TaskCredit
  <2>4. CASE a = b
    <3>1. tasks'[a] = Append(tasks[a], k)
      BY <1>2, <2>4 DEF TasksTypeOK
    <3>2. \E e : Credited(e, grants[a], Append(tasks[a], k))
      BY <1>1, <1>2, <2>1, <2>2, <2>3, <2>4, TaskIsCredited
    <3>3. ASSUME NEW i \in 1..Len(Append(tasks[a], k)) PROVE Append(tasks[a], k)[i].at <= now
      <4>1. CASE i \in 1..Len(tasks[a])
        BY <2>1, <2>2, <4>1
      <4>2. CASE i = Len(tasks[a]) + 1
        BY <1>2, <2>1, <4>2
      <4> QED
        BY <2>1, <4>1, <4>2
    <3> QED
      BY <2>2, <3>1, <3>2, <3>3
  <2>5. CASE a # b
    <3>1. tasks'[a] = tasks[a]
      BY <1>2, <2>5 DEF TasksTypeOK
    <3> QED
      BY <2>2, <2>3, <3>1
  <2> QED
    BY <2>4, <2>5
<1> QED
  BY <1>1, <1>3 DEF TaskCredit

\* Nothing granted and nothing published is credited.
LEMMA NothingToCredit ==
  ASSUME NEW n
  PROVE  /\ Ordered(<<>>, n)
         /\ Credited([i \in 1..Len(<<>>) |-> 0], <<>>, <<>>)
         /\ Unused([i \in 1..Len(<<>>) |-> 0], <<>>, <<>>)
         /\ 1..Len(<<>>) = {}
<1>1. Len(<<>>) = 0
  OBVIOUS
<1> QED
  BY <1>1 DEF Ordered, Credited, Unused

LEMMA CreditReset ==
  ASSUME TaskCredit, TasksTypeOK, Limiter!TypeOK, NEW b \in ASN, Reset(b)
  PROVE  TaskCredit'
<1>1. /\ UNCHANGED <<now, call, pc, idx>>
      /\ grants' = [grants EXCEPT ![b] = <<>>] /\ tasks' = [tasks EXCEPT ![b] = <<>>]
  BY DEF Reset, Limiter!ResetASNCounter, passVars
<1>2. Subnet' = Subnet
  BY <1>1 DEF Subnet
<1>3. ASSUME NEW a \in ASN
      PROVE  /\ Ordered(grants'[a], now)
             /\ \A i \in 1..Len(tasks'[a]) : tasks'[a][i].at <= now
             /\ \E f : /\ Credited(f, grants'[a], tasks'[a])
                       /\ pc = "publish" /\ AsnOf[Subnet] = a => Unused(f, grants'[a], tasks'[a])
  <2>1. CASE a = b
    <3>1. grants'[a] = <<>> /\ tasks'[a] = <<>>
      BY <1>1, <2>1 DEF Limiter!TypeOK, TasksTypeOK
    <3> QED
      BY <3>1, NothingToCredit
  <2>2. CASE a # b
    <3>1. grants'[a] = grants[a] /\ tasks'[a] = tasks[a]
      BY <1>1, <2>2 DEF Limiter!TypeOK, TasksTypeOK
    <3> QED
      BY <3>1 DEF TaskCredit
  <2> QED
    BY <2>1, <2>2
<1> QED
  BY <1>1, <1>2, <1>3 DEF TaskCredit

\* Credit is a matter of instants.
LEMMA CreditOfInstants ==
  ASSUME NEW g, NEW t \in Seq(Task), NEW u \in Seq(Task), NEW f, Len(u) = Len(t),
         \A j \in 1..Len(t) : u[j].at = t[j].at
  PROVE  /\ Credited(f, g, t) => Credited(f, g, u)
         /\ Unused(f, g, t) => Unused(f, g, u)
<1>1. PICK n \in Nat : n = Len(t) /\ n = Len(u)
  OBVIOUS
<1> QED
  BY <1>1 DEF Credited, Unused

LEMMA CreditLate ==
  ASSUME TaskCredit, TasksTypeOK, NEW b \in ASN, NEW i \in 1..Len(tasks[b]), StoreLate(b, i)
  PROVE  TaskCredit'
<1>1. UNCHANGED <<now, call, grants, pc, idx>>
  BY DEF StoreLate, limiterVars, passVars
<1>2. Subnet' = Subnet
  BY <1>1 DEF Subnet
<1>3. ASSUME NEW a \in ASN
      PROVE  /\ Ordered(grants[a], now)
             /\ \A j \in 1..Len(tasks'[a]) : tasks'[a][j].at <= now
             /\ \E f : /\ Credited(f, grants[a], tasks'[a])
                       /\ pc = "publish" /\ AsnOf[Subnet] = a => Unused(f, grants[a], tasks'[a])
  <2>1. /\ tasks[a] \in Seq(Task) /\ tasks'[a] \in Seq(Task) /\ Len(tasks'[a]) = Len(tasks[a])
        /\ \A j \in 1..Len(tasks[a]) : tasks'[a][j].at = tasks[a][j].at
    BY LateKeepsInstants DEF TasksTypeOK
  <2>2. Ordered(grants[a], now) /\ \A j \in 1..Len(tasks[a]) : tasks[a][j].at <= now
    BY DEF TaskCredit
  <2>3. PICK f : Credited(f, grants[a], tasks[a])
                 /\ (pc = "publish" /\ AsnOf[Subnet] = a => Unused(f, grants[a], tasks[a]))
    BY DEF TaskCredit
  <2>4. /\ Credited(f, grants[a], tasks'[a])
        /\ pc = "publish" /\ AsnOf[Subnet] = a => Unused(f, grants[a], tasks'[a])
    BY <2>1, <2>3, CreditOfInstants
  <2> QED
    BY <2>1, <2>2, <2>4
<1> QED
  BY <1>1, <1>2, <1>3 DEF TaskCredit

LEMMA CreditStep ==
  ASSUME TaskCredit, TasksTypeOK, PassTypeOK, Limiter!TypeOK, Limiter!TypeOK', [Next]_vars
  PROVE  TaskCredit'
<1>0. now \in Nat /\ now' \in Nat
  BY DEF Limiter!TypeOK
<1>1. ASSUME UNCHANGED <<now, grants, tasks>>, pc' \notin {"checked", "publish"} PROVE TaskCredit'
  BY <1>0, <1>1, CreditKept
<1>2. CASE Start \/ BeginPass \/ PickPort \/ SkipBlocked \/ MarkScanned
  BY <1>1, <1>2 DEF Start, BeginPass, PickPort, SkipBlocked, MarkScanned, Advance, limiterVars,
     historyVars
<1>3. CASE RefuseSubnet
  BY <1>1, <1>3 DEF RefuseSubnet, Advance, Limiter!Refuse, Limiter!GetFails
<1>4. CASE SubnetSetFails
  BY <1>1, <1>4 DEF SubnetSetFails, Advance, Limiter!SetFails
<1>5. CASE Crash
  BY <1>1, <1>5 DEF Crash, Limiter!Die
<1>6. CASE CheckSubnet
  <2>1. /\ UNCHANGED <<now, grants, tasks, idx>> /\ pc' = "checked"
        /\ call'[Self].asn = AsnOf[Subnet]
    BY <1>6 DEF CheckSubnet, Limiter!Check, Limiter!TypeOK, historyVars
  <2>2. Subnet' = Subnet
    BY <2>1 DEF Subnet
  <2> QED
    BY <1>0, <2>1, <2>2, CreditKept
<1>7. CASE Tick
  <2>1. now' = now + 1 /\ UNCHANGED <<call, grants, tasks, pc, idx>>
    BY <1>7 DEF Tick, Limiter!Tick, passVars, historyVars
  <2>2. Subnet' = Subnet /\ now <= now'
    BY <1>0, <2>1 DEF Subnet
  <2>3. pc' = "checked" => call'[Self].asn = AsnOf[Subnet']
    BY <2>1, <2>2 DEF TaskCredit
  <2> QED
    BY <1>0, <2>1, <2>2, <2>3, CreditKept
<1>8. CASE UNCHANGED vars
  <2>1. UNCHANGED <<now, call, grants, tasks, pc, idx>>
    BY <1>8 DEF vars, limiterVars, passVars, historyVars
  <2>2. Subnet' = Subnet /\ now <= now'
    BY <1>0, <2>1 DEF Subnet
  <2>3. pc' = "checked" => call'[Self].asn = AsnOf[Subnet']
    BY <2>1, <2>2 DEF TaskCredit
  <2> QED
    BY <1>0, <2>1, <2>2, <2>3, CreditKept
<1>9. ASSUME NEW a \in ASN, Reset(a) PROVE TaskCredit'
  BY <1>9, CreditReset
<1> QED
  BY <1>2, <1>3, <1>4, <1>5, <1>6, <1>7, <1>8, <1>9, CreditGrant, CreditPublish, CreditLate
     DEF Next

LEMMA InitCredit == Init => TaskCredit
<1> SUFFICES ASSUME Init PROVE TaskCredit
  OBVIOUS
<1>1. \A a \in ASN : grants[a] = <<>> /\ tasks[a] = <<>>
  BY DEF Init, Limiter!Init
<1>2. pc = "down"
  BY DEF Init
<1> QED
  BY <1>1, <1>2, NothingToCredit DEF TaskCredit

(* Across slow publishes, publishes that fail and whose tasks are stored   *)
(* late, crashes, restarts and resets, no more than Rate + 1 tasks for one *)
(* ASN are published in any TTL: the grants are spaced and each publish    *)
(* lies between its own grant and the next.                                *)
THEOREM CoordinatorSpacesTasks == Spec => []TaskWindow
<1>1. TaskCredit /\ TasksTypeOK /\ Limiter!TypeOK /\ Limiter!WindowBound => TaskWindow
  <2> SUFFICES ASSUME TaskCredit, TasksTypeOK, Limiter!TypeOK, Limiter!WindowBound,
                      NEW a \in ASN, NEW i \in 1..Len(tasks[a]), i + Rate + 1 <= Len(tasks[a])
               PROVE  tasks[a][i].at + TTL <= tasks[a][i + Rate + 1].at
    BY DEF TaskWindow
  <2>1. grants[a] \in Seq(Nat) /\ tasks[a] \in Seq(Task) /\ now \in Nat
    BY DEF Limiter!TypeOK, TasksTypeOK
  <2>2. PICK f : Credited(f, grants[a], tasks[a])
    BY DEF TaskCredit
  <2>3. Ordered(grants[a], now) /\ Limiter!Spaced(grants[a])
    BY DEF TaskCredit, Limiter!WindowBound
  <2> QED
    BY <2>1, <2>2, <2>3, CreditSpaces
<1>2. Spec => []TasksTypeOK
  BY InitTasks, TasksStep, PassTypes, LimiterTypes, PTL DEF Spec
<1> QED
  BY <1>1, <1>2, InitCredit, CreditStep, PassTypes, LimiterTypes, CoordinatorKeepsWindow, PTL
     DEF Spec
-----------------------------------------------------------------------------
(* Every port the pass is done with has an answer for every subnet that is *)
(* not blocked, and the port being walked for those it has passed.         *)
WalksAnswer ==
  IF pc = "down" THEN port = NoPort
  ELSE /\ \A p \in Port \ due, s \in DOMAIN AsnOf \ Blocked : answer[p][s] # "none"
       /\ port # NoPort =>
            /\ port \in due
            /\ \A i \in 1..Len(Subnets) :
                 i < idx /\ Subnets[i] \notin Blocked => answer[port][Subnets[i]] # "none"

LEMMA WalksStep ==
  ASSUME WalksAnswer, PassTypeOK, AnswersTypeOK, [Next]_vars
  PROVE  WalksAnswer'
<1>0. /\ Len(Subnets) \in Nat /\ idx \in Nat /\ NoPort \notin Port /\ due \in SUBSET Port
      /\ \A i \in 1..Len(Subnets) : Subnets[i] \in DOMAIN AsnOf
      /\ \A s \in DOMAIN AsnOf : \E i \in 1..Len(Subnets) : s = Subnets[i]
  BY CoordinatorAssumption DEF PassTypeOK
<1>1. CASE Start
  BY <1>1 DEF Start, historyVars, WalksAnswer
<1>2. CASE BeginPass
  BY <1>2 DEF BeginPass, historyVars, WalksAnswer, PassTypeOK
<1>3. CASE PickPort
  <2>1. /\ pc = "pass" /\ pc' = "pass" /\ due' = due /\ port' \in due /\ idx' = 1
        /\ answer' = [answer EXCEPT ![port'] = Unwalked]
    BY <1>3 DEF PickPort
  <2>2. \A p \in Port \ due : answer'[p] = answer[p]
    BY <2>1 DEF AnswersTypeOK
  <2>3. \A i \in 1..Len(Subnets) : ~(i < idx')
    BY <1>0, <2>1
  <2> QED
    BY <2>1, <2>2, <2>3 DEF WalksAnswer
<1>4. CASE SkipBlocked
  <2>1. /\ pc = "pass" /\ pc' = "pass" /\ UNCHANGED <<due, port, answer>>
        /\ idx' = idx + 1 /\ Subnets[idx] \in Blocked
    BY <1>4 DEF SkipBlocked, Walking, Subnet, Advance, historyVars
  <2>2. \A i \in 1..Len(Subnets) : i < idx' => i < idx \/ i = idx
    BY <1>0, <2>1
  <2> QED
    BY <2>1, <2>2 DEF WalksAnswer
<1>5. CASE RefuseSubnet \/ SubnetSetFails \/ Publish
  <2>1. /\ pc # "down" /\ pc' = "pass" /\ port \in Port /\ UNCHANGED <<due, port>>
        /\ idx \in 1..Len(Subnets) /\ idx' = idx + 1
    BY <1>5, AnswersSubnet
  <2>2. PICK ans \in Answer \ {"none"} : Answered(ans)
    BY <1>5, AnswersSubnet
  <2>3. /\ answer'[port][Subnets[idx]] # "none"
        /\ \A p \in Port, s \in DOMAIN AsnOf : answer[p][s] # "none" => answer'[p][s] # "none"
    BY <2>1, <2>2, AnsweredKeeps DEF Subnet
  <2>4. \A i \in 1..Len(Subnets) : i < idx' => i < idx \/ i = idx
    BY <1>0, <2>1
  <2> QED
    BY <1>0, <2>1, <2>3, <2>4 DEF WalksAnswer
<1>6. CASE CheckSubnet \/ SubnetGranted
  BY <1>6 DEF CheckSubnet, SubnetGranted, Walking, historyVars, WalksAnswer
<1>7. CASE MarkScanned
  <2>1. /\ pc = "pass" /\ pc' # "down" /\ port' = NoPort /\ due' = due \ {port}
        /\ answer' = answer /\ port # NoPort /\ idx = Len(Subnets) + 1
    BY <1>7 DEF MarkScanned, historyVars
  <2>2. ASSUME NEW s \in DOMAIN AsnOf \ Blocked PROVE answer[port][s] # "none"
    <3>1. PICK i \in 1..Len(Subnets) : s = Subnets[i]
      BY <1>0
    <3>2. i < idx
      BY <1>0, <2>1
    <3> QED
      BY <2>1, <3>1, <3>2 DEF WalksAnswer
  <2> QED
    BY <2>1, <2>2 DEF WalksAnswer
<1>8. CASE Crash
  BY <1>8 DEF Crash, WalksAnswer
<1>9. CASE UNCHANGED <<pc, due, port, idx, answer>>
  BY <1>9 DEF WalksAnswer
<1> QED
  BY <1>1, <1>2, <1>3, <1>4, <1>5, <1>6, <1>7, <1>8, <1>9
     DEF Next, Reset, StoreLate, Tick, vars, passVars, historyVars

LEMMA InitWalks == Init => WalksAnswer
BY DEF Init, WalksAnswer

(* For any ports, subnets and limits, and whatever fails: when a pass is   *)
(* over, every port has an answer for every subnet that is not blocked.    *)
THEOREM CoordinatorAnswersEverySubnet == Spec => []EverySubnetAnswered
<1>1. WalksAnswer /\ PassTypeOK => EverySubnetAnswered
  BY DEF WalksAnswer, PassTypeOK, EverySubnetAnswered
<1> QED
  BY <1>1, InitWalks, WalksStep, PassTypes, Answers, PTL DEF Spec
=============================================================================
