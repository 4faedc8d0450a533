-------------------------- MODULE ApiServer_proofs --------------------------
(***************************************************************************)
(* Theorems about ApiServer: types, no window sees more than two limits,   *)
(* and an accepted opt-out is on the list.                                 *)
(***************************************************************************)
EXTENDS ApiServer, TLAPS

\* The types of the handlers, and of what Redis and the history know.
HandlerTypes ==
  /\ step \in [Handler -> {"idle", "arrived", "known", "first", "admitted", "listed", "answer"}]
  /\ from \in [Handler -> Client \cup {Nobody}]
  /\ retries \in [Handler -> 0..MaxRetries]
  /\ asked \in [Handler -> OptOut \cup {None}]
  /\ \A h \in Handler :
       /\ step[h] = "idle" <=> from[h] = Nobody
       /\ step[h] # "known" => retries[h] = 0
       /\ step[h] \in {"listed", "answer"} <=> asked[h] # None

LimitTypes ==
  /\ counter \in [Client -> [count : 0..(Limit + 1), left : 1..NoExpiry]]
  /\ late \in [Client -> Nat]
  /\ age \in [Client -> [Memory -> 0..TTL]]
  /\ harmed \subseteq Client

ListTypes ==
  /\ optOuts \subseteq Address /\ optOutNets \subseteq SUBSET Address
  /\ promised \subseteq OptOut

LEMMA OptOuts ==
  ASSUME NEW o \in OptOut
  PROVE  /\ o # None /\ o.addrs \subseteq Address
         /\ o.kind = "ip" \/ o.kind = "cidr"
<1>1. CASE o \in [kind : {"ip"}, addrs : {{a} : a \in Ips}]
  BY <1>1, ApiAssumption DEF None
<1>2. CASE o \in [kind : {"cidr"}, addrs : Nets]
  BY <1>2, ApiAssumption DEF None
<1> QED
  BY <1>1, <1>2 DEF OptOut

\* Where a goroutine goes keeps the types of the handlers.
LEMMA HandlersMove ==
  ASSUME HandlerTypes, NEW h \in Handler,
         \/ \E s \in {"known", "first", "admitted"} :
              step[h] \in {"arrived", "known", "first"} /\ Goto(h, s)
         \/ step[h] = "listed" /\ Goto(h, "answer")
         \/ Done(h)
  PROVE  HandlerTypes'
<1>1. CASE \E s \in {"known", "first", "admitted"} :
             step[h] \in {"arrived", "known", "first"} /\ Goto(h, s)
  BY <1>1, ApiAssumption DEF HandlerTypes, Goto
<1>2. CASE step[h] = "listed" /\ Goto(h, "answer")
  BY <1>2, ApiAssumption DEF HandlerTypes, Goto
<1>3. CASE Done(h)
  BY <1>3, OptOuts, ApiAssumption DEF HandlerTypes, Done
<1> QED
  BY <1>1, <1>2, <1>3

LEMMA HandlerTypesStep == HandlerTypes /\ [Next]_vars => HandlerTypes'
<1> SUFFICES ASSUME HandlerTypes, [Next]_vars
             PROVE  HandlerTypes'
  OBVIOUS
<1>1. ASSUME NEW h \in Handler, Arrive(h)
      PROVE  HandlerTypes'
  BY <1>1, ApiAssumption DEF HandlerTypes, Arrive
<1>2. ASSUME NEW h \in Handler, AddOptOut(h)
      PROVE  HandlerTypes'
  BY <1>2, OptOuts DEF HandlerTypes, AddOptOut
<1>3. ASSUME NEW h \in Handler,
             Authenticate(h) \/ Incr(h) \/ IncrFails(h) \/ Expire(h) \/ ExpireFails(h)
      PROVE  HandlerTypes'
  BY <1>3, HandlersMove DEF Authenticate, Incr, IncrFails, Expire, ExpireFails
<1>4. ASSUME NEW h \in Handler, Serve(h) \/ Persist(h) \/ Accept(h)
      PROVE  HandlerTypes'
  BY <1>4, HandlersMove DEF Serve, Persist, Accept
<1>5. CASE Crash
  BY <1>5, ApiAssumption DEF Crash, HandlerTypes
<1>6. ASSUME NEW h \in Handler, IncrAgain(h)
      PROVE  HandlerTypes'
  <2>1. retries[h] + 1 \in 0..MaxRetries
    BY <1>6, ApiAssumption DEF IncrAgain, HandlerTypes
  <2> QED
    BY <1>6, <2>1 DEF IncrAgain, HandlerTypes
<1>7. CASE \/ \E h \in Handler : ExpireAgain(h)
           \/ \E c \in Client : IncrLate(c)
           \/ Tick
           \/ UNCHANGED vars
  BY <1>7 DEF ExpireAgain, IncrLate, Tick, vars, HandlerTypes
<1> QED
  BY <1>1, <1>2, <1>3, <1>4, <1>5, <1>6, <1>7 DEF Next, Handle
-----------------------------------------------------------------------------
\* The counters and the ages after INCR, EXPIRE and a tick.
LEMMA IncrementedIs ==
  ASSUME LimitTypes, NEW c \in Client
  PROVE  /\ Incremented(c) \in [count : 0..(Limit + 1), left : 1..NoExpiry]
         /\ Incremented(c).left = counter[c].left
         /\ counter[c].count <= Limit => Incremented(c).count = counter[c].count + 1
         /\ counter[c].count > Limit => Incremented(c).count = counter[c].count
BY ApiAssumption DEF LimitTypes, Incremented, NoExpiry

LEMMA AgedIs ==
  ASSUME NEW k \in [count : 0..(Limit + 1), left : 1..NoExpiry]
  PROVE  /\ Aged(k) \in [count : 0..(Limit + 1), left : 1..NoExpiry]
         /\ k.left = NoExpiry => Aged(k) = k
         /\ k.left # NoExpiry /\ k.left = 1 => Aged(k) = Absent
         /\ k.left # NoExpiry /\ k.left # 1 => /\ Aged(k).count = k.count
                                               /\ Aged(k).left = k.left - 1
BY ApiAssumption DEF Aged, Absent, NoExpiry

LEMMA LateMoves ==
  ASSUME late \in [Client -> Nat], NEW c \in Client,
         \/ UNCHANGED late
         \/ late' = [late EXCEPT ![c] = @ + 1]
         \/ late[c] > 0 /\ late' = [late EXCEPT ![c] = @ - 1]
  PROVE  late' \in [Client -> Nat]
OBVIOUS

LEMMA LimitTypesStep == HandlerTypes /\ LimitTypes /\ [Next]_vars => LimitTypes'
<1> SUFFICES ASSUME HandlerTypes, LimitTypes, [Next]_vars
             PROVE  LimitTypes'
  OBVIOUS
<1>1. \A h \in Handler : step[h] # "idle" => from[h] \in Client
  BY DEF HandlerTypes
<1>2. ASSUME NEW h \in Handler, Incr(h)
      PROVE  LimitTypes'
  <2>1. PICK c \in Client : c = from[h]
    BY <1>1, <1>2 DEF Incr
  <2>2. counter' = [counter EXCEPT ![c] = Incremented(c)] /\ UNCHANGED <<late, harmed>>
    BY <1>2, <2>1 DEF Incr
  <2>3. age' \in [Client -> [Memory -> 0..TTL]]
    <3>1. CASE UNCHANGED age
      BY <3>1 DEF LimitTypes
    <3>2. CASE Admit(c)
      <4>1. \A i \in Memory : i # 1 => i - 1 \in Memory
        BY ApiAssumption DEF Memory
      <4>2. [i \in Memory |-> IF i = 1 THEN 0 ELSE age[c][i - 1]] \in [Memory -> 0..TTL]
        BY <4>1, ApiAssumption DEF LimitTypes
      <4> QED
        BY <3>2, <4>2 DEF Admit, LimitTypes
    <3> QED
      BY <1>2, <2>1, <3>1, <3>2 DEF Incr
  <2> QED
    BY <2>2, <2>3, IncrementedIs DEF LimitTypes
<1>3. ASSUME NEW c \in Client,
             \/ UNCHANGED counter
             \/ counter' = [counter EXCEPT ![c] = Incremented(c)]
             \/ counter' = [counter EXCEPT ![c].left = TTL],
             \/ UNCHANGED late
             \/ late' = [late EXCEPT ![c] = @ + 1]
             \/ late[c] > 0 /\ late' = [late EXCEPT ![c] = @ - 1],
             harmed' = harmed \/ harmed' = harmed \cup {c}, UNCHANGED age
      PROVE  LimitTypes'
  <2>1. TTL \in 1..NoExpiry
    BY ApiAssumption DEF NoExpiry
  <2>2. counter' \in [Client -> [count : 0..(Limit + 1), left : 1..NoExpiry]]
    BY <1>3, <2>1, IncrementedIs DEF LimitTypes
  <2>3. late' \in [Client -> Nat]
    BY <1>3, LateMoves DEF LimitTypes
  <2> QED
    BY <1>3, <2>2, <2>3 DEF LimitTypes
<1>4. ASSUME NEW h \in Handler,
             IncrAgain(h) \/ IncrFails(h) \/ Expire(h) \/ ExpireAgain(h) \/ ExpireFails(h)
      PROVE  LimitTypes'
  <2>1. PICK c \in Client : c = from[h]
    BY <1>1, <1>4 DEF IncrAgain, IncrFails, Expire, ExpireAgain, ExpireFails
  <2> QED
    BY <1>3, <1>4, <2>1 DEF IncrAgain, IncrFails, GivenUp, Expire, ExpireAgain, ExpireFails
<1>5. ASSUME NEW c \in Client, IncrLate(c)
      PROVE  LimitTypes'
  BY <1>3, <1>5 DEF IncrLate
<1>6. CASE Crash
  BY <1>1, <1>6 DEF Crash, LimitTypes
<1>7. CASE Tick
  <2>1. counter' \in [Client -> [count : 0..(Limit + 1), left : 1..NoExpiry]]
    BY <1>7, AgedIs DEF Tick, LimitTypes
  <2>2. \A n \in 0..TTL : (IF n = TTL THEN TTL ELSE n + 1) \in 0..TTL
    BY ApiAssumption
  <2>3. \A c \in Client, i \in Memory :
          (IF age[c][i] = TTL THEN TTL ELSE age[c][i] + 1) \in 0..TTL
    BY <2>2 DEF LimitTypes
  <2>4. age' \in [Client -> [Memory -> 0..TTL]]
    BY <1>7, <2>3 DEF Tick
  <2> QED
    BY <1>7, <2>1, <2>4 DEF Tick, LimitTypes
<1>8. ASSUME NEW h \in Handler,
             \/ Arrive(h) \/ Authenticate(h) \/ Serve(h) \/ AddOptOut(h) \/ Persist(h) \/ Accept(h)
      PROVE  LimitTypes'
  BY <1>8 DEF Arrive, Authenticate, Serve, AddOptOut, Persist, Accept, limitVars, LimitTypes
<1>9. CASE UNCHANGED vars
  BY <1>9 DEF vars, limitVars, LimitTypes
<1> QED
  BY <1>2, <1>4, <1>5, <1>6, <1>7, <1>8, <1>9 DEF Next, Handle
-----------------------------------------------------------------------------
(* What was entered is on the list, whether it has been answered for or    *)
(* not: what a handler has entered, and what was promised.                 *)
Listed(o) == \A a \in o.addrs : IsBlocked(a)

OptOutsListed ==
  /\ \A h \in Handler : Listed(asked[h])
  /\ \A o \in promised : Listed(o)

\* The list only grows while the process lives.
LEMMA ListGrows ==
  ASSUME optOuts \subseteq optOuts', optOutNets \subseteq optOutNets', NEW o, Listed(o)
  PROVE  Listed(o)'
BY DEF Listed, IsBlocked

LEMMA ListStep ==
  HandlerTypes /\ ListTypes /\ OptOutsListed /\ [Next]_vars => ListTypes' /\ OptOutsListed'
<1> SUFFICES ASSUME HandlerTypes, ListTypes, OptOutsListed, [Next]_vars
             PROVE  ListTypes' /\ OptOutsListed'
  OBVIOUS
<1>1. Listed(None)'
  BY DEF Listed, None
<1>2. ASSUME NEW h \in Handler, AddOptOut(h)
      PROVE  ListTypes' /\ OptOutsListed'
  <2>1. PICK o \in OptOut :
          /\ asked' = [asked EXCEPT ![h] = o]
          /\ optOuts' = IF o.kind = "ip" THEN optOuts \cup o.addrs ELSE optOuts
          /\ optOutNets' = IF o.kind = "cidr" THEN optOutNets \cup {o.addrs} ELSE optOutNets
          /\ UNCHANGED promised
    BY <1>2 DEF AddOptOut
  <2>2. o.addrs \subseteq Address /\ (o.kind = "ip" \/ o.kind = "cidr")
    BY OptOuts
  <2>3. ListTypes'
    BY <2>1, <2>2 DEF ListTypes
  <2>4. Listed(o)'
    BY <2>1, <2>2 DEF Listed, IsBlocked
  <2>5. \A g \in Handler : Listed(asked[g])'
    BY <2>1, <2>4, ListGrows DEF OptOutsListed, HandlerTypes
  <2> QED
    BY <2>1, <2>3, <2>5, ListGrows DEF OptOutsListed
<1>3. ASSUME NEW h \in Handler, Accept(h)
      PROVE  ListTypes' /\ OptOutsListed'
  <2>1. /\ asked[h] \in OptOut
        /\ promised' = promised \cup {asked[h]} /\ asked' = [asked EXCEPT ![h] = None]
        /\ UNCHANGED listVars
    BY <1>3 DEF Accept, Done, HandlerTypes
  <2> QED
    BY <1>1, <2>1, ListGrows DEF listVars, ListTypes, OptOutsListed, HandlerTypes
<1>4. ASSUME NEW h \in Handler, Arrive(h) \/ (Handle(h) /\ ~AddOptOut(h) /\ ~Accept(h))
      PROVE  ListTypes' /\ OptOutsListed'
  <2>1. UNCHANGED <<listVars, promised>>
    BY <1>4 DEF Arrive, Handle, Authenticate, Incr, IncrFails, Expire, ExpireFails, Serve, Persist
  <2>2. asked' = asked \/ asked' = [asked EXCEPT ![h] = None]
    BY <1>4 DEF Arrive, Handle, Authenticate, Incr, IncrFails, Expire, ExpireFails, Serve, Persist,
                Goto, Done
  <2> QED
    BY <1>1, <2>1, <2>2, ListGrows DEF listVars, ListTypes, OptOutsListed, HandlerTypes
<1>5. CASE Crash
  BY <1>1, <1>5 DEF Crash, ListTypes, OptOutsListed
<1>6. CASE \/ \E h \in Handler : IncrAgain(h) \/ ExpireAgain(h)
           \/ \E c \in Client : IncrLate(c)
           \/ Tick
           \/ UNCHANGED vars
  <2>1. UNCHANGED <<asked, listVars, promised>>
    BY <1>6 DEF IncrAgain, ExpireAgain, IncrLate, Tick, vars
  <2> QED
    BY <2>1, ListGrows DEF listVars, ListTypes, OptOutsListed
<1> QED
  BY <1>2, <1>3, <1>4, <1>5, <1>6 DEF Next

\* At the start nobody is served, nothing is counted or promised.
LEMMA Starts == Init => HandlerTypes /\ LimitTypes /\ ListTypes /\ OptOutsListed
<1> SUFFICES ASSUME Init
             PROVE  HandlerTypes /\ LimitTypes /\ ListTypes /\ OptOutsListed
  OBVIOUS
<1>1. HandlerTypes
  BY ApiAssumption DEF Init, HandlerTypes
<1>2. LimitTypes
  BY ApiAssumption DEF Init, LimitTypes, Absent, NoExpiry
<1>3. ListTypes /\ OptOutsListed
  BY DEF Init, ListTypes, OptOutsListed, Listed, None
<1> QED
  BY <1>1, <1>2, <1>3

ServerInv == HandlerTypes /\ LimitTypes /\ ListTypes /\ OptOutsListed

LEMMA ServerInvariant == Spec => []ServerInv
<1>1. Init => ServerInv
  BY Starts DEF ServerInv
<1>2. ServerInv /\ [Next]_vars => ServerInv'
  BY HandlerTypesStep, LimitTypesStep, ListStep DEF ServerInv
<1> QED
  BY <1>1, <1>2, PTL DEF Spec

(* The types of the goroutines' places, the counters and the blocklist.    *)
THEOREM ApiTypes == Spec => []TypeOK
<1>1. ServerInv => TypeOK
  BY DEF ServerInv, HandlerTypes, LimitTypes, ListTypes, TypeOK
<1> QED
  BY <1>1, ServerInvariant, PTL

(* An opt-out that was answered with 201 is on the list of the process     *)
(* that answered, until it ends: the list has it before the handler goes   *)
(* on, and no request takes anything off.                                  *)
THEOREM ApiKeepsOptOuts == Spec => []OptOutKept
<1>1. ServerInv => OptOutKept
  BY DEF ServerInv, OptOutsListed, Listed, OptOutKept
<1> QED
  BY <1>1, ServerInvariant, PTL
-----------------------------------------------------------------------------
(* The last k admissions were counted by the counter that is in Redis.     *)
(* Those before them are a TTL ago when that counter ends, for its EXPIRE  *)
(* came after them; those before the last k + Limit are so already.        *)
CountsLast(c, k) ==
  /\ k <= counter[c].count
  /\ counter[c].left # NoExpiry => \A i \in Memory : i > k => TTL <= age[c][i] + counter[c].left
  /\ \A i \in Memory : i > k + Limit => age[c][i] = TTL

WindowsApart == \A c \in Client : \E k \in 0..Limit : CountsLast(c, k)

\* A count that did not fall, under a counter with the time it had.
LEMMA CountedOn ==
  ASSUME LimitTypes, NEW c \in Client, NEW k \in 0..Limit, CountsLast(c, k),
         counter'[c].count \in Nat, counter[c].count <= counter'[c].count,
         counter'[c].left \in {counter[c].left, TTL}, age'[c] = age[c]
  PROVE  CountsLast(c, k)'
<1>1. \A i \in Memory : age[c][i] \in Nat
  BY ApiAssumption DEF LimitTypes
<1>2. counter[c].count \in Nat
  BY ApiAssumption DEF LimitTypes
<1>3. PICK n \in Nat, n2 \in Nat : n = counter[c].count /\ n2 = counter'[c].count
  BY <1>2
<1>4. k <= counter'[c].count
  BY <1>3 DEF CountsLast
<1>5. counter'[c].left # NoExpiry =>
        \A i \in Memory : i > k => TTL <= age'[c][i] + counter'[c].left
  BY <1>1, ApiAssumption DEF CountsLast
<1> QED
  BY <1>4, <1>5 DEF CountsLast

LEMMA IncrKeepsWindows ==
  ASSUME LimitTypes, WindowsApart, NEW c \in Client,
         counter' = [counter EXCEPT ![c] = Incremented(c)],
         \/ UNCHANGED age
         \/ Incremented(c).count <= Limit /\ Admit(c)
  PROVE  WindowsApart'
<1>1. ASSUME NEW d \in Client, d # c \/ UNCHANGED age
      PROVE  \E k \in 0..Limit : CountsLast(d, k)'
  <2>1. PICK k \in 0..Limit : CountsLast(d, k)
    BY DEF WindowsApart
  <2>2. PICK n \in Nat : n = counter[d].count
    BY ApiAssumption DEF LimitTypes
  <2>3. counter'[d] = IF d = c THEN Incremented(c) ELSE counter[d]
    BY DEF LimitTypes
  <2>4. counter'[d].count = n \/ counter'[d].count = n + 1
    BY <2>2, <2>3, IncrementedIs, ApiAssumption
  <2>5. counter'[d].count \in Nat /\ n <= counter'[d].count
    BY <2>4
  <2>6. counter'[d].left = counter[d].left
    BY <2>3, IncrementedIs
  <2>7. age'[d] = age[d]
    BY <1>1 DEF Admit, LimitTypes
  <2> QED
    BY <2>1, <2>2, <2>5, <2>6, <2>7, CountedOn
<1>2. ASSUME Incremented(c).count <= Limit, Admit(c)
      PROVE  \E k \in 0..Limit : CountsLast(c, k)'
  <2>1. PICK k \in 0..Limit : CountsLast(c, k)
    BY DEF WindowsApart
  <2>2. PICK n \in 0..(Limit + 1) : n = counter[c].count
    BY DEF LimitTypes
  <2>3. n + 1 <= Limit /\ counter'[c].count = n + 1 /\ counter'[c].left = counter[c].left
    <3>1. counter'[c] = Incremented(c)
      BY DEF LimitTypes
    <3>2. n > Limit => Incremented(c).count = n
      BY <2>2, IncrementedIs
    <3>3. n <= Limit
      BY <1>2, <3>2, ApiAssumption
    <3> QED
      BY <1>2, <2>2, <3>1, <3>3, IncrementedIs
  <2>4. k <= n
    BY <2>1, <2>2 DEF CountsLast
  <2>5. k + 1 \in 0..Limit /\ k + 1 <= counter'[c].count
    BY <2>2, <2>3, <2>4, ApiAssumption
  <2>6. \A i \in Memory : i # 1 => i - 1 \in Memory /\ age'[c][i] = age[c][i - 1]
    BY <1>2, ApiAssumption DEF Admit, LimitTypes, Memory
  <2>7. \A i \in Memory : i \in Nat
    BY ApiAssumption DEF Memory
  <2>8. \A i \in Memory : i > k + 1 => i # 1 /\ i - 1 > k
    BY <2>7
  <2>9. \A i \in Memory : i > k + 1 + Limit => i # 1 /\ i - 1 > k + Limit
    BY <2>7, ApiAssumption
  <2>10. counter'[c].left # NoExpiry =>
           \A i \in Memory : i > k + 1 => TTL <= age'[c][i] + counter'[c].left
    BY <2>1, <2>3, <2>6, <2>8 DEF CountsLast
  <2>11. \A i \in Memory : i > k + 1 + Limit => age'[c][i] = TTL
    BY <2>1, <2>6, <2>9 DEF CountsLast
  <2> QED
    BY <2>5, <2>10, <2>11 DEF CountsLast
<1> QED
  BY <1>1, <1>2 DEF WindowsApart

\* EXPIRE starts a window that every admission so far precedes.
LEMMA ExpireKeepsWindows ==
  ASSUME LimitTypes, WindowsApart, NEW c \in Client,
         counter' = [counter EXCEPT ![c].left = TTL], UNCHANGED age
  PROVE  WindowsApart'
<1> SUFFICES ASSUME NEW d \in Client
             PROVE  \E k \in 0..Limit : CountsLast(d, k)'
  BY DEF WindowsApart
<1>1. PICK k \in 0..Limit : CountsLast(d, k)
  BY DEF WindowsApart
<1>2. counter'[d].count = counter[d].count /\ counter'[d].left \in {counter[d].left, TTL}
  BY DEF LimitTypes
<1>3. counter[d].count \in Nat /\ counter[d].count <= counter[d].count
  BY ApiAssumption DEF LimitTypes
<1> QED
  BY <1>1, <1>2, <1>3, CountedOn

LEMMA TickKeepsWindows ==
  ASSUME LimitTypes, WindowsApart, Tick
  PROVE  WindowsApart'
<1> SUFFICES ASSUME NEW c \in Client
             PROVE  \E k \in 0..Limit : CountsLast(c, k)'
  BY DEF WindowsApart
<1>1. PICK k \in 0..Limit : CountsLast(c, k)
  BY DEF WindowsApart
<1>2. \A i \in Memory : age[c][i] \in Nat /\ age[c][i] <= TTL
  BY ApiAssumption DEF LimitTypes
<1>3. \A i \in Memory : age'[c][i] = IF age[c][i] = TTL THEN TTL ELSE age[c][i] + 1
  BY DEF Tick
<1>4. \A i \in Memory : age'[c][i] = TTL \/ age'[c][i] = age[c][i] + 1
  BY <1>3
<1>5. counter[c] \in [count : 0..(Limit + 1), left : 1..NoExpiry] /\ counter'[c] = Aged(counter[c])
  BY DEF LimitTypes, Tick
<1>6. \A i \in Memory : i > k + Limit => age'[c][i] = TTL
  BY <1>1, <1>3 DEF CountsLast
<1>7. CASE counter[c].left = NoExpiry
  BY <1>1, <1>5, <1>6, <1>7, AgedIs DEF CountsLast
<1>8. CASE counter[c].left # NoExpiry /\ counter[c].left = 1
  <2>1. counter'[c].count = 0 /\ counter'[c].left = NoExpiry
    BY <1>5, <1>8, AgedIs DEF Absent
  <2>2. \A i \in Memory : i > 0 + Limit => i > k
    BY ApiAssumption DEF Memory
  <2>3. \A i \in Memory : i > k => TTL <= age[c][i] + 1
    BY <1>1, <1>8 DEF CountsLast
  <2>4. \A i \in Memory : i > k => age'[c][i] = TTL
    BY <1>2, <1>3, <2>3, ApiAssumption
  <2> QED
    BY <2>1, <2>2, <2>4, ApiAssumption DEF CountsLast
<1>9. CASE counter[c].left # NoExpiry /\ counter[c].left # 1
  <2>1. PICK l \in Nat : l = counter[c].left /\ l > 1
    BY <1>5, <1>9, ApiAssumption DEF NoExpiry
  <2>2. counter'[c].count = counter[c].count /\ counter'[c].left = l - 1
    BY <1>5, <1>9, <2>1, AgedIs
  <2>3. \A i \in Memory : i > k => TTL <= age[c][i] + l
    BY <1>1, <1>9, <2>1 DEF CountsLast
  <2>4. \A i \in Memory : i > k => TTL <= age'[c][i] + (l - 1)
    BY <1>2, <1>4, <2>1, <2>3, ApiAssumption
  <2> QED
    BY <1>1, <1>6, <2>2, <2>4 DEF CountsLast
<1> QED
  BY <1>7, <1>8, <1>9

LEMMA WindowsStep == ServerInv /\ WindowsApart /\ [Next]_vars => WindowsApart'
<1> SUFFICES ASSUME ServerInv, WindowsApart, [Next]_vars
             PROVE  WindowsApart'
  OBVIOUS
<1>1. LimitTypes /\ \A h \in Handler : step[h] # "idle" => from[h] \in Client
  BY DEF ServerInv, HandlerTypes
<1>2. ASSUME UNCHANGED <<counter, age>>
      PROVE  WindowsApart'
  BY <1>2 DEF WindowsApart, CountsLast
<1>3. ASSUME NEW h \in Handler, Incr(h)
      PROVE  WindowsApart'
  <2>1. PICK c \in Client : c = from[h]
    BY <1>1, <1>3 DEF Incr
  <2>2. /\ counter' = [counter EXCEPT ![c] = Incremented(c)]
        /\ UNCHANGED age \/ (~(Incremented(c).count > Limit) /\ Admit(c))
    BY <1>3, <2>1 DEF Incr
  <2>3. ~(Incremented(c).count > Limit) => Incremented(c).count <= Limit
    BY <1>1, IncrementedIs, ApiAssumption
  <2> QED
    BY <1>1, <2>2, <2>3, IncrKeepsWindows
<1>4. ASSUME NEW c \in Client, IncrLate(c)
      PROVE  WindowsApart'
  <2>1. counter' = [counter EXCEPT ![c] = Incremented(c)] /\ UNCHANGED age
    BY <1>4 DEF IncrLate
  <2> QED
    BY <1>1, <2>1, IncrKeepsWindows
<1>5. ASSUME NEW h \in Handler, Expire(h) \/ ExpireAgain(h) \/ ExpireFails(h)
      PROVE  WindowsApart'
  <2>1. PICK c \in Client : c = from[h]
    BY <1>1, <1>5 DEF Expire, ExpireAgain, ExpireFails
  <2>2. UNCHANGED age /\ (UNCHANGED counter \/ counter' = [counter EXCEPT ![c].left = TTL])
    BY <1>5, <2>1 DEF Expire, ExpireAgain, ExpireFails
  <2> QED
    BY <1>1, <1>2, <2>2, ExpireKeepsWindows
<1>6. CASE Tick
  BY <1>1, <1>6, TickKeepsWindows
<1>7. ASSUME NEW h \in Handler,
             \/ Arrive(h) \/ Authenticate(h) \/ Serve(h) \/ AddOptOut(h) \/ Persist(h) \/ Accept(h)
      PROVE  WindowsApart'
  BY <1>2, <1>7 DEF Arrive, Authenticate, Serve, AddOptOut, Persist, Accept, limitVars
<1>8. CASE Crash \/ (\E h \in Handler : IncrAgain(h) \/ IncrFails(h)) \/ UNCHANGED vars
  BY <1>2, <1>8 DEF Crash, IncrAgain, IncrFails, vars, limitVars
<1> QED
  BY <1>3, <1>4, <1>5, <1>6, <1>7, <1>8 DEF Next, Handle

(* No window of a TTL sees more than two limits of a client's requests,    *)
(* whatever interleaves between INCR and EXPIRE and whichever of them      *)
(* fail, are sent again or are carried out late.                           *)
THEOREM ApiKeepsTwoWindows == Spec => []TwoWindows
<1>1. Init => WindowsApart
  <2>1. ASSUME Init, NEW c \in Client
        PROVE  CountsLast(c, 0)
    BY <2>1 DEF Init, CountsLast, Absent
  <2> QED
    BY <2>1, ApiAssumption DEF WindowsApart
<1>2. ASSUME LimitTypes, WindowsApart
      PROVE  TwoWindows
  <2>1. 2 * Limit + 1 \in Memory /\ \A k \in 0..Limit : 2 * Limit + 1 > k + Limit
    BY ApiAssumption DEF Memory
  <2> QED
    BY <1>2, <2>1 DEF WindowsApart, CountsLast, TwoWindows
<1>3. ServerInv /\ WindowsApart => TwoWindows
  BY <1>2 DEF ServerInv
<1> QED
  BY <1>1, <1>3, ServerInvariant, WindowsStep, PTL DEF Spec

=============================================================================
