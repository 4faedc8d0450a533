------------------------------ MODULE ApiServer ------------------------------
(***************************************************************************)
(* The request path of the API (cmd/api/main.go): the API key is checked   *)
(* (APIKeyAuthMiddleware), the request is counted in Redis and admitted or *)
(* refused (RateLimitMiddleware), and a POST to /api/opt-out enters the    *)
(* blocklist of the process (HandleOptOut).  Requests are served by        *)
(* goroutines that interleave at every call to Redis.                      *)
(*                                                                         *)
(* The Redis client sends a command again when its reply does not come.    *)
(* Redis may have carried it out by then, or do so later, or never; one    *)
(* that answers an INCR tells the count with all of these in it.           *)
(*                                                                         *)
(* Time is relative: a key knows the ticks it has left, and the history of *)
(* admissions has their ages, so that the server may run for ever.         *)
(***************************************************************************)
EXTENDS Naturals

CONSTANTS
  Handler,        \* goroutines that serve a request
  Client,         \* the identifiers that requests carry: API keys, addresses
  Unknown,        \* those that are API keys which apikeys:valid lacks
  Limit,          \* requestsPerMinute: 60
  TTL,            \* of a counter: 60 seconds
  MaxRetries,     \* of the Redis client at a command: 3
  MaxLate,        \* INCRs of a client that may be late at a time (a bound)
  Address,        \* the addresses that can be opted out
  Default,        \* those of DefaultCIDRs
  Ips,            \* the addresses that requests opt out one by one
  Nets,           \* the prefixes that requests opt out, /8 at the widest
  Nobody,         \* the identifier of no request
  Faults          \* whether calls to Redis fail, clients leave and the process dies

ASSUME ApiAssumption ==
  /\ Unknown \subseteq Client
  /\ Limit \in Nat \ {0} /\ TTL \in Nat \ {0}
  /\ MaxRetries \in Nat /\ MaxLate \in Nat
  /\ Default \subseteq Address
  /\ Ips \subseteq Address
  /\ Nets \subseteq SUBSET Address
  /\ Faults \in BOOLEAN
  /\ Nobody \notin Client

VARIABLES
  step,       \* where each goroutine is
  from,       \* the identifier of the request it serves
  retries,    \* how often its INCR was sent again
  asked,      \* the opt-out in it, once HandleOptOut has read it
  counter,    \* Redis: the counter of each identifier and the ticks it has left
  late,       \* INCRs given up that Redis may still carry out
  age,        \* history: of each identifier's last admissions, the latest first
  harmed,     \* history: identifiers whose counter got no EXPIRE
  optOuts, optOutNets,  \* the blocklist: addresses and CIDRs opted out
  promised    \* history: opt-outs answered with 201 since the process started

limitVars == <<counter, late, age, harmed>>
listVars  == <<optOuts, optOutNets>>
vars == <<step, from, retries, asked, limitVars, listVars, promised>>

NoExpiry == TTL + 1
Absent == [count |-> 0, left |-> NoExpiry]

\* So many admissions are remembered, with an age of TTL if they are older.
Memory == 1..(2 * Limit + 1)

\* What can be opted out: one address or a CIDR.
OptOut == [kind : {"ip"}, addrs : {{a} : a \in Ips}] \cup [kind : {"cidr"}, addrs : Nets]

None == [kind |-> "none", addrs |-> {}]
TypeOK ==
  /\ step \in [Handler -> {"idle", "arrived", "known", "first", "admitted", "listed", "answer"}]
  /\ from \in [Handler -> Client \cup {Nobody}]
  /\ retries \in [Handler -> 0..MaxRetries]
  /\ asked \in [Handler -> OptOut \cup {None}]
  /\ \A h \in Handler :
       /\ step[h] = "idle" <=> from[h] = Nobody
       /\ step[h] # "known" => retries[h] = 0
       /\ step[h] \in {"listed", "answer"} <=> asked[h] # None
  /\ counter \in [Client -> [count : 0..(Limit + 1), left : 1..NoExpiry]]
  /\ late \in [Client -> Nat]
  /\ age \in [Client -> [Memory -> 0..TTL]]
  /\ harmed \subseteq Client
  /\ optOuts \subseteq Address /\ optOutNets \subseteq SUBSET Address
  /\ promised \subseteq OptOut

Init ==
  /\ step = [h \in Handler |-> "idle"]
  /\ from = [h \in Handler |-> Nobody]
  /\ retries = [h \in Handler |-> 0]
  /\ asked = [h \in Handler |-> None]
  /\ counter = [c \in Client |-> Absent]
  /\ late = [c \in Client |-> 0]
  /\ age = [c \in Client |-> [i \in Memory |-> TTL]]
  /\ harmed = {}
  /\ optOuts = {} /\ optOutNets = {}
  /\ promised = {}
-----------------------------------------------------------------------------
Goto(h, s) ==
  /\ step' = [step EXCEPT ![h] = s]
  /\ retries' = [retries EXCEPT ![h] = 0]
  /\ UNCHANGED <<from, asked>>

\* Mutant: what was asked is kept for the next request.
DoneKeepsOptOut(h) ==
  /\ step' = [step EXCEPT ![h] = "idle"]
  /\ from' = [from EXCEPT ![h] = Nobody]
  /\ retries' = [retries EXCEPT ![h] = 0]
  /\ UNCHANGED asked

\* The response is written.
Done(h) ==
  /\ step' = [step EXCEPT ![h] = "idle"]
  /\ from' = [from EXCEPT ![h] = Nobody]
  /\ retries' = [retries EXCEPT ![h] = 0]
  /\ asked' = [asked EXCEPT ![h] = None]

Arrive(h) ==
  /\ step[h] = "idle"
  /\ step' = [step EXCEPT ![h] = "arrived"]
  /\ \E c \in Client : from' = [from EXCEPT ![h] = c]
  /\ UNCHANGED <<retries, asked>>
  /\ UNCHANGED <<limitVars, listVars, promised>>

\* APIKeyAuthMiddleware: an unknown key is refused, and so is any when Redis fails.
Authenticate(h) ==
  /\ step[h] = "arrived"
  /\ \/ from[h] \notin Unknown /\ Goto(h, "known")
     \/ (from[h] \in Unknown \/ Faults) /\ Done(h)
  /\ UNCHANGED <<limitVars, listVars, promised>>

\* INCR.  Counts above Limit + 1 are not told apart.
Incremented(c) == [counter[c] EXCEPT !.count = IF @ > Limit THEN @ ELSE @ + 1]

\* History: a request of c is admitted.
Admit(c) ==
  age' = [age EXCEPT ![c] = [i \in Memory |-> IF i = 1 THEN 0 ELSE age[c][i - 1]]]

\* Mutant: the request that reaches the limit plus one is admitted.
IncrAdmitsOneMore(h) ==
  LET c == from[h]
      count == Incremented(c).count
  IN  /\ step[h] = "known"
      /\ counter' = [counter EXCEPT ![c] = Incremented(c)]
      /\ IF counter[c].count > Limit
         THEN Done(h) /\ UNCHANGED age
         ELSE Admit(c) /\ Goto(h, IF count = 1 THEN "first" ELSE "admitted")
      /\ UNCHANGED <<late, harmed, listVars, promised>>

\* checkRateLimit: over the limit, 429.
Incr(h) ==
  LET c == from[h]
      count == Incremented(c).count
  IN  /\ step[h] = "known"
      /\ counter' = [counter EXCEPT ![c] = Incremented(c)]
      /\ IF count > Limit
         THEN Done(h) /\ UNCHANGED age
         ELSE Admit(c) /\ Goto(h, IF count = 1 THEN "first" ELSE "admitted")
      /\ UNCHANGED <<late, harmed, listVars, promised>>

\* The reply does not come, and Redis has still to carry out the INCR.
GivenUp(c) ==
  /\ late[c] < MaxLate
  /\ late' = [late EXCEPT ![c] = @ + 1]

\* The INCR is sent again.
IncrAgain(h) ==
  /\ Faults /\ step[h] = "known" /\ retries[h] < MaxRetries
  /\ GivenUp(from[h]) \/ UNCHANGED late
  /\ retries' = [retries EXCEPT ![h] = @ + 1]
  /\ UNCHANGED <<step, from, asked, counter, age, harmed, listVars, promised>>

\* INCR returns an error, 500.
IncrFails(h) ==
  /\ Faults /\ step[h] = "known"
  /\ GivenUp(from[h]) \/ UNCHANGED late
  /\ Done(h)
  /\ UNCHANGED <<counter, age, harmed, listVars, promised>>

\* Redis carries out an INCR whose reply nobody sees: if it makes the key,
\* nobody sends its EXPIRE.
IncrLate(c) ==
  /\ late[c] > 0
  /\ late' = [late EXCEPT ![c] = @ - 1]
  /\ counter' = [counter EXCEPT ![c] = Incremented(c)]
  /\ harmed' = IF counter[c].count = 0 THEN harmed \cup {c} ELSE harmed
  /\ UNCHANGED <<step, from, retries, asked, age, listVars, promised>>

\* Mutant: the expiry is left to a later request.
ExpireSkipped(h) ==
  /\ step[h] = "first"
  /\ Goto(h, "admitted")
  /\ UNCHANGED <<limitVars, listVars, promised>>

\* EXPIRE, by the request that created the key.
Expire(h) ==
  /\ step[h] = "first"
  /\ counter' = [counter EXCEPT ![from[h]].left = TTL]
  /\ Goto(h, "admitted")
  /\ UNCHANGED <<late, age, harmed, listVars, promised>>

\* Its reply does not come, and it is sent again.
ExpireAgain(h) ==
  /\ Faults /\ step[h] = "first"
  /\ counter' = [counter EXCEPT ![from[h]].left = TTL]
  /\ UNCHANGED <<step, from, retries, asked, late, age, harmed, listVars, promised>>

\* EXPIRE returns an error, 500; if Redis did not apply it the key never expires.
ExpireFails(h) ==
  /\ Faults /\ step[h] = "first"
  /\ \/ counter' = [counter EXCEPT ![from[h]].left = TTL] /\ UNCHANGED harmed
     \/ harmed' = harmed \cup {from[h]} /\ UNCHANGED counter
  /\ Done(h)
  /\ UNCHANGED <<late, age, listVars, promised>>

\* A handler that only reads, or a request that HandleOptOut does not accept:
\* a bad e-mail or address, or a prefix shorter than 8.
Serve(h) ==
  /\ step[h] = "admitted"
  /\ Done(h)
  /\ UNCHANGED <<limitVars, listVars, promised>>

\* Mutant: an opt-out is persisted and not added to the list.
AddOptOutNowhere(h) ==
  /\ step[h] = "admitted"
  /\ \E o \in OptOut : asked' = [asked EXCEPT ![h] = o]
  /\ step' = [step EXCEPT ![h] = "listed"]
  /\ UNCHANGED <<from, retries, limitVars, listVars, promised>>

\* AddOptOut or AddOptOutCIDR.
AddOptOut(h) ==
  /\ step[h] = "admitted"
  /\ \E o \in OptOut :
       /\ asked' = [asked EXCEPT ![h] = o]
       /\ optOuts' = IF o.kind = "ip" THEN optOuts \cup o.addrs ELSE optOuts
       /\ optOutNets' = IF o.kind = "cidr" THEN optOutNets \cup {o.addrs} ELSE optOutNets
  /\ step' = [step EXCEPT ![h] = "listed"]
  /\ UNCHANGED <<from, retries, limitVars, promised>>

\* The Redis write returns: its error is dropped, and nothing reads optout:*.
Persist(h) ==
  /\ step[h] = "listed"
  /\ Goto(h, "answer")
  /\ UNCHANGED <<limitVars, listVars, promised>>

\* 201.
Accept(h) ==
  /\ step[h] = "answer"
  /\ promised' = promised \cup {asked[h]}
  /\ Done(h)
  /\ UNCHANGED <<limitVars, listVars>>

\* The process ends and is restarted; nothing is read back from optout:*.
Crash ==
  /\ Faults
  /\ harmed' = harmed \cup {from[h] : h \in {g \in Handler : step[g] = "first"}}
  /\ step' = [h \in Handler |-> "idle"]
  /\ from' = [h \in Handler |-> Nobody]
  /\ retries' = [h \in Handler |-> 0]
  /\ asked' = [h \in Handler |-> None]
  /\ optOuts' = {} /\ optOutNets' = {} /\ promised' = {}
  /\ UNCHANGED <<counter, late, age>>

\* A key whose time is over is gone.
Aged(k) ==
  IF k.left = NoExpiry THEN k
  ELSE IF k.left = 1 THEN Absent
  ELSE [k EXCEPT !.left = @ - 1]

Tick ==
  /\ counter' = [c \in Client |-> Aged(counter[c])]
  /\ age' = [c \in Client |->
                [i \in Memory |-> IF age[c][i] = TTL THEN TTL ELSE age[c][i] + 1]]
  /\ UNCHANGED <<step, from, retries, asked, late, harmed, listVars, promised>>

Handle(h) ==
  \/ Authenticate(h) \/ Incr(h) \/ IncrFails(h) \/ Expire(h) \/ ExpireFails(h)
  \/ Serve(h) \/ AddOptOut(h) \/ Persist(h) \/ Accept(h)

Next ==
  \/ \E h \in Handler : Arrive(h) \/ Handle(h) \/ IncrAgain(h) \/ ExpireAgain(h)
  \/ \E c \in Client : IncrLate(c)
  \/ Crash
  \/ Tick

Spec == Init /\ [][Next]_vars

\* Requests are served to their end, or the process is; time passes.
FairSpec ==
  /\ Spec
  /\ \A h \in Handler : WF_vars(Handle(h))
  /\ WF_vars(Tick)
-----------------------------------------------------------------------------
IsBlocked(a) ==
  \/ a \in optOuts
  \/ \E n \in optOutNets : a \in n
  \/ a \in Default

(* The window is fixed: a client may spend the end of one and the start of *)
(* the next together, but no TTL ever sees more than two limits, however   *)
(* its requests interleave between INCR and EXPIRE, and although the       *)
(* window starts at the EXPIRE, later than the first request it counts:    *)
(* the admission before its last two limits is a TTL ago.                  *)
TwoWindows == \A c \in Client : age[c][2 * Limit + 1] = TTL

(* A client that is refused is refused for a window at most: its counter   *)
(* goes away, though it goes on asking.  Only a counter without an EXPIRE  *)
(* lasts: an EXPIRE lost to an error, a client that left or a crash, or an *)
(* INCR that made the counter and whose reply nobody saw, so that the      *)
(* count first seen was 2.                                                 *)
RefusalEnds ==
  \A c \in Client : counter[c].count > Limit ~> counter[c].count = 0 \/ c \in harmed

(* Who was told that scans will stop is on the list of the process that    *)
(* told so, for every address of the prefix and however many requests came *)
(* in between, until that process ends.                                    *)
OptOutKept == \A o \in promised : \A a \in o.addrs : IsBlocked(a)
=============================================================================
