--------------------------- MODULE ASNRateLimiter ---------------------------
(***************************************************************************)
(* The per-ASN scan rate limiter (internal/coordinator/asn_ratelimiter.go) *)
(* and the Redis keys rate:asn:<asn> it keeps its counters in.             *)
(*                                                                         *)
(* CheckAndIncrement is a GET, a comparison and a SET: two round trips to  *)
(* Redis with nothing that ties them together.  Each is an action, so time *)
(* may pass, another caller may run and the caller may die between them.   *)
(***************************************************************************)
EXTENDS Naturals, Sequences

CONSTANTS
  ASN,      \* autonomous systems
  Caller,   \* processes that call CheckAndIncrement
  Rate,     \* defaultRate: scans allowed per minute and ASN
  TTL,      \* the 60 seconds a key lives after it is written, in clock units
  Faults,   \* whether Redis calls fail, callers die and counters are reset
  MaxTime   \* bound of a model-checking run on the clock

ASSUME LimiterAssumption ==
  /\ Rate \in Nat
  /\ TTL \in Nat \ {0}
  /\ Faults \in BOOLEAN
  /\ MaxTime \in Nat

VARIABLES
  now,      \* the clock
  key,      \* Redis: the value and the expiry time of rate:asn:<asn>
  call,     \* each caller's call in progress, or the answer to its last one
  grants    \* history: when a call answered TRUE for the ASN, oldest first

limiterVars == <<now, key, call, grants>>

Key    == [count : Nat, expires : Nat]
Answer == [pending : {FALSE}, answer : {"none", "allowed", "refused", "error"}]
Read   == [pending : {TRUE}, asn : ASN, count : Nat]

TypeOK ==
  /\ now \in Nat
  /\ key \in [ASN -> Key]
  /\ call \in [Caller -> Answer \cup Read]
  /\ grants \in [ASN -> Seq(Nat)]

\* The count GET returns; an expired or absent key reads as 0.
Count(a) == IF key[a].expires > now THEN key[a].count ELSE 0

\* Mutant: only the first increment sets the expiry, a window that does not roll.
StoreKeepTTL(a, n) ==
  key' = [key EXCEPT ![a] =
            [count |-> n, expires |-> IF n = 1 THEN now + TTL ELSE @.expires]]

\* SET key value EX 60.
Store(a, n) == key' = [key EXCEPT ![a] = [count |-> n, expires |-> now + TTL]]

\* Mutant: the answer is set and the call goes on.
ReturnPending(c, ans) == call' = [call EXCEPT ![c] = [pending |-> TRUE, answer |-> ans]]

\* CheckAndIncrement returns.
Return(c, ans) == call' = [call EXCEPT ![c] = [pending |-> FALSE, answer |-> ans]]

Init ==
  /\ now = 0
  /\ key = [a \in ASN |-> [count |-> 0, expires |-> 0]]
  /\ call = [c \in Caller |-> [pending |-> FALSE, answer |-> "none"]]
  /\ grants = [a \in ASN |-> <<>>]

\* Mutant: > for >= in the comparison with the limit.
CheckOffByOne(c, a) ==
  /\ ~call[c].pending
  /\ Count(a) <= Rate
  /\ call' = [call EXCEPT ![c] = [pending |-> TRUE, asn |-> a, count |-> Count(a)]]
  /\ UNCHANGED <<now, key, grants>>

\* GET returns a count below the limit: CheckAndIncrement goes on to SET.
Check(c, a) ==
  /\ ~call[c].pending
  /\ Count(a) < Rate
  /\ call' = [call EXCEPT ![c] = [pending |-> TRUE, asn |-> a, count |-> Count(a)]]
  /\ UNCHANGED <<now, key, grants>>

\* GET returns a count at the limit: FALSE, and the key is left alone.
Refuse(c, a) ==
  /\ ~call[c].pending
  /\ Count(a) >= Rate
  /\ Return(c, "refused")
  /\ UNCHANGED <<now, key, grants>>

\* GET fails.
GetFails(c) ==
  /\ Faults /\ ~call[c].pending
  /\ Return(c, "error")
  /\ UNCHANGED <<now, key, grants>>

\* SET succeeds and CheckAndIncrement answers TRUE.
Grant(c) ==
  /\ call[c].pending
  /\ Store(call[c].asn, call[c].count + 1)
  /\ grants' = [grants EXCEPT ![call[c].asn] = Append(@, now)]
  /\ Return(c, "allowed")
  /\ UNCHANGED now

\* SET returns an error, whether or not Redis applied it.
SetFails(c) ==
  /\ Faults /\ call[c].pending
  /\ Store(call[c].asn, call[c].count + 1) \/ UNCHANGED key
  /\ Return(c, "error")
  /\ UNCHANGED <<now, grants>>

\* The process dies; a new one has made no call.
Die(c) ==
  /\ Faults
  /\ Return(c, "none")
  /\ UNCHANGED <<now, key, grants>>

\* ResetASNCounter: DEL, by an administrator.  The limit counts from here on.
ResetASNCounter(a) ==
  /\ Faults
  /\ key' = [key EXCEPT ![a] = [count |-> 0, expires |-> 0]]
  /\ grants' = [grants EXCEPT ![a] = <<>>]
  /\ UNCHANGED <<now, call>>

Tick ==
  /\ now < MaxTime
  /\ now' = now + 1
  /\ UNCHANGED <<key, call, grants>>

Next ==
  \/ \E c \in Caller, a \in ASN : Check(c, a) \/ Refuse(c, a)
  \/ \E c \in Caller : GetFails(c) \/ Grant(c) \/ SetFails(c) \/ Die(c)
  \/ \E a \in ASN : ResetASNCounter(a)
  \/ Tick

Spec == Init /\ [][Next]_limiterVars
-----------------------------------------------------------------------------
\* The deployment the code is right for: one coordinator.
OneCaller == \A c, d \in Caller : c = d

\* The grants g stand at least TTL apart when Rate calls lie between them.
Spaced(g) ==
  \A i \in 1..Len(g) : i + Rate <= Len(g) => g[i] + TTL <= g[i + Rate]

\* All but the last n of the grants g have left the window at time t.
LeftWindow(g, n, t) == \A i \in 1..Len(g) : i + n <= Len(g) => g[i] + TTL <= t

(* At most Rate calls for one ASN answer TRUE within any TTL clock units:  *)
(* the Rate-th call after a granted one comes a full TTL later.  The       *)
(* window rolls, it is not a calendar minute.  This is what "100 scans per *)
(* minute per ASN" asks of CheckAndIncrement, and one caller keeps it.     *)
WindowBound == \A a \in ASN : Spaced(grants[a])

(* Why one caller keeps the bound: all the granted calls but the last n    *)
(* have left the window, n being what the counter reads or what a caller   *)
(* between GET and SET has read; and a key lives until the window of every *)
(* call it counts has passed.                                              *)
CounterCovers ==
  /\ \A a \in ASN : LeftWindow(grants[a], Count(a), now)
  /\ \A a \in ASN : \A i \in 1..Len(grants[a]) :
       /\ grants[a][i] <= now
       /\ grants[a][i] + TTL <= key[a].expires \/ grants[a][i] + TTL <= now
  /\ \A c \in Caller : call[c].pending =>
       call[c].count < Rate /\ LeftWindow(grants[call[c].asn], call[c].count, now)
=============================================================================
