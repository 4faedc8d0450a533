------------------------ MODULE ASNRateLimiter_proofs ------------------------
(***************************************************************************)
(* One caller keeps the rolling window of the limiter, for every set of    *)
(* autonomous systems, limit, expiry and pattern of failures.              *)
(***************************************************************************)
EXTENDS ASNRateLimiter, TLAPS

\* A call between GET and SET holds the ASN and the count it read.
LEMMA PendingIsRead ==
  ASSUME TypeOK, NEW c \in Caller, call[c].pending
  PROVE  call[c].asn \in ASN /\ call[c].count \in Nat
<1>1. call[c] \in Answer \/ call[c] \in Read
  BY DEF TypeOK
<1>2. ASSUME call[c] \in Answer PROVE FALSE
  <2>1. call[c].pending = FALSE
    BY <1>2 DEF Answer
  <2> QED
    BY <2>1
<1>3. ASSUME call[c] \in Read PROVE call[c].asn \in ASN /\ call[c].count \in Nat
  BY <1>3 DEF Read
<1> QED
  BY <1>1, <1>2, <1>3

\* No step leaves the types.
LEMMA StepTypeOK == TypeOK /\ [Next]_limiterVars => TypeOK'
<1> SUFFICES ASSUME TypeOK, [Next]_limiterVars PROVE TypeOK'
  OBVIOUS
<1> USE LimiterAssumption DEF TypeOK, Key
<1>1. \A a \in ASN : Count(a) \in Nat
  BY DEF Count
<1>2. ASSUME NEW a \in ASN, NEW n \in Nat, Store(a, n) PROVE key' \in [ASN -> Key]
  BY <1>2 DEF Store
<1>3. ASSUME NEW c \in Caller, NEW r \in {"none", "allowed", "refused", "error"},
             Return(c, r)
      PROVE  call' \in [Caller -> Answer \cup Read]
  BY <1>3 DEF Return, Answer
<1>4. ASSUME NEW c \in Caller, NEW a \in ASN, Check(c, a) PROVE TypeOK'
  BY <1>1, <1>4 DEF Check, Read
<1>5. ASSUME NEW c \in Caller, NEW a \in ASN, Refuse(c, a) PROVE TypeOK'
  BY <1>3, <1>5 DEF Refuse
<1>6. ASSUME NEW c \in Caller, GetFails(c) PROVE TypeOK'
  BY <1>3, <1>6 DEF GetFails
<1>7. ASSUME NEW c \in Caller, call[c].pending
      PROVE  call[c].asn \in ASN /\ call[c].count + 1 \in Nat
  BY <1>7, PendingIsRead
<1>8. ASSUME NEW c \in Caller, Grant(c) PROVE TypeOK'
  BY <1>2, <1>3, <1>7, <1>8 DEF Grant
<1>9. ASSUME NEW c \in Caller, SetFails(c) PROVE TypeOK'
  BY <1>2, <1>3, <1>7, <1>9 DEF SetFails
<1>10. ASSUME NEW c \in Caller, Die(c) PROVE TypeOK'
  BY <1>3, <1>10 DEF Die
<1>11. ASSUME NEW a \in ASN, ResetASNCounter(a) PROVE TypeOK'
  BY <1>11 DEF ResetASNCounter
<1>12. CASE Tick
  BY <1>12 DEF Tick
<1>13. CASE UNCHANGED limiterVars
  BY <1>13 DEF limiterVars
<1> QED
  BY <1>4, <1>5, <1>6, <1>8, <1>9, <1>10, <1>11, <1>12, <1>13 DEF Next

\* Every variable stays in its type; any number of callers.
THEOREM TypeCorrect == Spec => []TypeOK
<1>1. Init => TypeOK
  BY DEF Init, TypeOK, Key, Answer
<1> QED
  BY <1>1, StepTypeOK, PTL DEF Spec

(* With one caller the counter accounts for every call granted in the last *)
(* TTL: whoever read n knows that all but the last n are out of the window. *)
(* It is what makes the comparison with the limit mean anything, and a     *)
(* second caller that read the same n breaks it.                           *)
Inv == TypeOK /\ CounterCovers /\ WindowBound

LEMMA InvInit == Init => Inv
<1> SUFFICES ASSUME Init PROVE Inv
  OBVIOUS
<1>1. \A a \in ASN : Len(grants[a]) = 0
  BY DEF Init
<1>2. \A c \in Caller : call[c].pending = FALSE
  BY DEF Init
<1>3. TypeOK
  BY DEF Init, TypeOK, Key, Answer
<1> QED
  BY <1>1, <1>2, <1>3 DEF Inv, CounterCovers, WindowBound, LeftWindow, Spaced

\* A clock that moves on keeps what is out of the window out of it.
LEMMA TickKeeps ==
  ASSUME TypeOK, CounterCovers, Tick
  PROVE  CounterCovers'
<1> USE LimiterAssumption DEF Tick, TypeOK, Key
<1>1. ASSUME NEW a \in ASN, NEW n \in Nat, LeftWindow(grants[a], n, now)
      PROVE  LeftWindow(grants[a], n, now)'
  BY <1>1 DEF LeftWindow
<1>2. ASSUME NEW a \in ASN PROVE LeftWindow(grants[a], Count(a), now)'
  <2>1. CASE Count(a)' = Count(a)
    <3>1. Count(a) \in Nat
      BY DEF Count
    <3> QED
      BY <1>1, <2>1, <3>1 DEF CounterCovers, LeftWindow
  <2>2. CASE Count(a)' # Count(a)
    <3>1. key[a].expires <= now' /\ Count(a)' = 0
      BY <2>2 DEF Count
    <3>2. ASSUME NEW i \in 1..Len(grants[a]) PROVE grants[a][i] + TTL <= now'
      <4>1. grants[a][i] \in Nat /\ key[a].expires \in Nat
        OBVIOUS
      <4>2. grants[a][i] + TTL <= key[a].expires \/ grants[a][i] + TTL <= now
        BY DEF CounterCovers
      <4> QED
        BY <3>1, <4>1, <4>2
    <3> QED
      BY <3>1, <3>2 DEF LeftWindow
  <2> QED
    BY <2>1, <2>2
<1>3. (\A a \in ASN : \A i \in 1..Len(grants[a]) :
         /\ grants[a][i] <= now
         /\ grants[a][i] + TTL <= key[a].expires \/ grants[a][i] + TTL <= now)'
  BY DEF CounterCovers
<1>4. ASSUME NEW c \in Caller, call[c].pending
      PROVE  call[c].count < Rate /\ LeftWindow(grants[call[c].asn], call[c].count, now)'
  <2>1. call[c].asn \in ASN /\ call[c].count \in Nat
    BY <1>4, PendingIsRead
  <2> QED
    BY <1>1, <1>4, <2>1 DEF CounterCovers, LeftWindow
<1> QED
  BY <1>2, <1>3, <1>4 DEF CounterCovers, LeftWindow

\* An index of a sequence one longer is an index of the sequence, or the new one.
LEMMA LastIndex ==
  ASSUME NEW i \in Nat, NEW r \in Nat, NEW l \in Nat, i >= 1, i + r <= l + 1
  PROVE  i + r \in 1..l \/ i + r = l + 1
OBVIOUS

(* Appending the grant of now to the grants of one ASN: when all but the   *)
(* last n < Rate are out of the window, the bound survives.                *)
LEMMA AppendGrant ==
  ASSUME NEW g \in Seq(Nat), NEW t \in Nat, NEW n \in Nat, n < Rate,
         \A i \in 1..Len(g) : g[i] <= t, LeftWindow(g, n, t), Spaced(g)
  PROVE  LET h == Append(g, t)
         IN  /\ \A i \in 1..Len(h) : h[i] \in Nat /\ h[i] <= t
             /\ LeftWindow(h, n + 1, t)
             /\ Spaced(h)
<1> DEFINE h == Append(g, t)
<1>1. /\ Len(g) \in Nat /\ Len(h) = Len(g) + 1 /\ Rate \in Nat /\ TTL \in Nat
      /\ h[Len(g) + 1] = t
      /\ \A i \in 1..Len(g) : h[i] = g[i] /\ g[i] \in Nat
  BY LimiterAssumption
<1> HIDE DEF h
<1>2. ASSUME NEW i \in 1..Len(h) PROVE h[i] \in Nat /\ h[i] <= t
  <2>1. CASE i \in 1..Len(g)
    BY <1>1, <2>1
  <2>2. CASE i = Len(g) + 1
    BY <1>1, <2>2
  <2> QED
    BY <1>1, <2>1, <2>2
<1>3. ASSUME NEW i \in 1..Len(h), i + (n + 1) <= Len(h) PROVE h[i] + TTL <= t
  <2>1. i \in 1..Len(g) /\ i + n <= Len(g)
    BY <1>1, <1>3
  <2> QED
    BY <1>1, <2>1 DEF LeftWindow
<1>4. ASSUME NEW i \in 1..Len(h), i + Rate <= Len(h) PROVE h[i] + TTL <= h[i + Rate]
  <2>1. i \in 1..Len(g)
    BY <1>1, <1>4
  <2>2. CASE i + Rate \in 1..Len(g)
    BY <1>1, <2>1, <2>2 DEF Spaced
  <2>3. CASE i + Rate = Len(g) + 1
    <3>1. i + n <= Len(g)
      BY <1>1, <2>3
    <3> QED
      BY <1>1, <2>1, <2>3, <3>1 DEF LeftWindow
  <2>4. i + Rate \in 1..Len(g) \/ i + Rate = Len(g) + 1
    <3>1. i \in Nat /\ i >= 1 /\ i + Rate <= Len(g) + 1
      BY <1>1, <1>4
    <3>2. Len(g) \in Nat /\ Rate \in Nat
      BY <1>1
    <3> QED
      BY <3>1, <3>2, LastIndex
  <2> QED
    BY <2>2, <2>3, <2>4
<1> QED
  BY <1>2, <1>3, <1>4 DEF h, LeftWindow, Spaced

\* The call that is granted is the only one since the count it read.
LEMMA GrantKeeps ==
  ASSUME NEW c \in Caller, OneCaller, TypeOK, CounterCovers, WindowBound, Grant(c)
  PROVE  CounterCovers' /\ WindowBound'
<1>1. PICK a \in ASN, n \in Nat :
        a = call[c].asn /\ n = call[c].count /\ n < Rate /\ LeftWindow(grants[a], n, now)
  BY PendingIsRead DEF Grant, CounterCovers
<1>2. /\ key' = [key EXCEPT ![a] = [count |-> n + 1, expires |-> now + TTL]]
      /\ grants' = [grants EXCEPT ![a] = Append(@, now)]
      /\ call'[c].pending = FALSE
      /\ now' = now
  BY <1>1 DEF Grant, Store, Return, TypeOK
<1>3. /\ now \in Nat /\ TTL \in Nat \ {0} /\ Rate \in Nat
      /\ grants[a] \in Seq(Nat) /\ grants'[a] = Append(grants[a], now)
      /\ key'[a].expires = now + TTL /\ key'[a].count = n + 1
      /\ \A b \in ASN \ {a} : grants'[b] = grants[b] /\ key'[b] = key[b]
  BY <1>1, <1>2, LimiterAssumption DEF TypeOK, Key
<1>4. /\ \A i \in 1..Len(grants'[a]) : grants'[a][i] \in Nat /\ grants'[a][i] <= now
      /\ LeftWindow(grants'[a], n + 1, now)
      /\ Spaced(grants'[a])
  <2>1. \A i \in 1..Len(grants[a]) : grants[a][i] <= now
    BY DEF CounterCovers
  <2>2. Spaced(grants[a])
    BY DEF WindowBound
  <2> QED
    BY <1>1, <1>3, <2>1, <2>2, AppendGrant
<1>5. WindowBound'
  BY <1>3, <1>4 DEF WindowBound, Spaced
<1>6. ASSUME NEW b \in ASN PROVE LeftWindow(grants[b], Count(b), now)'
  <2>1. CASE b # a
    <3>1. Count(b)' = Count(b)
      BY <1>2, <1>3, <2>1 DEF Count
    <3> QED
      BY <1>2, <1>3, <2>1, <3>1 DEF CounterCovers, LeftWindow
  <2>2. CASE b = a
    <3>1. Count(a)' = n + 1
      BY <1>2, <1>3 DEF Count
    <3> QED
      BY <1>2, <1>4, <2>2, <3>1 DEF LeftWindow
  <2> QED
    BY <2>1, <2>2
<1>7. (\A b \in ASN : \A i \in 1..Len(grants[b]) :
         /\ grants[b][i] <= now
         /\ grants[b][i] + TTL <= key[b].expires \/ grants[b][i] + TTL <= now)'
  BY <1>2, <1>3, <1>4 DEF CounterCovers
<1> QED
  BY <1>2, <1>5, <1>6, <1>7 DEF CounterCovers, OneCaller

\* A call that starts relies on what the counter covers now.
LEMMA CheckKeeps ==
  ASSUME TypeOK, CounterCovers, WindowBound,
         NEW c \in Caller, NEW a \in ASN, Check(c, a)
  PROVE  CounterCovers' /\ WindowBound'
<1>1. /\ UNCHANGED <<now, key, grants>>
      /\ call' = [call EXCEPT ![c] = [pending |-> TRUE, asn |-> a, count |-> Count(a)]]
      /\ Count(a) < Rate
  BY DEF Check
<1>2. ASSUME NEW d \in Caller, call'[d].pending
      PROVE  /\ call'[d].count < Rate
             /\ LeftWindow(grants[call'[d].asn], call'[d].count, now)
  <2>1. CASE d = c
    BY <1>1, <2>1 DEF TypeOK, CounterCovers
  <2>2. CASE d # c
    BY <1>1, <1>2, <2>2 DEF TypeOK, CounterCovers
  <2> QED
    BY <2>1, <2>2
<1>3. \A b \in ASN : Count(b)' = Count(b)
  BY <1>1 DEF Count
<1> QED
  BY <1>1, <1>2, <1>3 DEF CounterCovers, WindowBound, LeftWindow, Spaced

\* A call that returns no longer relies on anything.
LEMMA ReturnKeeps ==
  ASSUME TypeOK, CounterCovers, WindowBound,
         NEW c \in Caller, NEW r, Return(c, r), UNCHANGED <<now, key, grants>>
  PROVE  CounterCovers' /\ WindowBound'
<1>1. \A b \in ASN : Count(b)' = Count(b)
  BY DEF Count
<1>2. call'[c].pending = FALSE /\ \A d \in Caller \ {c} : call'[d] = call[d]
  BY DEF Return, TypeOK
<1> QED
  BY <1>1, <1>2 DEF CounterCovers, WindowBound, LeftWindow, Spaced

\* A SET that failed may have counted a call nobody made: the counter is too high.
LEMMA SetFailsKeeps ==
  ASSUME TypeOK, CounterCovers, WindowBound,
         NEW c \in Caller, SetFails(c), Store(call[c].asn, call[c].count + 1)
  PROVE  CounterCovers' /\ WindowBound'
<1>1. PICK a \in ASN, n \in Nat :
        a = call[c].asn /\ n = call[c].count /\ LeftWindow(grants[a], n, now)
  BY PendingIsRead DEF SetFails, CounterCovers
<1>2. /\ key' = [key EXCEPT ![a] = [count |-> n + 1, expires |-> now + TTL]]
      /\ UNCHANGED <<now, grants>>
      /\ call'[c].pending = FALSE /\ \A d \in Caller \ {c} : call'[d] = call[d]
  BY <1>1 DEF SetFails, Store, Return, TypeOK
<1>3. /\ now \in Nat /\ TTL \in Nat \ {0} /\ grants[a] \in Seq(Nat)
      /\ key'[a].expires = now + TTL /\ key'[a].count = n + 1
      /\ \A b \in ASN \ {a} : key'[b] = key[b]
  BY <1>1, <1>2, LimiterAssumption DEF TypeOK, Key
<1>4. ASSUME NEW b \in ASN PROVE LeftWindow(grants[b], Count(b), now)'
  <2>1. CASE b # a
    <3>1. Count(b)' = Count(b)
      BY <1>2, <1>3, <2>1 DEF Count
    <3> QED
      BY <1>2, <3>1 DEF CounterCovers, LeftWindow
  <2>2. CASE b = a
    <3>1. Count(a)' = n + 1
      BY <1>2, <1>3 DEF Count
    <3>2. LeftWindow(grants[a], n + 1, now)
      <4>1. ASSUME NEW i \in 1..Len(grants[a]), i + (n + 1) <= Len(grants[a])
            PROVE  i + n <= Len(grants[a])
        BY <1>3, <4>1
      <4> QED
        BY <1>1, <4>1 DEF LeftWindow
    <3> QED
      BY <1>2, <2>2, <3>1, <3>2 DEF LeftWindow
  <2> QED
    BY <2>1, <2>2
<1>5. ASSUME NEW b \in ASN, NEW i \in 1..Len(grants[b])
      PROVE  /\ grants[b][i] <= now
             /\ grants[b][i] + TTL <= key'[b].expires \/ grants[b][i] + TTL <= now
  <2>1. grants[b][i] \in Nat /\ grants[b][i] <= now
    BY DEF TypeOK, CounterCovers
  <2>2. grants[b][i] + TTL <= key[b].expires \/ grants[b][i] + TTL <= now
    BY DEF CounterCovers
  <2>3. CASE b = a
    BY <1>3, <2>1, <2>3
  <2>4. CASE b # a
    BY <1>3, <2>1, <2>2, <2>4
  <2> QED
    BY <2>3, <2>4
<1> QED
  BY <1>2, <1>4, <1>5 DEF CounterCovers, WindowBound, LeftWindow, Spaced

\* A reset forgets the grants and the count together.
LEMMA ResetKeeps ==
  ASSUME TypeOK, CounterCovers, WindowBound, NEW a \in ASN, ResetASNCounter(a)
  PROVE  CounterCovers' /\ WindowBound'
<1>1. /\ grants'[a] = <<>> /\ Len(grants'[a]) = 0
      /\ \A b \in ASN \ {a} : grants'[b] = grants[b] /\ key'[b] = key[b]
      /\ UNCHANGED <<now, call>>
  BY DEF ResetASNCounter, TypeOK
<1>2. \A b \in ASN \ {a} : Count(b)' = Count(b)
  BY <1>1 DEF Count
<1>3. WindowBound'
  BY <1>1 DEF WindowBound, Spaced
<1>4. ASSUME NEW b \in ASN PROVE LeftWindow(grants[b], Count(b), now)'
  BY <1>1, <1>2 DEF CounterCovers, LeftWindow
<1>5. ASSUME NEW c \in Caller, call[c].pending
      PROVE  call[c].count < Rate /\ LeftWindow(grants[call[c].asn], call[c].count, now)'
  BY <1>1, <1>5, PendingIsRead DEF CounterCovers, LeftWindow
<1>6. (\A b \in ASN : \A i \in 1..Len(grants[b]) :
         /\ grants[b][i] <= now
         /\ grants[b][i] + TTL <= key[b].expires \/ grants[b][i] + TTL <= now)'
  BY <1>1 DEF CounterCovers
<1> QED
  BY <1>1, <1>3, <1>4, <1>5, <1>6 DEF CounterCovers

LEMMA Invariant == OneCaller => (Spec => []Inv)
<1> SUFFICES ASSUME OneCaller PROVE Spec => []Inv
  OBVIOUS
<1>1. Inv /\ [Next]_limiterVars => Inv'
  <2> SUFFICES ASSUME Inv, [Next]_limiterVars
               PROVE  CounterCovers' /\ WindowBound'
    BY StepTypeOK DEF Inv
  <2> USE DEF Inv
  <2>1. ASSUME NEW c \in Caller, NEW a \in ASN, Check(c, a)
        PROVE  CounterCovers' /\ WindowBound'
    BY <2>1, CheckKeeps
  <2>2. ASSUME NEW c \in Caller, UNCHANGED <<now, key, grants>>,
               NEW r, Return(c, r)
        PROVE  CounterCovers' /\ WindowBound'
    BY <2>2, ReturnKeeps
  <2>3. ASSUME NEW c \in Caller, NEW a \in ASN, Refuse(c, a)
        PROVE  CounterCovers' /\ WindowBound'
    BY <2>2, <2>3 DEF Refuse
  <2>4. ASSUME NEW c \in Caller, GetFails(c) \/ Die(c)
        PROVE  CounterCovers' /\ WindowBound'
    BY <2>2, <2>4 DEF GetFails, Die
  <2>5. ASSUME NEW c \in Caller, Grant(c)
        PROVE  CounterCovers' /\ WindowBound'
    BY <2>5, GrantKeeps
  <2>6. ASSUME NEW c \in Caller, SetFails(c)
        PROVE  CounterCovers' /\ WindowBound'
    BY <2>2, <2>6, SetFailsKeeps DEF SetFails
  <2>7. ASSUME NEW a \in ASN, ResetASNCounter(a)
        PROVE  CounterCovers' /\ WindowBound'
    BY <2>7, ResetKeeps
  <2>8. CASE Tick
    BY <2>8, TickKeeps DEF Tick, WindowBound, Spaced
  <2>9. CASE UNCHANGED limiterVars
    BY <2>9 DEF limiterVars, CounterCovers, WindowBound, LeftWindow, Spaced, Count
  <2> QED
    BY <2>1, <2>3, <2>4, <2>5, <2>6, <2>7, <2>8, <2>9 DEF Next
<1> QED
  BY InvInit, <1>1, PTL DEF Spec

(* The limiter's central guarantee: whatever Redis fails to do and however *)
(* slowly the caller runs, a single caller never has more than Rate calls  *)
(* granted for one ASN within any TTL.                                     *)
THEOREM OneCallerKeepsWindow == OneCaller => (Spec => []WindowBound)
<1>1. Inv => WindowBound
  BY DEF Inv
<1> QED
  BY <1>1, Invariant, PTL

(* The comparison with the limit never works on a count that has forgotten *)
(* a call: neither the counter, while its key lives, nor what the caller   *)
(* has read of it leaves out a call granted in the last TTL.               *)
THEOREM OneCallerCounterCovers == OneCaller => (Spec => []CounterCovers)
<1>1. Inv => CounterCovers
  BY DEF Inv
<1> QED
  BY <1>1, Invariant, PTL
=============================================================================
