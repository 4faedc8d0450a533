-------------------------- MODULE KafkaPath_proofs --------------------------
(***************************************************************************)
(* Theorems about the two ends of the Kafka topic: the crawler, whose pool *)
(* is a crawl for any number of workers and callbacks and any capacity of  *)
(* the queue, and the persistence service, which keeps an entry for each   *)
(* service of a host when it is one process.                               *)
(***************************************************************************)
EXTENDS CrawlerPool, Persistence, SequenceTheorems, TLAPS

(* The crawler.  Until a port is fingerprinted it is in exactly one of     *)
(* queue, workers and callbacks, and afterwards in none.                   *)
Elems(q) == {q[i] : i \in 1..Len(q)}
OneToOne(q) == \A i, j \in 1..Len(q) : q[i] = q[j] => i = j

Held(t) ==
  \/ t \in Elems(portQueue)
  \/ \E w \in Worker : worker[w] = t
  \/ \E d \in Discoverer : inline[d] = t

OnePlace ==
  /\ OneToOne(portQueue)
  /\ \A w \in Worker : worker[w] \notin Elems(portQueue)
  /\ \A d \in Discoverer : inline[d] \notin Elems(portQueue)
  /\ \A v, w \in Worker : worker[v] \in Target /\ worker[v] = worker[w] => v = w
  /\ \A d, e \in Discoverer : inline[d] \in Target /\ inline[d] = inline[e] => d = e
  /\ \A d \in Discoverer, w \in Worker : inline[d] \in Target => inline[d] # worker[w]

HeldUntilPrinted ==
  \A t \in Target :
    /\ t \in reported \ V6 => prints[t] \in {0, 1}
    /\ t \notin reported \ V6 => prints[t] = 0
    /\ Held(t) <=> t \in reported \ V6 /\ prints[t] = 0

Closing ==
  /\ main # "discovering" => \A d \in Discoverer : inline[d] = None
  /\ \A w \in Worker : worker[w] = Gone => main # "discovering" /\ portQueue = <<>>
  /\ main \in {"returned", "exited"} => \A w \in Worker : worker[w] = Gone

PoolInv == PoolTypeOK /\ OnePlace /\ HeldUntilPrinted /\ Closing
-----------------------------------------------------------------------------
(* What the queue holds after a send.                                      *)
LEMMA Sent ==
  ASSUME NEW q \in Seq(Target), OneToOne(q), NEW t \in Target, t \notin Elems(q)
  PROVE  /\ Append(q, t) \in Seq(Target) /\ Len(Append(q, t)) = Len(q) + 1
         /\ OneToOne(Append(q, t))
         /\ Elems(Append(q, t)) = Elems(q) \cup {t}
<1>1. /\ Append(q, t) \in Seq(Target) /\ Len(Append(q, t)) = Len(q) + 1 /\ Len(q) \in Nat
      /\ Append(q, t)[Len(q) + 1] = t
      /\ \A i \in 1..Len(q) : Append(q, t)[i] = q[i] /\ q[i] # t
  BY DEF Elems
<1>2. PICK r : r = Append(q, t)
  OBVIOUS
<1>3. 1..Len(r) = 1..Len(q) \cup {Len(q) + 1}
  BY <1>1, <1>2
<1>4. OneToOne(r)
  BY <1>1, <1>2, <1>3 DEF OneToOne
<1>5. Elems(r) = Elems(q) \cup {t}
  BY <1>1, <1>2, <1>3 DEF Elems
<1> QED
  BY <1>1, <1>2, <1>4, <1>5

(* And after a receive.                                                    *)
LEMMA Received ==
  ASSUME NEW q \in Seq(Target), OneToOne(q), q # <<>>
  PROVE  /\ Tail(q) \in Seq(Target) /\ Len(Tail(q)) <= Len(q)
         /\ Head(q) \in Target /\ Head(q) \in Elems(q)
         /\ OneToOne(Tail(q))
         /\ Elems(Tail(q)) = Elems(q) \ {Head(q)}
<1>1. /\ Tail(q) \in Seq(Target) /\ Len(Tail(q)) = Len(q) - 1 /\ Len(q) \in Nat /\ Len(q) > 0
      /\ Head(q) = q[1] /\ Head(q) \in Target
      /\ \A i \in 1..Len(Tail(q)) : i + 1 \in 1..Len(q) /\ Tail(q)[i] = q[i + 1]
  OBVIOUS
<1>2. PICK r : r = Tail(q)
  OBVIOUS
<1>3. OneToOne(r)
  BY <1>1, <1>2 DEF OneToOne
<1>4. Elems(r) \subseteq Elems(q) \ {q[1]}
  BY <1>1, <1>2 DEF OneToOne, Elems
<1>5. ASSUME NEW x \in Elems(q) \ {q[1]}
      PROVE  x \in Elems(r)
  <2>1. PICK i \in 1..Len(q) : x = q[i]
    BY DEF Elems
  <2>2. i - 1 \in 1..Len(r) /\ r[i - 1] = q[i]
    BY <1>1, <1>2, <1>5, <2>1
  <2> QED
    BY <2>1, <2>2 DEF Elems
<1>6. Elems(r) = Elems(q) \ {q[1]}
  BY <1>4, <1>5
<1>7. q[1] \in Elems(q)
  BY <1>1 DEF Elems
<1> QED
  BY <1>1, <1>2, <1>3, <1>6, <1>7

(* An empty queue holds nothing.                                           *)
LEMMA Drained == Elems(<<>>) = {} /\ OneToOne(<<>>)
  BY DEF Elems, OneToOne

LEMMA PoolStarts ==
  ASSUME PoolInit, PoolAssumption
  PROVE  PoolInv
<1>1. <<>> \in Seq(Target) /\ Len(<<>>) = 0
  BY EmptySeq
<1>2. PoolTypeOK
  BY <1>1 DEF PoolTypeOK, PoolInit, PoolAssumption
<1>3. /\ portQueue = <<>> /\ Elems(portQueue) = {} /\ OneToOne(portQueue)
      /\ \A w \in Worker : worker[w] = None
      /\ \A d \in Discoverer : inline[d] = None
  BY Drained DEF PoolInit
<1>4. OnePlace
  BY <1>3 DEF PoolAssumption, OnePlace
<1>5. HeldUntilPrinted
  BY <1>3 DEF PoolInit, PoolAssumption, HeldUntilPrinted, Held
<1>6. Closing
  BY <1>3 DEF PoolInit, Closing, None, Gone
<1> QED
  BY <1>2, <1>4, <1>5, <1>6 DEF PoolInv
-----------------------------------------------------------------------------
(* A callback reports a port nobody has; it is held where it is put.       *)
LEMMA ReportKeepsInv ==
  ASSUME PoolInv, PoolAssumption, NEW d \in Discoverer, NEW t \in Target,
         Discard(d, t) \/ Enqueue(d, t) \/ Overflow(d, t)
  PROVE  PoolInv'
<1> USE DEF PoolInv
<1>1. /\ main = "discovering" /\ inline[d] = None /\ t \notin reported
      /\ main' = main /\ reported' = reported \cup {t}
      /\ worker' = worker /\ UNCHANGED sinkVars
  BY DEF Discard, Enqueue, Overflow, Report
<1>2. /\ t \notin Elems(portQueue) /\ (\A w \in Worker : worker[w] # t)
      /\ \A e \in Discoverer : inline[e] # t
  BY <1>1 DEF HeldUntilPrinted, Held
<1>3. Closing'
  BY <1>1 DEF Closing
<1>4. CASE Discard(d, t)
  <2>1. t \in V6 /\ portQueue' = portQueue /\ inline' = inline
    BY <1>4 DEF Discard
  <2>2. PoolTypeOK' /\ OnePlace'
    BY <1>1, <2>1 DEF PoolTypeOK, OnePlace, sinkVars, failVars
  <2>3. HeldUntilPrinted'
    BY <1>1, <1>2, <2>1 DEF HeldUntilPrinted, Held, sinkVars, failVars
  <2> QED
    BY <1>3, <2>2, <2>3
<1>5. CASE Enqueue(d, t)
  <2>1. t \notin V6 /\ portQueue' = Append(portQueue, t) /\ inline' = inline
        /\ Len(portQueue) < Capacity
    BY <1>5 DEF Enqueue
  <2>2. portQueue \in Seq(Target) /\ Len(portQueue) \in Nat /\ OneToOne(portQueue)
    BY DEF PoolTypeOK, OnePlace
  <2>3. /\ portQueue' \in Seq(Target) /\ Len(portQueue') = Len(portQueue) + 1
        /\ OneToOne(portQueue') /\ Elems(portQueue') = Elems(portQueue) \cup {t}
    BY <1>2, <2>1, <2>2, Sent
  <2>4. PoolTypeOK'
    BY <1>1, <2>1, <2>2, <2>3 DEF PoolTypeOK, sinkVars, failVars, PoolAssumption
  <2>5. OnePlace'
    BY <1>1, <1>2, <2>1, <2>3 DEF OnePlace
  <2>6. HeldUntilPrinted'
    BY <1>1, <1>2, <2>1, <2>3 DEF HeldUntilPrinted, Held, sinkVars, failVars
  <2> QED
    BY <1>3, <2>4, <2>5, <2>6
<1>6. CASE Overflow(d, t)
  <2>1. t \notin V6 /\ portQueue' = portQueue /\ inline' = [inline EXCEPT ![d] = t]
    BY <1>6 DEF Overflow
  <2>2. PoolTypeOK'
    BY <1>1, <2>1 DEF PoolTypeOK, sinkVars, failVars
  <2>3. inline \in [Discoverer -> Target \cup {None}] /\ None \notin Target
    BY DEF PoolTypeOK, PoolAssumption
  <2>4. OnePlace'
    BY <1>1, <1>2, <2>1, <2>3 DEF OnePlace
  <2>5. HeldUntilPrinted'
    BY <1>1, <1>2, <2>1, <2>3 DEF HeldUntilPrinted, Held, sinkVars, failVars
  <2> QED
    BY <1>3, <2>2, <2>4, <2>5
<1> QED
  BY <1>4, <1>5, <1>6
-----------------------------------------------------------------------------
(* Fingerprint(t) by the one that holds t.                                 *)
LEMMA Fingerprinting ==
  ASSUME PoolInv, NEW t \in Target, Held(t), Fingerprint(t)
  PROVE  /\ prints[t] = 0 /\ t \in reported \ V6
         /\ prints' = [prints EXCEPT ![t] = 1]
         /\ events' \in {events, events \cup {t}}
         /\ writer' \subseteq Target /\ events' \subseteq Target
         /\ refused' \subseteq Target /\ UNCHANGED <<topic, stuck, alive, lost>>
<1>1. prints[t] = 0 /\ t \in reported \ V6
  BY DEF PoolInv, HeldUntilPrinted
<1>2. prints' = [prints EXCEPT ![t] = 1]
  BY <1>1 DEF Fingerprint
<1> QED
  BY <1>1, <1>2 DEF Fingerprint, failVars, PoolInv, PoolTypeOK

LEMMA FingerprintKeepsInv ==
  ASSUME PoolInv, PoolAssumption,
         \/ \E d \in Discoverer : FingerprintInline(d)
         \/ \E w \in Worker : FingerprintTaken(w)
  PROVE  PoolInv'
<1> USE DEF PoolInv
<1>1. ASSUME NEW d \in Discoverer, FingerprintInline(d)
      PROVE  PoolInv'
  <2>1. PICK t \in Target : t = inline[d]
    BY <1>1 DEF FingerprintInline, PoolTypeOK
  <2>2. /\ Held(t) /\ Fingerprint(t)
        /\ inline' = [inline EXCEPT ![d] = None]
        /\ UNCHANGED <<main, reported, portQueue, worker>>
    BY <1>1, <2>1 DEF FingerprintInline, Held
  <2>3. /\ prints[t] = 0 /\ t \in reported \ V6
        /\ prints' = [prints EXCEPT ![t] = 1]
        /\ writer' \subseteq Target /\ events' \subseteq Target
        /\ refused' \subseteq Target /\ UNCHANGED <<topic, stuck, alive, lost>>
    BY <2>2, Fingerprinting
  <2>4. /\ inline \in [Discoverer -> Target \cup {None}] /\ None \notin Target
        /\ portQueue \in Seq(Target)
    BY DEF PoolTypeOK, PoolAssumption
  <2>5. PoolTypeOK'
    BY <2>2, <2>3 DEF PoolTypeOK
  <2>10. None \notin Elems(portQueue)
    BY <2>4 DEF Elems
  <2>6. OnePlace'
    BY <2>2, <2>4, <2>10 DEF OnePlace
  <2>7. /\ ~Held(t)'
        /\ \A u \in Target : u # t => (Held(u) <=> Held(u)')
    BY <2>1, <2>2, <2>4 DEF OnePlace, Held
  <2>8. HeldUntilPrinted'
    BY <2>2, <2>3, <2>7 DEF HeldUntilPrinted, PoolTypeOK
  <2>9. Closing'
    BY <2>2, <2>4 DEF Closing
  <2> QED
    BY <2>5, <2>6, <2>8, <2>9
<1>2. ASSUME NEW w \in Worker, FingerprintTaken(w)
      PROVE  PoolInv'
  <2>1. PICK t \in Target : t = worker[w]
    BY <1>2 DEF FingerprintTaken
  <2>2. /\ Held(t) /\ Fingerprint(t)
        /\ worker' = [worker EXCEPT ![w] = None]
        /\ UNCHANGED <<main, reported, inline, portQueue>>
    BY <1>2, <2>1 DEF FingerprintTaken, Held
  <2>3. /\ prints[t] = 0 /\ t \in reported \ V6
        /\ prints' = [prints EXCEPT ![t] = 1]
        /\ writer' \subseteq Target /\ events' \subseteq Target
        /\ refused' \subseteq Target /\ UNCHANGED <<topic, stuck, alive, lost>>
    BY <2>2, Fingerprinting
  <2>4. /\ worker \in [Worker -> Target \cup {None, Gone}]
        /\ None \notin Target /\ Gone \notin Target /\ None # Gone
        /\ portQueue \in Seq(Target)
    BY DEF PoolTypeOK, PoolAssumption, None, Gone
  <2>5. PoolTypeOK'
    BY <2>2, <2>3 DEF PoolTypeOK
  <2>6. None \notin Elems(portQueue)
    BY <2>4 DEF Elems
  <2>7. OnePlace'
    BY <2>2, <2>4, <2>6 DEF OnePlace
  <2>8. /\ ~Held(t)'
        /\ \A u \in Target : u # t => (Held(u) <=> Held(u)')
    BY <2>1, <2>2, <2>4 DEF OnePlace, Held
  <2>9. HeldUntilPrinted'
    BY <2>2, <2>3, <2>8 DEF HeldUntilPrinted, PoolTypeOK
  <2>10. worker[w] # Gone /\ worker'[w] # Gone
    BY <2>1, <2>2, <2>4
  <2>11. Closing'
    BY <2>2, <2>4, <2>10 DEF Closing
  <2> QED
    BY <2>5, <2>7, <2>9, <2>11
<1> QED
  BY <1>1, <1>2
-----------------------------------------------------------------------------
(* A worker takes the first port of the queue.                             *)
LEMMA TakeKeepsInv ==
  ASSUME PoolInv, PoolAssumption, NEW w \in Worker, Take(w)
  PROVE  PoolInv'
<1> USE DEF PoolInv
<1>1. PICK q \in Seq(Target) : q = portQueue /\ q # <<>> /\ OneToOne(q)
  BY DEF Take, PoolTypeOK, OnePlace
<1>2. /\ Tail(q) \in Seq(Target) /\ Len(Tail(q)) <= Len(q)
      /\ Head(q) \in Target /\ Head(q) \in Elems(q)
      /\ OneToOne(Tail(q)) /\ Elems(Tail(q)) = Elems(q) \ {Head(q)}
  BY <1>1, Received
<1>3. PICK t : t = Head(q)
  OBVIOUS
<1>4. /\ worker[w] = None /\ worker' = [worker EXCEPT ![w] = t]
      /\ portQueue' \in Seq(Target) /\ Len(portQueue') <= Len(portQueue)
      /\ OneToOne(portQueue') /\ Elems(portQueue') = Elems(portQueue) \ {t}
      /\ t \in Target /\ t \in Elems(portQueue)
      /\ UNCHANGED <<main, reported, inline, sinkVars>>
  BY <1>1, <1>2, <1>3 DEF Take
<1>5. /\ worker \in [Worker -> Target \cup {None, Gone}]
      /\ None \notin Target /\ Gone \notin Target
  BY DEF PoolTypeOK, PoolAssumption
<1>6. Len(portQueue) \in Nat /\ Len(portQueue') \in Nat /\ Capacity \in Nat
  BY <1>1, <1>4 DEF PoolAssumption
<1>7. PoolTypeOK'
  BY <1>4, <1>6 DEF PoolTypeOK, sinkVars, failVars
<1>8. OnePlace'
  BY <1>4, <1>5 DEF OnePlace
<1>9. \A u \in Target : Held(u) <=> Held(u)'
  BY <1>4, <1>5 DEF Held
<1>10. HeldUntilPrinted'
  BY <1>4, <1>9 DEF HeldUntilPrinted, sinkVars, failVars
<1>11. portQueue # <<>>
  BY <1>1
<1>12. Closing'
  BY <1>4, <1>5, <1>11 DEF Closing
<1> QED
  BY <1>7, <1>8, <1>10, <1>12

(* The steps that move no port.                                            *)
LEMMA OtherStepsKeepInv ==
  ASSUME PoolInv, PoolAssumption,
         \/ \E w \in Worker : WorkerEnds(w)
         \/ \E t \in Target : Deliver(t) \/ FingerprintHangs(t)
         \/ CrawlerDies
         \/ DiscoveryReturns \/ Return \/ Exit \/ UNCHANGED crawlerVars
  PROVE  PoolInv'
<1> USE DEF PoolInv
<1>1. ASSUME NEW w \in Worker, WorkerEnds(w)
      PROVE  PoolInv'
  <2>1. /\ worker[w] = None /\ worker' = [worker EXCEPT ![w] = Gone]
        /\ portQueue = <<>> /\ main # "discovering"
        /\ UNCHANGED <<main, reported, inline, portQueue, sinkVars>>
    BY <1>1 DEF WorkerEnds
  <2>2. /\ worker \in [Worker -> Target \cup {None, Gone}]
        /\ None \notin Target /\ Gone \notin Target
    BY DEF PoolTypeOK, PoolAssumption
  <2>3. PoolTypeOK'
    BY <2>1 DEF PoolTypeOK, sinkVars, failVars
  <2>4. Elems(portQueue) = {}
    BY <2>1, Drained
  <2>5. OnePlace'
    BY <2>1, <2>2, <2>4 DEF OnePlace
  <2>6. \A u \in Target : Held(u) <=> Held(u)'
    BY <2>1, <2>2 DEF Held
  <2>7. HeldUntilPrinted'
    BY <2>1, <2>6 DEF HeldUntilPrinted, sinkVars, failVars
  <2>8. Closing'
    BY <2>1, <2>2 DEF Closing
  <2> QED
    BY <2>3, <2>5, <2>7, <2>8
<1>2. ASSUME NEW t \in Target, Deliver(t) \/ FingerprintHangs(t)
      PROVE  PoolInv'
  <2>1. UNCHANGED <<poolVars, prints, events>> /\ PoolTypeOK'
    BY <1>2 DEF Deliver, FingerprintHangs, PoolTypeOK, poolVars, failVars
  <2> QED
    BY <2>1 DEF OnePlace, HeldUntilPrinted, Held, Closing, poolVars
<1>3. CASE DiscoveryReturns \/ Return \/ Exit
  <2>1. /\ UNCHANGED <<reported, inline, portQueue, worker, sinkVars>>
        /\ main' \in {"draining", "returned", "exited"}
    BY <1>3 DEF DiscoveryReturns, Return, Exit
  <2>2. PoolTypeOK'
    BY <2>1 DEF PoolTypeOK, sinkVars, failVars
  <2>3. OnePlace' /\ HeldUntilPrinted'
    BY <2>1 DEF OnePlace, HeldUntilPrinted, Held, sinkVars, failVars
  <2>4. Closing'
    BY <1>3, <2>1 DEF Closing, DiscoveryReturns, Return, Exit
  <2> QED
    BY <2>2, <2>3, <2>4
<1>4. CASE UNCHANGED crawlerVars
  BY <1>4 DEF crawlerVars, poolVars, sinkVars, failVars, PoolTypeOK, OnePlace, HeldUntilPrinted, Held, Closing
<1>5. CASE CrawlerDies
  <2>1. UNCHANGED <<poolVars, prints, events>> /\ PoolTypeOK'
    BY <1>5 DEF CrawlerDies, PoolTypeOK, poolVars
  <2> QED
    BY <2>1 DEF OnePlace, HeldUntilPrinted, Held, Closing, poolVars
<1> QED
  BY <1>1, <1>2, <1>3, <1>4, <1>5

LEMMA NextKeepsInv ==
  ASSUME PoolInv, PoolAssumption, [PoolNext]_crawlerVars
  PROVE  PoolInv'
<1>1. ASSUME NEW d \in Discoverer, Callback(d)
      PROVE  PoolInv'
  BY <1>1, ReportKeepsInv, FingerprintKeepsInv DEF Callback
<1>2. ASSUME NEW w \in Worker, Work(w)
      PROVE  PoolInv'
  BY <1>2, TakeKeepsInv, FingerprintKeepsInv, OtherStepsKeepInv DEF Work
<1> QED
  BY <1>1, <1>2, OtherStepsKeepInv DEF PoolNext, Done
-----------------------------------------------------------------------------
(* Every step of the pool is a step of the crawl or leaves it alone.       *)
LEMMA StepIsCrawlStep ==
  ASSUME PoolInv, PoolAssumption, [PoolNext]_crawlerVars
  PROVE  [Promise!Next]_(Promise!crawlVars)
<1> USE DEF Promise!Next, Promise!crawlVars
<1>1. ASSUME NEW d \in Discoverer, NEW t \in Target,
             Discard(d, t) \/ Enqueue(d, t) \/ Overflow(d, t)
      PROVE  [Promise!Next]_(Promise!crawlVars)
  <2>1. /\ main = "discovering" /\ main' = main /\ UNCHANGED sinkVars
        /\ t \notin reported /\ reported' = reported \cup {t}
    BY <1>1 DEF Discard, Enqueue, Overflow, Report
  <2>2. CASE t \in V6
    BY <2>1, <2>2 DEF sinkVars, failVars
  <2>3. CASE t \notin V6
    BY <2>1, <2>3 DEF Promise!Find, sinkVars, failVars
  <2> QED
    BY <2>2, <2>3
<1>2. ASSUME NEW t \in Target, Held(t), Fingerprint(t), UNCHANGED <<main, reported>>
      PROVE  [Promise!Next]_(Promise!crawlVars)
  <2>1. Promise!Fingerprint(t)
    BY <1>2, Fingerprinting DEF Promise!Fingerprint
  <2> QED
    BY <2>1
<1>3. ASSUME NEW d \in Discoverer, FingerprintInline(d)
      PROVE  [Promise!Next]_(Promise!crawlVars)
  <2>1. PICK t \in Target : t = inline[d]
    BY <1>3 DEF FingerprintInline, PoolInv, PoolTypeOK
  <2> QED
    BY <1>2, <1>3, <2>1 DEF FingerprintInline, Held
<1>4. ASSUME NEW w \in Worker, FingerprintTaken(w)
      PROVE  [Promise!Next]_(Promise!crawlVars)
  <2>1. PICK t \in Target : t = worker[w]
    BY <1>4 DEF FingerprintTaken
  <2> QED
    BY <1>2, <1>4, <2>1 DEF FingerprintTaken, Held
<1>5. CASE Return
  <2>1. /\ main = "draining" /\ main' = "returned"
        /\ \A w \in Worker : worker[w] = Gone
        /\ UNCHANGED <<reported, sinkVars>>
    BY <1>5 DEF Return
  <2>2. portQueue = <<>> /\ \A d \in Discoverer : inline[d] = None
    BY <2>1 DEF PoolInv, Closing, PoolAssumption
  <2>3. \A t \in Target : ~Held(t)
    BY <2>1, <2>2, Drained DEF Held, PoolAssumption
  <2>4. \A t \in reported \ V6 : prints[t] = 1
    BY <2>3 DEF PoolInv, HeldUntilPrinted, PoolTypeOK
  <2> QED
    BY <2>1, <2>4 DEF Promise!Finish, sinkVars, failVars
<1>6. CASE DiscoveryReturns \/ Exit \/ UNCHANGED crawlerVars
  BY <1>6 DEF DiscoveryReturns, Exit, crawlerVars, poolVars, sinkVars, failVars
<1>7. ASSUME \/ \E w \in Worker : Take(w) \/ WorkerEnds(w)
             \/ \E t \in Target : Deliver(t) \/ FingerprintHangs(t)
             \/ CrawlerDies
      PROVE  UNCHANGED Promise!crawlVars
  BY <1>7 DEF Take, WorkerEnds, Deliver, FingerprintHangs, CrawlerDies, poolVars, sinkVars, failVars
<1> QED
  BY <1>1, <1>3, <1>4, <1>5, <1>6, <1>7 DEF PoolNext, Callback, Work, Done

LEMMA PoolInvariance == PoolSpec => []PoolInv
<1>1. PoolInit => PoolInv
  BY PoolStarts, PoolAssumption
<1>2. PoolInv /\ [PoolNext]_crawlerVars => PoolInv'
  BY NextKeepsInv, PoolAssumption
<1>. QED
  BY <1>1, <1>2, PTL DEF PoolSpec

(* The pool implements a crawl: every open port it found is fingerprinted  *)
(* exactly once, by a worker or in the callback that met a full queue, and *)
(* ScanTargetWithDiscoveryStream returns only after the last of them.      *)
THEOREM PoolIsCrawl == PoolSpec => CrawlSpec
<1>1. PoolInit => Promise!Init
  BY DEF PoolInit, Promise!Init
<1>2. PoolInv /\ [PoolNext]_crawlerVars => [Promise!Next]_(Promise!crawlVars)
  BY StepIsCrawlStep, PoolAssumption
<1> QED
  BY <1>1, <1>2, PoolInvariance, PTL DEF PoolSpec, CrawlSpec, Promise!Spec

(* The types, and that the queue never holds more than its capacity.       *)
THEOREM PoolTypes == PoolSpec => []PoolTypeOK
  BY PoolInvariance, PTL DEF PoolInv
-----------------------------------------------------------------------------
(* What became of the events: no event is lost between onEvent and Kafka   *)
(* but those in the buffer of a process that dies.                         *)
Events ==
  /\ events = writer \cup topic \cup refused \cup lost
  /\ refused \cup lost # {} => Faults
  /\ lost # {} => ~alive
  /\ ~alive => writer = {}
  /\ main = "exited" => alive /\ writer = {}

LEMMA EventsStart ==
  ASSUME PoolInit PROVE Events
  BY DEF PoolInit, Events

LEMMA EventsStep ==
  ASSUME PoolInv, Events, [PoolNext]_crawlerVars PROVE Events'
<1>. USE DEF Events, sinkVars, failVars
<1>1. ASSUME NEW t, Fingerprint(t), main' = main, main # "exited" PROVE Events'
  BY <1>1 DEF Fingerprint
<1>2. ASSUME NEW d \in Discoverer, Callback(d) PROVE Events'
  <2>1. CASE FingerprintInline(d)
    <3>1. main = "discovering"
      BY <2>1 DEF FingerprintInline, PoolInv, Closing
    <3>. QED
      BY <1>1, <2>1, <3>1 DEF FingerprintInline
  <2>2. CASE \E t \in Target : Discard(d, t) \/ Enqueue(d, t) \/ Overflow(d, t)
    BY <2>2 DEF Discard, Enqueue, Overflow
  <2>. QED
    BY <1>2, <2>1, <2>2 DEF Callback
<1>3. ASSUME NEW w \in Worker, Work(w) PROVE Events'
  <2>1. CASE FingerprintTaken(w)
    <3>1. worker[w] # Gone
      BY <2>1, PoolAssumption DEF FingerprintTaken
    <3>2. main # "exited"
      BY <3>1 DEF PoolInv, Closing
    <3>. QED
      BY <1>1, <2>1, <3>2 DEF FingerprintTaken
  <2>2. CASE Take(w) \/ WorkerEnds(w)
    BY <2>2 DEF Take, WorkerEnds
  <2>. QED
    BY <1>3, <2>1, <2>2 DEF Work
<1>4. ASSUME NEW t \in Target, Deliver(t) PROVE Events'
  <2>1. /\ t \in writer /\ writer' = writer \ {t} /\ alive
        /\ UNCHANGED <<events, main, alive, lost>>
    BY <1>4 DEF Deliver, poolVars
  <2>2. CASE topic' = topic \cup {t} /\ UNCHANGED refused
    BY <2>1, <2>2
  <2>3. CASE Faults /\ refused' = refused \cup {t} /\ UNCHANGED topic
    BY <2>1, <2>3
  <2>. QED
    BY <1>4, <2>2, <2>3 DEF Deliver
<1>5. CASE DiscoveryReturns \/ Return \/ Exit
  BY <1>5 DEF DiscoveryReturns, Return, Exit
<1>6. CASE Done \/ UNCHANGED crawlerVars
  BY <1>6 DEF Done, crawlerVars, poolVars
<1>7. ASSUME NEW t \in Target, FingerprintHangs(t) PROVE Events'
  BY <1>7 DEF FingerprintHangs, poolVars
<1>8. CASE CrawlerDies
  BY <1>8 DEF CrawlerDies, poolVars
<1>. QED
  BY <1>2, <1>3, <1>4, <1>5, <1>6, <1>7, <1>8 DEF PoolNext

(* A fingerprint that does not return is in a worker's hands or a          *)
(* callback's.                                                             *)
StuckHeld ==
  \A t \in stuck : (\E w \in Worker : worker[w] = t) \/ (\E d \in Discoverer : inline[d] = t)

LEMMA StuckStep ==
  ASSUME PoolInv, PoolAssumption, StuckHeld, [PoolNext]_crawlerVars
  PROVE  StuckHeld'
<1>. USE DEF StuckHeld
<1>1. /\ inline \in [Discoverer -> Target \cup {None}] /\ None \notin Target
      /\ worker \in [Worker -> Target \cup {None, Gone}] /\ Gone \notin Target
      /\ stuck \subseteq Target
  BY DEF PoolInv, PoolTypeOK, PoolAssumption
<1>2. ASSUME NEW d \in Discoverer, Callback(d) PROVE StuckHeld'
  <2>1. CASE FingerprintInline(d)
    <3>1. inline[d] \notin stuck /\ stuck' = stuck /\ worker' = worker
          /\ inline' = [inline EXCEPT ![d] = None]
      BY <2>1 DEF FingerprintInline, Fingerprint, failVars
    <3>. QED
      BY <1>1, <3>1
  <2>2. ASSUME NEW t \in Target, Discard(d, t) \/ Enqueue(d, t) \/ Overflow(d, t)
        PROVE  StuckHeld'
    <3>1. /\ inline[d] = None /\ stuck' = stuck /\ worker' = worker
          /\ inline' \in {inline, [inline EXCEPT ![d] = t]}
      BY <2>2 DEF Discard, Enqueue, Overflow, Report, sinkVars, failVars
    <3>. QED
      BY <1>1, <3>1
  <2>. QED
    BY <1>2, <2>1, <2>2 DEF Callback
<1>3. ASSUME NEW w \in Worker, Work(w) PROVE StuckHeld'
  <2>1. /\ worker[w] \notin stuck /\ stuck' = stuck /\ inline' = inline
        /\ \E x : worker' = [worker EXCEPT ![w] = x]
    BY <1>1, <1>3
    DEF Work, Take, FingerprintTaken, WorkerEnds, Fingerprint, sinkVars, failVars
  <2>. QED
    BY <1>1, <2>1
<1>4. ASSUME NEW t \in Target, FingerprintHangs(t) PROVE StuckHeld'
  BY <1>4 DEF FingerprintHangs, poolVars
<1>5. CASE \/ \E t \in Target : Deliver(t)
           \/ DiscoveryReturns \/ Return \/ Exit \/ CrawlerDies \/ Done \/ UNCHANGED crawlerVars
  <2>1. UNCHANGED <<stuck, worker, inline>>
    BY <1>5 DEF Deliver, DiscoveryReturns, Return, Exit, CrawlerDies, Done, crawlerVars, poolVars,
                sinkVars, failVars
  <2>. QED
    BY <2>1
<1>. QED
  BY <1>2, <1>3, <1>4, <1>5 DEF PoolNext

LEMMA SinkInvariance == PoolSpec => [](Events /\ StuckHeld)
<1>1. PoolInit => Events /\ StuckHeld
  BY EventsStart DEF PoolInit, StuckHeld
<1>2. PoolInv /\ Events /\ StuckHeld /\ [PoolNext]_crawlerVars => (Events /\ StuckHeld)'
  BY EventsStep, StuckStep, PoolAssumption
<1>. QED
  BY <1>1, <1>2, PoolInvariance, PTL DEF PoolSpec

(* What became of an event the process wrote to its output.  While it runs *)
(* the event is in the writer's buffer, in the topic, or Kafka refused it; *)
(* the deferred Close leaves none in the buffer when the process exits.    *)
(* A process that dies loses what its buffer holds, and nothing else.      *)
ExitDelivers ==
  /\ alive => events = writer \cup topic \cup refused
  /\ main = "exited" => alive /\ events = topic \cup refused
  /\ ~alive => events = topic \cup refused \cup lost
  /\ ~Faults => alive /\ refused = {}

THEOREM PoolExitDelivers == PoolSpec => []ExitDelivers
<1>. DEFINE Lives == ~Faults => alive
<1>1. PoolInit => Lives
  BY DEF PoolInit
<1>2. Lives /\ [PoolNext]_crawlerVars => Lives'
  <2>. SUFFICES ASSUME ~Faults, [PoolNext]_crawlerVars PROVE alive' = alive
    OBVIOUS
  <2>1. \A d \in Discoverer : Callback(d) => alive' = alive
    BY DEF Callback, FingerprintInline, Fingerprint, Discard, Enqueue, Overflow, sinkVars,
           failVars
  <2>2. \A w \in Worker : Work(w) => alive' = alive
    BY DEF Work, Take, FingerprintTaken, Fingerprint, WorkerEnds, sinkVars, failVars
  <2>3. \A t \in Target : Deliver(t) \/ FingerprintHangs(t) => alive' = alive
    BY DEF Deliver, FingerprintHangs, failVars
  <2>4. DiscoveryReturns \/ Return \/ Exit \/ CrawlerDies \/ Done \/ UNCHANGED crawlerVars
        => alive' = alive
    BY DEF DiscoveryReturns, Return, Exit, CrawlerDies, Done, crawlerVars, sinkVars, failVars
  <2>. QED
    BY <2>1, <2>2, <2>3, <2>4 DEF PoolNext
<1>3. Events /\ Lives => ExitDelivers
  BY DEF Events, ExitDelivers
<1>. QED
  BY <1>1, <1>2, <1>3, SinkInvariance, PTL DEF PoolSpec

(* No goroutine waits for what will not come, but for a fingerprint that   *)
(* does not return: until the process has exited or died a callback has a  *)
(* port in hand, discovery can return, a worker has a port, finds one in   *)
(* the queue or leaves, the group is complete, or only the writer's buffer *)
(* is left.                                                                *)
PoolCanGoOn ==
  \/ ~alive \/ stuck # {}
  \/ main = "discovering" /\ \A d \in Discoverer : inline[d] = None
  \/ \E d \in Discoverer : inline[d] \in Target
  \/ \E w \in Worker : worker[w] \in Target
  \/ \E w \in Worker : worker[w] = None /\ (portQueue # <<>> \/ main # "discovering")
  \/ main = "draining" /\ \A w \in Worker : worker[w] = Gone
  \/ main \in {"returned", "exited"}

(* A port in the queue has a worker that will come for it, unless each of  *)
(* them waits for a hung fingerprint.  One hung fingerprint keeps the      *)
(* function from returning.  Nothing happens after the exit or the death.  *)
PoolNeverStuck ==
  /\ PoolCanGoOn
  /\ portQueue # <<>> => AllStuck \/ \E w \in Worker : worker[w] \notin stuck \cup {Gone}
  /\ stuck # {} => main \notin {"returned", "exited"}
NothingAfterExit == [][main # "exited" /\ alive]_crawlerVars

THEOREM PoolGoesOnToTheExit == PoolSpec => []PoolNeverStuck /\ NothingAfterExit
<1>1. PoolInv /\ StuckHeld => PoolNeverStuck
  <2>. SUFFICES ASSUME PoolInv, StuckHeld PROVE PoolNeverStuck
    OBVIOUS
  <2>1. portQueue # <<>> => AllStuck \/ \E w \in Worker : worker[w] \notin stuck \cup {Gone}
    BY DEF PoolInv, Closing, AllStuck
  <2>2. /\ \A d \in Discoverer : inline[d] \in Target \cup {None}
        /\ \A w \in Worker : worker[w] \in Target \cup {None, Gone}
        /\ stuck \subseteq Target /\ None \notin Target /\ Gone \notin Target
        /\ main \in {"discovering", "draining", "returned", "exited"}
    BY PoolAssumption DEF PoolInv, PoolTypeOK
  <2>3. PoolCanGoOn
    BY <2>2 DEF PoolCanGoOn, PoolInv, Closing
  <2>4. ASSUME main \in {"returned", "exited"}, NEW t \in stuck PROVE FALSE
    <3>1. (\A d \in Discoverer : inline[d] = None) /\ \A w \in Worker : worker[w] = Gone
      BY <2>4 DEF PoolInv, Closing
    <3>. QED
      BY <2>2, <2>4, <3>1 DEF StuckHeld
  <2>. QED
    BY <2>1, <2>3, <2>4 DEF PoolNeverStuck
<1>2. PoolInv /\ Events /\ [PoolNext]_crawlerVars => [main # "exited" /\ alive]_crawlerVars
  <2>1. ASSUME ~alive, PoolNext PROVE UNCHANGED crawlerVars
    BY <2>1 DEF PoolNext, Callback, FingerprintInline, Fingerprint, Discard, Enqueue, Overflow,
                Report, Work, Take, FingerprintTaken, WorkerEnds, Deliver, FingerprintHangs,
                DiscoveryReturns, Return, Exit, CrawlerDies, Done
  <2>2. ASSUME PoolInv, Events, PoolNext, main = "exited"
        PROVE  UNCHANGED crawlerVars
    <3>1. /\ writer = {} /\ \A d \in Discoverer : inline[d] = None
          /\ \A w \in Worker : worker[w] = Gone
      BY <2>2 DEF Events, PoolInv, Closing
    <3>2. \A d \in Discoverer : ~Callback(d)
      BY <2>2, <3>1 DEF Callback, FingerprintInline, Discard, Enqueue, Overflow, Report
    <3>3. \A w \in Worker : ~Work(w)
      BY <3>1, PoolAssumption DEF Work, Take, FingerprintTaken, WorkerEnds, None, Gone
    <3>4. \A t \in Target : ~Deliver(t) /\ ~FingerprintHangs(t)
      BY <3>1, PoolAssumption DEF Deliver, FingerprintHangs
    <3>. QED
      BY <2>2, <3>2, <3>3, <3>4 DEF PoolNext, DiscoveryReturns, Return, Exit, CrawlerDies, Done
  <2>. QED
    BY <2>1, <2>2
<1>. QED
  BY <1>1, <1>2, SinkInvariance, PoolInvariance, PTL DEF PoolSpec, NothingAfterExit
-----------------------------------------------------------------------------
(* The persistence service, with one process in the group.  What           *)
(* UpsertService has found out stays true until it acts on it.             *)
Upserting ==
  \A p \in Process :
    /\ step[p] \in {"update", "replace", "push"} => HostOf[Cur(p)] \in hosts
    /\ step[p] = "push" => Matches(Cur(p)) = {}

Inv == TypeOK /\ Upserting /\ OneEntryPerService /\ CaughtUp
-----------------------------------------------------------------------------
(* What an array holds after a service was appended.                       *)
LEMMA Pushed ==
  ASSUME NEW q \in Seq(Msg), NEW m \in Msg
  PROVE  /\ Append(q, m) \in Seq(Msg)
         /\ Len(q) \in Nat /\ Len(Append(q, m)) = Len(q) + 1
         /\ Append(q, m)[Len(q) + 1] = m
         /\ \A i \in 1..Len(q) : Append(q, m)[i] = q[i]
  OBVIOUS

(* And after one of its entries was overwritten.                           *)
LEMMA Overwritten ==
  ASSUME NEW q \in Seq(Msg), NEW m \in Msg, NEW k \in 1..Len(q)
  PROVE  /\ [q EXCEPT ![k] = m] \in Seq(Msg)
         /\ Len([q EXCEPT ![k] = m]) = Len(q)
         /\ [q EXCEPT ![k] = m][k] = m
         /\ \A i \in 1..Len(q) : i # k => [q EXCEPT ![k] = m][i] = q[i]
  BY ExceptSeq

(* services.$ is an entry that matches, when no two entries do.            *)
LEMMA FirstMatches ==
  ASSUME TypeOK, PersistenceAssumption, OneEntryPerService,
         NEW m \in Msg, Matches(m) # {}
  PROVE  First(m) \in Matches(m)
<1>1. PICK k \in Matches(m) : TRUE
  OBVIOUS
<1>2. HostOf[m] \in Host /\ Len(services[HostOf[m]]) \in Nat
  BY DEF TypeOK, PersistenceAssumption
<1>3. \A j \in Matches(m) : j = k
  BY <1>1, <1>2 DEF OneEntryPerService, Matches
<1>4. \A j \in Matches(m) : k <= j
  BY <1>1, <1>2, <1>3 DEF Matches
<1> QED
  BY <1>1, <1>4 DEF First

(* The message a process has is one of the log.                            *)
LEMMA CurIsMsg ==
  ASSUME TypeOK, NEW p \in Process, step[p] \notin {"down", "fetch"}
  PROVE  /\ pos[p] \in 1..Len(log[p]) /\ Cur(p) \in Msg
         /\ Handled(p) = pos[p] - 1 /\ pos[p] \in Nat
<1>1. pos[p] \in 1..Len(log[p]) /\ log[p] \in Seq(Msg)
  BY DEF TypeOK
<1> QED
  BY <1>1 DEF Cur, Handled, TypeOK
-----------------------------------------------------------------------------
(* The types of the two steps that write the services array.               *)
LEMMA ReplaceTypes ==
  ASSUME TypeOK, PersistenceAssumption, OneEntryPerService,
         NEW p \in Process, Replace(p)
  PROVE  TypeOK'
<1> DEFINE m == Cur(p)
<1>1. m \in Msg /\ First(m) \in Matches(m)
  <2>1. step[p] \notin {"down", "fetch"}
    BY DEF Replace
  <2> QED
    BY <2>1, CurIsMsg, FirstMatches DEF Replace
<1>2. HostOf[m] \in Host /\ services[HostOf[m]] \in Seq(Msg)
  BY <1>1 DEF TypeOK, PersistenceAssumption
<1>3. [services[HostOf[m]] EXCEPT ![First(m)] = m] \in Seq(Msg)
  BY <1>1, <1>2, Overwritten DEF Matches
<1>4. services' \in [Host -> Seq(Msg)]
  BY <1>2, <1>3 DEF Replace, SetService, TypeOK
<1> QED
  BY <1>4 DEF Replace, TypeOK

LEMMA PushTypes ==
  ASSUME TypeOK, PersistenceAssumption, NEW p \in Process, Push(p)
  PROVE  TypeOK'
<1>1. Cur(p) \in Msg
  BY CurIsMsg DEF Push
<1>2. HostOf[Cur(p)] \in Host /\ services[HostOf[Cur(p)]] \in Seq(Msg)
  BY <1>1 DEF TypeOK, PersistenceAssumption
<1>3. Append(services[HostOf[Cur(p)]], Cur(p)) \in Seq(Msg)
  BY <1>1, <1>2, Pushed
<1>4. services' \in [Host -> Seq(Msg)]
  BY <1>2, <1>3 DEF Push, TypeOK
<1> QED
  BY <1>4 DEF Push, TypeOK

(* The types of the others.                                                *)
LEMMA ProduceTypes ==
  ASSUME TypeOK, NEW p \in Process, NEW m \in Msg, Produce(p, m)
  PROVE  TypeOK'
<1>1. log[p] \in Seq(Msg)
  BY DEF TypeOK
<1>2. Append(log[p], m) \in Seq(Msg) /\ Len(Append(log[p], m)) = Len(log[p]) + 1 /\ Len(log[p]) \in Nat
  BY <1>1, Pushed
<1>3. log' \in [Process -> Seq(Msg)]
  BY <1>2 DEF Produce, TypeOK
<1>4. \A q \in Process : pos[q] <= Len(log'[q])
  <2> SUFFICES ASSUME NEW q \in Process
               PROVE  pos[q] <= Len(log'[q])
    OBVIOUS
  <2>1. CASE q = p
    BY <2>1, <1>2 DEF Produce, TypeOK
  <2>2. CASE q # p
    BY <2>2 DEF Produce, TypeOK
  <2> QED
    BY <2>1, <2>2
<1> QED
  BY <1>3, <1>4 DEF Produce, TypeOK

LEMMA StopTypes ==
  ASSUME TypeOK, NEW p \in Process, Stop(p), UNCHANGED <<log, services>>,
         hosts' \subseteq Host, deaths' \in Nat
  PROVE  TypeOK'
<1>1. \A q \in Process : Len(log[q]) \in Nat
  BY DEF TypeOK
<1> QED
  BY <1>1 DEF Stop, TypeOK

LEMMA RestTypes ==
  ASSUME TypeOK, PersistenceAssumption, NEW p \in Process,
         Start(p) \/ Fetch(p) \/ EnsureHost(p) \/ UpdateHost(p) \/ Miss(p)
  PROVE  TypeOK'
<1>0. Len(log[p]) \in Nat
  BY DEF TypeOK
<1>1. CASE Start(p)
  BY <1>1 DEF Start, TypeOK
<1>2. CASE Fetch(p)
  BY <1>0, <1>2 DEF Fetch, TypeOK
<1>3. CASE EnsureHost(p)
  <2>1. HostOf[Cur(p)] \in Host
    BY <1>3, CurIsMsg DEF EnsureHost, PersistenceAssumption
  <2> QED
    BY <2>1, <1>3 DEF EnsureHost, TypeOK
<1>4. CASE UpdateHost(p)
  BY <1>4 DEF UpdateHost, TypeOK
<1>5. CASE Miss(p)
  BY <1>5 DEF Miss, TypeOK
<1> QED
  BY <1>1, <1>2, <1>3, <1>4, <1>5
-----------------------------------------------------------------------------
(* A step that leaves the arrays alone keeps one entry for each service.   *)
LEMMA OneEntryStep ==
  ASSUME TypeOK, PersistenceAssumption, OneEntryPerService, Upserting,
         NEW p \in Process, UNCHANGED services \/ Replace(p) \/ Push(p)
  PROVE  OneEntryPerService'
<1>1. CASE UNCHANGED services
  BY <1>1 DEF OneEntryPerService
<1>2. CASE Replace(p)
  <2> DEFINE m == Cur(p)
             g == HostOf[m]
  <2>1. m \in Msg /\ First(m) \in Matches(m)
    BY <1>2, CurIsMsg, FirstMatches DEF Replace
  <2>2. g \in Host /\ services[g] \in Seq(Msg)
    BY <2>1 DEF TypeOK, PersistenceAssumption
  <2>3. First(m) \in 1..Len(services[g]) /\ PortOf[services[g][First(m)]] = PortOf[m]
    BY <2>1 DEF Matches
  <2>4. services'[g] = [services[g] EXCEPT ![First(m)] = m]
    BY <1>2, <2>2 DEF Replace, SetService, TypeOK
  <2>5. /\ Len(services'[g]) = Len(services[g])
        /\ \A i \in 1..Len(services[g]) : PortOf[services'[g][i]] = PortOf[services[g][i]]
    BY <2>1, <2>2, <2>3, <2>4, Overwritten
  <2>6. \A h \in Host : h # g => services'[h] = services[h]
    BY <1>2, <2>2 DEF Replace, SetService, TypeOK
  <2> HIDE DEF g
  <2> QED
    BY <2>2, <2>5, <2>6 DEF OneEntryPerService
<1>3. CASE Push(p)
  <2> DEFINE m == Cur(p)
             g == HostOf[m]
  <2>1. m \in Msg /\ Matches(m) = {}
    BY <1>3, CurIsMsg DEF Push, Upserting
  <2>2. g \in Host /\ services[g] \in Seq(Msg) /\ g \in hosts
    BY <1>3, <2>1 DEF TypeOK, PersistenceAssumption, Push, Upserting
  <2>3. \A i \in 1..Len(services[g]) : PortOf[services[g][i]] # PortOf[m]
    BY <2>1 DEF Matches
  <2>4. services'[g] = Append(services[g], m)
    BY <1>3, <2>2 DEF Push, TypeOK
  <2>5. /\ Len(services[g]) \in Nat
        /\ Len(services'[g]) = Len(services[g]) + 1
        /\ services'[g][Len(services[g]) + 1] = m
        /\ \A i \in 1..Len(services[g]) : services'[g][i] = services[g][i]
    BY <2>1, <2>2, <2>4, Pushed
  <2>6. \A h \in Host : h # g => services'[h] = services[h]
    BY <1>3, <2>2 DEF Push, TypeOK
  <2>7. \A i, j \in 1..Len(services'[g]) :
          PortOf[services'[g][i]] = PortOf[services'[g][j]] => i = j
    <3> SUFFICES ASSUME NEW i \in 1..Len(services'[g]), NEW j \in 1..Len(services'[g]),
                        PortOf[services'[g][i]] = PortOf[services'[g][j]]
                 PROVE  i = j
      OBVIOUS
    <3> HIDE DEF g, m
    <3>1. CASE i \in 1..Len(services[g]) /\ j \in 1..Len(services[g])
      BY <3>1, <2>2, <2>5 DEF OneEntryPerService
    <3>2. CASE i = Len(services[g]) + 1 /\ j = Len(services[g]) + 1
      BY <3>2
    <3>3. CASE i \in 1..Len(services[g]) /\ j = Len(services[g]) + 1
      BY <3>3, <2>3, <2>5
    <3>4. CASE i = Len(services[g]) + 1 /\ j \in 1..Len(services[g])
      BY <3>4, <2>3, <2>5
    <3> QED
      BY <3>1, <3>2, <3>3, <3>4, <2>5
  <2> HIDE DEF g
  <2> QED
    BY <2>6, <2>7 DEF OneEntryPerService
<1> QED
  BY <1>1, <1>2, <1>3

(* Both steps show the message in hand, and hide no entry of another       *)
(* service.                                                                *)
Entered(m) ==
  /\ Shown(m)'
  /\ \A n \in Msg : Shown(n) /\ ~SameService(n, m) => Shown(n)'

LEMMA ReplaceEnters ==
  ASSUME TypeOK, PersistenceAssumption, OneEntryPerService,
         NEW p \in Process, Replace(p), NEW m \in Msg, m = Cur(p)
  PROVE  Entered(m)
<1> DEFINE g == HostOf[m]
<1>1. m \in Msg /\ First(m) \in Matches(m)
  BY CurIsMsg, FirstMatches DEF Replace
<1>2. g \in Host /\ services[g] \in Seq(Msg)
  BY <1>1 DEF TypeOK, PersistenceAssumption
<1>3. First(m) \in 1..Len(services[g]) /\ PortOf[services[g][First(m)]] = PortOf[m]
  BY <1>1 DEF Matches
<1>4. services'[g] = [services[g] EXCEPT ![First(m)] = m]
  BY <1>2 DEF Replace, SetService, TypeOK
<1>5. /\ Len(services'[g]) = Len(services[g])
      /\ services'[g][First(m)] = m
      /\ \A i \in 1..Len(services[g]) : i # First(m) => services'[g][i] = services[g][i]
  BY <1>1, <1>2, <1>3, <1>4, Overwritten
<1>6. \A h \in Host : h # g => services'[h] = services[h]
  BY <1>2 DEF Replace, SetService, TypeOK
<1>7. Shown(m)'
  BY <1>3, <1>5 DEF Shown, Replace
<1>8. ASSUME NEW n \in Msg, Shown(n), ~SameService(n, m)
      PROVE  Shown(n)'
  <2>1. PICK i \in 1..Len(services[HostOf[n]]) : services[HostOf[n]][i] = n
    BY <1>8 DEF Shown
  <2>2. HostOf[n] \in Host
    BY DEF PersistenceAssumption
  <2>3. CASE HostOf[n] = g
    <3>1. i # First(m)
      BY <1>3, <1>8, <2>1, <2>3 DEF SameService
    <3> QED
      BY <1>5, <2>1, <2>3, <3>1 DEF Shown
  <2>4. CASE HostOf[n] # g
    BY <1>6, <2>1, <2>2, <2>4 DEF Shown
  <2> QED
    BY <2>3, <2>4
<1> QED
  BY <1>7, <1>8 DEF Entered

LEMMA PushEnters ==
  ASSUME TypeOK, PersistenceAssumption, Upserting, NEW p \in Process, Push(p),
         NEW m \in Msg, m = Cur(p)
  PROVE  Entered(m)
<1> DEFINE g == HostOf[m]
<1>1. m \in Msg
  OBVIOUS
<1>2. g \in Host /\ services[g] \in Seq(Msg) /\ g \in hosts
  BY <1>1 DEF TypeOK, PersistenceAssumption, Push, Upserting
<1>3. services'[g] = Append(services[g], m)
  BY <1>2 DEF Push, TypeOK
<1>4. /\ Len(services[g]) \in Nat
      /\ Len(services'[g]) = Len(services[g]) + 1
      /\ services'[g][Len(services[g]) + 1] = m
      /\ \A i \in 1..Len(services[g]) : services'[g][i] = services[g][i]
  BY <1>1, <1>2, <1>3, Pushed
<1>5. \A h \in Host : h # g => services'[h] = services[h]
  BY <1>2 DEF Push, TypeOK
<1>6. Shown(m)'
  BY <1>4 DEF Shown
<1>7. ASSUME NEW n \in Msg, Shown(n)
      PROVE  Shown(n)'
  <2>1. PICK i \in 1..Len(services[HostOf[n]]) : services[HostOf[n]][i] = n
    BY <1>7 DEF Shown
  <2>2. HostOf[n] \in Host
    BY DEF PersistenceAssumption
  <2>3. CASE HostOf[n] = g
    BY <1>4, <2>1, <2>3 DEF Shown
  <2>4. CASE HostOf[n] # g
    BY <1>5, <2>1, <2>2, <2>4 DEF Shown
  <2> QED
    BY <2>3, <2>4
<1> QED
  BY <1>6, <1>7 DEF Entered
-----------------------------------------------------------------------------
(* The log only grows, so what a process has read stays what it was.       *)
LEMMA LogKept ==
  ASSUME TypeOK, NEW p \in Process, NEW m \in Msg, Produce(p, m), NEW q \in Process
  PROVE  \A i \in 1..pos[q] : log'[q][i] = log[q][i]
<1>1. log[p] \in Seq(Msg) /\ Len(log[p]) \in Nat /\ pos[q] \in Nat /\ pos[q] <= Len(log[q])
  BY DEF TypeOK
<1>2. CASE q = p
  <2>1. log'[p] = Append(log[p], m)
    BY DEF Produce, TypeOK
  <2>2. \A i \in 1..Len(log[p]) : log'[p][i] = log[p][i]
    BY <1>1, <2>1, Pushed
  <2> QED
    BY <1>1, <1>2, <2>2
<1>3. CASE q # p
  BY <1>3 DEF Produce, TypeOK
<1> QED
  BY <1>2, <1>3

(* What UpsertService found out is not undone by the only process.         *)
LEMMA UpsertingStep ==
  ASSUME TypeOK, Upserting, OneProcess, NEW p \in Process,
         Run(p) \/ Die(p) \/ \E m \in Msg : Produce(p, m)
  PROVE  Upserting'
<1>0. SUFFICES ASSUME NEW q \in Process, q = p
               PROVE  /\ step'[q] \in {"update", "replace", "push"} => HostOf[Cur(q)'] \in hosts'
                      /\ step'[q] = "push" => Matches(Cur(q))' = {}
  BY DEF Upserting, OneProcess
<1> USE <1>0
<1>1. CASE Start(p) \/ Fetch(p)
  BY <1>1 DEF Start, Fetch, TypeOK
<1>2. CASE FetchFails(p) \/ EnrichFails(p) \/ Die(p)
  BY <1>2 DEF FetchFails, EnrichFails, Die, Stop, TypeOK
<1>3. CASE EnsureHost(p)
  BY <1>3 DEF EnsureHost, TypeOK, Cur
<1>4. CASE UpdateHost(p)
  BY <1>4 DEF UpdateHost, TypeOK, Cur, Upserting
<1>5. CASE Replace(p) \/ Push(p)
  BY <1>5 DEF Replace, Push, TypeOK
<1>6. CASE Miss(p)
  <2>1. HostOf[Cur(p)] \in hosts /\ Matches(Cur(p)) = {}
    BY <1>6 DEF Miss, Upserting
  <2>2. Cur(p)' = Cur(p) /\ Matches(Cur(p))' = Matches(Cur(p)) /\ hosts' = hosts
    BY <1>6 DEF Miss, Cur, Matches
  <2> QED
    BY <2>1, <2>2
<1>7. ASSUME NEW m \in Msg, Produce(p, m)
      PROVE  /\ step'[q] \in {"update", "replace", "push"} => HostOf[Cur(q)'] \in hosts'
             /\ step'[q] = "push" => Matches(Cur(q))' = {}
  <2> SUFFICES ASSUME step[q] \in {"update", "replace", "push"}
               PROVE  /\ HostOf[Cur(q)'] \in hosts'
                      /\ step[q] = "push" => Matches(Cur(q))' = {}
    BY <1>7 DEF Produce
  <2>1. pos[q] \in 1..pos[q]
    <3>1. step[q] \notin {"down", "fetch"}
      OBVIOUS
    <3> QED
      BY <3>1, CurIsMsg
  <2>2. Cur(q)' = Cur(q)
    <3>1. log'[q][pos[q]] = log[q][pos[q]]
      BY <1>7, <2>1, LogKept
    <3> QED
      BY <1>7, <3>1 DEF Produce, Cur
  <2>3. Matches(Cur(q))' = Matches(Cur(q)) /\ hosts' = hosts
    BY <1>7, <2>2 DEF Produce, Matches
  <2> QED
    BY <2>2, <2>3 DEF Upserting
<1> QED
  BY <1>1, <1>2, <1>3, <1>4, <1>5, <1>6, <1>7 DEF Run

(* The message in hand takes its service over, the others stay.            *)
LEMMA EnteredCatchesUp ==
  ASSUME TypeOK, CaughtUp, NEW p \in Process, step[p] \in {"replace", "push"},
         UNCHANGED <<log, pos>>, step'[p] = "fetch",
         NEW m \in Msg, m = Cur(p), Entered(m), NEW i \in 1..Handled(p)', LastOfService(p, i, Handled(p))'
  PROVE  Shown(log[p][i])'
<1>1. /\ pos[p] \in 1..Len(log[p]) /\ Handled(p) = pos[p] - 1 /\ Handled(p)' = pos[p]
      /\ Len(log[p]) \in Nat /\ pos[p] \in Nat
  BY CurIsMsg DEF Handled, TypeOK
<1>2. log[p][i] \in Msg
  BY <1>1 DEF TypeOK
<1>3. CASE i = pos[p]
  BY <1>3 DEF Entered, Cur, Shown
<1>4. CASE i # pos[p]
  <2>1. i \in 1..Handled(p) /\ pos[p] \in (i + 1)..pos[p]
    BY <1>1, <1>4
  <2>2. \A k \in (i + 1)..pos[p] : ~SameService(log[p][i], log[p][k])
    BY <1>1 DEF LastOfService, SameService
  <2>3. LastOfService(p, i, Handled(p))
    BY <1>1, <2>2 DEF LastOfService
  <2>4. Shown(log[p][i]) /\ ~SameService(log[p][i], m)
    BY <2>1, <2>2, <2>3 DEF CaughtUp, Cur
  <2>5. PICK n \in Msg : n = log[p][i]
    BY <1>2
  <2>6. Shown(n)'
    BY <2>4, <2>5 DEF Entered
  <2> QED
    BY <2>5, <2>6 DEF Shown
<1> QED
  BY <1>3, <1>4

LEMMA CaughtUpStep ==
  ASSUME TypeOK, PersistenceAssumption, OneEntryPerService, Upserting, CaughtUp, OneProcess,
         NEW p \in Process, Run(p) \/ Die(p) \/ \E m \in Msg : Produce(p, m)
  PROVE  CaughtUp'
<1>0. SUFFICES ASSUME NEW q \in Process, q = p,
                      NEW i \in 1..Handled(q)', LastOfService(q, i, Handled(q))'
               PROVE  Shown(log[q][i])'
  BY DEF CaughtUp, OneProcess
<1> USE <1>0
<1>1. CASE Start(p) \/ Fetch(p) \/ EnsureHost(p) \/ UpdateHost(p) \/ Miss(p)
  <2>1. Handled(q)' = Handled(q) /\ log' = log /\ services' = services
    BY <1>1 DEF Start, Fetch, EnsureHost, UpdateHost, Miss, Handled, TypeOK
  <2>2. LastOfService(q, i, Handled(q))
    BY <2>1 DEF LastOfService, SameService
  <2> QED
    BY <2>1, <2>2 DEF CaughtUp, Shown
<1>2. CASE FetchFails(p) \/ EnrichFails(p) \/ Die(p)
  <2>1. Handled(q)' = 0
    BY <1>2 DEF FetchFails, EnrichFails, Die, Stop, Handled, TypeOK
  <2> QED
    BY <2>1
<1>3. CASE Replace(p) \/ Push(p)
  <2>1. step[p] \in {"replace", "push"} /\ step'[p] = "fetch" /\ UNCHANGED <<log, pos>>
    BY <1>3 DEF Replace, Push, TypeOK
  <2>2. PICK m \in Msg : m = Cur(p)
    BY <2>1, CurIsMsg
  <2>3. Entered(m)
    BY <1>3, <2>2, ReplaceEnters, PushEnters
  <2> QED
    BY <2>1, <2>2, <2>3, EnteredCatchesUp
<1>4. ASSUME NEW m \in Msg, Produce(p, m)
      PROVE  Shown(log[q][i])'
  <2>1. Handled(q)' = Handled(q) /\ services' = services /\ pos' = pos
    BY <1>4 DEF Produce, Handled
  <2>2. pos[q] \in Nat /\ Handled(q) <= pos[q] /\ Handled(q) \in Int
    BY DEF TypeOK, Handled
  <2>3. \A k \in 1..Handled(q) : log'[q][k] = log[q][k]
    BY <1>4, <2>2, LogKept
  <2>4. LastOfService(q, i, Handled(q))
    BY <2>1, <2>2, <2>3 DEF LastOfService, SameService
  <2>5. Shown(log[q][i])
    BY <2>1, <2>4 DEF CaughtUp
  <2> QED
    BY <2>1, <2>3, <2>5 DEF Shown
<1> QED
  BY <1>1, <1>2, <1>3, <1>4 DEF Run
-----------------------------------------------------------------------------
LEMMA InitInv ==
  ASSUME PersistenceAssumption, Init
  PROVE  Inv
<1>1. <<>> \in Seq(Msg) /\ Len(<<>>) = 0
  BY EmptySeq
<1>2. TypeOK
  BY <1>1 DEF Init, TypeOK, PersistenceAssumption
<1>3. Upserting
  BY DEF Init, Upserting
<1>4. OneEntryPerService
  BY <1>1 DEF Init, OneEntryPerService
<1>5. CaughtUp
  BY DEF Init, CaughtUp, Handled
<1> QED
  BY <1>2, <1>3, <1>4, <1>5 DEF Inv

LEMMA NextInv ==
  ASSUME PersistenceAssumption, OneProcess, Inv, [Next]_vars
  PROVE  Inv'
<1>1. CASE UNCHANGED vars
  BY <1>1 DEF vars, Inv, TypeOK, Upserting, Cur, Matches, OneEntryPerService, CaughtUp,
              Handled, LastOfService, SameService, Shown
<1>2. CASE Next
  <2>1. PICK p \in Process : Run(p) \/ Die(p) \/ \E m \in Msg : Produce(p, m)
    BY <1>2 DEF Next
  <2>2. TypeOK'
    <3>1. CASE Replace(p) \/ Push(p)
      BY <3>1, ReplaceTypes, PushTypes DEF Inv
    <3>2. CASE FetchFails(p) \/ EnrichFails(p) \/ Die(p)
      <4>1. Stop(p) /\ UNCHANGED <<log, services, hosts>> /\ deaths' \in Nat /\ hosts' \subseteq Host
        BY <3>2 DEF FetchFails, EnrichFails, Die, Inv, TypeOK
      <4> QED
        BY <4>1, StopTypes DEF Inv
    <3>3. CASE Start(p) \/ Fetch(p) \/ EnsureHost(p) \/ UpdateHost(p) \/ Miss(p)
      BY <3>3, RestTypes DEF Inv
    <3>4. CASE \E m \in Msg : Produce(p, m)
      BY <3>4, ProduceTypes DEF Inv
    <3> QED
      BY <2>1, <3>1, <3>2, <3>3, <3>4 DEF Run
  <2>3. Upserting'
    BY <2>1, UpsertingStep DEF Inv
  <2>4. OneEntryPerService'
    <3>1. UNCHANGED services \/ Replace(p) \/ Push(p)
      BY <2>1 DEF Run, Die, Produce, Start, Fetch, FetchFails, EnsureHost, EnrichFails,
                  UpdateHost, Miss
    <3> QED
      BY <3>1, OneEntryStep DEF Inv
  <2>5. CaughtUp'
    BY <2>1, CaughtUpStep DEF Inv
  <2> QED
    BY <2>2, <2>3, <2>4, <2>5 DEF Inv
<1> QED
  BY <1>1, <1>2

LEMMA Invariant == OneProcess => (Spec => []Inv)
<1> SUFFICES ASSUME OneProcess
             PROVE  Spec => []Inv
  OBVIOUS
<1>1. Init => Inv
  BY PersistenceAssumption, InitInv
<1>2. Inv /\ [Next]_vars => Inv'
  BY PersistenceAssumption, NextInv
<1> QED
  BY <1>1, <1>2, PTL DEF Spec

(* UpsertService "Replace existing service or push if missing"             *)
(* (hosts.go:109) holds as long as the group has one process: no restart,  *)
(* replay or failed call gives a host two entries for a port.              *)
THEOREM OneProcessKeepsEntries == OneProcess => (Spec => []OneEntryPerService)
<1>1. Inv => OneEntryPerService
  BY DEF Inv
<1> QED
  BY <1>1, Invariant, PTL

(* Type correctness, for a group of one process: a message in hand is a    *)
(* message of the log, and a host that is written to has been created.     *)
THEOREM OneProcessTypes == OneProcess => (Spec => []TypeOK)
<1>1. Inv => TypeOK
  BY DEF Inv
<1> QED
  BY <1>1, Invariant, PTL

(* What the process has handled since it started is what the database      *)
(* shows, however often it has read the partition before.                  *)
THEOREM OneProcessCatchesUp == OneProcess => (Spec => [](TypeOK /\ CaughtUp))
<1>1. Inv => TypeOK /\ CaughtUp
  BY DEF Inv
<1> QED
  BY <1>1, Invariant, PTL
=============================================================================
