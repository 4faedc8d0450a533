---------------------------- MODULE CrawlerPool ----------------------------
(***************************************************************************)
(* A crawl of the legacy crawler: ScanTargetWithDiscoveryStream            *)
(* (pkg/crawler/worker.go) and its caller (cmd/crawler/main.go).  Naabu    *)
(* calls back for each open port, from goroutines of its own; a callback   *)
(* puts the port into a bounded channel for the workers or, when that is   *)
(* full, fingerprints it itself.  Events go to an asynchronous Kafka       *)
(* writer, which is closed at the end.                                     *)
(***************************************************************************)
EXTENDS Naturals, Sequences, FiniteSets

CONSTANTS
  Target,      \* open ports naabu may report, each once
  V6,          \* those with an IPv6 address
  Discoverer,  \* goroutines in which naabu calls back
  Worker,      \* fingerprinting workers: 20
  Capacity,    \* of portQueue: 100
  Faults       \* whether Kafka refuses, fingerprints hang, the process dies

VARIABLES
  main,      \* where ScanTargetWithDiscoveryStream and its caller are
  reported,  \* the ports naabu has called back for
  inline,    \* the port a callback fingerprints itself
  portQueue, \* the channel
  worker,    \* the port each worker has
  prints,    \* how often each port was fingerprinted
  events,    \* history: the ports onEvent was called for
  writer,    \* messages in the buffer of the Kafka writer
  topic,     \* messages stored in the topic
  refused,   \* history: messages Kafka would not take
  stuck,     \* ports whose fingerprint does not return
  alive,     \* the process is there
  lost       \* history: messages in the writer's buffer when it died

poolVars == <<main, reported, inline, portQueue, worker>>
failVars == <<stuck, alive, lost>>
sinkVars == <<prints, events, writer, topic, refused, failVars>>
crawlerVars == <<poolVars, sinkVars>>

None == "none"
Gone == "gone"

ASSUME PoolAssumption ==
  /\ None \notin Target /\ Gone \notin Target
  /\ V6 \subseteq Target
  /\ Worker # {} /\ Capacity \in Nat \ {0}
  /\ Faults \in BOOLEAN

PoolTypeOK ==
  /\ main \in {"discovering", "draining", "returned", "exited"}
  /\ reported \subseteq Target
  /\ inline \in [Discoverer -> Target \cup {None}]
  /\ portQueue \in Seq(Target) /\ Len(portQueue) <= Capacity
  /\ worker \in [Worker -> Target \cup {None, Gone}]
  /\ prints \in [Target -> Nat]
  /\ events \subseteq Target /\ writer \subseteq Target
  /\ topic \subseteq Target /\ refused \subseteq Target
  /\ stuck \subseteq Target /\ lost \subseteq Target
  /\ alive \in BOOLEAN

PoolInit ==
  /\ main = "discovering"
  /\ reported = {}
  /\ inline = [d \in Discoverer |-> None]
  /\ portQueue = <<>>
  /\ worker = [w \in Worker |-> None]
  /\ prints = [t \in Target |-> 0]
  /\ events = {} /\ writer = {} /\ topic = {} /\ refused = {}
  /\ stuck = {} /\ alive = TRUE /\ lost = {}
-----------------------------------------------------------------------------
\* Naabu calls back; a goroutine makes one callback at a time.
Report(d, t) ==
  /\ alive /\ main = "discovering" /\ inline[d] = None /\ t \notin reported
  /\ reported' = reported \cup {t}

\* IPv6 results are discarded.
Discard(d, t) ==
  /\ Report(d, t) /\ t \in V6
  /\ UNCHANGED <<main, inline, portQueue, worker, sinkVars>>

\* Mutant: <= for <.
EnqueueOffByOne(d, t) ==
  /\ Report(d, t) /\ t \notin V6
  /\ Len(portQueue) <= Capacity
  /\ portQueue' = Append(portQueue, t)
  /\ UNCHANGED <<main, inline, worker, sinkVars>>

\* The non-blocking send finds room.
Enqueue(d, t) ==
  /\ Report(d, t) /\ t \notin V6
  /\ Len(portQueue) < Capacity
  /\ portQueue' = Append(portQueue, t)
  /\ UNCHANGED <<main, inline, worker, sinkVars>>

\* Mutant: a port that finds the queue full is dropped.
OverflowDrops(d, t) ==
  /\ Report(d, t) /\ t \notin V6
  /\ Len(portQueue) >= Capacity
  /\ UNCHANGED <<main, inline, portQueue, worker, sinkVars>>

\* The queue is full: "fingerprint inline to avoid dropping".
Overflow(d, t) ==
  /\ Report(d, t) /\ t \notin V6
  /\ Len(portQueue) >= Capacity
  /\ inline' = [inline EXCEPT ![d] = t]
  /\ UNCHANGED <<main, portQueue, worker, sinkVars>>

\* Mutant: the event is only written to the output.
FingerprintUnpublished(t) ==
  /\ alive /\ t \notin stuck
  /\ prints' = [prints EXCEPT ![t] = @ + 1]
  /\ \/ events' = events \cup {t}
     \/ UNCHANGED events
  /\ UNCHANGED <<writer, topic, refused, failVars>>

\* FingerprintTarget returns.  It found nothing or failed, or it identified a
\* service, which onEvent prints and hands to the writer; WriteMessages takes
\* the message or, without metadata of the topic, refuses it at once.
Fingerprint(t) ==
  /\ alive /\ t \notin stuck
  /\ prints' = [prints EXCEPT ![t] = @ + 1]
  /\ \/ UNCHANGED <<events, writer, refused>>
     \/ events' = events \cup {t} /\ writer' = writer \cup {t} /\ UNCHANGED refused
     \/ Faults /\ events' = events \cup {t} /\ refused' = refused \cup {t} /\ UNCHANGED writer
  /\ UNCHANGED <<topic, failVars>>

\* FingerprintTarget meets an ssh server that stops in the second handshake,
\* where no read has a deadline, and never returns.
FingerprintHangs(t) ==
  /\ Faults /\ alive /\ t \notin stuck
  /\ (\E d \in Discoverer : inline[d] = t) \/ (\E w \in Worker : worker[w] = t)
  /\ stuck' = stuck \cup {t}
  /\ UNCHANGED <<poolVars, prints, events, writer, topic, refused, alive, lost>>

FingerprintInline(d) ==
  /\ inline[d] # None
  /\ Fingerprint(inline[d])
  /\ inline' = [inline EXCEPT ![d] = None]
  /\ UNCHANGED <<main, reported, portQueue, worker>>

\* naabu.Run returns, done or with an error, when its callbacks have; the queue is closed.
DiscoveryReturns ==
  /\ alive /\ main = "discovering" /\ \A d \in Discoverer : inline[d] = None
  /\ main' = "draining"
  /\ UNCHANGED <<reported, inline, portQueue, worker, sinkVars>>
-----------------------------------------------------------------------------
Take(w) ==
  /\ alive /\ worker[w] = None /\ portQueue # <<>>
  /\ worker' = [worker EXCEPT ![w] = Head(portQueue)]
  /\ portQueue' = Tail(portQueue)
  /\ UNCHANGED <<main, reported, inline, sinkVars>>

FingerprintTaken(w) ==
  /\ worker[w] \in Target
  /\ Fingerprint(worker[w])
  /\ worker' = [worker EXCEPT ![w] = None]
  /\ UNCHANGED <<main, reported, inline, portQueue>>

\* The range over the queue ends when it is closed and empty.
WorkerEnds(w) ==
  /\ alive /\ worker[w] = None /\ portQueue = <<>> /\ main # "discovering"
  /\ worker' = [worker EXCEPT ![w] = Gone]
  /\ UNCHANGED <<main, reported, inline, portQueue, sinkVars>>

\* wg.Wait
Return ==
  /\ alive /\ main = "draining" /\ \A w \in Worker : worker[w] = Gone
  /\ main' = "returned"
  /\ UNCHANGED <<reported, inline, portQueue, worker, sinkVars>>
-----------------------------------------------------------------------------
\* The writer's batches.  A message Kafka refuses is dropped; with Async set
\* nobody hears of it.
Deliver(t) ==
  /\ alive /\ t \in writer
  /\ writer' = writer \ {t}
  /\ \/ topic' = topic \cup {t} /\ UNCHANGED refused
     \/ Faults /\ refused' = refused \cup {t} /\ UNCHANGED topic
  /\ UNCHANGED <<poolVars, prints, events, failVars>>

\* The deferred Close waits for the writer's buffer.
Exit ==
  /\ alive /\ main = "returned" /\ writer = {}
  /\ main' = "exited"
  /\ UNCHANGED <<reported, inline, portQueue, worker, sinkVars>>

\* A plugin panics and nobody recovers, or a signal ends the process: no
\* deferred call runs, and what is in the writer's buffer is gone.
CrawlerDies ==
  /\ Faults /\ alive /\ main # "exited"
  /\ alive' = FALSE
  /\ writer' = {} /\ lost' = writer
  /\ UNCHANGED <<poolVars, prints, events, topic, refused, stuck>>

\* The crawl is over, the process is gone, or it waits for a hung fingerprint.
Done ==
  /\ main = "exited" \/ ~alive \/ stuck # {}
  /\ UNCHANGED crawlerVars

Callback(d) ==
  \/ FingerprintInline(d)
  \/ \E t \in Target : Discard(d, t) \/ Enqueue(d, t) \/ Overflow(d, t)

Work(w) == Take(w) \/ FingerprintTaken(w) \/ WorkerEnds(w)

PoolNext ==
  \/ \E d \in Discoverer : Callback(d)
  \/ \E w \in Worker : Work(w)
  \/ \E t \in Target : Deliver(t) \/ FingerprintHangs(t)
  \/ DiscoveryReturns \/ Return \/ Exit
  \/ CrawlerDies
  \/ Done

PoolSpec == PoolInit /\ [][PoolNext]_crawlerVars

\* Goroutines run, a fingerprint that does not hang returns, discovery ends, and
\* the writer's attempts end one way or the other.
FairPoolSpec ==
  /\ PoolSpec
  /\ \A d \in Discoverer : WF_crawlerVars(FingerprintInline(d))
  /\ \A w \in Worker : WF_crawlerVars(Work(w))
  /\ WF_crawlerVars(DiscoveryReturns) /\ WF_crawlerVars(Return) /\ WF_crawlerVars(Exit)
  /\ \A t \in Target : WF_crawlerVars(Deliver(t))
-----------------------------------------------------------------------------
Promise == INSTANCE Crawl WITH
  found <- reported \ V6, over <- main \in {"returned", "exited"}

(* The pool is a crawl: whichever of queue, worker and callback a port     *)
(* goes through, it is fingerprinted exactly once before the function      *)
(* returns, and nothing is found or fingerprinted after that.              *)
CrawlSpec == Promise!Spec

\* Every worker waits for a fingerprint that does not return.
AllStuck == \A w \in Worker : worker[w] \in stuck

(* The crawl ends: in the end the process has exited, or died, or a hung   *)
(* fingerprint holds it.  Every event it printed is then in the topic, was *)
(* refused by Kafka without a word, or was in the writer's buffer when the *)
(* process died.  A hung fingerprint holds up the goroutine it runs in and *)
(* no other: while one worker is left, no other port waits for it.         *)
CrawlEnds ==
  <>[](/\ main = "exited" \/ ~alive \/ stuck # {}
       /\ events = topic \cup refused \cup lost
       /\ alive => /\ lost = {}
                   /\ AllStuck \/ \A t \in reported \ (V6 \cup stuck) : prints[t] = 1)
=============================================================================
