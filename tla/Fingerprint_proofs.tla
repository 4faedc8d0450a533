------------------------- MODULE Fingerprint_proofs -------------------------
(***************************************************************************)
(* Proofs about Fingerprint for any servers, whatever they say.  Up to the *)
(* numbers of the plugins nothing is used of what a plugin does, only that *)
(* Finds is what they find.  MCFingerprint is extended for what its table  *)
(* says of a server, not for its servers.                                  *)
(***************************************************************************)
EXTENDS MCFingerprint, WellFoundedInduction, TLAPS

Loops == {"default", "default tls", "slow"}

Layer == Says[target.server].layer
PlainVia == IF UDP THEN "UDP" ELSE "TCP"

(* The plugins of the loop that the call is in. *)
Names == IF lane = "slow" THEN All(Via) ELSE PortPriority(Via, target.port)

(* What is known of the local variables at each place of the function. *)
Place ==
  /\ lane \in {"tls", "default tls"} => ~UDP
  /\ lane \in {"default", "tls"} => ~isTLS
  /\ lane = "default tls" => isTLS
  /\ lane = "tls" => at = "dial" /\ left = {}
  /\ lane \in Loops /\ at = "run" => ~used
  /\ lane \in {"default", "slow"} /\ at = "run" => left # {}
  /\ isTLS => Layer = "TCPTLS"
  /\ lane = "slow" => ~target.fast
  /\ lane \in Loops => left \subseteq Names

(* The plugins behind the call missed: those of this loop that are not     *)
(* left, and all of the loops before it.  A port that speaks TLS is in the *)
(* slow lane for plain TCP only after its handshake failed.                *)
Missed == lane \in Loops => AllMiss(target.server, Via, Names \ left, faulty)
PlainMissed ==
  lane \in {"tls", "default tls", "slow"} =>
    AllMiss(target.server, PlainVia, PortPriority(PlainVia, target.port), faulty)
TLSMissed ==
  lane = "slow" /\ Layer = "TCPTLS" =>
    IF isTLS THEN AllMiss(target.server, "TCPTLS", PortPriority("TCPTLS", target.port), faulty)
    ELSE faulty

Behind == Missed /\ PlainMissed /\ TLSMissed

(* Verdict, of each way to end on its own. *)
Ended ==
  /\ lane = "done" => Outcome(target, faulty, result) \/ (faulty /\ result = Error)
  /\ lane = "crashed" => Outcome(target, faulty, Panic)
  /\ lane = "waiting" =>
       /\ faulty = TRUE
       /\ \E via \in Layers : \E n \in All(via) :
            LET service == Finds[target.server, via, NoFault][n] IN
              Handshakes(service) /\ Outcome(target, TRUE, service)

Inv == TypeOK /\ Place /\ Behind /\ Ended

(* A panic, an error and no service are three outcomes. *)
LEMMA Outcomes == Panic # NoService /\ Panic # Error /\ Error # NoService
  BY DEF Panic, Error, NoService, CreateServiceFrom

LEMMA HandshakeIsService ==
  ASSUME NEW service, Handshakes(service) PROVE service # NoService
<1>1. NoService.protocol # "ssh"
  BY DEF NoService
<1>. QED
  BY <1>1 DEF Handshakes

LEMMA DefaultsAreOfLayer ==
  ASSUME NEW via \in Layers, NEW port
  PROVE  PortPriority(via, port) \subseteq All(via)
  BY DEF PortPriority, All

LEMMA IsFinding ==
  ASSUME NEW k, NEW via \in Layers, NEW f \in BOOLEAN, NEW fault \in Heard(f), NEW n \in All(via)
  PROVE  Finds[k, via, fault][n] \in Findings(k, f)
<1>1. Finds[k, via, fault][n] \in FindingsAt(k, via, fault)
  BY DEF FindingsAt
<1>2. Finds[k, via, fault][n] \in FindingsOf(k, via, f)
  BY <1>1 DEF FindingsOf
<1>. QED
  BY <1>2 DEF Findings

(* A plugin that misses on a good network misses on a failing one too. *)
LEMMA MissesStay ==
  ASSUME NEW k, NEW via, NEW names, NEW f \in BOOLEAN, NEW g \in BOOLEAN, f => g,
         AllMiss(k, via, names, f)
  PROVE  AllMiss(k, via, names, g)
  BY DEF AllMiss, Misses, Heard
-----------------------------------------------------------------------------
(***************************************************************************)
(* Outcome, unfolded loop by loop.                                         *)
(***************************************************************************)
SlowLane(t, via, failing, service) ==
  IF t.fast THEN service = NoService
  ELSE \/ FirstOf(t.server, via, All(via), failing, service)
       \/ AllMiss(t.server, via, All(via), failing) /\ service = NoService

FromDefaultTLS(t, failing, service) ==
  \/ FirstOf(t.server, "TCPTLS", PortPriority("TCPTLS", t.port), failing, service)
  \/ /\ AllMiss(t.server, "TCPTLS", PortPriority("TCPTLS", t.port), failing)
     /\ SlowLane(t, "TCPTLS", failing, service)

ByLoops(t, failing, service) ==
  LET layer == Says[t.server].layer
      plain == IF layer = "UDP" THEN "UDP" ELSE "TCP"
  IN
  \/ FirstOf(t.server, plain, PortPriority(plain, t.port), failing, service)
  \/ /\ AllMiss(t.server, plain, PortPriority(plain, t.port), failing)
     /\ layer = "TCPTLS" => failing
     /\ SlowLane(t, plain, failing, service)
  \/ /\ layer = "TCPTLS"
     /\ AllMiss(t.server, "TCP", PortPriority("TCP", t.port), failing)
     /\ FromDefaultTLS(t, failing, service)

(* The loops of a call that takes the port for TLS, or not. *)
Taking(t, tls, failing, service) ==
  \E end \in LoopsOf(t, tls) \cup {"done"} :
    /\ \A loop \in LoopsOf(t, tls) \cap Before(end) :
         LET via == ViaOf(t, tls, loop) IN
           AllMiss(t.server, via, NamesOf(t, via, loop), failing)
    /\ IF end = "done" THEN service = NoService
       ELSE LET via == ViaOf(t, tls, end) IN
              FirstOf(t.server, via, NamesOf(t, via, end), failing, service)

LEMMA TakingPlain ==
  ASSUME NEW t, NEW f \in BOOLEAN, NEW service, NEW plain,
         plain = (IF Says[t.server].layer = "UDP" THEN "UDP" ELSE "TCP")
  PROVE  Taking(t, FALSE, f, service) <=>
           \/ FirstOf(t.server, plain, PortPriority(plain, t.port), f, service)
           \/ /\ AllMiss(t.server, plain, PortPriority(plain, t.port), f)
              /\ SlowLane(t, plain, f, service)
<1>1. \A loop : ViaOf(t, FALSE, loop) = plain
  BY DEF ViaOf
<1>2. /\ NamesOf(t, plain, "default") = PortPriority(plain, t.port)
      /\ NamesOf(t, plain, "slow") = All(plain)
  BY DEF NamesOf
<1>3. CASE t.fast
  <2>1. LoopsOf(t, FALSE) = {"default"}
    BY <1>3 DEF LoopsOf
  <2>. QED
    BY <1>1, <1>2, <1>3, <2>1 DEF Taking, Before, SlowLane
<1>4. CASE ~t.fast
  <2>1. LoopsOf(t, FALSE) = {"default", "slow"}
    BY <1>4 DEF LoopsOf
  <2>2. /\ LoopsOf(t, FALSE) \cap Before("default") = {}
        /\ LoopsOf(t, FALSE) \cap Before("slow") = {"default"}
        /\ LoopsOf(t, FALSE) \cap Before("done") = {"default", "slow"}
    BY <2>1 DEF Before
  <2>3. Taking(t, FALSE, f, service) <=>
          \/ FirstOf(t.server, plain, PortPriority(plain, t.port), f, service)
          \/ /\ AllMiss(t.server, plain, PortPriority(plain, t.port), f)
             /\ FirstOf(t.server, plain, All(plain), f, service)
          \/ /\ AllMiss(t.server, plain, PortPriority(plain, t.port), f)
             /\ AllMiss(t.server, plain, All(plain), f)
             /\ service = NoService
    BY <1>1, <1>2, <2>1, <2>2 DEF Taking
  <2>. QED
    BY <1>4, <2>3 DEF SlowLane
<1>. QED
  BY <1>3, <1>4

LEMMA TakingTLS ==
  ASSUME NEW t, NEW f \in BOOLEAN, NEW service, Says[t.server].layer = "TCPTLS"
  PROVE  Taking(t, TRUE, f, service) <=>
           \/ FirstOf(t.server, "TCP", PortPriority("TCP", t.port), f, service)
           \/ /\ AllMiss(t.server, "TCP", PortPriority("TCP", t.port), f)
              /\ FromDefaultTLS(t, f, service)
<1>1. /\ ViaOf(t, TRUE, "default") = "TCP" /\ ViaOf(t, TRUE, "default tls") = "TCPTLS"
      /\ ViaOf(t, TRUE, "slow") = "TCPTLS"
  BY DEF ViaOf
<1>2. /\ NamesOf(t, "TCP", "default") = PortPriority("TCP", t.port)
      /\ NamesOf(t, "TCPTLS", "default tls") = PortPriority("TCPTLS", t.port)
      /\ NamesOf(t, "TCPTLS", "slow") = All("TCPTLS")
  BY DEF NamesOf
<1>3. CASE t.fast
  <2>1. LoopsOf(t, TRUE) = {"default", "default tls"}
    BY <1>3 DEF LoopsOf
  <2>. QED
    BY <1>1, <1>2, <1>3, <2>1 DEF Taking, Before, SlowLane, FromDefaultTLS
<1>4. CASE ~t.fast
  <2>1. LoopsOf(t, TRUE) = {"default", "default tls", "slow"}
    BY <1>4 DEF LoopsOf
  <2>. QED
    BY <1>1, <1>2, <1>4, <2>1 DEF Taking, Before, SlowLane, FromDefaultTLS
<1>. QED
  BY <1>3, <1>4

LEMMA OutcomeByLoops ==
  ASSUME NEW t, NEW f \in BOOLEAN, NEW service
  PROVE  Outcome(t, f, service) <=> ByLoops(t, f, service)
<1>1. Outcome(t, f, service) <=>
        \E tls \in BOOLEAN : MayTake(t, tls, f) /\ Taking(t, tls, f, service)
  BY DEF Outcome, Taking
<1>2. CASE Says[t.server].layer = "TCPTLS"
  BY <1>1, <1>2, TakingPlain, TakingTLS DEF MayTake, ByLoops
<1>3. CASE Says[t.server].layer # "TCPTLS"
  BY <1>1, <1>3, TakingPlain DEF MayTake, ByLoops
<1>. QED
  BY <1>2, <1>3
-----------------------------------------------------------------------------
(***************************************************************************)
(* The outcomes of each loop, for a call that has the earlier ones behind  *)
(* it.                                                                     *)
(***************************************************************************)
(* A loop finds nothing sooner than the first of its plugins that is left. *)
LEMMA LoopFinds ==
  ASSUME NEW k, NEW via, NEW names, NEW rest, NEW f \in BOOLEAN, NEW g \in BOOLEAN, f => g,
         AllMiss(k, via, names \ rest, f), rest \subseteq names,
         NEW n \in setupPlugins(via, rest), NEW fault \in Heard(g),
         Finds[k, via, fault][n] # NoService
  PROVE  FirstOf(k, via, names, g, Finds[k, via, fault][n])
<1>1. AllMiss(k, via, names \ rest, g)
  BY MissesStay
<1>2. n \in names /\ \A m \in rest : Priority(via, n) <= Priority(via, m)
  BY DEF setupPlugins
<1>3. \A m \in names : Priority(via, n) <= Priority(via, m) \/ Misses(k, via, m, g)
  BY <1>1, <1>2 DEF AllMiss
<1>. QED
  BY <1>2, <1>3 DEF FirstOf

(* In which lane, of which layer, a service was found. *)
LEMMA FoundIsOutcome ==
  ASSUME NEW g \in BOOLEAN, faulty => g, faulty \in BOOLEAN, TypeOK, Place, Behind, lane \in Loops,
         NEW service, FirstOf(target.server, Via, Names, g, service)
  PROVE  Outcome(target, g, service)
<1>. USE DEF Loops
<1>1. AllMiss(target.server, PlainVia, PortPriority(PlainVia, target.port), g)
        \/ lane = "default"
  BY MissesStay DEF Behind, PlainMissed
<1>2. CASE lane = "default"
  <2>1. Via = PlainVia /\ Names = PortPriority(PlainVia, target.port)
    BY <1>2 DEF Via, PlainVia, Names, Place
  <2>. QED
    BY <2>1, OutcomeByLoops DEF ByLoops, PlainVia, UDP
<1>3. CASE lane = "default tls"
  <2>1. Via = "TCPTLS" /\ Names = PortPriority("TCPTLS", target.port)
    BY <1>3 DEF Via, Names, Place
  <2>2. Says[target.server].layer = "TCPTLS" /\ PlainVia = "TCP"
    BY <1>3 DEF Place, Layer, PlainVia, UDP
  <2>. QED
    BY <1>1, <1>3, <2>1, <2>2, OutcomeByLoops DEF ByLoops, FromDefaultTLS
<1>4. CASE lane = "slow"
  <2>1. Names = All(Via) /\ ~target.fast
    BY <1>4 DEF Names, Place
  <2>2. SlowLane(target, Via, g, service)
    BY <2>1 DEF SlowLane
  <2>3. CASE isTLS
    <3>1. Says[target.server].layer = "TCPTLS" /\ PlainVia = "TCP" /\ Via = "TCPTLS"
      BY <1>4, <2>3 DEF Place, Layer, PlainVia, UDP, Via
    <3>2. AllMiss(target.server, "TCPTLS", PortPriority("TCPTLS", target.port), g)
      BY <1>4, <2>3, <3>1, MissesStay DEF Behind, TLSMissed, Layer
    <3>. QED
      BY <1>1, <1>4, <2>2, <3>1, <3>2, OutcomeByLoops DEF ByLoops, FromDefaultTLS
  <2>4. CASE ~isTLS
    <3>1. Via = PlainVia /\ (Says[target.server].layer = "TCPTLS" => g)
      BY <1>4, <2>4 DEF Via, PlainVia, Behind, TLSMissed, Layer
    <3>. QED
      BY <1>1, <1>4, <2>2, <3>1, OutcomeByLoops DEF ByLoops, PlainVia, UDP
  <2>. QED
    BY <2>3, <2>4 DEF TypeOK
<1>. QED
  BY <1>2, <1>3, <1>4

-----------------------------------------------------------------------------
LEMMA Initially ==
  ASSUME Init PROVE Inv
<1>1. target.fast \in BOOLEAN
  BY TargetAssumption DEF Init
<1>2. /\ Via = PlainVia /\ Via \in Layers
      /\ left = PortPriority(Via, target.port) /\ Names = PortPriority(Via, target.port)
  BY DEF Init, Via, PlainVia, Names, Layers
<1>3. left \subseteq All(Via)
  BY <1>2, DefaultsAreOfLayer
<1>. QED
  BY <1>2, <1>3, Outcomes
  DEF Init, Inv, TypeOK, Place, Behind, Missed, PlainMissed, TLSMissed, AllMiss, Ended, Loops

LEMMA DialKeeps ==
  ASSUME Inv, Dial PROVE Inv'
<1>. USE DEF Dial, Inv, Loops
<1>0. UDP' = UDP /\ Layer' = Layer /\ PlainVia' = PlainVia
  BY DEF UDP, Layer, PlainVia
<1>1. CASE at' = "run" /\ used' = FALSE /\ UNCHANGED <<lane, result, faulty>>
  <2>1. Via' = Via
    BY <1>0, <1>1 DEF Via
  <2>2. Names' = Names
    BY <1>1, <2>1 DEF Names
  <2>3. Behind'
    BY <1>0, <1>1, <2>1, <2>2 DEF Behind, Missed, PlainMissed, TLSMissed
  <2>. QED
    BY <1>0, <1>1, <2>1, <2>2, <2>3 DEF TypeOK, Place, Ended
<1>2. CASE Return(Error) /\ faulty' = TRUE /\ UNCHANGED <<at, used>>
  BY <1>0, <1>2, Outcomes
  DEF Return, TypeOK, Place, Behind, Missed, PlainMissed, TLSMissed, Ended
<1>. QED
  BY <1>1, <1>2

LEMMA RunKeeps ==
  ASSUME Inv, simplePluginRunner PROVE Inv'
<1>. USE DEF Inv, Loops
<1>0. /\ UDP' = UDP /\ Layer' = Layer /\ PlainVia' = PlainVia
      /\ lane \in Loops /\ at' = "dial" /\ UNCHANGED <<target, isTLS>>
  BY DEF UDP, Layer, PlainVia, simplePluginRunner
<1>1. PICK n \in setupPlugins(Via, left), fault \in Faults \cup {NoFault} :
        LET service == Finds[target.server, Via, fault][n] IN
          /\ left' = left \ {n}
          /\ \/ service = Panic /\ lane' = "crashed" /\ UNCHANGED result
             \/ service = NoService /\ UNCHANGED <<lane, result>>
             \/ service \notin {Panic, NoService} /\ Return(service)
             \/ Handshakes(service) /\ fault = NoFault /\ lane' = "waiting" /\ UNCHANGED result
          /\ faulty' = (faulty \/ fault # NoFault \/ lane' = "waiting")
  BY DEF simplePluginRunner
<1>2. faulty' \in BOOLEAN /\ used' = TRUE /\ (faulty => faulty')
  BY <1>1 DEF simplePluginRunner, TypeOK
<1>3. fault \in Heard(faulty')
  BY <1>1, <1>2 DEF Heard
<1>4. n \in left /\ n \in Names /\ n \in All(Via)
  BY <1>0 DEF setupPlugins, Place, TypeOK
<1>5. Finds[target.server, Via, fault][n] # NoService =>
        Outcome(target, faulty', Finds[target.server, Via, fault][n])
  <2>. SUFFICES ASSUME Finds[target.server, Via, fault][n] # NoService
                PROVE  Outcome(target, faulty', Finds[target.server, Via, fault][n])
    OBVIOUS
  <2>1. PICK g \in BOOLEAN : g = faulty'
    BY <1>2
  <2>2. AllMiss(target.server, Via, Names \ left, faulty) /\ left \subseteq Names
    BY <1>0 DEF Behind, Missed, Place
  <2>3. FirstOf(target.server, Via, Names, g, Finds[target.server, Via, fault][n])
    BY <1>2, <1>3, <2>1, <2>2, LoopFinds DEF TypeOK
  <2>. QED
    BY <1>0, <1>2, <2>1, <2>3, FoundIsOutcome DEF TypeOK
<1>6. CASE Finds[target.server, Via, fault][n] = Panic /\ lane' = "crashed" /\ UNCHANGED result
  BY <1>0, <1>2, <1>5, <1>6, Outcomes
  DEF TypeOK, Place, Behind, Missed, PlainMissed, TLSMissed, Ended
<1>7. CASE /\ Handshakes(Finds[target.server, Via, fault][n]) /\ fault = NoFault
           /\ lane' = "waiting" /\ UNCHANGED result
  <2>1. faulty' = TRUE
    BY <1>1, <1>7
  <2>2. Via \in Layers
    BY DEF Via, Layers
  <2>3. Finds[target.server, Via, fault][n] # NoService
    BY <1>7, HandshakeIsService
  <2>4. Ended'
    BY <1>0, <1>4, <1>5, <1>7, <2>1, <2>2, <2>3 DEF Ended
  <2>. QED
    BY <1>0, <1>2, <1>7, <2>4, Outcomes
    DEF TypeOK, Place, Behind, Missed, PlainMissed, TLSMissed
<1>8. CASE /\ Finds[target.server, Via, fault][n] = NoService
           /\ UNCHANGED <<lane, result>>
  <2>1. Via' = Via
    BY <1>0, <1>8 DEF Via
  <2>2. Names' = Names
    BY <1>0, <1>8, <2>1 DEF Names
  <2>3. AllMiss(target.server, Via, Names \ left, faulty')
    BY <1>0, <1>2, MissesStay DEF Behind, Missed, TypeOK
  <2>4. Misses(target.server, Via, n, faulty')
    BY <1>3, <1>8 DEF Misses
  <2>5. Missed'
    BY <1>0, <1>1, <2>1, <2>2, <2>3, <2>4 DEF Missed, AllMiss
  <2>6. PlainMissed'
    BY <1>0, <1>2, <1>8, MissesStay DEF Behind, PlainMissed, TypeOK
  <2>7. TLSMissed'
    BY <1>0, <1>2, <1>8, MissesStay DEF Behind, TLSMissed, TypeOK
  <2>8. TypeOK'
    BY <1>0, <1>1, <1>2, <1>8, <2>1 DEF TypeOK
  <2>9. Place'
    BY <1>0, <1>1, <1>8, <2>2 DEF Place
  <2>. QED
    BY <1>0, <1>8, <2>5, <2>6, <2>7, <2>8, <2>9 DEF Behind, Ended
<1>9. CASE /\ Finds[target.server, Via, fault][n] \notin {Panic, NoService}
           /\ Return(Finds[target.server, Via, fault][n])
  BY <1>0, <1>2, <1>5, <1>9, Outcomes
  DEF Return, TypeOK, Place, Behind, Missed, PlainMissed, TLSMissed, Ended
<1>. QED
  BY <1>1, <1>6, <1>7, <1>8, <1>9

(* The three places where the fast lane ends: via is the layer that the    *)
(* slow lane will try, and the loops of the fast lane missed.              *)
LEMMA SlowKeeps ==
  ASSUME Inv, NEW via \in Layers, Slow(via), lane \notin {"done", "crashed", "waiting"}, at' = "dial",
         via = (IF UDP THEN "UDP" ELSE IF isTLS' THEN "TCPTLS" ELSE "TCP"),
         target' = target, faulty' \in BOOLEAN, faulty => faulty',
         isTLS' \in BOOLEAN, used' \in BOOLEAN, isTLS' => Layer = "TCPTLS",
         AllMiss(target.server, PlainVia, PortPriority(PlainVia, target.port), faulty'),
         Layer = "TCPTLS" =>
           IF isTLS' THEN AllMiss(target.server, "TCPTLS", PortPriority("TCPTLS", target.port), faulty')
           ELSE faulty'
  PROVE  Inv'
<1>0. UDP' = UDP /\ Layer' = Layer /\ PlainVia' = PlainVia
  BY DEF UDP, Layer, PlainVia
<1>1. CASE target.fast /\ Return(NoService) /\ UNCHANGED left
  <2>1. SlowLane(target, via, faulty', NoService)
    BY <1>1 DEF SlowLane
  <2>2. Outcome(target, faulty', NoService)
    <3>1. PICK g \in BOOLEAN : g = faulty'
      OBVIOUS
    <3>2. ByLoops(target, g, NoService)
      BY <2>1, <3>1 DEF ByLoops, FromDefaultTLS, Layer, PlainVia, UDP
    <3>. QED
      BY <3>1, <3>2, OutcomeByLoops
  <2>. QED
    BY <1>0, <1>1, <2>2, Outcomes
    DEF Return, Inv, TypeOK, Place, Behind, Missed, PlainMissed, TLSMissed, Ended, Loops
<1>2. CASE ~target.fast /\ lane' = "slow" /\ left' = All(via) /\ UNCHANGED result
  <2>1. Via' = via /\ Names' = All(via)
    BY <1>0, <1>2 DEF Via, Names
  <2>2. TypeOK'
    BY <1>2, <2>1, Outcomes DEF Inv, TypeOK
  <2>3. Behind'
    BY <1>0, <1>2, <2>1 DEF Behind, Missed, PlainMissed, TLSMissed, AllMiss, Loops
  <2>. QED
    BY <1>0, <1>2, <2>1, <2>2, <2>3 DEF Inv, Place, Ended, Loops
<1>. QED
  BY <1>1, <1>2 DEF Slow, Inv, TypeOK

LEMMA EndOfDefaultKeeps ==
  ASSUME Inv, EndOfDefault PROVE Inv'
<1>. USE DEF EndOfDefault, Inv
<1>1. /\ Via = PlainVia /\ Names = PortPriority(PlainVia, target.port) /\ Names \ left = Names
      /\ UDP' = UDP /\ Layer' = Layer /\ PlainVia' = PlainVia
  BY DEF Via, PlainVia, Names, UDP, Layer
<1>2. AllMiss(target.server, PlainVia, PortPriority(PlainVia, target.port), faulty)
  BY <1>1 DEF Behind, Missed, Loops
<1>3. CASE UDP
  <2>1. Layer # "TCPTLS" /\ ~isTLS
    BY <1>3 DEF Layer, UDP, Place
  <2>. QED
    BY <1>2, <1>3, <2>1, SlowKeeps DEF TypeOK, Layers
<1>4. CASE ~UDP
  BY <1>1, <1>2, <1>4
  DEF TypeOK, Place, Behind, Missed, PlainMissed, TLSMissed, Ended, Loops
<1>. QED
  BY <1>3, <1>4

LEMMA ProbeKeeps ==
  ASSUME Inv, ProbeTLS PROVE Inv'
<1>. USE DEF ProbeTLS, Inv
<1>0. UDP' = UDP /\ ~UDP /\ Layer' = Layer /\ PlainVia' = PlainVia /\ PlainVia = "TCP" /\ ~isTLS
  BY DEF UDP, Layer, PlainVia, Place
<1>1. AllMiss(target.server, "TCP", PortPriority("TCP", target.port), faulty)
  BY <1>0 DEF Behind, PlainMissed
<1>2. CASE /\ Says[target.server].layer = "TCPTLS"
           /\ isTLS' = TRUE /\ used' = FALSE
           /\ lane' = "default tls" /\ left' = PortPriority("TCPTLS", target.port) /\ at' = "run"
           /\ UNCHANGED <<result, faulty>>
  <2>1. Via' = "TCPTLS" /\ Names' = left'
    BY <1>0, <1>2 DEF Via, Names
  <2>2. left' \subseteq All(Via')
    BY <1>2, <2>1, DefaultsAreOfLayer DEF Layers
  <2>3. Behind'
    BY <1>0, <1>1, <1>2, <2>1 DEF Behind, Missed, PlainMissed, TLSMissed, AllMiss
  <2>4. TypeOK'
    BY <1>2, <2>1, <2>2 DEF TypeOK
  <2>. QED
    BY <1>0, <1>2, <2>1, <2>3, <2>4 DEF Place, Ended, Layer, Loops
<1>3. CASE /\ faulty' = (faulty \/ Says[target.server].layer = "TCPTLS")
           /\ Slow("TCP") /\ UNCHANGED <<isTLS, used, at>>
  <2>1. faulty' \in BOOLEAN /\ (faulty => faulty') /\ (Layer = "TCPTLS" => faulty')
    BY <1>3 DEF TypeOK, Layer
  <2>2. AllMiss(target.server, PlainVia, PortPriority(PlainVia, target.port), faulty')
    BY <1>0, <1>1, <2>1, MissesStay DEF TypeOK
  <2>3. at' = "dial"
    BY <1>3 DEF Place
  <2>. QED
    BY <1>0, <1>3, <2>1, <2>2, <2>3, SlowKeeps DEF TypeOK, Layers
<1>. QED
  BY <1>2, <1>3

LEMMA EndOfDefaultTLSKeeps ==
  ASSUME Inv, EndOfDefaultTLS PROVE Inv'
<1>. USE DEF EndOfDefaultTLS, Inv
<1>1. isTLS' = TRUE /\ ~UDP /\ Layer = "TCPTLS"
  BY DEF Place, TypeOK
<1>2. Via = "TCPTLS" /\ Names = PortPriority("TCPTLS", target.port) /\ Names \ left = Names
  BY <1>1 DEF Via, Names
<1>3. AllMiss(target.server, "TCPTLS", PortPriority("TCPTLS", target.port), faulty)
  BY <1>2 DEF Behind, Missed, Loops
<1>4. AllMiss(target.server, PlainVia, PortPriority(PlainVia, target.port), faulty)
  BY DEF Behind, PlainMissed
<1>. QED
  BY <1>1, <1>3, <1>4, SlowKeeps DEF TypeOK, Layers

LEMMA EndOfSlowKeeps ==
  ASSUME Inv, EndOfSlow PROVE Inv'
<1>. USE DEF EndOfSlow, Inv, Return
<1>0. UDP' = UDP
  BY DEF UDP
<1>1. Via \in Layers /\ Names = All(Via) /\ Names \ left = Names
  BY DEF Via, Names, Layers
<1>2. SlowLane(target, Via, faulty, NoService)
  BY <1>1 DEF SlowLane, Behind, Missed, Loops
<1>3. CASE isTLS
  <2>1. ByLoops(target, faulty, NoService)
    BY <1>2, <1>3 DEF ByLoops, FromDefaultTLS, Behind, PlainMissed, TLSMissed, Place, Layer,
                         PlainVia, UDP, Via
  <2>2. Outcome(target, faulty, NoService)
    BY <2>1, OutcomeByLoops DEF TypeOK
  <2>. QED
    BY <1>0, <2>2, Outcomes DEF Layer, Behind, PlainMissed, TLSMissed, Place, Ended, TypeOK, Missed,
                                   Loops
<1>4. CASE ~isTLS
  <2>1. ByLoops(target, faulty, NoService)
    BY <1>2, <1>4 DEF ByLoops, FromDefaultTLS, Behind, PlainMissed, TLSMissed, Place, Layer,
                         PlainVia, UDP, Via
  <2>2. Outcome(target, faulty, NoService)
    BY <2>1, OutcomeByLoops DEF TypeOK
  <2>. QED
    BY <1>0, <2>2, Outcomes DEF Layer, Behind, PlainMissed, TLSMissed, Place, Ended, TypeOK, Missed, Loops
<1>. QED
  BY <1>3, <1>4 DEF TypeOK

LEMMA Stutter ==
  ASSUME Inv, UNCHANGED vars PROVE Inv'
<1>1. /\ UDP' = UDP /\ Via' = Via /\ Layer' = Layer /\ PlainVia' = PlainVia
      /\ Names' = Names
  BY DEF vars, UDP, Via, Layer, PlainVia, Names
<1>. QED
  BY <1>1 DEF vars, Inv, TypeOK, Place, Behind, Missed, PlainMissed, TLSMissed, Ended, Loops

LEMMA Invariance == Spec => []Inv
<1>1. Init => Inv
  BY Initially
<1>2. Inv /\ [Next]_vars => Inv'
  BY DialKeeps, RunKeeps, EndOfDefaultKeeps, ProbeKeeps, EndOfDefaultTLSKeeps,
     EndOfSlowKeeps, Stutter DEF Next
<1>. QED
  BY <1>1, <1>2, PTL DEF Spec

(* Every variable of the call has a value of its kind, and a loop has only *)
(* plugins of its own layer before it.                                     *)
THEOREM FingerprintTypes == Spec => []TypeOK
  BY Invariance, PTL DEF Inv

(* What a call returns, and what ends the process in it, is what the first *)
(* lane that finds anything finds, by the plugin of the lowest number      *)
(* there; and it is no service only when every plugin that was to be tried *)
(* missed, because the server says nothing to it or the network failed it. *)
THEOREM FingerprintVerdict == Spec => []Verdict
<1>1. ASSUME Inv PROVE Verdict
  <2>1. CASE lane = "done" \/ lane = "crashed"
    BY <1>1, <2>1 DEF Inv, Ended, Verdict, EndsWith
  <2>2. CASE lane = "waiting"
    <3>1. PICK via \in Layers :
            \E n \in All(via) :
              /\ Handshakes(Finds[target.server, via, NoFault][n])
              /\ Outcome(target, TRUE, Finds[target.server, via, NoFault][n])
      BY <1>1, <2>2 DEF Inv, Ended
    <3>2. PICK n \in All(via) :
            /\ Handshakes(Finds[target.server, via, NoFault][n])
            /\ Outcome(target, TRUE, Finds[target.server, via, NoFault][n])
      BY <3>1
    <3>3. Finds[target.server, via, NoFault][n] \in Findings(target.server, FALSE)
      <4>1. NoFault \in Heard(FALSE)
        BY DEF Heard
      <4>. QED
        BY <4>1, IsFinding
    <3>. QED
      BY <1>1, <2>2, <3>2, <3>3 DEF Inv, Ended, Verdict, EndsWith
  <2>. QED
    BY <2>1, <2>2 DEF Verdict
<1>. QED
  BY <1>1, Invariance, PTL

(* No plugin runs on a connection on which another plugin has run. *)
THEOREM FingerprintDialsAfresh == Spec => FreshConnection
<1>1. Inv /\ [Next]_vars => [(\E n \in left : left' = left \ {n}) => ~used]_vars
  <2>. SUFFICES ASSUME Inv, Next, NEW n \in left, left' = left \ {n}
                PROVE  ~used
    OBVIOUS
  <2>1. CASE simplePluginRunner
    BY <2>1 DEF simplePluginRunner, Inv, Place, Loops
  <2>2. CASE Dial
    BY <2>2 DEF Dial
  <2>3. CASE EndOfDefault \/ EndOfDefaultTLS \/ EndOfSlow
    BY <2>3 DEF EndOfDefault, EndOfDefaultTLS, EndOfSlow
  <2>4. CASE ProbeTLS
    BY <2>4 DEF ProbeTLS, Inv, Place
  <2>. QED
    BY <2>1, <2>2, <2>3, <2>4 DEF Next
<1>. QED
  BY <1>1, Invariance, PTL DEF Spec, FreshConnection
-----------------------------------------------------------------------------
(***************************************************************************)
(* The numbers that the plugins have (Priority of each).  Within a layer   *)
(* they tell the plugins apart, but for two pairs over plain TCP, whose    *)
(* order sort.Slice may change.                                            *)
(***************************************************************************)
Is(p, name, number) == p.name = name /\ p.priority = number

IsTCP(p) ==
  \/ Is(p, "http", 0) \/ Is(p, "echo", 1) \/ Is(p, "minecraft", 1)
  \/ Is(p, "ssh", 2) \/ Is(p, "telnet", 4) \/ Is(p, "ftp", 10)
  \/ Is(p, "dns", 50) \/ Is(p, "smtp", 60) \/ Is(p, "rdp", 89)
  \/ Is(p, "pop3", 120) \/ Is(p, "mysql", 133) \/ Is(p, "mssql", 143)
  \/ Is(p, "ldap", 175) \/ Is(p, "imap", 191) \/ Is(p, "kafkaNew", 200)
  \/ Is(p, "kafkaOld", 201) \/ Is(p, "vnc", 265) \/ Is(p, "rpc", 300)
  \/ Is(p, "smb", 320) \/ Is(p, "modbus", 400) \/ Is(p, "redis", 413)
  \/ Is(p, "mqtt3", 500) \/ Is(p, "jdwp", 500) \/ Is(p, "mqtt5", 505)
  \/ Is(p, "rsync", 578) \/ Is(p, "oracle", 900) \/ Is(p, "postgres", 1000)
  \/ Is(p, "rtsp", 1001)

IsTLS(p) ==
  \/ Is(p, "https", 1) \/ Is(p, "smtps", 61) \/ Is(p, "rdp", 89)
  \/ Is(p, "pop3s", 122) \/ Is(p, "ldaps", 175) \/ Is(p, "imaps", 190)
  \/ Is(p, "kafkaNewTLS", 200) \/ Is(p, "kafkaOldTLS", 201)
  \/ Is(p, "redis", 414) \/ Is(p, "mqtt3tls", 501) \/ Is(p, "mqtt5tls", 506)

IsUDP(p) ==
  \/ Is(p, "dns", 50) \/ Is(p, "ipmi", 80) \/ Is(p, "snmp", 81)
  \/ Is(p, "dhcp", 100) \/ Is(p, "ipsec", 198) \/ Is(p, "netbios", 700)
  \/ Is(p, "openvpn", 708) \/ Is(p, "ntp", 800) \/ Is(p, "stun", 2000)

Ties == {{"echo", "minecraft"}, {"mqtt3", "jdwp"}}

LEMMA TCPNumbers ==
  ASSUME NEW c, NEW p \in Registered(c)["TCP"]
  PROVE  IsTCP(p)
<1>1. Is(HTTPPlugin(c), "http", 0)
  BY DEF HTTPPlugin, Plugin, Is
<1>2. Is(EchoPlugin(c), "echo", 1)
  BY DEF EchoPlugin, Plugin, Is
<1>3. Is(MinecraftPlugin(c), "minecraft", 1)
  BY DEF MinecraftPlugin, Plugin, Is
<1>4. Is(SSHPlugin(c), "ssh", 2)
  BY DEF SSHPlugin, Plugin, Is
<1>5. Is(TELNETPlugin(c), "telnet", 4)
  BY DEF TELNETPlugin, Plugin, Is
<1>6. Is(FTPPlugin(c), "ftp", 10)
  BY DEF FTPPlugin, Plugin, Is
<1>7. Is(DNSPlugin(c), "dns", 50)
  BY DEF DNSPlugin, Plugin, Is
<1>8. Is(SMTPPlugin(c), "smtp", 60)
  BY DEF SMTPPlugin, Plugin, Is
<1>9. Is(RDPPlugin(c), "rdp", 89)
  BY DEF RDPPlugin, Plugin, Is
<1>10. Is(POP3Plugin(c), "pop3", 120)
  BY DEF POP3Plugin, Plugin, Is
<1>11. Is(MYSQLPlugin(c), "mysql", 133)
  BY DEF MYSQLPlugin, Plugin, Is
<1>12. Is(MSSQLPlugin(c), "mssql", 143)
  BY DEF MSSQLPlugin, Plugin, Is
<1>13. Is(LDAPPlugin(c), "ldap", 175)
  BY DEF LDAPPlugin, Plugin, Is
<1>14. Is(IMAPPlugin(c), "imap", 191)
  BY DEF IMAPPlugin, Plugin, Is
<1>15. Is(KafkaNewPlugin(c), "kafkaNew", 200)
  BY DEF KafkaNewPlugin, Plugin, Is
<1>16. Is(KafkaOldPlugin(c), "kafkaOld", 201)
  BY DEF KafkaOldPlugin, Plugin, Is
<1>17. Is(VNCPlugin(c), "vnc", 265)
  BY DEF VNCPlugin, Plugin, Is
<1>18. Is(RPCPlugin(c), "rpc", 300)
  BY DEF RPCPlugin, Plugin, Is
<1>19. Is(SMBPlugin(c), "smb", 320)
  BY DEF SMBPlugin, Plugin, Is
<1>20. Is(MODBUSPlugin(c), "modbus", 400)
  BY DEF MODBUSPlugin, Plugin, Is
<1>21. Is(REDISPlugin(c), "redis", 413)
  BY DEF REDISPlugin, Plugin, Is
<1>22. Is(MQTT3Plugin(c), "mqtt3", 500)
  BY DEF MQTT3Plugin, Plugin, Is
<1>23. Is(JDWPPlugin(c), "jdwp", 500)
  BY DEF JDWPPlugin, Plugin, Is
<1>24. Is(MQTT5Plugin(c), "mqtt5", 505)
  BY DEF MQTT5Plugin, Plugin, Is
<1>25. Is(RSYNCPlugin(c), "rsync", 578)
  BY DEF RSYNCPlugin, Plugin, Is
<1>26. Is(ORACLEPlugin(c), "oracle", 900)
  BY DEF ORACLEPlugin, Plugin, Is
<1>27. Is(POSTGRESPlugin(c), "postgres", 1000)
  BY DEF POSTGRESPlugin, Plugin, Is
<1>28. Is(RTSPPlugin(c), "rtsp", 1001)
  BY DEF RTSPPlugin, Plugin, Is
<1>. QED
  BY <1>1, <1>2, <1>3, <1>4, <1>5, <1>6, <1>7, <1>8, <1>9, <1>10, <1>11, <1>12,
     <1>13, <1>14, <1>15, <1>16, <1>17, <1>18, <1>19, <1>20, <1>21, <1>22, <1>23,
     <1>24, <1>25, <1>26, <1>27, <1>28
  DEF Registered, IsTCP

LEMMA TLSNumbers ==
  ASSUME NEW c, NEW p \in Registered(c)["TCPTLS"]
  PROVE  IsTLS(p)
<1>1. Is(HTTPSPlugin(c), "https", 1)
  BY DEF HTTPSPlugin, Plugin, Is
<1>2. Is(SMTPSPlugin(c), "smtps", 61)
  BY DEF SMTPSPlugin, Plugin, Is
<1>3. Is(RDPTLSPlugin(c), "rdp", 89)
  BY DEF RDPTLSPlugin, Plugin, Is
<1>4. Is(POP3SPlugin(c), "pop3s", 122)
  BY DEF POP3SPlugin, Plugin, Is
<1>5. Is(LDAPSPlugin(c), "ldaps", 175)
  BY DEF LDAPSPlugin, Plugin, Is
<1>6. Is(IMAPSPlugin(c), "imaps", 190)
  BY DEF IMAPSPlugin, Plugin, Is
<1>7. Is(KafkaNewTLSPlugin(c), "kafkaNewTLS", 200)
  BY DEF KafkaNewTLSPlugin, Plugin, Is
<1>8. Is(KafkaOldTLSPlugin(c), "kafkaOldTLS", 201)
  BY DEF KafkaOldTLSPlugin, Plugin, Is
<1>9. Is(REDISTLSPlugin(c), "redis", 414)
  BY DEF REDISTLSPlugin, Plugin, Is
<1>10. Is(MQTT3TLSPlugin(c), "mqtt3tls", 501)
  BY DEF MQTT3TLSPlugin, Plugin, Is
<1>11. Is(MQTT5TLSPlugin(c), "mqtt5tls", 506)
  BY DEF MQTT5TLSPlugin, Plugin, Is
<1>. QED
  BY <1>1, <1>2, <1>3, <1>4, <1>5, <1>6, <1>7, <1>8, <1>9, <1>10, <1>11
  DEF Registered, IsTLS

LEMMA UDPNumbers ==
  ASSUME NEW c, NEW p \in Registered(c)["UDP"]
  PROVE  IsUDP(p)
<1>1. Is(DNSUDPPlugin(c), "dns", 50)
  BY DEF DNSUDPPlugin, Plugin, Is
<1>2. Is(IPMIPlugin(c), "ipmi", 80)
  BY DEF IPMIPlugin, Plugin, Is
<1>3. Is(SNMPPlugin(c), "snmp", 81)
  BY DEF SNMPPlugin, Plugin, Is
<1>4. Is(DHCPPlugin(c), "dhcp", 100)
  BY DEF DHCPPlugin, Plugin, Is
<1>5. Is(IPSECPlugin(c), "ipsec", 198)
  BY DEF IPSECPlugin, Plugin, Is
<1>6. Is(NETBIOSPlugin(c), "netbios", 700)
  BY DEF NETBIOSPlugin, Plugin, Is
<1>7. Is(OpenVPNPlugin(c), "openvpn", 708)
  BY DEF OpenVPNPlugin, Plugin, Is
<1>8. Is(NTPPlugin(c), "ntp", 800)
  BY DEF NTPPlugin, Plugin, Is
<1>9. Is(STUNPlugin(c), "stun", 2000)
  BY DEF STUNPlugin, Plugin, Is
<1>. QED
  BY <1>1, <1>2, <1>3, <1>4, <1>5, <1>6, <1>7, <1>8, <1>9
  DEF Registered, IsUDP

LEMMA TCPTies ==
  ASSUME NEW p, NEW q, IsTCP(p), IsTCP(q), p.priority = q.priority
  PROVE  p.name = q.name \/ {p.name, q.name} \in Ties
  BY DEF IsTCP, Is, Ties

LEMMA TLSTies ==
  ASSUME NEW p, NEW q, IsTLS(p), IsTLS(q), p.priority = q.priority
  PROVE  p.name = q.name
  BY DEF IsTLS, Is

LEMMA UDPTies ==
  ASSUME NEW p, NEW q, IsUDP(p), IsUDP(q), p.priority = q.priority
  PROVE  p.name = q.name
  BY DEF IsUDP, Is

Catalogued(via, p) ==
  CASE via = "TCP" -> IsTCP(p) [] via = "TCPTLS" -> IsTLS(p) [] via = "UDP" -> IsUDP(p)

LEMMA CatalogueNumbers ==
  ASSUME NEW via \in Layers, NEW p \in Catalogue[via]
  PROVE  Catalogued(via, p)
<1>. DEFINE none == [greets |-> Silent, answers |-> <<>>, otherwise |-> Silent]
            c == [talk |-> none, fault |-> NoFault]
<1>1. PICK q \in Registered(c)[via] :
        p = [name |-> q.name, priority |-> q.priority, ports |-> q.ports]
  BY DEF Catalogue
<1>2. p.name = q.name /\ p.priority = q.priority
  BY <1>1
<1>. HIDE DEF none, c
<1>3. CASE via = "TCP"
  <2>1. IsTCP(q)
    BY <1>3, TCPNumbers
  <2>. QED
    BY <1>2, <1>3, <2>1 DEF IsTCP, Is, Catalogued
<1>4. CASE via = "TCPTLS"
  <2>1. IsTLS(q)
    BY <1>4, TLSNumbers
  <2>. QED
    BY <1>2, <1>4, <2>1 DEF IsTLS, Is, Catalogued
<1>5. CASE via = "UDP"
  <2>1. IsUDP(q)
    BY <1>5, UDPNumbers
  <2>. QED
    BY <1>2, <1>5, <2>1 DEF IsUDP, Is, Catalogued
<1>. QED
  BY <1>3, <1>4, <1>5 DEF Layers

LEMMA PriorityIsOf ==
  ASSUME NEW via \in Layers, NEW n \in All(via)
  PROVE  \E p \in Catalogue[via] : p.name = n /\ p.priority = Priority(via, n)
  BY DEF All, Priority

LEMMA PriorityIsNat ==
  ASSUME NEW via \in Layers, NEW n \in All(via)
  PROVE  Priority(via, n) \in Nat
<1>1. PICK p \in Catalogue[via] : p.name = n /\ p.priority = Priority(via, n)
  BY PriorityIsOf
<1>2. Catalogued(via, p)
  BY CatalogueNumbers
<1>3. IsTCP(p) \/ IsTLS(p) \/ IsUDP(p)
  BY <1>2 DEF Catalogued, Layers
<1>4. p.priority \in Nat
  BY <1>3 DEF IsTCP, IsTLS, IsUDP, Is
<1>. QED
  BY <1>1, <1>4

LEMMA SamePriority ==
  ASSUME NEW via \in Layers, NEW m \in All(via), NEW n \in All(via),
         Priority(via, m) = Priority(via, n)
  PROVE  m = n \/ (via = "TCP" /\ {m, n} \in Ties)
<1>1. PICK p \in Catalogue[via] : p.name = m /\ p.priority = Priority(via, m)
  BY PriorityIsOf
<1>2. PICK q \in Catalogue[via] : q.name = n /\ q.priority = Priority(via, n)
  BY PriorityIsOf
<1>3. Catalogued(via, p) /\ Catalogued(via, q)
  BY CatalogueNumbers
<1>4. p.priority = q.priority
  BY <1>1, <1>2
<1>5. CASE via = "TCP"
  <2>1. IsTCP(p) /\ IsTCP(q)
    BY <1>3, <1>5 DEF Catalogued
  <2>. QED
    BY <1>1, <1>2, <1>4, <1>5, <2>1, TCPTies
<1>6. CASE via = "TCPTLS"
  <2>1. IsTLS(p) /\ IsTLS(q)
    BY <1>3, <1>6 DEF Catalogued
  <2>. QED
    BY <1>1, <1>2, <1>4, <2>1, TLSTies
<1>7. CASE via = "UDP"
  <2>1. IsUDP(p) /\ IsUDP(q)
    BY <1>3, <1>7 DEF Catalogued
  <2>. QED
    BY <1>1, <1>2, <1>4, <2>1, UDPTies
<1>. QED
  BY <1>5, <1>6, <1>7 DEF Layers
-----------------------------------------------------------------------------
(***************************************************************************)
(* On a network that does not fail there is one outcome.                   *)
(***************************************************************************)
Found(k, via, n) == Finds[k, via, NoFault][n] # NoService

(* A server that two plugins of one number take for their own. *)
Ambiguous(k) ==
  \E m, n \in All("TCP") :
    m # n /\ {m, n} \in Ties /\ Found(k, "TCP", m) /\ Found(k, "TCP", n)

LEMMA GoodNetwork ==
  ASSUME NEW k, NEW via, NEW n
  PROVE  Misses(k, via, n, FALSE) <=> ~Found(k, via, n)
  BY DEF Misses, Heard, Found

LEMMA FirstIsFound ==
  ASSUME NEW k, NEW via, NEW names, NEW service, FirstOf(k, via, names, FALSE, service)
  PROVE  \E n \in names : /\ Found(k, via, n) /\ service = Finds[k, via, NoFault][n]
                          /\ \A m \in names : Found(k, via, m) => Priority(via, n) <= Priority(via, m)
<1>1. PICK n \in names, fault \in Heard(FALSE) :
        /\ Finds[k, via, fault][n] = service
        /\ \A m \in names : Priority(via, n) <= Priority(via, m) \/ Misses(k, via, m, FALSE)
  BY DEF FirstOf
<1>2. fault = NoFault
  BY DEF Heard
<1>3. service # NoService
  BY DEF FirstOf
<1>4. Found(k, via, n) /\ service = Finds[k, via, NoFault][n]
  BY <1>1, <1>2, <1>3 DEF Found
<1>5. \A m \in names : Found(k, via, m) => Priority(via, n) <= Priority(via, m)
  BY <1>1, GoodNetwork
<1>. QED
  BY <1>4, <1>5

LEMMA OneFirst ==
  ASSUME NEW k, ~Ambiguous(k), NEW via \in Layers, NEW names, names \subseteq All(via),
         NEW a, FirstOf(k, via, names, FALSE, a), NEW b, FirstOf(k, via, names, FALSE, b)
  PROVE  a = b
<1>1. PICK m \in names : /\ Found(k, via, m) /\ a = Finds[k, via, NoFault][m]
                         /\ \A l \in names : Found(k, via, l) => Priority(via, m) <= Priority(via, l)
  BY FirstIsFound
<1>2. PICK n \in names : /\ Found(k, via, n) /\ b = Finds[k, via, NoFault][n]
                         /\ \A l \in names : Found(k, via, l) => Priority(via, n) <= Priority(via, l)
  BY FirstIsFound
<1>3. m \in All(via) /\ n \in All(via)
  OBVIOUS
<1>4. Priority(via, m) <= Priority(via, n) /\ Priority(via, n) <= Priority(via, m)
  BY <1>1, <1>2
<1>5. Priority(via, m) \in Nat /\ Priority(via, n) \in Nat
  BY <1>3, PriorityIsNat
<1>6. Priority(via, m) = Priority(via, n)
  BY <1>4, <1>5
<1>7. m = n \/ (via = "TCP" /\ {m, n} \in Ties)
  BY <1>3, <1>6, SamePriority
<1>8. m = n
  BY <1>1, <1>2, <1>3, <1>7 DEF Ambiguous
<1>. QED
  BY <1>1, <1>2, <1>8

LEMMA FindsOrMisses ==
  ASSUME NEW k, NEW via, NEW names, NEW service,
         AllMiss(k, via, names, FALSE), FirstOf(k, via, names, FALSE, service)
  PROVE  FALSE
  BY FirstIsFound, GoodNetwork DEF AllMiss

LEMMA OneSlowLane ==
  ASSUME NEW t, ~Ambiguous(t.server), NEW via \in Layers,
         NEW a, SlowLane(t, via, FALSE, a), NEW b, SlowLane(t, via, FALSE, b)
  PROVE  a = b
<1>1. CASE t.fast
  BY <1>1 DEF SlowLane
<1>2. CASE ~t.fast
  BY <1>2, OneFirst, FindsOrMisses DEF SlowLane
<1>. QED
  BY <1>1, <1>2

LEMMA OneOutcome ==
  ASSUME NEW t, ~Ambiguous(t.server), NEW a, Outcome(t, FALSE, a), NEW b, Outcome(t, FALSE, b)
  PROVE  a = b
<1>. DEFINE layer == Says[t.server].layer
            plain == IF layer = "UDP" THEN "UDP" ELSE "TCP"
            First_(via, s) == FirstOf(t.server, via, PortPriority(via, t.port), FALSE, s)
            Miss_(via) == AllMiss(t.server, via, PortPriority(via, t.port), FALSE)
<1>0. plain \in Layers /\ "TCPTLS" \in Layers /\ "TCP" \in Layers
  BY DEF Layers
<1>1. \A via \in Layers : /\ First_(via, a) /\ First_(via, b) => a = b
                          /\ ~(Miss_(via) /\ First_(via, a)) /\ ~(Miss_(via) /\ First_(via, b))
  BY DefaultsAreOfLayer, OneFirst, FindsOrMisses
<1>2. \A via \in Layers : SlowLane(t, via, FALSE, a) /\ SlowLane(t, via, FALSE, b) => a = b
  BY OneSlowLane
<1>3. \A s : Outcome(t, FALSE, s) <=>
        \/ First_(plain, s)
        \/ Miss_(plain) /\ layer # "TCPTLS" /\ SlowLane(t, plain, FALSE, s)
        \/ /\ layer = "TCPTLS" /\ Miss_("TCP")
           /\ First_("TCPTLS", s) \/ (Miss_("TCPTLS") /\ SlowLane(t, "TCPTLS", FALSE, s))
  BY OutcomeByLoops DEF ByLoops, FromDefaultTLS
<1>4. layer = "TCPTLS" => plain = "TCP"
  OBVIOUS
<1>. HIDE DEF layer, plain, First_, Miss_
<1>. QED
  BY <1>0, <1>1, <1>2, <1>3, <1>4

(* While the network does not fail, a call of a server that the plugins of *)
(* a tied pair do not both take for theirs has one outcome: what is        *)
(* returned, and whether the process dies, is a function of the call and   *)
(* of what the server says, and not of the order in which sort.Slice       *)
(* leaves plugins of one number.                                           *)
Reported(t) == CHOOSE service : Outcome(t, FALSE, service)

Determined ==
  ~faulty /\ ~Ambiguous(target.server) =>
    /\ lane = "done" => result = Reported(target)
    /\ lane = "crashed" => Reported(target) = Panic

THEOREM FingerprintIsDetermined == Spec => []Determined
<1>1. ASSUME NEW t, ~Ambiguous(t.server), NEW service, Outcome(t, FALSE, service)
      PROVE  Reported(t) = service
  <2>1. Outcome(t, FALSE, Reported(t))
    BY <1>1 DEF Reported
  <2>. QED
    BY <1>1, <2>1, OneOutcome
<1>2. Inv => Determined
  BY <1>1 DEF Inv, TypeOK, Ended, Determined
<1>. QED
  BY <1>2, Invariance, PTL
-----------------------------------------------------------------------------
(***************************************************************************)
(* That a call ends is a liveness property.  Two facts behind it are not:  *)
(* there is always something to do until it has ended, and no step is ever *)
(* done again.                                                             *)
(***************************************************************************)
(* Some plugin comes first, whatever plugins are left. *)
LEMMA SomeFirst ==
  ASSUME NEW via \in Layers, NEW names, names \subseteq All(via), names # {}
  PROVE  setupPlugins(via, names) # {}
<1>. DEFINE numbers == {Priority(via, n) : n \in names}
            below == {pair \in Nat \X Nat : pair[1] < pair[2]}
<1>1. numbers \subseteq Nat /\ numbers # {}
  BY PriorityIsNat
<1>2. IsWellFoundedOn(below, Nat)
  BY NatLessThanWellFounded DEF OpToRel
<1>3. PICK least \in numbers : \A y \in numbers : ~(<<y, least>> \in below)
  <2>. HIDE DEF numbers, below
  <2>. QED
    BY <1>1, <1>2, WFMin, Zenon
<1>4. \A y \in numbers : least <= y
  <2>. SUFFICES ASSUME NEW y \in numbers PROVE least <= y
    OBVIOUS
  <2>1. y \in Nat /\ least \in Nat
    BY <1>1
  <2>2. <<y, least>> \in Nat \X Nat /\ ~(y < least)
    BY <1>3, <2>1
  <2>. QED
    BY <2>1, <2>2
<1>5. PICK n \in names : least = Priority(via, n)
  OBVIOUS
<1>6. \A m \in names : Priority(via, n) <= Priority(via, m)
  BY <1>4, <1>5
<1>. QED
  BY <1>6 DEF setupPlugins

(* Until the call has ended, the guard of one of the actions holds: a dial *)
(* has a plugin to serve, or is the one that the end of the fast lane for  *)
(* TLS waits for, and a plugin that is to run is the first of those left.  *)
NeverStuck ==
  \/ lane \in {"done", "crashed", "waiting", "tls"}
  \/ lane \in Loops /\ at = "dial" /\ (left # {} \/ lane = "default tls")
  \/ lane \in Loops /\ at = "run" /\ setupPlugins(Via, left) # {}
  \/ lane \in {"default", "slow"} /\ at = "dial" /\ left = {}
  \/ lane = "default tls" /\ at = "run" /\ left = {}

THEOREM FingerprintNeverStuck == Spec => []NeverStuck
<1>1. ASSUME Inv PROVE NeverStuck
  <2>1. CASE lane \in Loops /\ at = "run" /\ left # {}
    <3>1. Via \in Layers /\ left \subseteq All(Via)
      BY <1>1, <2>1 DEF Via, Layers, Inv, TypeOK, Loops
    <3>. QED
      BY <2>1, <3>1, SomeFirst DEF NeverStuck
  <2>. QED
    BY <1>1, <2>1 DEF NeverStuck, Inv, TypeOK, Place, Loops
<1>. QED
  BY <1>1, Invariance, PTL

(* The order of the lanes, and the three ways in which a call may end. *)
Final == {"done", "crashed", "waiting"}
Later(place) ==
  IF place = "default" THEN {"tls", "default tls", "slow"} \cup Final
  ELSE IF place = "tls" THEN {"default tls", "slow"} \cup Final
  ELSE IF place = "default tls" THEN {"slow"} \cup Final
  ELSE IF place = "slow" THEN Final ELSE {}

(* Every step enters a later lane, or leaves fewer plugins in this one, or *)
(* is the dial before a plugin.                                            *)
MovesOn ==
  [][\/ lane' \in Later(lane)
     \/ lane' = lane /\ left' \subseteq left /\ left' # left
     \/ lane' = lane /\ left' = left /\ at = "dial" /\ at' = "run"]_vars

THEOREM FingerprintMovesOn == Spec => MovesOn
<1>1. Inv /\ [Next]_vars =>
        [\/ lane' \in Later(lane)
         \/ lane' = lane /\ left' \subseteq left /\ left' # left
         \/ lane' = lane /\ left' = left /\ at = "dial" /\ at' = "run"]_vars
  <2>. SUFFICES ASSUME Inv, Next
                PROVE  \/ lane' \in Later(lane)
                       \/ lane' = lane /\ left' \subseteq left /\ left' # left
                       \/ lane' = lane /\ left' = left /\ at = "dial" /\ at' = "run"
    OBVIOUS
  <2>1. CASE Dial
    BY <2>1 DEF Dial, Return, Later, Final
  <2>2. CASE simplePluginRunner
    <3>1. PICK n \in left : left' = left \ {n} /\ lane' \in {lane, "crashed", "done", "waiting"}
      BY <2>2 DEF simplePluginRunner, setupPlugins, Return
    <3>2. left' \subseteq left /\ left' # left
      BY <3>1
    <3>3. lane \in Loops
      BY <2>2 DEF simplePluginRunner, Loops
    <3>. QED
      BY <3>1, <3>2, <3>3 DEF Loops, Later, Final
  <2>3. CASE EndOfDefault
    BY <2>3 DEF EndOfDefault, Slow, Return, Later, Final
  <2>4. CASE ProbeTLS
    BY <2>4 DEF ProbeTLS, Slow, Return, Later, Final
  <2>5. CASE EndOfDefaultTLS \/ EndOfSlow
    BY <2>5 DEF EndOfDefaultTLS, EndOfSlow, Slow, Return, Later, Final
  <2>. QED
    BY <2>1, <2>2, <2>3, <2>4, <2>5 DEF Next
<1>. QED
  BY <1>1, Invariance, PTL DEF Spec, MovesOn
-----------------------------------------------------------------------------
(***************************************************************************)
(* From the table of the plugins to the calls.  Agrees(target) is said of  *)
(* the plugins and one server alone, and TableAgrees evaluates it for each *)
(* call of the run.  It is all that the loops need: whatever they try, in  *)
(* whatever order and with whatever failures, the call then ends as the    *)
(* table says.                                                             *)
(***************************************************************************)
LEMMA HeardOnAFailingNetwork ==
  ASSUME NEW f \in BOOLEAN PROVE Heard(f) \subseteq Heard(TRUE)
  BY DEF Heard

LEMMA FirstIsFinding ==
  ASSUME NEW k, NEW via \in Layers, NEW names \in SUBSET All(via), NEW f \in BOOLEAN,
         NEW service, FirstOf(k, via, names, f, service)
  PROVE  service \in Findings(k, TRUE)
<1>1. PICK n \in names, fault \in Heard(f) : Finds[k, via, fault][n] = service
  BY DEF FirstOf
<1>2. fault \in Heard(TRUE) /\ n \in All(via)
  BY <1>1, HeardOnAFailingNetwork
<1>. QED
  BY <1>1, <1>2, IsFinding

(* A call can only end with what some plugin finds of the server. *)
LEMMA OutcomeIsFinding ==
  ASSUME NEW t, NEW f \in BOOLEAN, NEW service, Outcome(t, f, service)
  PROVE  service \in Findings(t.server, TRUE) \cup {NoService}
<1>1. PICK tls \in BOOLEAN :
        \E end \in LoopsOf(t, tls) \cup {"done"} :
          IF end = "done" THEN service = NoService
          ELSE FirstOf(t.server, ViaOf(t, tls, end), NamesOf(t, ViaOf(t, tls, end), end), f, service)
  BY DEF Outcome
<1>0. PICK end \in LoopsOf(t, tls) \cup {"done"} :
        IF end = "done" THEN service = NoService
        ELSE FirstOf(t.server, ViaOf(t, tls, end), NamesOf(t, ViaOf(t, tls, end), end), f, service)
  BY <1>1
<1>2. ViaOf(t, tls, end) \in Layers
  BY DEF ViaOf, Layers
<1>3. NamesOf(t, ViaOf(t, tls, end), end) \subseteq All(ViaOf(t, tls, end))
  BY <1>2, DefaultsAreOfLayer DEF NamesOf
<1>. QED
  BY <1>0, <1>2, <1>3, FirstIsFinding

LEMMA AgreesInFull ==
  ASSUME NEW t \in Target, Agrees(t), NEW service
  PROVE  /\ Outcome(t, FALSE, service) =>
              IF service = Panic THEN MayPanic(t, FALSE) ELSE Recognised(t, service)
         /\ Outcome(t, TRUE, service) =>
              /\ IF service = Panic THEN MayPanic(t, TRUE) ELSE Excused(t, service)
              /\ Handshakes(service) => MayHang(t)
  BY OutcomeIsFinding DEF Agrees

(* A call never changes its target, and of that target the plugins agree.  *)
Agreed == Inv /\ Agrees(target)

LEMMA AgreedInvariance == Spec /\ Agrees(target) => []Agreed
<1>1. Agrees(target) /\ [Next]_vars => Agrees(target)'
  <2>1. [Next]_vars => target' = target
    BY DEF Next, Dial, simplePluginRunner, EndOfDefault, ProbeTLS, EndOfDefaultTLS, EndOfSlow, vars
  <2>. QED
    BY <2>1
<1>. QED
  BY <1>1, Invariance, PTL DEF Spec, Agreed

LEMMA AgreedAccurate == ASSUME Agreed PROVE Accurate
<1>. SUFFICES ASSUME lane = "done", ~faulty PROVE Recognised(target, result)
  BY DEF Accurate
<1>1. target \in Target /\ result # Panic /\ faulty = FALSE
  BY DEF Agreed, Inv, TypeOK
<1>2. Outcome(target, FALSE, result)
  BY <1>1 DEF Agreed, Inv, Ended
<1>. QED
  BY <1>1, <1>2, AgreesInFull DEF Agreed

LEMMA AgreedNeverMisread == ASSUME Agreed PROVE NeverMisread
<1>. SUFFICES ASSUME lane = "done", faulty PROVE Excused(target, result)
  BY DEF NeverMisread
<1>1. target \in Target /\ result # Panic /\ faulty = TRUE
  BY DEF Agreed, Inv, TypeOK
<1>2. CASE result = Error
  BY <1>2 DEF Excused
<1>3. CASE Outcome(target, TRUE, result)
  BY <1>1, <1>3, AgreesInFull DEF Agreed
<1>. QED
  BY <1>1, <1>2, <1>3 DEF Agreed, Inv, Ended

LEMMA AgreedStops == ASSUME Agreed PROVE StopsOnlyWhere
<1>1. target \in Target /\ faulty \in BOOLEAN
  BY DEF Agreed, Inv, TypeOK
<1>2. ASSUME lane = "crashed" PROVE MayPanic(target, faulty)
  <2>1. Outcome(target, faulty, Panic)
    BY <1>2 DEF Agreed, Inv, Ended
  <2>2. CASE faulty = TRUE
    BY <1>1, <2>1, <2>2, AgreesInFull DEF Agreed
  <2>3. CASE faulty = FALSE
    BY <1>1, <2>1, <2>3, AgreesInFull DEF Agreed
  <2>. QED
    BY <1>1, <2>2, <2>3
<1>3. ASSUME lane = "waiting" PROVE MayHang(target)
  <2>1. PICK service : Handshakes(service) /\ Outcome(target, TRUE, service)
    BY <1>3 DEF Agreed, Inv, Ended
  <2>. QED
    BY <1>1, <2>1, AgreesInFull DEF Agreed
<1>. QED
  BY <1>2, <1>3 DEF StopsOnlyWhere

(* Over a network that does not fail, a call is reported as the table says *)
(* of its server: in the slow mode and on its own port always, and in the  *)
(* fast mode on a strange port as that or as nothing.                      *)
THEOREM FingerprintAccurate == Spec /\ Agrees(target) => []Accurate
  BY AgreedInvariance, AgreedAccurate, PTL

(* However the network fails, and whenever, the server is not reported as  *)
(* another one than those the table excuses.                               *)
THEOREM FingerprintNeverMisreads == Spec /\ Agrees(target) => []NeverMisread
  BY AgreedInvariance, AgreedNeverMisread, PTL

(* The process dies, or waits without a deadline, of no other servers than *)
(* those of which a plugin of the table panics or shakes hands.            *)
THEOREM FingerprintStopsOnlyWhere == Spec /\ Agrees(target) => []StopsOnlyWhere
  BY AgreedInvariance, AgreedStops, PTL
=============================================================================
