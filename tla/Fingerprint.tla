---------------------------- MODULE Fingerprint ----------------------------
(***************************************************************************)
(* FingerprintTarget and UDPScanTarget (pkg/crawler/fingerprint/scan.go):  *)
(* one open port, and the plugins that are tried on it until one of them   *)
(* returns a service.                                                      *)
(*                                                                         *)
(* The plugins that have the port as a default come first, over TCP and    *)
(* then, if the port speaks TLS, over TLS (the fast lane); then every      *)
(* plugin of the layer that the port speaks (the slow lane).  Each plugin  *)
(* is given a connection that was just dialled.  Nothing else runs on      *)
(* behalf of this port, so the only choices are the network's: a dial may  *)
(* fail, and a connection may fall silent or be closed.                    *)
(***************************************************************************)
EXTENDS Protocols

CONSTANTS
  Server,   \* the servers that the port may belong to
  Says,     \* what each of them says: [layer, plain, inside], see Talk
  Target    \* the calls: records of a server, a port and whether it is FastMode

ASSUME SaysAssumption ==
  \A k \in Server : Says[k].layer \in {"TCP", "TCPTLS", "UDP"}
ASSUME TargetAssumption ==
  \A t \in Target : t.server \in Server /\ t.fast \in BOOLEAN

VARIABLES
  target,   \* the call
  lane,     \* which loop it is in; "done" when it has returned
  at,       \* where it is in that loop: about to dial, to run, to dial again
  left,     \* the names of the plugins that this loop has still to try
  isTLS,    \* the local variable of this name
  used,     \* whether a plugin has run on the connection at hand
  result,   \* what is returned
  faulty    \* history: whether the network has failed this call, or split an answer

vars == <<target, lane, at, left, isTLS, used, result, faulty>>

Error == CreateServiceFrom("error", FALSE)

(* A server of layer TCPTLS says one thing inside TLS, and another to      *)
(* those who talk to it in the clear.                                      *)
Talk(k, via) == IF via = "TCPTLS" THEN Says[k].inside ELSE Says[k].plain

(* A datagram comes whole, and so does what TLS sends in one record. *)
Felt(via, fault) == IF via # "TCP" /\ fault.reply = InPieces THEN NoFault ELSE fault

Layers == {"TCP", "TCPTLS", "UDP"}
ByName(plugins) == [n \in {p.name : p \in plugins} |-> (CHOOSE p \in plugins : p.name = n).service]
Finds == [k \in Server, via \in Layers, fault \in Faults \cup {NoFault} |->
            ByName(Registered([talk |-> Talk(k, via), fault |-> Felt(via, fault)])[via])]

(* sortedTCPPlugins and its kin: by priority.  sort.Slice is not stable,   *)
(* so plugins of one priority (mqtt3 and jdwp, echo and minecraft) may     *)
(* come in either order.                                                   *)
Catalogue == LET none == [greets |-> Silent, answers |-> <<>>, otherwise |-> Silent] IN
  [via \in Layers |->
     {[name |-> p.name, priority |-> p.priority, ports |-> p.ports] :
        p \in Registered([talk |-> none, fault |-> NoFault])[via]}]

All(via) == {p.name : p \in Catalogue[via]}
PortPriority(via, port) == {p.name : p \in {q \in Catalogue[via] : port \in q.ports}}
Priority(via, name) == (CHOOSE p \in Catalogue[via] : p.name = name).priority
\* Mutant: the plugins are not sorted.
Unsorted(via, names) == names

setupPlugins(via, names) ==
  {n \in names : \A m \in names : Priority(via, n) <= Priority(via, m)}

UDP == Says[target.server].layer = "UDP"
Via == IF UDP THEN "UDP"
       ELSE IF lane = "default tls" \/ (lane = "slow" /\ isTLS) THEN "TCPTLS" ELSE "TCP"
-----------------------------------------------------------------------------
Init ==
  /\ target \in Target
  /\ lane = "default" /\ at = "dial"
  /\ left = PortPriority(IF UDP THEN "UDP" ELSE "TCP", target.port)
  /\ isTLS = FALSE /\ used = FALSE
  /\ result = NoService /\ faulty = FALSE

Return(service) == lane' = "done" /\ result' = service

\* Mutant: the plugins of a loop share a connection.
DialOnce ==
  /\ lane \in {"default", "slow", "default tls"} /\ at = "dial"
  /\ left # {} \/ lane = "default tls"
  /\ at' = "run"
  /\ UNCHANGED <<target, lane, left, isTLS, used, result, faulty>>

(* DialTCP, DialUDP and DialTLS, the one before each plugin.  Inside the   *)
(* fast lane for TLS a connection is dialled after each plugin that found  *)
(* nothing, the last one too.                                              *)
Dial ==
  /\ lane \in {"default", "slow", "default tls"}
  /\ at = "dial"
  /\ left # {} \/ lane = "default tls"
  /\ \/ at' = "run" /\ used' = FALSE /\ UNCHANGED <<lane, result, faulty>>
     \/ Return(Error) /\ faulty' = TRUE /\ UNCHANGED <<at, used>>
  /\ UNCHANGED <<target, left, isTLS>>

(* simplePluginRunner: the first plugin that is left runs, on a connection *)
(* that may fail, or bring an answer in pieces.  A panic ends the process. *)
(* Of ssh the handshake on the second connection may never end.            *)
simplePluginRunner ==
  /\ lane \in {"default", "slow", "default tls"}
  /\ at = "run"
  /\ \E n \in setupPlugins(Via, left), fault \in Faults \cup {NoFault} :
       \E service \in {Finds[target.server, Via, fault][n]} :
         /\ left' = left \ {n}
         /\ \/ service = Panic /\ lane' = "crashed" /\ UNCHANGED result
            \/ service = NoService /\ UNCHANGED <<lane, result>>
            \/ service \notin {Panic, NoService} /\ Return(service)
            \/ Handshakes(service) /\ fault = NoFault /\ lane' = "waiting" /\ UNCHANGED result
         /\ faulty' = (faulty \/ fault # NoFault \/ lane' = "waiting")
  /\ used' = TRUE /\ at' = "dial"
  /\ UNCHANGED <<target, isTLS>>

\* Mutant: the slow lane tries the plugins for plain TCP again.
SlowPlain(via) ==
  IF target.fast THEN Return(NoService) /\ UNCHANGED left
  ELSE lane' = "slow" /\ left' = All("TCP") /\ UNCHANGED result

(* What comes after the fast lane. *)
Slow(via) ==
  IF target.fast THEN Return(NoService) /\ UNCHANGED left
  ELSE lane' = "slow" /\ left' = All(via) /\ UNCHANGED result

(* The end of the default ports: over TCP, TLS is tried next. *)
EndOfDefault ==
  /\ lane = "default" /\ left = {} /\ at = "dial"
  /\ IF UDP THEN Slow("UDP") ELSE lane' = "tls" /\ UNCHANGED <<left, result>>
  /\ UNCHANGED <<target, at, isTLS, used, faulty>>

(* DialTLS decides what the port speaks; when it fails for another reason  *)
(* the port is taken for plain TCP.                                        *)
ProbeTLS ==
  /\ lane = "tls"
  /\ \/ /\ Says[target.server].layer = "TCPTLS"
        /\ isTLS' = TRUE /\ used' = FALSE
        /\ lane' = "default tls" /\ left' = PortPriority("TCPTLS", target.port) /\ at' = "run"
        /\ UNCHANGED <<result, faulty>>
     \/ /\ faulty' = (faulty \/ Says[target.server].layer = "TCPTLS")
        /\ Slow("TCP") /\ UNCHANGED <<isTLS, used, at>>
  /\ UNCHANGED target

EndOfDefaultTLS ==
  /\ lane = "default tls" /\ left = {} /\ at = "run"
  /\ Slow("TCPTLS") /\ at' = "dial"
  /\ UNCHANGED <<target, isTLS, used, faulty>>

\* Mutant: the slow lane ends with the first plugin that finds nothing.
EndOfSlowEarly ==
  /\ lane = "slow" /\ at = "dial" /\ used
  /\ Return(NoService)
  /\ UNCHANGED <<target, at, left, isTLS, used, faulty>>

EndOfSlow ==
  /\ lane = "slow" /\ left = {} /\ at = "dial"
  /\ Return(NoService)
  /\ UNCHANGED <<target, at, left, isTLS, used, faulty>>

Next ==
  \/ Dial \/ simplePluginRunner \/ EndOfDefault \/ ProbeTLS \/ EndOfDefaultTLS \/ EndOfSlow

(* The call runs on; every read of a plugin has a deadline but the ones of *)
(* the ssh handshake, and there the model stops.                           *)
Spec == Init /\ [][Next]_vars /\ WF_vars(Next)
-----------------------------------------------------------------------------
(* TypeOK: every variable has a value of its kind; the plugins that are    *)
(* left are plugins of the layer that is tried, and a panic or an endless  *)
(* handshake is never returned as a service.                               *)
TypeOK ==
  /\ target \in Target
  /\ lane \in {"default", "tls", "default tls", "slow", "done", "waiting", "crashed"}
  /\ at \in {"dial", "run"}
  /\ isTLS \in BOOLEAN /\ used \in BOOLEAN /\ faulty \in BOOLEAN
  /\ lane \in {"default", "default tls", "slow"} => left \subseteq All(Via)
  /\ lane # "done" => result = NoService
  /\ result # Panic

(***************************************************************************)
(* What a call may return, said of the plugins alone, without the loops:   *)
(* on a network that fails, a plugin finds what it finds at some failure   *)
(* or at none; on one that does not, only what it finds at none.           *)
(***************************************************************************)
Heard(failing) == IF failing THEN Faults \cup {NoFault} ELSE {NoFault}
Misses(k, via, name, failing) ==
  \E fault \in Heard(failing) : Finds[k, via, fault][name] = NoService
AllMiss(k, via, names, failing) == \A n \in names : Misses(k, via, n, failing)

(* One of these plugins finds the service, and those before it miss. *)
FirstOf(k, via, names, failing, service) ==
  /\ service # NoService
  /\ \E n \in names, fault \in Heard(failing) :
       /\ Finds[k, via, fault][n] = service
       /\ \A m \in names : Priority(via, n) <= Priority(via, m) \/ Misses(k, via, m, failing)

(* All that the plugins find of a server. *)
FindingsAt(k, via, fault) == {Finds[k, via, fault][n] : n \in All(via)}
FindingsOf(k, via, failing) == UNION {FindingsAt(k, via, fault) : fault \in Heard(failing)}
Findings(k, failing) == UNION {FindingsOf(k, via, failing) : via \in Layers}

(* The loops that a call may enter, by whether the port was found to speak *)
(* TLS; those before each and before the end; and what each of them tries. *)
LoopsOf(t, tls) ==
  {"default"} \cup (IF tls THEN {"default tls"} ELSE {}) \cup (IF t.fast THEN {} ELSE {"slow"})
Before(loop) ==
  IF loop = "default" THEN {}
  ELSE IF loop = "default tls" THEN {"default"}
  ELSE IF loop = "slow" THEN {"default", "default tls"} ELSE {"default", "default tls", "slow"}
ViaOf(t, tls, loop) ==
  IF Says[t.server].layer = "UDP" THEN "UDP"
  ELSE IF tls /\ loop # "default" THEN "TCPTLS" ELSE "TCP"
NamesOf(t, via, loop) == IF loop = "slow" THEN All(via) ELSE PortPriority(via, t.port)

(* Only on a network that fails is a port that speaks TLS taken for plain. *)
MayTake(t, tls, failing) ==
  IF Says[t.server].layer = "TCPTLS" THEN tls \/ failing ELSE ~tls

(* The loops before one of them find nothing, and that one the service; or *)
(* none of them finds any.                                                 *)
Outcome(t, failing, service) ==
  \E tls \in BOOLEAN :
    /\ MayTake(t, tls, failing)
    /\ \E end \in LoopsOf(t, tls) \cup {"done"} :
         /\ \A loop \in LoopsOf(t, tls) \cap Before(end) :
              LET via == ViaOf(t, tls, loop) IN
                AllMiss(t.server, via, NamesOf(t, via, loop), failing)
         /\ IF end = "done" THEN service = NoService
            ELSE LET via == ViaOf(t, tls, end) IN
                   FirstOf(t.server, via, NamesOf(t, via, end), failing, service)

(* What a call ends with: what it returns, a panic, or a handshake. *)
EndsWith(service) ==
  \/ lane = "done" /\ service = result
  \/ lane = "crashed" /\ service = Panic
  \/ lane = "waiting" /\ Handshakes(service)

(* Verdict: however the dials, the loops and the failures interleave, what *)
(* is returned is what the first lane that finds anything finds, and there *)
(* the plugin of the lowest number; no service is returned only when every *)
(* plugin that was to be tried missed.  A panic ends the process, and a    *)
(* handshake holds it, only where that plugin had its turn.                *)
Verdict ==
  lane \in {"done", "crashed", "waiting"} =>
    \/ lane = "done" /\ faulty /\ result = Error
    \/ \E service \in {result, Panic} \cup Findings(target.server, FALSE) :
         EndsWith(service) /\ Outcome(target, faulty, service)

(* FreshConnection: no plugin runs on a connection on which another plugin *)
(* has sent its probe; the server's state would be another one.            *)
FreshConnection == [][(\E n \in left : left' = left \ {n}) => ~used]_vars
=============================================================================
