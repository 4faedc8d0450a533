--------------------------- MODULE MCFingerprint ---------------------------
(***************************************************************************)
(* Servers for the fingerprinter: one that speaks each protocol as its     *)
(* plugin expects, some that speak it in another way that its              *)
(* specification allows, or does not allow, and some that speak nothing.   *)
(* Every one is tried on its own port and on a few others.  The pieces are *)
(* first segments of the replies such as TCP may make of them.             *)
(***************************************************************************)
EXTENDS Fingerprint, TLC

CONSTANT StrangePorts   \* ports, besides its own, on which a server may be found

Speaks(greets, answers, otherwise) ==
  [greets |-> greets, answers |-> answers, otherwise |-> otherwise]
Answers(answers, otherwise) == Speaks(Silent, answers, otherwise)
Hangs == Answers(<<>>, Silent)      \* accepts the connection and says nothing
HangsUp == Answers(<<>>, Closed)    \* closes it on any probe

Service(protocol, tls, detail) == [protocol |-> protocol, tls |-> tls, detail |-> detail]
Plain(protocol) == Service(protocol, FALSE, "")
OverTLS(protocol) == Service(protocol, TRUE, "")
None == Service("none", FALSE, "")

Word(word) == [sent |-> 40, word |-> word, cr |-> TRUE]
Status == Word("HTTP/1.1")
Lists(sent, ciphers) ==
  [sent |-> sent, lists |-> <<230, 57, ciphers, ciphers, 213, 213, 21, 21, 0, 20>>]
NTLM == [sent |-> 200, ntlm |-> 2, reserved |-> 0, revision |-> 15, names |-> "whole"]
Negotiated == [sent |-> 240, protocolID |-> "SMB2", structure |-> 64, command |-> 0, body |-> 65]
CorrelationBack == [sent |-> 300, length |-> 296, id |-> TRUE]
Tabular(terminated) ==
           [sent |-> 48, type |-> 4, last |-> 1, length |-> 48, spid |-> 0, packetID |-> 1,
            window |-> 0, terminated |-> terminated,
            options |-> <<[token |-> 0, length |-> 6, end |-> 37], [token |-> 1, length |-> 1, end |-> 38],
                          [token |-> 3, length |-> 0, end |-> 39]>>]
Version(sent, fields) == [sent |-> sent, length |-> sent, fields |-> fields]
Refusal(minor) ==
  LET cut == [sent |-> 60, packetType |-> 4, text |-> "(DESCRIPTION=(TMP=)(VSNNUM=", minor |-> minor,
              numbers |-> 1]
  IN [cut EXCEPT !.sent = 103, !.numbers = 2] @@ [piece |-> cut]
Binding(attributes) ==
  [sent |-> 100, method |-> "binding response", cookie |-> TRUE, id |-> TRUE, attributes |-> attributes]
Dump(sent, rest) == [sent |-> sent, rest |-> rest, piece |-> [sent |-> 700, rest |-> 40]]
Accepted == [sent |-> 28, rpc |-> "accepted"]
StatusFrame(sent) ==
  [sent |-> sent, length |-> sent - 2, packetID |-> 0, json |-> TRUE, jsonLen |-> sent - 6]
Handshake(end) ==
  [sent |-> end + 67, length |-> end + 63, header |-> 10, ascii |-> TRUE, end |-> end, filler |-> 0]
InTwo(end) == Handshake(end) @@ [piece |-> [Handshake(end) EXCEPT !.sent = 40]]
NotAllowed == [sent |-> 73, length |-> 69, header |-> 255, code |-> 1130, ascii |-> TRUE]
ConnAck == [sent |-> 4, first |-> 32, piece |-> [sent |-> 1, first |-> 32]]
Bits(reply) == reply @@ [id |-> TRUE, piece |-> [sent |-> 7, id |-> TRUE]]
Options(reply) ==
  reply @@ [word |-> "RTSP/1.0", cseq |-> "whole",
            piece |-> [sent |-> 70, word |-> "RTSP/1.0", cseq |-> "whole", server |-> "cut"]]
Echoes == [sent |-> 244, echo |-> TRUE]

\* The conversations that are held both in the clear and inside TLS.
HttpTalk == Answers(<<>>, Status)
FtpTalk == Speaks(Word("220"), <<>>, Word("500"))
SmtpTalk == Speaks(Word("220"), [e \in {"EHLO"} |-> Word("250")], Word("502"))
Pop3Talk == Speaks(Word("+OK"), <<>>, Word("-ERR"))
ImapTalk ==
  Speaks(Word("* OK") @@ [piece |-> [sent |-> 4, word |-> "* OK"]],
         ("CAPABILITY" :> [sent |-> 60, word |-> "* CAPABILITY", cr |-> TRUE, status |-> ""]) @@
         ("next line" :> [sent |-> 25, status |-> "tag"]),
         Word("BAD"))
LdapTalk == Answers("bind" :> [sent |-> 14, ber |-> "short", id |-> TRUE], Closed)
KafkaTalk ==
  Answers(("ApiVersions" :> CorrelationBack) @@ ("Metadata" :> [sent |-> 90, length |-> 86, id |-> TRUE, topic |-> "whole"]),
          Closed)
OldKafkaTalk == Answers("Metadata" :> [sent |-> 90, length |-> 86, id |-> TRUE, topic |-> "whole"], Closed)
RedisTalk == Answers("PING" :> [sent |-> 7, word |-> "+PONG"], Word("-ERR"))
MqttTalk == Answers(("connect 3" :> ConnAck) @@ ("connect 5" :> ConnAck), Closed)
Mqtt5Talk == Answers("connect 5" :> ConnAck, Closed)

(* A server: how it is reached, its port and what it is reported as there; *)
(* elsewhere, the ports on which it is reported as something else; and     *)
(* shaken, what else a failing network may make of it.                     *)
Row(layer, port, own, elsewhere, shaken, plain, inside) ==
  [layer |-> layer, port |-> port, own |-> own, elsewhere |-> elsewhere, shaken |-> shaken,
   plain |-> plain, inside |-> inside]
TCP(port, own, elsewhere, shaken, talk) == Row("TCP", port, own, elsewhere, shaken, talk, HangsUp)
TLS(port, own, talk) == Row("TCPTLS", port, own, <<>>, {}, HangsUp, talk)
Datagram(port, own, talk) == Row("UDP", port, own, <<>>, {}, talk, Hangs)
Text(port, own, talk) == TCP(port, own, <<>>, {}, talk)

Clear ==
  "http" :> Text(80, Plain("http"), HttpTalk) @@
  "echo" :> TCP(7, Plain("echo"), 53 :> Plain("dns") @@ 389 :> Plain("ldap"), {"dns", "ldap"},
                Answers("jdwp version" :> [sent |-> 11, length |-> 11, fields |-> "cut", echo |-> TRUE], Echoes)) @@
  "minecraft" :> Text(25565, Plain("minecraft-java"), Answers("status" :> StatusFrame(2500), Closed)) @@
  "minecraft with a large icon" :> Text(25565, None, Answers("status" :> StatusFrame(9000), Closed)) @@
  "ssh" :> Text(22, Service("ssh", FALSE, "algorithms"),
               Speaks([sent |-> 21, line |-> "SSH-"], "ssh identification" :> Lists(1063, 108), Closed)) @@
  "ssh, its packet cut short" :> Text(2222, Service("ssh", FALSE, "banner"),
               Speaks([sent |-> 21, line |-> "SSH-"], "ssh identification" :> Lists(500, 108), Closed)) @@
  "telnet" :> Text(23, Plain("telnet"), Speaks([sent |-> 12, iac |-> "command", option |-> "known"], <<>>, Silent)) @@
  "ftp" :> TCP(21, Plain("ftp"), 25 :> Plain("smtp"), {"smtp"}, FtpTalk) @@
  "smtp" :> TCP(25, Plain("smtp"), [p \in StrangePorts \ {25} |-> Plain("ftp")], {"ftp"}, SmtpTalk) @@
  "dns" :> Text(53, Plain("dns"), Answers("version.bind" :> [sent |-> 60, dns |-> "transaction"], Closed)) @@
  "rdp" :> Text(3389, Plain("rdp"), Answers("connection request" :> [sent |-> 19, cotp |-> "confirm"], Closed)) @@
  "pop3" :> Text(110, Plain("pop3"), Pop3Talk) @@
  "imap" :> Text(143, Plain("imaps"), ImapTalk) @@
  "mysql" :> Text(3306, Plain("mysql"), Speaks(InTwo(11), <<>>, Closed)) @@
  "mysql of a distribution" :> Text(3306, Plain("mysql"), Speaks(InTwo(28), <<>>, Closed)) @@
  "mysql that refuses the host" :> Text(3306, Plain("mysql"), Speaks(NotAllowed, <<>>, Closed)) @@
  "mssql" :> Text(1433, Plain("mssql"), Answers("prelogin" :> Tabular(TRUE), Closed)) @@
  "ldap" :> Text(389, Plain("ldap"), LdapTalk) @@
  "kafka" :> Text(9092, Plain("kafka"), KafkaTalk) @@
  "kafka 0.9" :> Text(9092, Plain("kafka"), OldKafkaTalk)
More ==
  "vnc" :> Text(5900, Plain("vnc"), Speaks([sent |-> 12, word |-> "RFB"], <<>>, Silent)) @@
  "rpc" :> Text(111, Plain("rpc"), Answers(("call" :> Accepted) @@ ("dump" :> Dump(900, 0)), Closed)) @@
  "rpc with many programs" :> Text(111, Plain("rpc"), Answers(("call" :> Accepted) @@ ("dump" :> Dump(5000, 44)), Closed)) @@
  "smb" :> Text(445, Service("smb", FALSE, "session"),
               Answers(("negotiate" :> Negotiated) @@ ("session setup" :> NTLM), Closed)) @@
  "smb without ntlm" :> Text(445, Service("smb", FALSE, "negotiate"),
               Answers(("negotiate" :> Negotiated) @@ ("session setup" :> [sent |-> 77]), Closed)) @@
  "modbus" :> Text(502, Plain("modbus"), Answers("read discrete input" :> Bits([sent |-> 10, code |-> 2, count |-> 1, value |-> 0]), Silent)) @@
  "modbus without inputs" :> Text(502, Plain("modbus"), Answers("read discrete input" :> Bits([sent |-> 9, code |-> 130]), Silent)) @@
  "redis" :> Text(6379, Plain("redis"), RedisTalk) @@
  "redis with a password" :> Text(6379, Plain("redis"), Answers(<<>>, [sent |-> 34, word |-> "-NOAUTH", cr |-> TRUE])) @@
  "mqtt" :> Text(1883, Plain("mqtt"), MqttTalk) @@
  "mqtt 5" :> Text(1883, Plain("mqtt"), Mqtt5Talk) @@
  "jdwp" :> Text(5005, Plain("jdwp"),
                Answers(("JDWP-Handshake" :> [sent |-> 14, word |-> "JDWP-Handshake"]) @@ ("jdwp version" :> Version(300, "whole")), Closed)) @@
  "rsync" :> Text(873, Plain("rsync"), Speaks([sent |-> 14, word |-> "@RSYNCD:", piece |-> [sent |-> 8, word |-> "@RSYNCD:"]], <<>>, Closed)) @@
  "oracle 11g" :> Text(1521, Plain("oracle"), Answers("tns connect" :> Refusal(32), Closed)) @@
  "oracle 19c" :> Text(1521, Plain("oracle"), Answers("tns connect" :> Refusal(0), Closed)) @@
  "postgresql" :> Text(5432, Plain("postgresql"), Answers("startup" :> [sent |-> 24, psql |-> "R", size |-> "16 bits"], Closed)) @@
  "rtsp" :> Text(554, Plain("rtsp"), Answers("OPTIONS" :> Options([sent |-> 150, server |-> "whole"]), Silent)) @@
  "rtsp without a name" :> Text(554, None, Answers("OPTIONS" :> Options([sent |-> 90]), Silent)) @@
  "nothing" :> Text(99, None, Hangs) @@
  "nobody" :> Text(99, None, HangsUp)
\* Servers that do not keep to their protocol.
Ill ==
  "ssh with lists beyond the buffer" :> Text(22, Plain("ssh"),
               Speaks([sent |-> 21, line |-> "SSH-"], "ssh identification" :> Lists(6000, 1900), Closed)) @@
  "mysql without an end" :> Text(3306, None, Speaks([Handshake(30) EXCEPT !.sent = 35], <<>>, Closed)) @@
  "mssql without a terminator" :> Text(1433, None, Answers("prelogin" :> Tabular(FALSE), Closed)) @@
  "modbus without a function" :> Text(502, None, Answers("read discrete input" :> [sent |-> 7, id |-> TRUE], Silent)) @@
  "kafka 0.9 with a long name" :> Text(9092, None,
               Answers("Metadata" :> [sent |-> 90, length |-> 86, id |-> TRUE, topic |-> "beyond the buffer"], Closed)) @@
  "smb with a name beyond the buffer" :> Text(445, Plain("smb"),
               Answers(("negotiate" :> Negotiated) @@ ("session setup" :> [NTLM EXCEPT !.names = "beyond the buffer"]), Closed)) @@
  "rdp with a name beyond the buffer" :> TLS(3389, None,
               Answers("ntlm negotiate" :> [NTLM EXCEPT !.names = "beyond the buffer"], Closed)) @@
  "dhcp without an end" :> Datagram(67, None, Answers("discover" :> [sent |-> 300, id |-> TRUE, options |-> "endless"], Silent))
Inside ==
  "https" :> Row("TCPTLS", 443, OverTLS("https"), [p \in {80, 5000} |-> Plain("http")], {"http"},
                 Answers("GET" :> Status, Closed), HttpTalk) @@
  "ftps" :> TLS(990, OverTLS("smtp"), FtpTalk) @@
  "smtps" :> TLS(465, OverTLS("smtp"), SmtpTalk) @@
  "rdp inside tls" :> TLS(3389, OverTLS("rdp"), Answers("ntlm negotiate" :> NTLM, Closed)) @@
  "pop3s" :> TLS(995, OverTLS("pop3"), Pop3Talk) @@
  "ldaps" :> TLS(636, OverTLS("ldaps"), LdapTalk) @@
  "imaps" :> TLS(993, OverTLS("imaps"), ImapTalk) @@
  "kafka inside tls" :> TLS(9093, OverTLS("kafka"), KafkaTalk) @@
  "kafka 0.9 inside tls" :> TLS(9093, OverTLS("kafka"), OldKafkaTalk) @@
  "redis inside tls" :> TLS(6380, OverTLS("redis"), RedisTalk) @@
  "mqtt inside tls" :> TLS(8883, OverTLS("mqtt"), MqttTalk) @@
  "mqtt 5 inside tls" :> TLS(8883, OverTLS("mqtt"), Mqtt5Talk) @@
  "nothing inside tls" :> TLS(99, None, Hangs)
Datagrams ==
  "dns/udp" :> Datagram(53, Plain("dns"), Answers("version.bind" :> [sent |-> 58, dns |-> "transaction"], Silent)) @@
  "ipmi" :> Datagram(623, Plain("ipmi"), Answers("rmcp" :> [sent |-> 30, rmcp |-> "header"], Silent)) @@
  "snmp" :> Datagram(161, Plain("snmp"), Answers("get" :> [sent |-> 90, community |-> "public", object |-> "sysDescr"], Silent)) @@
  "dhcp" :> Datagram(67, Plain("dhcp"), Answers("discover" :> [sent |-> 300, id |-> TRUE, options |-> "whole"], Silent)) @@
  "ipsec" :> Datagram(500, Plain("ipsec"), Answers("isakmp" :> [sent |-> 104, spi |-> TRUE], Silent)) @@
  "netbios" :> Datagram(137, Plain("netbios"), Answers("nbstat" :> [sent |-> 217, nbname |-> "padded"], Silent)) @@
  "openvpn" :> Datagram(1194, Plain("openvpn"), Answers("client reset" :> [sent |-> 26, opcode |-> 8, session |-> TRUE], Silent)) @@
  "ntp" :> Datagram(123, Plain("ntp"), Answers("ntp" :> [sent |-> 48, mode |-> 4], Silent)) @@
  "stun" :> Datagram(3478, Plain("stun"), Answers("binding" :> Binding(<<12, 8>>), Silent)) @@
  "stun with a name" :> Datagram(3478, None, Answers("binding" :> Binding(<<12, 22, 4>>), Silent)) @@
  "echo/udp" :> Row("UDP", 7, Plain("dns"), 161 :> Plain("snmp"), {"ipmi", "snmp", "dhcp", "ipsec"},
                    Answers(<<>>, Echoes), Hangs)

Row_ == Clear @@ More @@ Ill @@ Inside @@ Datagrams
MCServer == DOMAIN Row_
MCSays == [k \in MCServer |-> [layer |-> Row_[k].layer, plain |-> Row_[k].plain, inside |-> Row_[k].inside]]
Ports == StrangePorts \cup {Row_[k].port : k \in MCServer}
MCTarget ==
  {t \in [server : MCServer, port : Ports, fast : BOOLEAN] :
     t.port \in StrangePorts \cup {Row_[t.server].port}}

(* A function is evaluated when it is compared with another: TLC computes  *)
(* here, once, what each plugin finds of each server.                      *)
ASSUME FindsTable == Finds = [x \in DOMAIN Finds |-> Finds[x]]
-----------------------------------------------------------------------------
Known(t) == Row_[t.server]
Expected(t) ==
  IF t.port \in DOMAIN Known(t).elsewhere THEN Known(t).elsewhere[t.port] ELSE Known(t).own

(* On its own port a server is recognised in both modes; on another one    *)
(* the fast lane may find nothing.                                         *)
OwnPort(t) == t.port = Known(t).port /\ PortPriority(Known(t).layer, t.port) # {}
Recognised(t, service) ==
  service = Expected(t) \/ (t.fast /\ ~OwnPort(t) /\ service = NoService)

Excused(t, service) ==
  \/ service \in {NoService, Error}
  \/ service.protocol = Expected(t).protocol /\ service.tls = Expected(t).tls
  \/ service.protocol \in Known(t).shaken /\ ~service.tls
  \/ service.protocol = Known(t).own.protocol /\ service.tls = Known(t).own.tls

Breaks == {"oracle 19c", "rpc with many programs"} \cup DOMAIN Ill
BreaksInPieces ==
  {"jdwp", "echo", "rpc", "oracle 11g", "mysql of a distribution", "imap", "modbus",
   "modbus without inputs", "rsync", "rtsp", "rtsp without a name"}

MayPanic(t, failing) == t.server \in Breaks \cup (IF failing THEN BreaksInPieces ELSE {})
MayHang(t) == t.server = "ssh"

(* On its own port a server is recognised, in both modes, although plugins *)
(* of a lower number are tried on that port before its own.  On any other  *)
(* port the slow lane finds it too, and says the same of it but for        *)
(* protocols that look like each other; the fast lane finds no less than   *)
(* nothing and no other service.                                           *)
Accurate == lane = "done" /\ ~faulty => Recognised(target, result)

(* A network that fails at any exchange, or at the TLS handshake, or that  *)
(* brings an answer in pieces, may hide the service but makes no other     *)
(* service of it.                                                          *)
NeverMisread == lane = "done" /\ faulty => Excused(target, result)

(* The process dies of these servers only: of an Oracle whose version has  *)
(* a small second byte, of a port mapper whose table does not come in one  *)
(* read, and of those that break their protocol as Ill says; and of JDWP,  *)
(* and the others of BreaksInPieces, when an answer comes late or TCP cuts *)
(* it, as TCP may.  Its call waits without a deadline only for the         *)
(* handshake of SSH.                                                       *)
StopsOnlyWhere ==
  /\ lane = "crashed" => MayPanic(target, faulty)
  /\ lane = "waiting" => MayHang(target)

(* The same of the plugins alone, before any of them is tried. *)
Agrees(t) ==
  \A failing \in BOOLEAN, service \in Findings(t.server, TRUE) \cup {NoService} :
    Outcome(t, failing, service) =>
      /\ IF service = Panic THEN MayPanic(t, failing)
         ELSE IF failing THEN Excused(t, service) ELSE Recognised(t, service)
      /\ failing /\ Handshakes(service) => MayHang(t)

(* Of all that the plugins find of the server of a call, those findings    *)
(* that the order of the loops and of the plugins lets the call end with   *)
(* are the ones stated above, on a good network and on a failing one.      *)
TableAgrees == lane = "default" /\ at = "dial" /\ ~used => Agrees(target)

(* While the network does not fail, the call returns for all but those     *)
(* servers that break their protocol or that the plugins cannot read.      *)
FingerprintReturns ==
  ([]~faulty /\ target.server \notin Breaks) => <>(lane = "done")

(* The comment of isOracleDBRunning quotes the refusal of this server as   *)
(* the one that every version of Oracle gives, and it is to be recognised. *)
OracleRecognised ==
  target.server = "oracle 19c" /\ ~faulty => lane # "crashed"
=============================================================================
