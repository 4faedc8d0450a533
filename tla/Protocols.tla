----------------------------- MODULE Protocols -----------------------------
(***************************************************************************)
(* The plugins of the fingerprinter (pkg/crawler/fingerprint/plugins), one *)
(* operator each: its place in the order, its default ports and the        *)
(* service that its Run returns for a connection.                          *)
(*                                                                         *)
(* A connection leads to a talk, what the server at the other end says:    *)
(*     greets     before it is asked anything (Silent: it waits),          *)
(*     answers    to each probe that it understands,                       *)
(*     otherwise  to every other one.                                      *)
(* A reply is a record: sent, its length in bytes, and a field for each    *)
(* thing that some plugin looks at.  A field that is absent has a value    *)
(* that no plugin accepts.  Random numbers of the probes (transactions,    *)
(* cookies, tags) are as good as unique: a field such as id says whether   *)
(* the reply repeats that of the probe.                                    *)
(*                                                                         *)
(* A connection may fail: from its n-th exchange on nothing comes back, or *)
(* the server has closed it.  And TCP may bring the n-th reply in pieces,  *)
(* of which a read takes the first.  The piece of a reply is its field of  *)
(* that name, or else its first byte, in which no plugin finds anything.   *)
(***************************************************************************)
EXTENDS Naturals, Sequences, FiniteSets

Silent == [sent |-> 0]                      \* the read times out: no bytes and no error
Closed == [sent |-> 0, error |-> TRUE]      \* the read fails
InPieces == [sent |-> 0, pieces |-> TRUE]   \* the read takes a part

NoFault == [from |-> 9, reply |-> Silent]
Faults == [from : {1, 2}, reply : {Silent, Closed, InPieces}]

FirstPiece(reply) ==
  IF "piece" \in DOMAIN reply THEN reply.piece ELSE IF reply.sent = 0 THEN reply ELSE [sent |-> 1]
Remainder == [sent |-> 40]

(* Recv: one Read into 4096 bytes; what does not fit stays unread. *)
Capacity == 4096
Recv(c, n, reply) ==
  CASE n < c.fault.from           -> reply
    [] c.fault.reply # InPieces   -> c.fault.reply
    [] n = c.fault.from           -> FirstPiece(reply)
    [] OTHER                      -> Remainder
Got(reply) == IF reply.sent > Capacity THEN Capacity ELSE reply.sent

(* A reader that reads on until it has everything. *)
Buffered(c) == IF c.fault.reply = InPieces THEN [c EXCEPT !.fault = NoFault] ELSE c

(* SendRecv: the n-th exchange.  A server that speaks first is read first, *)
(* so its greeting is taken for the answer to the first probe.             *)
Answer(talk, probe) ==
  IF probe \in DOMAIN talk.answers THEN talk.answers[probe] ELSE talk.otherwise
Greeting(c) == Recv(c, 1, c.talk.greets)
First(c, probe) ==
  Recv(c, 1, IF c.talk.greets = Silent THEN Answer(c.talk, probe) ELSE c.talk.greets)
Then(c, n, probe) == Recv(c, n, Answer(c.talk, probe))

Matches(reply, want) ==
  \A field \in DOMAIN want : field \in DOMAIN reply /\ reply[field] \in want[field]

(* CreateServiceFrom, reduced to what tells services apart; detail is how  *)
(* much of the protocol answered, for the plugins that go on after they    *)
(* have recognised it.                                                     *)
NoService == [protocol |-> "none", tls |-> FALSE, detail |-> ""]
CreateServiceFrom(protocol, tls) == [protocol |-> protocol, tls |-> tls, detail |-> ""]
Claim(condition, protocol, tls) ==
  IF condition THEN CreateServiceFrom(protocol, tls) ELSE NoService

(* Some runs end in a run-time panic; no caller recovers from it.  Most of *)
(* these index a reply behind its end, or slice it behind the 4096 bytes   *)
(* of its buffer: a slice that ends between the two reads zeros.           *)
Panic == CreateServiceFrom("panic", FALSE)
Unless(panics, service) == IF panics THEN Panic ELSE service

Plugin(name, priority, ports, service) ==
  [name |-> name, priority |-> priority, ports |-> ports, service |-> service]
-----------------------------------------------------------------------------
(***************************************************************************)
(* http and https: whatever an http.Client accepts as a response, with any *)
(* status.  The look for technologies in the page can fail and is ignored. *)
(***************************************************************************)
StatusLine(c) == Matches(First(Buffered(c), "GET"), [word |-> {"HTTP/1.1"}])

HTTPPlugin(c) ==
  Plugin("http", 0,
         {80, 3000, 4567, 5000, 8000, 8001, 8080, 8081, 8888, 9001, 9080, 9090, 9100},
         Claim(StatusLine(c), "http", FALSE))

HTTPSPlugin(c) ==
  Plugin("https", 1, {443, 8443, 9443}, Claim(StatusLine(c), "https", TRUE))

(* isEcho: 64 random bytes come back, and nothing else with them. *)
EchoPlugin(c) ==
  Plugin("echo", 1, {7},
         Claim(Matches(First(c, "random"), [echo |-> {TRUE}]), "echo", FALSE))

(***************************************************************************)
(* minecraft: decodeStatusResponse wants the whole frame (a length that is *)
(* positive and is there), packet 0 and JSON inside it.  One read holds at *)
(* most 4096 bytes of a status with its icon.                              *)
(***************************************************************************)
decodeStatusResponse(r) ==
  /\ Matches(r, [length |-> 1 .. Got(r), packetID |-> {0}, json |-> {TRUE}])
  /\ r.jsonLen <= r.length

MinecraftPlugin(c) ==
  Plugin("minecraft", 1, {25565},
         Claim(decodeStatusResponse(First(c, "status")), "minecraft-java", FALSE))
-----------------------------------------------------------------------------
(***************************************************************************)
(* ssh.  checkSSH: the greeting, or a line of it, begins with SSH-.        *)
(*                                                                         *)
(* checkAlgo: ten lists, each behind a length of four bytes.  Before it    *)
(* reads a list it compares the length of the packet with where the list   *)
(* begins and ends; for lists 4 and 10 with the beginning of the one       *)
(* before, and for list 6 with the length of list 5.  A packet cut short   *)
(* inside the last list therefore passes, and lists that fill the buffer   *)
(* may be sliced behind its end.                                           *)
(***************************************************************************)
checkSSH(r) == r.sent >= 4 /\ Matches(r, [line |-> {"SSH-"}])

Begin(lists, i) ==
  LET begin[j \in 1 .. 10] == IF j = 1 THEN 22 ELSE begin[j - 1] + 4 + lists[j - 1]
  IN begin[i]

checkAlgo(r) ==
  LET begin(i) == Begin(r.lists, i)
      length(i) == IF begin(i) + 4 <= Got(r) THEN r.lists[i] ELSE 0
      passes(i) == Got(r) >= begin(IF i \in {4, 10} THEN i - 1 ELSE i) + 4 + length(IF i = 6 THEN 5 ELSE i)
      beyond(i) == \/ i \in {4, 10} /\ begin(i) + 4 > Capacity
                   \/ passes(i) /\ begin(i) + 4 + length(i) > Capacity
      reached == {i \in 1 .. 10 : \A j \in 1 .. i - 1 : passes(j)}
  IN IF "lists" \notin DOMAIN r THEN "banner"
     ELSE IF \E i \in reached : beyond(i) THEN "panic"
     ELSE IF \A i \in 1 .. 10 : passes(i) THEN "algorithms" ELSE "banner"

(* The banner alone is enough for a service, but an error of the second    *)
(* read loses it.  With the algorithms known Run dials a second connection *)
(* to try a password and finishes the handshake on the first: neither has  *)
(* a deadline (Handshakes), and no error of theirs changes the service.    *)
SSHPlugin(c) ==
  LET second == Then(c, 2, "ssh identification")
      known == checkSSH(Greeting(c)) /\ second # Closed
  IN Plugin("ssh", 2, {22, 2222},
            Unless(known /\ checkAlgo(second) = "panic",
                   [Claim(known, "ssh", FALSE) EXCEPT !.detail = IF known THEN checkAlgo(second) ELSE ""]))

Handshakes(service) == service.protocol = "ssh" /\ service.detail = "algorithms"
-----------------------------------------------------------------------------
(* isTelnet: IAC and a command, and then an option or nothing. *)
isTelnet(r) ==
  /\ r.sent >= 2
  /\ Matches(r, [iac |-> {"command"}])
  /\ r.sent = 2 \/ Matches(r, [option |-> {"known"}])

TELNETPlugin(c) == Plugin("telnet", 4, {23}, Claim(isTelnet(Greeting(c)), "telnet", FALSE))

(***************************************************************************)
(* ftp: three digits, a blank or a dash, and a line that ends.  Nothing is *)
(* asked, so every protocol with numbered replies looks like it.           *)
(***************************************************************************)
ReplyCodes == {"220", "250", "421", "500", "501", "502", "504", "530", "550", "554"}

FTPPlugin(c) ==
  Plugin("ftp", 10, {21},
         Claim(Matches(Greeting(c), [word |-> ReplyCodes, cr |-> {TRUE}]), "ftp", FALSE))

(***************************************************************************)
(* dns: version.bind three times; each answer begins with the first byte   *)
(* of the transaction (after two bytes of length over TCP), as what an     *)
(* echo server sends does.                                                 *)
(***************************************************************************)
CheckDNS(c) ==
  LET answers == <<First(c, "version.bind"), Then(c, 2, "version.bind"), Then(c, 3, "version.bind")>>
  IN \A n \in 1 .. 3 : \/ Matches(answers[n], [dns |-> {"transaction"}])
                       \/ Matches(answers[n], [echo |-> {TRUE}])

DNSPlugin(c) == Plugin("dns", 50, {53}, Claim(CheckDNS(c), "dns", FALSE))

(* smtp: a code of a greeting, then a code of an answer to EHLO. *)
handleSMTPConn(r) == Matches(r, [word |-> {"220", "421", "500", "501", "554"}])
handleSMTPHelo(r) == Matches(r, [word |-> {"250", "421", "500", "501", "502", "504", "550"}])
DetectSMTP(c) == handleSMTPConn(Greeting(c)) /\ handleSMTPHelo(Then(c, 2, "EHLO"))

SMTPPlugin(c) ==
  Plugin("smtp", 60, {25, 587, 465, 2525}, Claim(DetectSMTP(c), "smtp", FALSE))
SMTPSPlugin(c) == Plugin("smtps", 61, {465}, Claim(DetectSMTP(c), "smtp", TRUE))
-----------------------------------------------------------------------------
(***************************************************************************)
(* rdp: the eleven bytes of the usual connection confirm; the table of     *)
(* operating systems only adds a guess.                                    *)
(*                                                                         *)
(* DetectRDPAuth, over TLS: an NTLM challenge (the signature, at least 56  *)
(* bytes, type 2, nothing reserved, revision 15) whose list of names ends  *)
(* where its length says.  A list that does not is an error, and loses the *)
(* service with the names; a name in it that ends behind the buffer is     *)
(* sliced all the same, there and by the plugin for smb.                   *)
(***************************************************************************)
DetectRDP(c) == Matches(First(c, "connection request"), [cotp |-> {"confirm"}])

NamesBeyond(r) == Matches(r, [names |-> {"beyond the buffer"}])
Challenge(r) == r.sent >= 56 /\ Matches(r, [ntlm |-> {2}, reserved |-> {0}, revision |-> {15}])
DetectRDPAuth(c) ==
  LET r == First(c, "ntlm negotiate") IN Challenge(r) /\ Matches(r, [names |-> {"none", "whole"}])

RDPPlugin(c) == Plugin("rdp", 89, {3389}, Claim(DetectRDP(c), "rdp", FALSE))
RDPTLSPlugin(c) ==
  LET r == First(c, "ntlm negotiate") IN
    Plugin("rdp", 89, {3389},
           Unless(Challenge(r) /\ NamesBeyond(r), Claim(DetectRDPAuth(c), "rdp", TRUE)))

(* pop3: a greeting +OK, and -ERR for a bogus command.  The text of the    *)
(* greeting is taken from its fifth byte on.                               *)
DetectPOP3(c) ==
  /\ Matches(Greeting(c), [word |-> {"+OK"}])
  /\ Matches(Then(c, 2, "bogus"), [word |-> {"-ERR"}])

POP3(c, tls) == Unless(DetectPOP3(c) /\ Greeting(c).sent < 4, Claim(DetectPOP3(c), "pop3", tls))

POP3Plugin(c) == Plugin("pop3", 120, {110}, POP3(c, FALSE))
POP3SPlugin(c) == Plugin("pop3s", 122, {995}, POP3(c, TRUE))

(***************************************************************************)
(* imap: a greeting, then two lines for CAPABILITY, the second with the    *)
(* tag of the command; when the first reply ends after one line the second *)
(* is waited for.  Whatever they say, the text of the greeting is taken    *)
(* from its sixth byte on.  Both plugins fill in a ServiceIMAPS.           *)
(***************************************************************************)
checkGreeting(r) == Matches(r, [word |-> {"* OK", "* PREAUTH", "* BYE"}])

checkCapability(c) ==
  LET r == Then(c, 2, "CAPABILITY") IN
    /\ Matches(r, [word |-> {"* CAPABILITY"}, cr |-> {TRUE}])
    /\ \/ Matches(r, [status |-> {"tag"}])
       \/ Matches(r, [status |-> {""}]) /\ Matches(Then(c, 3, "next line"), [status |-> {"tag"}])

DetectIMAP(c) == checkGreeting(Greeting(c)) /\ checkCapability(c)

IMAP(c, tls) ==
  Unless(checkGreeting(Greeting(c)) /\ Greeting(c).sent < 5, Claim(DetectIMAP(c), "imaps", tls))

IMAPPlugin(c) == Plugin("imap", 191, {143}, IMAP(c, FALSE))
IMAPSPlugin(c) == Plugin("imaps", 190, {993}, IMAP(c, TRUE))
-----------------------------------------------------------------------------
(* mysql: an error packet, or a handshake of version 10, in which a zero   *)
(* stands 13 bytes behind the version's end.  That end is looked for in    *)
(* what was read, the zero not.                                            *)
\* Mutant: the length of an error packet is taken to include its header.
WholePacketLength(r) ==
  r.sent >= 8 /\ Matches(r, [length |-> {Got(r)}, header |-> {255}, code |-> 1000 .. 2000])

CheckErrorMessagePacket(r) ==
  /\ r.sent >= 8
  /\ Matches(r, [length |-> {Got(r) - 4}, header |-> {255}, code |-> 1000 .. 2000, ascii |-> {TRUE}])

InitialHandshake(r) ==
  /\ r.sent >= 35
  /\ Matches(r, [length |-> 25 .. 4096, header |-> {10}, ascii |-> {TRUE}, end |-> 0 .. Got(r) - 1])
FillerBeyond(r) == InitialHandshake(r) /\ r.end + 13 >= Got(r)
CheckInitialHandshakePacket(r) == InitialHandshake(r) /\ Matches(r, [filler |-> {0}])

MYSQLPlugin(c) ==
  LET r == Greeting(c) IN
    Plugin("mysql", 133, {3306},
           Unless(FillerBeyond(r),
                  Claim(CheckInitialHandshakePacket(r) \/ CheckErrorMessagePacket(r), "mysql", FALSE)))

(***************************************************************************)
(* ldap: the message id of the bind request comes back, behind a length of *)
(* one byte or behind one of four; no other form of a BER length is known. *)
(***************************************************************************)
DetectLDAP(c) ==
  LET r == First(c, "bind") IN
    \/ r.sent >= 7 /\ Matches(r, [ber |-> {"short", "four bytes"}, id |-> {TRUE}])
    \/ Matches(r, [echo |-> {TRUE}])

LDAPPlugin(c) == Plugin("ldap", 175, {389}, Claim(DetectLDAP(c), "ldap", FALSE))
LDAPSPlugin(c) == Plugin("ldaps", 175, {636}, Claim(DetectLDAP(c), "ldaps", TRUE))

(***************************************************************************)
(* kafka: the length of the answer is right and the correlation id comes   *)
(* back.  New brokers answer ApiVersions; old ones close the connection on *)
(* it and answer a Metadata query, in which the name of the topic follows  *)
(* the brokers: their count and lengths are believed.                      *)
(***************************************************************************)
Correlated(r) == Matches(r, [length |-> {Got(r) - 4}, id |-> {TRUE}]) /\ r.sent > 0
checkAPIVersions(c) == Correlated(First(c, "ApiVersions"))
checkMetadataQuery(c) ==
  LET r == First(c, "Metadata") IN Correlated(r) /\ Matches(r, [topic |-> {"whole"}])
BrokersBeyond(r) == Correlated(r) /\ Matches(r, [topic |-> {"beyond the buffer"}])
KafkaOld(c, tls) ==
  Unless(BrokersBeyond(First(c, "Metadata")), Claim(checkMetadataQuery(c), "kafka", tls))

KafkaNewPlugin(c) ==
  Plugin("kafkaNew", 200, {9092}, Claim(checkAPIVersions(c), "kafka", FALSE))
KafkaNewTLSPlugin(c) ==
  Plugin("kafkaNewTLS", 200, {9093}, Claim(checkAPIVersions(c), "kafka", TRUE))
KafkaOldPlugin(c) ==
  Plugin("kafkaOld", 201, {9092}, KafkaOld(c, FALSE))
KafkaOldTLSPlugin(c) ==
  Plugin("kafkaOldTLS", 201, {9093}, KafkaOld(c, TRUE))

(* vnc: exactly the twelve bytes of a version. *)
VNCPlugin(c) ==
  LET r == Greeting(c) IN
    Plugin("vnc", 265, {5900}, Claim(r.sent = 12 /\ Matches(r, [word |-> {"RFB"}]), "vnc", FALSE))
-----------------------------------------------------------------------------
(***************************************************************************)
(* mssql: the header of a tabular result of the length it says, then       *)
(* options that lie inside it, the first a version of six bytes.  Nothing  *)
(* but the terminator ends their list, the end of the packet does not; and *)
(* where an option ends is compared eight bytes short.                     *)
(***************************************************************************)
TDSHeader(r) ==
  /\ r.sent >= 8
  /\ Matches(r, [type |-> {4}, last |-> {1}, length |-> {Got(r)},
                 spid |-> {0}, packetID |-> {1}, window |-> {0}])

OptionTokens(r) ==
  LET options == r.options
      inside(i) == options[i].length = 0 \/ options[i].end < Got(r)
      beyond(i) == options[i].length # 0 /\ inside(i) /\ options[i].end + 8 > Capacity
      reached == {i \in 1 .. Len(options) + 1 : \A j \in 1 .. i - 1 : inside(j)}
  IN CASE \E i \in reached : IF i > Len(options) THEN ~r.terminated ELSE beyond(i) -> "panic"
       [] /\ Len(options) + 1 \in reached /\ options # <<>>
          /\ options[1].token = 0 /\ options[1].length = 6                         -> "version"
       [] OTHER                                                                    -> "error"

MSSQLPlugin(c) ==
  LET r == First(c, "prelogin") IN
    Plugin("mssql", 143, {1433},
           Unless(TDSHeader(r) /\ OptionTokens(r) = "panic",
                  Claim(TDSHeader(r) /\ OptionTokens(r) = "version", "mssql", FALSE)))

(***************************************************************************)
(* rpc: the portmapper accepts a call, and dumps its table.  parseRPCInfo  *)
(* goes from entry to entry while at least 32 bytes are left.  Of a table  *)
(* that did not come, or did not fit, into one read the last entry may be  *)
(* cut behind these 32 bytes (rest is what is left of it): it is parsed.   *)
(***************************************************************************)
DetectRPCInfoService(c) ==
  /\ Matches(First(c, "call"), [rpc |-> {"accepted"}])
  /\ Then(c, 2, "dump").sent >= 32
parseRPCInfo(r) == Matches(r, [rest |-> 0 .. 31])

RPCPlugin(c) ==
  Plugin("rpc", 300, {111},
         Unless(DetectRPCInfoService(c) /\ ~parseRPCInfo(Then(c, 2, "dump")),
                Claim(DetectRPCInfoService(c), "rpc", FALSE)))

(***************************************************************************)
(* smb: a negotiate response of SMB 2 makes it SMB; a session setup is     *)
(* then asked for names, and only an error of that read, not an answer     *)
(* that is no challenge, loses what was found.                             *)
(***************************************************************************)
NegotiateResponse(r) ==
  /\ r.sent >= 132
  /\ Matches(r, [protocolID |-> {"SMB2"}, structure |-> {64}, command |-> {0}, body |-> {65}])

SMBPlugin(c) ==
  LET second == Then(c, 2, "session setup")
      known == NegotiateResponse(First(c, "negotiate")) /\ second # Closed
  IN Plugin("smb", 320, {445},
            Unless(known /\ Challenge(second) /\ NamesBeyond(second),
                   [Claim(known, "smb", FALSE) EXCEPT
                      !.detail = IF ~known THEN ""
                                 ELSE IF Challenge(second) THEN "session" ELSE "negotiate"]))

(* modbus: the transaction, and one bit read or the exception for it: up   *)
(* to three bytes behind a header of seven, however many there are.        *)
MODBUSPlugin(c) ==
  LET r == First(c, "read discrete input")
      read == Matches(r, [code |-> {2}])
      looksAt == IF ~read THEN 8 ELSE IF Matches(r, [count |-> {1}]) THEN 10 ELSE 9
  IN Plugin("modbus", 400, {502},
            Unless(Matches(r, [id |-> {TRUE}]) /\ r.sent < looksAt,
                   Claim(/\ Matches(r, [id |-> {TRUE}])
                         /\ \/ read /\ Matches(r, [count |-> {1}, value |-> {0, 1}])
                            \/ Matches(r, [code |-> {130}]),
                         "modbus", FALSE)))

(* redis: PONG and nothing more, or the demand for a password. *)
checkRedis(r) ==
  \/ r.sent = 7 /\ Matches(r, [word |-> {"+PONG"}])
  \/ r.sent > 7 /\ Matches(r, [word |-> {"-NOAUTH"}])

REDISPlugin(c) ==
  Plugin("redis", 413, {6379}, Claim(checkRedis(First(c, "PING")), "redis", FALSE))
REDISTLSPlugin(c) ==
  Plugin("redis", 414, {6380}, Claim(checkRedis(First(c, "PING")), "redis", TRUE))

(* rsync: the magic word; a daemon greets with it, whatever it is sent.    *)
(* Its version is taken from the byte behind the next one on.              *)
RSYNCPlugin(c) ==
  LET r == First(c, "magic")
      magic == Matches(r, [word |-> {"@RSYNCD:"}])
  IN Plugin("rsync", 578, {873}, Unless(magic /\ r.sent < 9, Claim(magic, "rsync", FALSE)))
-----------------------------------------------------------------------------
(***************************************************************************)
(* jdwp: the handshake comes back byte for byte.  The version is asked for *)
(* next; an answer that is missing, short or of another length than it     *)
(* says leaves no information, and a service made from none is a panic.    *)
(* An answer that ends inside a field is an error.                         *)
(***************************************************************************)
\* Mutant: a version that ends inside a field is taken as it is.
CutVersion(r) ==
  IF r.sent < 11 \/ ~Matches(r, [length |-> {Got(r)}]) THEN "nil" ELSE "info"

\* Mutant: the shortest packet, a header alone, counts as too short.
ShortVersion(r) == IF r.sent < 12 THEN "nil" ELSE "info"

DetectJDWPVersion(r) ==
  CASE r.sent < 11 \/ ~Matches(r, [length |-> {Got(r)}]) -> "nil"
    [] Matches(r, [fields |-> {"whole"}])                -> "info"
    [] OTHER                                             -> "error"

JDWPPlugin(c) ==
  LET shaken == LET r == First(c, "JDWP-Handshake") IN
                  Matches(r, [word |-> {"JDWP-Handshake"}]) \/ Matches(r, [echo |-> {TRUE}])
      second == Then(c, 2, "jdwp version")
  IN Plugin("jdwp", 500, {3999, 5000, 5005, 8000, 8453, 8787, 8788, 9001, 18000},
            Unless(shaken /\ second # Closed /\ DetectJDWPVersion(second) = "nil",
                   Claim(shaken /\ second # Closed /\ DetectJDWPVersion(second) = "info",
                         "jdwp", FALSE)))

(* mqtt: a CONNACK for a CONNECT of version 3, or of version 5. *)
testConnectRequest(r) == Matches(r, [first |-> {32}])

MQTT3Plugin(c) ==
  Plugin("mqtt3", 500, {1883}, Claim(testConnectRequest(First(c, "connect 3")), "mqtt", FALSE))
MQTT3TLSPlugin(c) ==
  Plugin("mqtt3tls", 501, {8883}, Claim(testConnectRequest(First(c, "connect 3")), "mqtt", TRUE))
MQTT5Plugin(c) ==
  Plugin("mqtt5", 505, {1883}, Claim(testConnectRequest(First(c, "connect 5")), "mqtt", FALSE))
MQTT5TLSPlugin(c) ==
  Plugin("mqtt5tls", 506, {8883}, Claim(testConnectRequest(First(c, "connect 5")), "mqtt", TRUE))

(***************************************************************************)
(* oracle: a refusal, an accept or a resend that says VSNNUM.  parseInfo   *)
(* takes the first two numbers of the text, VSNNUM and ERR, and of the     *)
(* first two hexadecimal digits of its second byte (minor), which has one  *)
(* when it is below 16: 11.2 is 0B 20 .., 18c is 12 00 ...                 *)
(***************************************************************************)
isOracleDBRunning(r) ==
  r.sent >= 27 /\ Matches(r, [packetType |-> {4, 2, 11}, text |-> {"(DESCRIPTION=(TMP=)(VSNNUM="}])
\* Mutant: three digits of the second byte are taken.
ThreeDigits(r) == r.numbers >= 2 /\ r.minor >= 256

parseInfo(r) == r.numbers >= 2 /\ r.minor >= 16

ORACLEPlugin(c) ==
  LET r == First(c, "tns connect") IN
    Plugin("oracle", 900, {1521},
           Unless(isOracleDBRunning(r) /\ ~parseInfo(r), Claim(isOracleDBRunning(r), "oracle", FALSE)))

(* postgresql: an error, an authentication or a version, of less than 64 kB. *)
verifyPSQL(r) == r.sent >= 6 /\ Matches(r, [psql |-> {"E", "R", "v"}, size |-> {"16 bits"}])

POSTGRESPlugin(c) ==
  Plugin("postgres", 1000, {5432}, Claim(verifyPSQL(First(c, "startup")), "postgresql", FALSE))

(* rtsp: its status line, the number of the request, and a Server header;  *)
(* each of the two is sliced before it is known to be there to its end.    *)
RTSPPlugin(c) ==
  LET r == First(c, "OPTIONS")
      numbered == Matches(r, [word |-> {"RTSP/1.0"}, cseq |-> {"whole"}])
  IN Plugin("rtsp", 1001, {554},
            Unless(\/ Matches(r, [word |-> {"RTSP/1.0"}, cseq |-> {"cut"}])
                   \/ numbered /\ Matches(r, [server |-> {"cut"}]),
                   Claim(numbered /\ Matches(r, [server |-> {"whole"}]), "rtsp", FALSE)))
-----------------------------------------------------------------------------
(***************************************************************************)
(* The plugins for UDP.  A datagram is read whole, and a refused port      *)
(* reads like silence.  An echo of the probe passes for an answer wherever *)
(* an answer is told by what it repeats.                                   *)
(***************************************************************************)
Repeats(r, want) == Matches(r, want) \/ Matches(r, [echo |-> {TRUE}])

DNSUDPPlugin(c) == Plugin("dns", 50, {53}, Claim(CheckDNS(c), "dns", FALSE))

(* ipmi: thirteen bytes of an RMCP header, the ones of the request. *)
IPMIPlugin(c) ==
  Plugin("ipmi", 80, {623},
         Claim(Repeats(First(c, "rmcp"), [rmcp |-> {"header"}]), "ipmi", FALSE))

(* snmp: the community and the object that were asked for. *)
SNMPPlugin(c) ==
  Plugin("snmp", 81, {161},
         Claim(Repeats(First(c, "get"), [community |-> {"public"}, object |-> {"sysDescr"}]),
               "snmp", FALSE))

(* dhcp: the transaction.  Options of which one ends behind the packet are *)
(* left out; a list without an end, or an end where no list can be, is     *)
(* read on.                                                                *)
DHCPPlugin(c) ==
  LET r == First(c, "discover")
      mine == Repeats(r, [id |-> {TRUE}])
  IN Plugin("dhcp", 100, {67},
            Unless(/\ mine
                   /\ \/ r.sent <= 240 /\ Matches(r, [last |-> {255}])
                      \/ r.sent > 240 /\ Matches(r, [options |-> {"endless"}]),
                   Claim(/\ r.sent > 240
                         /\ Repeats(r, [id |-> {TRUE}, options |-> {"whole", "cut"}]),
                         "dhcp", FALSE)))

(* ipsec: the identifier of the initiator. *)
IPSECPlugin(c) ==
  Plugin("ipsec", 198, {500}, Claim(Repeats(First(c, "isakmp"), [spi |-> {TRUE}]), "ipsec", FALSE))

(* netbios: a name between five zeros and three blanks, in that order. *)
NETBIOSPlugin(c) ==
  Plugin("netbios", 700, {137},
         Claim(Matches(First(c, "nbstat"), [nbname |-> {"padded"}]), "netbios", FALSE))

(* openvpn: the reset of a server, with the session of the client in it. *)
OpenVPNPlugin(c) ==
  Plugin("openvpn", 708, {1194},
         Claim(Matches(First(c, "client reset"), [opcode |-> {8}, session |-> {TRUE}]),
               "openvpn", FALSE))

(* ntp: 48 bytes in the mode of a server. *)
NTPPlugin(c) ==
  LET r == First(c, "ntp") IN
    Plugin("ntp", 800, {123}, Claim(r.sent = 48 /\ Matches(r, [mode |-> {4}]), "ntp", FALSE))

(***************************************************************************)
(* stun: the binding response of the transaction.  parseResponse does not  *)
(* skip the padding behind an attribute: after one whose length is not a   *)
(* multiple of four it reads lengths that are none, and gives up.          *)
(***************************************************************************)
parseResponse(attributes) == \A i \in 1 .. Len(attributes) : attributes[i] % 4 = 0

STUNPlugin(c) ==
  LET r == First(c, "binding") IN
    Plugin("stun", 2000, {3478},
           Claim(/\ r.sent >= 20
                 /\ Matches(r, [method |-> {"binding response"}, cookie |-> {TRUE}, id |-> {TRUE}])
                 /\ parseResponse(r.attributes),
                 "stun", FALSE))
-----------------------------------------------------------------------------
(* plugins.Plugins after every init (RegisterPlugin, plugin_list.go). *)
Registered(c) ==
  [TCP |->
     {HTTPPlugin(c), EchoPlugin(c), MinecraftPlugin(c), SSHPlugin(c), TELNETPlugin(c),
      FTPPlugin(c), DNSPlugin(c), SMTPPlugin(c), RDPPlugin(c), POP3Plugin(c), MYSQLPlugin(c),
      MSSQLPlugin(c), LDAPPlugin(c), IMAPPlugin(c), KafkaNewPlugin(c), KafkaOldPlugin(c),
      VNCPlugin(c), RPCPlugin(c), SMBPlugin(c), MODBUSPlugin(c), REDISPlugin(c),
      MQTT3Plugin(c), JDWPPlugin(c), MQTT5Plugin(c), RSYNCPlugin(c), ORACLEPlugin(c),
      POSTGRESPlugin(c), RTSPPlugin(c)},
   TCPTLS |->
     {HTTPSPlugin(c), SMTPSPlugin(c), RDPTLSPlugin(c), POP3SPlugin(c), LDAPSPlugin(c),
      IMAPSPlugin(c), KafkaNewTLSPlugin(c), KafkaOldTLSPlugin(c), REDISTLSPlugin(c),
      MQTT3TLSPlugin(c), MQTT5TLSPlugin(c)},
   UDP |->
     {DNSUDPPlugin(c), IPMIPlugin(c), SNMPPlugin(c), DHCPPlugin(c), IPSECPlugin(c),
      NETBIOSPlugin(c), OpenVPNPlugin(c), NTPPlugin(c), STUNPlugin(c)}]
=============================================================================
