# Verification of Rigour

TLA+ specifications of Rigour, the internet scanner in `src/rigour`: the scan
coordinator and its rate limiter, the NATS JetStream pipeline behind it with
the consumers of that pipeline up to the search index, the request path of the
API, the fingerprinter with its plugins, and the older path from the crawler
over Kafka to MongoDB. TLC checks each module on small instances; the
properties that matter most are proved with TLAPS for every value of the
constants. `PROJECT.json` lists the components, the runs, the lines every
definition stands for, the hazards and the theorems.

## 1. The system

    coordinator --SCAN_TASKS--> scanner agents --RAW_SCANS--> enrichment workers
        |  ^                    (zsend also publishes)              |
      Redis, blocklist                                        ENRICHED_SCANS
                                                              |           |
    API, opt-out, UI <---- OpenSearch <---- OpenSearch indexer     ClickHouse streamer

    legacy:  crawler (fingerprinter) --Kafka--> persistence --> MongoDB

| Component | State | Operations | What makes it hard | What makes it correct |
|---|---|---|---|---|
| ASN rate limiter (`internal/coordinator/asn_ratelimiter.go`) | Redis keys `rate:asn:<asn>` with a 60 s expiry | `CheckAndIncrement` (GET, compare, SET), `ResetASNCounter` | two round trips, failing calls, several callers, expiry | no more than `defaultRate` grants in any minute |
| Coordinator (`cmd/coordinator/main.go`, `priority_scheduler.go`) | next scan of every port, a ticker, the pass in progress | a pass over due ports and /24 subnets, publish, `MarkScanned`, restart | slow passes, lost ticks, publishes that fail and are stored late, a schedule that is only in memory | spaced tasks; every port in time; every subnet answered for in every walk |
| JetStream streams (`internal/nats/streams.go`) | stored messages, deliveries, acks, pending limit, age | publish, deliver, ack, nak, redeliver, expire | duplicates, reordering, lost acks, a delivery that lapses inside a client's buffer | external: what the subscriptions ask of it |
| Enrichment workers (`cmd/enrichment-worker/main.go`), three replicas | the callback and the client buffer of each replica | unmarshal, look up, publish, ack or nak | crashes between publish and ack, publishes with unknown outcome | at least once; bounded duplicates; nothing left behind |
| ClickHouse streamer (`cmd/clickhouse-streamer/main.go`) | a batch under a channel mutex, three goroutines | append, flush by size, by ticker and at shutdown | events are acked when buffered; failed and half-failed inserts; cancellation | no acked event lost while it runs; bounded duplicates |
| Scanner agent (`cmd/scanner-agent/main.go`) | none of its own | sweep the subnet, publish every open host, ack | publish errors are ignored; `AckWait` against the length of a sweep | a raw scan was paid for by a delivery; a task disappears only with a mark of the fault |
| OpenSearch indexer (`cmd/opensearch-indexer/main.go`) | one document per IP | replace the document, ack, nak with delay | requests that fail after the write, a client that repeats them, several ports of one host | acknowledged is indexed; a request for each delivery at most, and no more writes than its attempts |
| API (`internal/api`) | Redis counters, opt-out keys, an in-memory blocklist | rate limit, opt-out, search | two-step counters, a client that repeats commands, dropped errors, two blocklists | no more than two limits in any minute; a refusal ends unless the counter got no EXPIRE; an accepted opt-out is on the list |
| Crawler (`pkg/crawler/worker.go`) | a queue of 100, twenty workers | discover, fingerprint, deliver events | full queue, close and wait, a fingerprint that hangs or panics | every open port is fingerprinted once; the run ends with its events accounted for, or dies, or a hung fingerprint holds it |
| Fingerprinter (`pkg/crawler/fingerprint`) | one call: the loop it is in, the plugins left, the connection | default ports first, TLS probe, every plugin in order of priority | 48 plugins that accept each other's protocols, failing dials and reads, replies in pieces, panics nobody recovers | a server is reported as what it is, on any port, and a failing network does not turn one service into another |
| Persistence (`pkg/persistence`, `internal/storage/mongodb`, `internal/messaging/kafka`) | Kafka offsets, host documents | ensure, enrich, update, upsert | no commit, failing messages, update-then-push | one entry per service |

Tables, look-ups, read-only endpoints, administration commands, tracing, the
UI and third-party code are listed in `PROJECT.json` with the reason they are
left out.

The pieces interact through messages (JetStream, Kafka), through Redis, and,
inside the streamer and the crawler, through goroutines that share memory.
There are no other callbacks: a NATS client runs the callback of one
subscription for one message at a time.

## 2. Modules

| Module | Models | Depends on |
|---|---|---|
| `ASNRateLimiter` | the limiter, any number of callers, a clock | |
| `Coordinator` | schedule, ticker loop, pass, restart | instances `ASNRateLimiter` with one caller |
| `WorkQueue` | a JetStream work queue with its durable queue consumer (external) | |
| `Stage` | what a stage of the pipeline promises: at least once | |
| `EnrichmentWorker` | the replicas' callbacks | extends `WorkQueue`, implements `Stage` |
| `ClickHouseStreamer` | batch, mutex, goroutines, shutdown | extends `WorkQueue` |
| `Crawl` | what a crawl promises: every open port fingerprinted exactly once | |
| `CrawlerPool` | queue, callbacks and workers of a crawl, the Kafka writer | implements `Crawl` |
| `Persistence` | Kafka reader, database steps, restarts | |
| `Protocols` | the 48 plugins as operators on a conversation | |
| `Fingerprint` | `FingerprintTarget` and `UDPScanTarget`: lanes, dials, failures | extends `Protocols` |
| `ScannerAgent` | the agents' callbacks | extends `WorkQueue` |
| `HostIndexer` | the indexer's callback, its requests and their repetitions | extends `WorkQueue` |
| `Pipeline` | tasks, raw scans, enriched scans and documents, end to end | instances `ScannerAgent`, `Stage` (the workers) and `HostIndexer`, implements `Stage` |
| `ApiServer` | API keys, rate limit, opt-out, the blocklist of the process | |
| `MC*` | finite values of the constants | the module of that name |
| `*_proofs` | theorems | the module of that name and `TLAPS` |
| `KafkaPath_proofs` | theorems about the two ends of the Kafka topic | `CrawlerPool`, `Persistence` and `TLAPS` |

### ASNRateLimiter

`key[a]` is the Redis key of an ASN, its count and expiry; `call[c]` the call a
process has in progress. `Check`, `Refuse` and `GetFails` are the three ways
`CheckAndIncrement` leaves its GET, `Grant` and `SetFails` those of its SET,
which may be applied although it reports an error. Time passes, other callers
run and the caller dies between the two. An expired or missing key reads as 0,
and every SET renews the expiry. `grants` is a history variable: when calls
answered TRUE. `Die` and `ResetASNCounter` happen at any time; a reset starts
the history anew, since that is what it is for.

### Coordinator

`next` is the schedule, `ticker` and `fired` the `time.Ticker` with its channel
of capacity one, `due`, `port` and `idx` the position of `scanDuePorts`. One
action per exit of the loop body: a blocked subnet, a refusal, an error of
Redis, a grant and then the publish. The NATS client reconnects for ever
(`internal/nats/client.go:17`) and keeps what it could not send, so a publish
that was reported as failed may be stored before the error, at any later time,
or never: `StoreLate`, which takes a crash of the process no differently, since
what is on its way then may arrive too. `tasks` is history: when each task was
published and whether the stream has it; `answer` is what the last walk over a
port made of each subnet, "tasked" or "missed". `MarkScanned` runs whatever
became of the subnets, as line 198 does. A restart (`Crash`, `Start`) makes
every port due and leaves Redis alone. Ports, tiers, subnets, their ASNs and the
blocked ones are constants. With `SlowPass` time passes at any step of a pass;
without it a pass takes no time.

Left out: a SET that Redis carries out after `CheckAndIncrement` has returned
its error, or after the process that sent it ended. Within the call it is
applied, or not, when the call returns.

### WorkQueue and Stage

A message is absent, waiting for delivery, pending, acked, spent (it used up
MaxDeliver and is never delivered again) or aged out. A delivery goes into the
buffer of a member's client and its AckWait runs from there (`Lapse`), so a
callback may work on a message that the server has given to another replica,
has given up, or has seen acked. Acks and naks are fire and forget and may be
lost. A late ack of a spent message is taken to have no effect.
`Stage` abstracts all this to a fate per message and a count of results; a step
may give up several messages, those a process had when it ended.

Not modelled: the server's refusal of a second consumer with an overlapping
filter on a work queue, and the deletion of the durable consumer by the client
that created it; both are hazards (section 7).

### EnrichmentWorker

`step` and `cur` are the callback of each replica, `copies` the enriched scans
stored in ENRICHED_SCANS. The look-ups change nothing and never fail a message.
A publish that returns an error may have been stored; the nak follows. One that
waits in the client's reconnect buffer, before its nak on the same connection,
counts when it is made: `copies` may be ahead of the stream. The same holds of
the raw scans of an agent. `Crash` is every end of a process, with the callback
and the buffer it had. `harmed` is history: the scans to which a crash or a
failed publish happened.

At this commit `cmd/enrichment-worker` does not compile: line 144 declares
`cves` as `[]string` and line 146 assigns it `[]types.CVEInfo`. The model is of
the control flow, which the type does not touch.

### ClickHouseStreamer

`pc` has a program counter for each of the three goroutines that call
`flushBatch`: the subscription's callback, the ticker's and main at shutdown.
`lock` is the channel used as the batch mutex; it is held during the insert,
and the callback's append is a critical section of its own before its flush. An
insert fails, or is applied by a commit that reports an error (`unsure` counts
these). `Signal` cancels the context, which makes every further insert an
error; `Kill` is any other end. `dropped` is history: events in the batch when
the process ended.

### CrawlerPool and Crawl

`portQueue` is the channel of `worker.go:39`, `inline` the port a callback of
naabu fingerprints itself when the channel is full, `worker` what each worker
holds. Naabu's callbacks come from goroutines of its own, each port once.
`FingerprintTarget` finds a service or none, or does not return
(`FingerprintHangs`, the ssh handshake without a deadline); `onEvent` hands a
service to the Kafka writer, which is asynchronous: `writer` is its buffer, and a
message Kafka refuses is dropped without an error to anybody. `WriteMessages`
itself fails when it has no metadata of the topic, and `main.go:85` drops that
error too. `main` goes through `close(portQueue)`, `wg.Wait` and the deferred
`Close` that flushes the writer. `CrawlerDies` is a panic of a plugin or a
signal: no deferred call runs, and `lost` is history, what the writer had then.
The specification's own definitions are `PoolInit`, `PoolNext`, `PoolSpec`, so
that one module can extend this end of the Kafka topic and `Persistence`.
`Crawl` knows nothing of queues and workers: found ports are fingerprinted once
each, and the crawl is over when all are.

### Persistence

Each process of the consumer group has a partition (`log`) and a position in
it. `Fetch` never commits, so a process that starts begins at the first message
(`Start`, with `pos` at 0). The comment "automatic commits every second"
(`consumer.go:53`) is about offsets given to `CommitMessages`, which nothing
calls. `step` is the next of the four database calls of
`handleService`: `EnsureHost`, `UpdateHost`, and the two calls of
`UpsertService`. Any error ends the process, which the compose file starts
again. A call that fails is the call's step followed by `Die` when it had been
applied, and `Die` alone when not. A call of a process that died is not applied
later, and partitions stay with their process. `hosts` and `services` are the
documents and their arrays; the fields of a host are left out, since
`UpdateHost` only sets them.

### Protocols and Fingerprint

A server is a *talk*: what it says first, what it answers to each probe it
understands, and what to every other one. A plugin is a record of its name,
priority, default ports and the service its `Run` returns for a talk; the
operators `HTTPPlugin`, `SSHPlugin` and so on follow the checks of the Go code
in their order, reduced to the fields of a reply that some plugin looks at: a
length, a leading word, a repeated identifier, a version, and the indices and
lengths by which a parser reaches behind the end of what it has read: where one
does, the plugin's finding is `Panic`. `Recv` reads 4096 bytes at most and once,
which is what cuts long replies, and short ones that TCP brings in segments: a
reply may have a `piece`, a first segment of it, and one of the failures is that
an answer comes in pieces. Silence and a closed connection differ, as they do
for the plugins: a timed-out read returns no bytes and no error. `Finds` is the
table of what each plugin finds of each server for each failure of the
connection.

`Fingerprint` is the control around it. `lane` is the loop the call is in
(default ports over TCP, the TLS probe, default ports over TLS, every plugin of
the layer), `left` the plugins it has still to try, `at` whether it is about to
dial or to run one. `setupPlugins` sorts by priority with an unstable sort, so
plugins of one priority run in either order. A dial may fail, which ends the
call with an error; a TLS probe that fails for any reason makes the port plain;
a connection may fall silent, close, or bring its answers in pieces from its
first or second exchange on (`Felt`: datagrams, and what TLS sends in one
record, come whole). A panic ends the process (`crashed`), since nothing
recovers; the ssh handshake on the second connection, which has no read
deadline, may never end (`waiting`). `faulty` is history. `UDPScanTarget` is
modelled for datagram servers although at this commit nothing calls it.

`Outcome` says what a call may return without the loops: the service that the
first lane which finds anything finds, by the plugin of the lowest number there,
where on a failing network each plugin finds what it finds at some failure or at
none. `Verdict` is that the loops return nothing else, and no service only when
every plugin that was to be tried missed. `MCFingerprint` has the table of the
servers and says of each what it is to be reported as (`Recognised`), what a
failing network may make of it (`Excused`), and whether it may kill the process
or hold it (`MayPanic`, `MayHang`). `Agrees` says that the outcomes are these;
it mentions no variable, and `TableAgrees` evaluates it for every call before it
begins.

Left out: the contents of the metadata; segments of a reply other than
the one the table gives; and what a server could send beyond the table, which
has, under `Ill`, servers for the parsers that trust an index or a length they
read.

### ScannerAgent, HostIndexer and Pipeline

Each callback is a program counter and the message it has, over `WorkQueue`
like the enrichment workers. `runZMapMock` never fails and finds one host, so a
task gives one raw scan. The agent drops the error of its publish
(`PublishLost`) and acknowledges all the same. The indexer's client repeats a
request by itself, three times by default, on a broken connection and on 502,
503 and 504, and each attempt may have written: `writes` counts the requests
that wrote, `puts` how often the document was written. A request none of whose
attempts is answered, or that is refused, fails with or without a write
(`IndexFails`), and the scan is given back with a delay. The document of the
host is replaced whole; which scan's is there when several are under way is left
out, so an attempt that OpenSearch carries out late counts with its request.
Both programs read what the system itself marshalled, so their early naks for
unreadable payloads are not reached and `Junk` is empty.

`Pipeline` composes them. A raw scan is named by its task and a number, an
enriched scan by its raw scan and a number, since every redelivery publishes a
new message. Between the two queues stands `Stage`, the promise that
`EnrichmentWorker` is proved to keep, so what is shown of the pipeline rests on
the theorem and not on a second copy of the workers. `Copies` bounds the
enriched scans of one raw scan. Messages do not age out here: the streams keep
them for 24 hours and longer, and what ageing does is in `enrichment_faults`.

### ApiServer

`step` is where the goroutine of each request is; every call to Redis is a step,
and other requests, the clock and a crash come between them. `counter` is the
Redis counter of each client with the ticks until it expires: INCR makes a key
without expiry, and the request that saw 1 sets it. The Redis client sends a
command again when its reply does not come (three times by default), and Redis
may carry out the one whose reply was lost before, after or never: `IncrAgain`
sends again, `late` counts the INCRs given up that are still to be carried out,
`IncrLate` carries one out. If that makes the key, the reply that is seen says 2
and nobody sends EXPIRE. Counts above the limit plus one are not told apart, for
nothing compares them. Time is relative (ticks left, ages of admissions), so a
run has no end of the clock. `age` is history: how long ago each of the last 2 *
Limit + 1 admissions of a client was, up to a TTL. An opt-out enters the
blocklist of this process, is written to Redis, where nothing ever reads it and
whose error is dropped, and is answered with 201; what the request asks is
chosen when `HandleOptOut` reads the body. `harmed` is history: clients whose
counter got no EXPIRE. A crash empties the lists and the promises made. Left
out: an EXPIRE carried out after it was given up. It could only give a counter
an expiry or a later one, and each was sent by a request that saw 1.

## 3. Runs

| Run | Asks | Result |
|---|---|---|
| `limiter_window` | one caller, failing calls, deaths, resets: is the window kept, and is `CounterCovers` an invariant? | holds |
| `coordinator_faults` | crashes, failing Redis and publishes, slow passes: tasks spaced, no port overdue, every subnet answered for, the limiter's specification implemented | holds |
| `coordinator_coverage` | is every unblocked subnet tasked in every interval, as the README's table of tiers says? | violated: what the limiter refuses waits a whole interval |
| `enrichment_faults` | two replicas, every fault, an unreadable payload: the stage's promise, bounded copies, nothing left behind | holds |
| `streamer_keeps` | inserts that fail or half fail, stops and kills: acked events kept, rows bounded, everything inserted in the end | holds |
| `streamer_shutdown` | does the final flush save what was acked? | violated: it runs under the cancelled context |
| `crawler_pool` | is every port fingerprinted once before the function returns, and what becomes of the crawl and its events when a fingerprint hangs, a plugin panics, a signal comes or Kafka refuses? | holds |
| `persistence_replay` | one process, deaths after any call, replays, unreadable messages: entries unique, database caught up, everything reachable persisted | holds |
| `fingerprint` | seventy-two servers on their own port and eight others, both modes, a network that fails at any exchange or cuts an answer: what is each reported as, what may a failure make of it, where does the process stop? | holds, with the exceptions the tables of `MCFingerprint` name |
| `fingerprint_oracle` | is the Oracle refusal that the plugin's comment quotes recognised? | violated: its version makes `parseInfo` panic |
| `pipeline` | one task from the coordinator to the index under every fault, and requests that the indexer's client repeats: do the stages keep together what each promises, is anything multiplied, and what may lose it? | holds |
| `api_server` | two concurrent requests, Redis failures, commands sent again and carried out late, crashes: two limits in any window, refusals end, accepted opt-outs listed | holds |

The properties, in words, stand above their definitions in the modules.

Bounds. `MaxTime` caps the clock. The limiter's window property is about two
grants Rate apart and one window; with Rate 2, TTL 2 and four instants there are
windows that roll over a renewal, an expiry at exactly the boundary and three
grants in two windows. The coordinator runs have two ports with different
intervals, so that due sets differ. `coordinator_coverage` has three subnets,
one of them blocked and two in the same ASN, and a limit below what one pass
asks of an ASN, as the deployment has (100 a minute against thousands of ports
of every /24). `coordinator_faults` has two subnets, one of them blocked, and a
limit of one, where every grant but the first is contested, and four clock
units: two periods of the ticker, two windows, and a restart anywhere. A task
whose publish failed is stored at any of them, or never. The queue runs have two
messages, which is the smallest number for which redeliveries overtake each
other; MaxDeliver 3 for the 5 of the enrichment workers, so that first, middle
and last delivery differ, and 2 elsewhere for the 3 of the streamer, the 3 of
the agents and the 10 of the indexer; and MaxAckPending 2, with which the limit
is reached. `streamer_keeps` has a batch size of two, so that batches fill by
one event delivered twice as well as by two events, and at most one commit with
unknown outcome (`MaxUnsure`). `crawler_pool` has a queue of one and two workers
for four ports, one of them IPv6: the queue fills, callbacks overflow, and
discovery may end with ports still queued. `persistence_replay` has two messages
of one service, one of another port of the host, one that cannot be unmarshalled
and one that cannot be enriched, in any order, and two deaths.

`fingerprint` has a server for every protocol of the registry, over TLS where a
plugin speaks it, those whose behaviour a plugin distinguishes (an Oracle of two
versions, MySQL that refuses the host, a long port mapper table, a Minecraft
status with a large icon), eight that break their protocol where a parser trusts
them, one that hangs and one that hangs up; the eight other ports are those on
which some plugin has priority, and one on which none has. A failure, or the
cutting of answers, begins at the first or the second exchange, which are the
ones after which the plugins decide. `pipeline` has one task and two deliveries
at either end: a redelivery at each stage and its exhaustion. A request makes up
to two attempts, for the four of the client, and one scan at a time may have
been written more often than its requests (`MaxRepeated`). Two tasks do not
interact but through MaxAckPending, which a single one already reaches.
`api_server` has a limit of two and a window of three ticks, so that the end of
one window and the start of the next fit into one window length, a client with a
key that does not exist, and a prefix that contains a default address. An INCR
is sent again once, for the three times of the client (`MaxRetries`), and one
for each client may be late (`MaxLate`): it makes the key, raises a count that
is seen later, or falls into the next window.

Deadlock is checked except in `coordinator_coverage`, where the clock stops at
`MaxTime`; in `fingerprint` and `fingerprint_oracle`, where a call returns or
the process is gone; and in `pipeline`, where a task that is settled or given up
leaves nothing to do.

## 4. Fairness

`EnrichmentWorker!FairSpec` asks that every replica's callback goes on, that
the server delivers a message that stays deliverable, and that AckWait, a timer
of the server, ends. Each is weak fairness of a loop in the code or a timer; no
fault is ever asked to happen, and a replica may die again and again.

`ClickHouseStreamer!FairSpec` asks that the ticker's goroutine runs, that it
and main get the mutex in their turn (strong fairness: the Go runtime serves
the senders blocked on a channel in order), and that inserts succeed again and
again. That last one is an assumption about ClickHouse; without it no batch is
ever inserted. Nothing is assumed of the callback.

`CrawlerPool!FairPoolSpec` asks that goroutines run, that discovery returns,
that a fingerprint which does not hang returns, and that the writer's attempts
end one way or the other (kafka-go bounds them). Nobody need hang or die, and
`CrawlEnds` says what is left when somebody does. `Persistence!FairSpec` asks
that a process takes its next step, which includes being started again; it may
die at any step, `MaxDeaths` times in a run.

`Fingerprint!Spec` has weak fairness of the whole call: the goroutine runs, and
dials and reads have deadlines; the one that has none is `waiting`, where the
model stops. `CrawlerPool` has the three ends of a call that this model finds:
it returns, waits or panics.

`Pipeline!FairSpec` asks of the agents and the indexer that their callbacks go
on, and of what is around them (`Around`) that something of it happens as long
as something can: a deliverable message is delivered, an AckWait ends, or the
workers enrich a raw scan they hold and of which nothing was enriched. Since what
a run can do is finite, that is no more than each of these happening in its turn.
`ApiServer!FairSpec` asks that each request's goroutine goes on and that time
passes; requests need not come, and crashes may come for ever.

## 5. What is proved

Assumptions are the named ASSUMEs of the modules: the ranges of the constants,
and for the window theorem that there is one caller (`OneCaller`), as in the
compose file, which runs one coordinator.

* `TypeCorrect`, `OneCallerKeepsWindow`, `OneCallerCounterCovers`
  (`ASNRateLimiter_proofs`). `WindowBound` is not inductive: it does not say why
  the next grant is allowed. `CounterCovers` does: of an ASN's grants all but
  the last `Count(a)` have left the window, the same holds of the count a caller
  has read and not yet written, and a key lives at least until the window of
  every grant it covers has passed. A grant then finds the Rate-th grant before
  it outside the window. The proof covers failing, half-applied and abandoned
  calls; the lost update of two callers breaks exactly the clause about the
  pending read.
* `CoordinatorRefinesLimiter`, `CoordinatorKeepsWindow` (`Coordinator_proofs`).
  Every step of the coordinator is a step of the limiter with the coordinator
  as its one caller, or leaves it alone; the window bound follows.
* `CoordinatorTypes`, `CoordinatorNeverOverdue` (`Coordinator_proofs`).
  `NotOverdue` speaks of a waiting coordinator only; `Punctual` says what holds
  during passes: the ticker's next instant lies ahead by a period at most, and
  unless a tick waits in the channel every port outside the pass has its next
  scan less than a period before it. Serving a tick, finishing a port late and
  losing ticks to a full channel all keep it, for any ports and intervals. The
  types of the clock come from the limiter's theorem over the refinement.
* `CoordinatorSpacesTasks` (`Coordinator_proofs`): no ASN has more than Rate + 1
  tasks published in any TTL, those included that the stream stores late or
  never. When the stream stores them has no bound: what waited in the client's
  reconnect buffer comes at once (finding 5). The limiter bounds grants, and a
  task may come late, after its grant has left the window. `TaskCredit` credits
  each task to the grant it was published under: no two tasks to one grant, a
  task after its grant and before the next one. Of Rate + 2 tasks in a window
  the first and the last are then credited to grants Rate + 1 apart, and the
  Rate grants after the first one's fall in the window with the next, which the
  limiter's theorem forbids. A task whose grant an administrator's reset removed
  from the history is credited to grant 0.
* `CoordinatorAnswersEverySubnet` (`Coordinator_proofs`). That every subnet is
  tasked in every interval does not hold (finding 3). What does hold, for any
  limit and whatever fails, is that a pass which is over has dealt with every
  unblocked subnet on every port: tasked it, or met a refusal or an error at it,
  in the last walk over the port. `WalksAnswer` adds the pass in progress: the
  ports that are not due any more, and of the port being walked the subnets
  before the index.
* `FingerprintTypes`, `FingerprintVerdict`, `FingerprintDialsAfresh`
  (`Fingerprint_proofs`), for any servers and whatever the plugins do. The
  invariant has what is known of the locals in each loop (`Place`) and what the
  call has behind it (`Behind`): the plugins of this loop that are not left
  missed, and all of the loops before; the slow lane tries plain TCP on a port
  that speaks TLS only after the handshake failed. A plugin that missed on a good
  network counts as missed once the network has failed (`MissesStay`), so that
  the clauses survive the first failure.
* `FingerprintAccurate`, `FingerprintNeverMisreads`, `FingerprintStopsOnlyWhere`
  (`Fingerprint_proofs`), under `Agrees(target)`, a condition on the plugins and
  one server. `Agrees` speaks of what plugins find of the server, and every
  outcome is such a finding (`OutcomeIsFinding`); with `Verdict` it bounds what
  the loops return under every order and failure. The condition is not proved
  but evaluated: every initial state of the run `fingerprint` satisfies it
  (`TableAgrees`), for all 72 servers, their ports and both modes. The panics that
  `StopsOnlyWhere` admits are those of the plugins' definitions, index by index.
* `FingerprintIsDetermined` (`Fingerprint_proofs`) uses the plugins themselves,
  namely their 48 priority numbers (`TCPNumbers`, `TLSNumbers`, `UDPNumbers`):
  within a layer only echo and minecraft, and mqtt3 and jdwp, have the same. So
  a call over a network that does not fail has one result, a function of the
  call, although `sort.Slice` is not stable, unless both plugins of such a pair
  recognise the server. No server of the table is of that kind.
* `FingerprintNeverStuck`, `FingerprintMovesOn` (`Fingerprint_proofs`): until the
  call has ended a loop has what its next action asks for (of the plugins left
  one has the lowest number, `SomeFirst`), and every step enters a later lane,
  gives up a plugin, or dials for the next one. Neither uses fairness; with
  it they are why the call ends, which the run checks.
* `WorkersPublishFirst`, `WorkersKeepPromise` (`EnrichmentWorker_proofs`). The
  enrichment workers implement `Stage`: initial states map to initial states,
  every step to a step or a stutter. The invariant needed is `PublishedFirst`
  (a callback that will acknowledge has published) with types and the fact that
  messages in buffers and callbacks have been stored.
* `WorkersCopyOncePerDelivery` (`EnrichmentWorker_proofs`). `CopiesCounted`: the
  copies of a scan and the slots that hold one of its deliveries, in a buffer or
  in the hand of a callback that has not published, are together at most its
  deliveries. Slots are a set of pairs of a worker and a place, so what takes
  from a buffer is a bijection, and no induction on sequences is needed.
* The lemmas of `EnrichmentWorker_proofs` about the queue (its type invariant
  under every server step, what an ack, a nak, a delivery and a lapse may do to
  a status, how many slots are held after each step) are of any work queue;
  `ClickHouseStreamer_proofs` and `Pipeline_proofs` take them by `INSTANCE`, with
  the callback's state replaced. That is why `None` is a constant of the workers.
* `StreamerKeepsAcked` (`ClickHouseStreamer_proofs`). `AckedIsKept` is
  strengthened by what holds between the callback's steps: at "ok" its event is
  in the batch, inserted, or dropped, although other goroutines flushed in
  between.
* `StreamerTypes`, `StreamerRowsWithinDeliveries` (`ClickHouseStreamer_proofs`).
  `RowsCounted`: there is a number d of used deliveries of an event that with
  those still held makes at most its tries, the batch has at most d occurrences,
  and rows and occurrences together are at most d times one more than the
  commits of unknown outcome. It needs that the goroutine that inserts is the
  one with the mutex (`LockOK`): between a failed commit and the batch it leaves
  untouched no other goroutine may take the same events.
* `PoolIsCrawl`, `PoolTypes` (`KafkaPath_proofs`). The pool implements
  `Crawl` for any number of ports, callbacks and workers. The invariant says
  that a reported port is in exactly one place: the queue, one callback, one
  worker, or done once; and that workers end only on a closed, empty queue.
* `PoolExitDelivers`, `PoolGoesOnToTheExit` (`KafkaPath_proofs`). `Events`: an
  event is in the writer's buffer, in the topic, refused, or was in the buffer of
  a process that died. The deferred `Close` waits for the buffer, and no port is
  fingerprinted after it, since by then the workers have gone. So a process that
  gets to its exit does so with every event written or refused; one that a panic
  or a signal ends loses what the writer had and nothing else; and without
  faults nothing is refused or lost. While no fingerprint hangs somebody can go
  on until the exit; a queue that is not empty is stuck only when every worker
  waits for a hung fingerprint, but a single one keeps the function from
  returning; nothing happens after the exit or the death.
* `OneProcessTypes`, `OneProcessKeepsEntries`, `OneProcessCatchesUp`
  (`KafkaPath_proofs`). Under `OneProcess`, the deployment of the compose file.
  The invariant adds `Upserting`: what `UpsertService` has found out, that no
  entry matches and that the host exists, is still true when it pushes. It is
  the clause a second process breaks. `CaughtUp` then needs that a step which
  enters a message leaves other services alone, and that uniqueness makes
  `services.$` the entry of the service.
* `PipelineTypes`, `PipelineAccounts`, `PipelineEndToEnd` (`Pipeline_proofs`), for
  any tasks, agents, indexers and limits (`PipelineAssumption`). The whole
  pipeline implements `Stage`, the specification each of its stages implements:
  a task is settled or given up, never lost in silence. The indexer is an
  enrichment worker under the mapping of its program counter (`AsWorker`), so
  that what is proved of the workers holds of it; the agent is not, since it
  acknowledges after a lost publish, and has the counting invariant again
  (`RawCounted`). `Lineage` ties the stages together: exactly the raw scans 1 to
  `raw[t]` of a task have a fate, exactly the enriched scans 1 to `copies[r]` of
  a raw scan are in their queue; so nothing exists of a task that was never
  stored. With it the fate of a task is a function of what may still reach the
  index (`TaskLive`, `RawLive`, `ScanLive`) and of the documents written, each
  step gives nothing life but what it hands on, and each becomes one step of
  `Stage` or a stutter. The run has one task. The proof, which has any number,
  showed that an agent that dies with the last deliveries of two tasks gives up
  both in one step: hence `GiveUp` of `Stage` takes a set of messages. A
  delivery pays for one request (`RequestPays`), and a request for at most
  `Attempts` writes of the document, however often the client repeats it: hence
  the two bounds of `Accounted`. The number of requests that wrote is the size of
  a set of pairs, for the same reason as the slots above.
* `ApiTypes`, `ApiKeepsTwoWindows`, `ApiKeepsOptOuts` (`ApiServer_proofs`), for
  any goroutines, clients and limits. That no window sees more than two limits
  follows from `WindowsApart`: some k admissions, at most the count, were
  counted by the counter in Redis; every earlier one is a TTL ago when that
  counter ends, since its EXPIRE came after them; and those before the last k +
  Limit are a TTL ago already. An EXPIRE that comes late, twice or never keeps
  it, so it needs nothing of who sends it; and so does an INCR that is carried
  out twice or late, which only raises the count. `OptOutKept` is strengthened
  by the opt-outs that handlers have entered and not yet answered; it needs that
  nothing takes an address off the list.

Only model-checked: the liveness properties `EnrichedUnlessHarmed`,
`AckedIsInserted`, `CrawlEnds`, `PersistedUnlessBlocked`, `SettlesOnNewest`,
`FingerprintReturns`, `IndexedUnlessHarmed` and `RefusalEnds`, and with them the
ENABLED of their fairness (both are out of the prover's reach); and `TableAgrees`,
an evaluation of what the plugins make of 72 given conversations, which is TLC's
work. In place of ENABLED, `FingerprintNeverStuck` and `PoolGoesOnToTheExit` say
which conditions of the guards hold.

## 6. Findings

Shown by a run:

1. The final flush of the streamer runs under the cancelled context and always
   fails (`cmd/clickhouse-streamer/main.go:177`, `:104`): `streamer_shutdown`.
2. `parseInfo` of the Oracle plugin takes two hexadecimal digits of a byte that
   has one when it is below 16 (`oracledb/oracle.go:209`); the refusal its own
   comment quotes ends the crawler: `fingerprint_oracle`.
3. A subnet the limiter refuses, or whose publish fails, is not retried before
   the port's next interval, 6 hours for a critical port, although the port is
   marked scanned (`cmd/coordinator/main.go:198`). With a limit below what a pass
   asks of an ASN, which is the default, subnets go without the scans the tiers
   promise: `coordinator_coverage`.

What the models show with other constants, or by a property's exception:

4. Two processes that call `CheckAndIncrement` lose updates and exceed the limit
   together (`asn_ratelimiter.go:33` and `:52`): `limiter_window` with `Caller =
   {c1, c2}` violates `CounterCovers` and `WindowBound`. `IncrementASNRate` in
   `internal/redis/client.go:50`, which is atomic, is not used. One coordinator
   is safe, and proved so. And SET renews the expiry with every grant
   (`asn_ratelimiter.go:52`), so calls that never pause for a minute are added
   up and refused below the rate.
5. The limit holds for publishing, not for what the agents receive: publishes
   that timed out while the client was cut off wait in its reconnect buffer, and
   those of many minutes are stored at once when it is connected again
   (`cmd/coordinator/main.go:188`, `internal/nats/client.go:17`): `StoreLate` has
   no bound on its time. Their subnets count as not tasked, and are.
6. `UpsertService` looks for an entry in one call and pushes in another
   (`hosts.go:124`, `:140`), so two processes of the consumer group can give a
   host two entries for a port: `persistence_replay` with `Process = {c1, c2}`
   violates `OneEntryPerService`. The crawler's comment "stable partition by IP"
   (`cmd/crawler/main.go:83`) would prevent it, but the producer balances by
   `LeastBytes`, which ignores the key. One process is safe, and proved so.
7. Behind a message that cannot be unmarshalled or enriched nothing of the
   partition is ever persisted: the condition of `PersistedUnlessBlocked`.
8. The agent acknowledges a task whose raw scans it could not publish
   (`cmd/scanner-agent/main.go:115`): the second case of `IndexedUnlessHarmed`.
   A scan that failed ten times, an outage or a document that is refused, stays
   in the work queue with nobody to deliver it to: the last case.
9. The OpenSearch client repeats an index request by itself
   (`internal/opensearch/client.go:17`, `cmd/opensearch-indexer/main.go:185`), so
   a delivery may write its document several times: `puts` of `Accounted`. The
   writes are of one document, and harmless as long as no other scan of the
   host comes between.
10. The limit of the API is a fixed window, although `middleware.go:105` calls
    it sliding; `TwoWindows` is what holds. A counter without an EXPIRE refuses a
    client for ever (`harmed`, the exception of `RefusalEnds`): when the EXPIRE
    is lost to an error, a crash or a client that left, or when the reply to the
    INCR that made the counter was lost: the Redis client sends it again, the
    count seen is 2, and nobody sends EXPIRE (`middleware.go:106`, `:112`).
11. Other panics that end a crawl (`StopsOnlyWhere`, `BreaksInPieces` and `Ill`
    of `MCFingerprint`). Of servers that keep to their protocol: a JDWP server
    that falls silent after the handshake (`jdwp.go:150`), and replies that TCP
    brings in segments, or that are longer than one read, cut where the parser
    goes on: a port mapper table (`linuxrpc.go:105`), MySQL (`mysql.go:221`
    tests `position` and uses `fillerPos`), Modbus (`modbus.go:92`), and the
    other names of `BreaksInPieces`. Of servers that do not: option lists
    without a terminator (`mssql.go:227`), lists longer than the buffer
    (`ssh.go:104`, `:124`, `:164`), names and options that point behind it. The
    handshake on the second ssh connection has no read deadline (`ssh.go:252`)
    and may hold a worker, and the crawl, for ever.
12. Servers reported as others, on the ports the tables name: https on port 80
    or 5000 as http, SMTP off its ports as ftp and ftp on port 25 as smtp, an
    echo server on 53 as dns and on 389 as ldap, ftp inside TLS as smtp, plain
    IMAP as imaps. Not found at all: a Minecraft server whose status does not
    fit one read, an RTSP server without a name, a STUN answer with padding. A
    second read that fails loses an smb or ssh server that the first had
    recognised (`smb.go:239`, `ssh.go:202`).

Read in the code, without a step that a model could take:

* An opt-out reaches the blocklist of the API process only: the coordinator
  makes its own (`cmd/coordinator/main.go:89`) and never reloads it, so
  "Scans will stop within 24 hours." (`optout.go:129`) is not kept; and the API
  itself forgets it when it restarts.
* `cmd/enrichment-worker` does not compile (section 2), and the consumer's
  comment on commits (section 2) is not what the reader does.
* The bounds that `checkAlgo` tests for the fourth, sixth and tenth list are
  those of other lists (`ssh.go:97`, `:101`, `:121`, `:157`, `:161`).
* Nothing calls `UDPScanTarget`: the UDP plugins are unused.

## 7. Not modelled, and open hazards

* ZMap, ZGrab2, naabu, GeoIP and rDNS look-ups, MongoDB, Redis, Kafka,
  OpenSearch and NATS themselves: they appear as what the code asks of them.
* `SplitInto24`, the tier table, the CVE index with its 16-bit lengths
  (`cmd/cve-compiler/main.go:116`), the pagination token, the parser of search
  queries: data, constants of the models so far. The third octet that wraps for
  a prefix shorter than /16 (`scheduler.go:31`) and the /24 that is tested for
  blocking by its network address only are open hazards in `PROJECT.json`.
* ENRICHED_SCANS is a work queue with two durable consumers on one subject. A
  JetStream server refuses the second, so the indexer and the streamer cannot
  both run as deployed; and a replica that shuts down deletes the durable
  consumer it created. Both concern the server's bookkeeping of consumers,
  which `WorkQueue` leaves out.
* The documents of one host overwrite each other, older over newer and port
  over port. The code orders no two writes and says that this is for now
  (`cmd/opensearch-indexer/main.go:143`), so there is no property of them to
  keep; `Accounted` and `EndToEnd` say what remains.
* Randomized scanning, `MergePorts` and `BannerID` are not called by any
  command. `zsend`, the OpenSearch administration commands, the dashboards, the
  tracing and the UI keep no state that a property could relate.

## 8. Plan

1. Operators over bounded inputs, each against a reference definition:
   `AddressSpace` (`SplitInto24`, blocked subnets), the port tiers, the CVE
   index and its 16-bit lengths, the pagination token.
2. The blocklist of the coordinator beside the one of the API, once something
   connects the two; the server's bookkeeping of consumers in `WorkQueue`.
3. Theorems about the operators of 1, once they are modelled.
