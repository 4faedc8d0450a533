---------------------------- MODULE Persistence ----------------------------
(***************************************************************************)
(* The persistence service (pkg/persistence/worker.go) between the Kafka   *)
(* topic of the crawler and the hosts collection in MongoDB                *)
(* (internal/storage/mongodb/hosts.go).                                    *)
(*                                                                         *)
(* Each process of the consumer group reads a partition.  The reader       *)
(* fetches and nothing ever commits (internal/messaging/kafka/consumer.go) *)
(* so a process that starts reads its partition from the beginning.  Any   *)
(* error of a message ends the process, and the compose file restarts it.  *)
(***************************************************************************)
EXTENDS Naturals, Sequences

CONSTANTS
  Msg,        \* the services the crawler publishes
  HostOf,     \* [Msg -> Host]
  PortOf,     \* [Msg -> Port]
  Host, Port,
  Junk,       \* messages that cannot be unmarshalled
  Unfit,      \* messages whose address EnrichHost refuses, IPv6 for one
  Process,    \* the processes of the group, each with its partition
  MaxDeaths   \* bound of a run on processes that die or lose MongoDB

ASSUME PersistenceAssumption ==
  /\ HostOf \in [Msg -> Host] /\ PortOf \in [Msg -> Port]
  /\ Junk \subseteq Msg /\ Unfit \subseteq Msg
  /\ MaxDeaths \in Nat

VARIABLES
  log,      \* the partitions of the topic
  pos,      \* how far each process has fetched
  step,     \* the database call each process makes next
  hosts,    \* the host documents
  services, \* the services array of each
  deaths    \* how often a process has died

vars == <<log, pos, step, hosts, services, deaths>>

TypeOK ==
  /\ log \in [Process -> Seq(Msg)]
  /\ pos \in [Process -> Nat]
  /\ \A p \in Process : pos[p] <= Len(log[p])
  /\ step \in [Process -> {"down", "fetch", "ensure", "update", "replace", "push"}]
  /\ \A p \in Process :
       /\ step[p] = "down" => pos[p] = 0
       /\ step[p] \notin {"down", "fetch"} => pos[p] > 0
  /\ hosts \subseteq Host
  /\ services \in [Host -> Seq(Msg)]
  /\ deaths \in Nat

Init ==
  /\ log = [p \in Process |-> <<>>]
  /\ pos = [p \in Process |-> 0]
  /\ step = [p \in Process |-> "down"]
  /\ hosts = {}
  /\ services = [h \in Host |-> <<>>]
  /\ deaths = 0

InLog(p) == {log[p][i] : i \in 1..Len(log[p])}

\* The crawler's writer puts a message into any partition (LeastBytes).
Produce(p, m) ==
  /\ \A q \in Process : m \notin InLog(q)
  /\ log' = [log EXCEPT ![p] = Append(@, m)]
  /\ UNCHANGED <<pos, step, hosts, services, deaths>>

\* Mutant: a reader without a committed offset begins at the end.
StartAtEnd(p) ==
  /\ step[p] = "down"
  /\ step' = [step EXCEPT ![p] = "fetch"]
  /\ pos' = [pos EXCEPT ![p] = Len(log[p])]
  /\ UNCHANGED <<log, hosts, services, deaths>>

\* NewApp; no offset was committed, so the reader begins at the first message.
Start(p) ==
  /\ step[p] = "down"
  /\ step' = [step EXCEPT ![p] = "fetch"]
  /\ UNCHANGED <<log, pos, hosts, services, deaths>>

\* The message the process has.
Cur(p) == log[p][pos[p]]

\* The entries of the host that UpsertService's filter matches.
Matches(m) == {i \in 1..Len(services[HostOf[m]]) : PortOf[services[HostOf[m]][i]] = PortOf[m]}

\* Mutant: the position survives the process.
StopKeepsPosition(p) ==
  /\ step' = [step EXCEPT ![p] = "down"]
  /\ UNCHANGED pos

\* Run returns and the process ends.
Stop(p) ==
  /\ step' = [step EXCEPT ![p] = "down"]
  /\ pos' = [pos EXCEPT ![p] = 0]

Fetch(p) ==
  /\ step[p] = "fetch" /\ pos[p] < Len(log[p])
  /\ log[p][pos[p] + 1] \notin Junk
  /\ pos' = [pos EXCEPT ![p] = @ + 1]
  /\ step' = [step EXCEPT ![p] = "ensure"]
  /\ UNCHANGED <<log, hosts, services, deaths>>

FetchFails(p) ==
  /\ step[p] = "fetch" /\ pos[p] < Len(log[p])
  /\ log[p][pos[p] + 1] \in Junk
  /\ Stop(p)
  /\ UNCHANGED <<log, hosts, services, deaths>>

\* EnsureHost, an upsert by address.
EnsureHost(p) ==
  /\ step[p] = "ensure"
  /\ hosts' = hosts \cup {HostOf[Cur(p)]}
  /\ step' = [step EXCEPT ![p] = "update"]
  /\ UNCHANGED <<log, pos, services, deaths>>

\* EnrichHost returns an error; the host document is there all the same.
EnrichFails(p) ==
  /\ step[p] = "update" /\ Cur(p) \in Unfit
  /\ Stop(p)
  /\ UNCHANGED <<log, hosts, services, deaths>>

\* EnrichHost and UpdateHost.
UpdateHost(p) ==
  /\ step[p] = "update" /\ Cur(p) \notin Unfit
  /\ step' = [step EXCEPT ![p] = "replace"]
  /\ UNCHANGED <<log, pos, hosts, services, deaths>>

First(m) == CHOOSE i \in Matches(m) : \A j \in Matches(m) : i <= j

\* services.$ is the first match.
SetService(m) == services' = [services EXCEPT ![HostOf[m]] = [@ EXCEPT ![First(m)] = m]]

\* Mutant: UpsertService goes on to push what it has replaced.
ReplaceAndPush(p) ==
  /\ step[p] = "replace" /\ HostOf[Cur(p)] \in hosts /\ Matches(Cur(p)) # {}
  /\ SetService(Cur(p))
  /\ step' = [step EXCEPT ![p] = "push"]
  /\ UNCHANGED <<log, pos, hosts, deaths>>

\* Mutant: an entry that exists is left as it is.
ReplaceKeepsOld(p) ==
  /\ step[p] = "replace" /\ HostOf[Cur(p)] \in hosts /\ Matches(Cur(p)) # {}
  /\ step' = [step EXCEPT ![p] = "fetch"]
  /\ UNCHANGED <<log, pos, hosts, services, deaths>>

\* UpsertService: a matching entry is replaced.
Replace(p) ==
  /\ step[p] = "replace" /\ HostOf[Cur(p)] \in hosts /\ Matches(Cur(p)) # {}
  /\ SetService(Cur(p))
  /\ step' = [step EXCEPT ![p] = "fetch"]
  /\ UNCHANGED <<log, pos, hosts, deaths>>

\* Mutant: a service that is missing is not pushed.
MissReturns(p) ==
  /\ step[p] = "replace" /\ (HostOf[Cur(p)] \notin hosts \/ Matches(Cur(p)) = {})
  /\ step' = [step EXCEPT ![p] = "fetch"]
  /\ UNCHANGED <<log, pos, hosts, services, deaths>>

\* Nothing matched.
Miss(p) ==
  /\ step[p] = "replace" /\ (HostOf[Cur(p)] \notin hosts \/ Matches(Cur(p)) = {})
  /\ step' = [step EXCEPT ![p] = "push"]
  /\ UNCHANGED <<log, pos, hosts, services, deaths>>

\* UpsertService: the service is pushed, whatever the array holds by now.
Push(p) ==
  /\ step[p] = "push"
  /\ IF HostOf[Cur(p)] \in hosts
     THEN services' = [services EXCEPT ![HostOf[Cur(p)]] = Append(@, Cur(p))]
     ELSE UNCHANGED services
  /\ step' = [step EXCEPT ![p] = "fetch"]
  /\ UNCHANGED <<log, pos, hosts, deaths>>

\* The process is killed or told to end, or MongoDB fails a call; what a failed
\* call did is a step taken before.
Die(p) ==
  /\ deaths < MaxDeaths
  /\ deaths' = deaths + 1
  /\ Stop(p)
  /\ UNCHANGED <<log, hosts, services>>

Run(p) ==
  \/ Start(p) \/ Fetch(p) \/ FetchFails(p)
  \/ EnsureHost(p) \/ EnrichFails(p) \/ UpdateHost(p)
  \/ Replace(p) \/ Miss(p) \/ Push(p)

Next ==
  \E p \in Process :
    Run(p) \/ Die(p) \/ \E m \in Msg : Produce(p, m)

Spec == Init /\ [][Next]_vars

\* A process that can go on does, and one that ended is started again.
FairSpec == Spec /\ \A p \in Process : WF_vars(Run(p))
-----------------------------------------------------------------------------
\* The deployment of the compose file: one process in the group.
OneProcess == \A p, q \in Process : p = q

(* hosts.go:109, "Replace existing service or push if missing": a host has *)
(* one entry for a port, although looking for it and pushing it are two    *)
(* calls, a process may die after either, and everything is read again.    *)
OneEntryPerService ==
  \A h \in Host : \A i, j \in 1..Len(services[h]) :
    PortOf[services[h][i]] = PortOf[services[h][j]] => i = j

SameService(m, n) == HostOf[m] = HostOf[n] /\ PortOf[m] = PortOf[n]
Shown(m) == \E i \in 1..Len(services[HostOf[m]]) : services[HostOf[m]][i] = m
Handled(p) == IF step[p] \in {"down", "fetch"} THEN pos[p] ELSE pos[p] - 1

\* The i-th message is the last of its service among the first n.
LastOfService(p, i, n) == \A k \in (i + 1)..n : ~SameService(log[p][i], log[p][k])

(* What a process has handled since it started is in the database: each    *)
(* service shows its last message among these, whatever later messages an  *)
(* earlier life of the process had written over it.                        *)
CaughtUp ==
  \A p \in Process : \A i \in 1..Handled(p) :
    LastOfService(p, i, Handled(p)) => Shown(log[p][i])

Readable(p, n) == \A k \in 1..n : log[p][k] \notin Junk \cup Unfit

(* A message that no unreadable message precedes gets an entry for its     *)
(* service, if processes do not die again and again.  Behind one that      *)
(* cannot be read nothing is ever reached.                                 *)
PersistedUnlessBlocked ==
  \A p \in Process, m \in Msg :
    (\E i \in 1..Len(log[p]) : log[p][i] = m /\ Readable(p, i))
      ~> \E i \in 1..Len(services[HostOf[m]]) : SameService(services[HostOf[m]][i], m)

(* In the end every service shows its newest message, however often the    *)
(* log was read again.                                                     *)
SettlesOnNewest ==
  \A p \in Process :
    <>[](Readable(p, Len(log[p])) =>
           \A i \in 1..Len(log[p]) : LastOfService(p, i, Len(log[p])) => Shown(log[p][i]))
=============================================================================
