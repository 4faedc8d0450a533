------------------------------- MODULE Crawl -------------------------------
(***************************************************************************)
(* What a crawl promises, however many goroutines carry it out: each open  *)
(* port that is found is fingerprinted once, an event comes from nothing   *)
(* else, and the crawl is over only when no port is left to fingerprint.   *)
(***************************************************************************)
EXTENDS Naturals

CONSTANT Target

VARIABLES
  found,   \* the open ports found
  prints,  \* how often each was fingerprinted
  events,  \* those whose service was identified and reported
  over

crawlVars == <<found, prints, events, over>>

Init ==
  /\ found = {}
  /\ prints = [t \in Target |-> 0]
  /\ events = {}
  /\ over = FALSE

Find(t) ==
  /\ ~over /\ t \notin found
  /\ found' = found \cup {t}
  /\ UNCHANGED <<prints, events, over>>

Fingerprint(t) ==
  /\ t \in found /\ prints[t] = 0
  /\ prints' = [prints EXCEPT ![t] = 1]
  /\ events' \in {events, events \cup {t}}
  /\ UNCHANGED <<found, over>>

Finish ==
  /\ \A t \in found : prints[t] = 1
  /\ over' = TRUE
  /\ UNCHANGED <<found, prints, events>>

Next == Finish \/ \E t \in Target : Find(t) \/ Fingerprint(t)

Spec == Init /\ [][Next]_crawlVars
=============================================================================
