------------------------------- MODULE Stage -------------------------------
(***************************************************************************)
(* What one stage of the pipeline promises the next: at-least-once.  A     *)
(* message that enters the stage is settled, that is forgotten, only after *)
(* its result was handed on at least once; until then the stage holds it,  *)
(* or has given it up and left it in its stream unsettled.  Results may be *)
(* handed on again, before and after.  A payload that cannot be read gives *)
(* no result, so it is never settled.                                      *)
(***************************************************************************)
EXTENDS Naturals

CONSTANTS Msg, Junk

VARIABLES fate, results

stageVars == <<fate, results>>

Init ==
  /\ fate = [m \in Msg |-> "absent"]
  /\ results = [m \in Msg |-> 0]

Accept(m) ==
  /\ fate[m] = "absent"
  /\ fate' = [fate EXCEPT ![m] = "held"]
  /\ UNCHANGED results

HandOn(m) ==
  /\ fate[m] # "absent" /\ m \notin Junk
  /\ results' = [results EXCEPT ![m] = @ + 1]
  /\ UNCHANGED fate

Settle(m) ==
  /\ fate[m] = "held" /\ results[m] > 0
  /\ fate' = [fate EXCEPT ![m] = "settled"]
  /\ UNCHANGED results

\* A process that ends may take several messages with it.
GiveUp(lost) ==
  /\ \A m \in lost : fate[m] = "held"
  /\ fate' = [m \in Msg |-> IF m \in lost THEN "given up" ELSE fate[m]]
  /\ UNCHANGED results

Next ==
  \/ \E lost \in SUBSET Msg : GiveUp(lost)
  \/ \E m \in Msg : Accept(m) \/ HandOn(m) \/ Settle(m)

Spec == Init /\ [][Next]_stageVars
=============================================================================
