------------------------------ MODULE UsageLog ------------------------------
(***************************************************************************)
(* What a usage partition promises its readers, with no lock, no staging   *)
(* and no transactions: an invocation's start becomes visible at most once *)
(* and in one step; its finish becomes visible at most once, in one step,  *)
(* and only while its start is visible.  Retention may take any record     *)
(* away at any time, one file at a time, and nothing brings it back.       *)
(***************************************************************************)
EXTENDS Naturals

CONSTANTS Id, Live

VARIABLES
    starts,    \* ids whose start event is visible
    finishes,  \* ids whose finish event is visible
    stage      \* "idle", "begun" or "over", for each live invocation

logVars == <<starts, finishes, stage>>

LogInit ==
    /\ starts \in SUBSET (Id \ Live)
    /\ finishes \in SUBSET (Id \ Live)
    /\ stage = [i \in Live |-> "idle"]

Begin(i) ==
    /\ stage[i] = "idle"
    /\ stage' = [stage EXCEPT ![i] = "begun"]
    /\ starts' = starts \cup {i}
    /\ UNCHANGED finishes

End(i) ==
    /\ stage[i] = "begun" /\ i \in starts
    /\ stage' = [stage EXCEPT ![i] = "over"]
    /\ finishes' = finishes \cup {i}
    /\ UNCHANGED starts

(* An invocation may end without a trace, or with only a start.            *)
GiveUp(i) ==
    /\ stage[i] # "over"
    /\ stage' = [stage EXCEPT ![i] = "over"]
    /\ UNCHANGED <<starts, finishes>>

Forget(i) ==
    /\ \/ i \in starts /\ starts' = starts \ {i} /\ UNCHANGED finishes
       \/ i \in finishes /\ finishes' = finishes \ {i} /\ UNCHANGED starts
    /\ UNCHANGED stage

LogNext ==
    \/ \E i \in Live : Begin(i) \/ End(i) \/ GiveUp(i)
    \/ \E i \in Id : Forget(i)

LogSpec == LogInit /\ [][LogNext]_logVars
=============================================================================
