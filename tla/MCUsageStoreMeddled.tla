------------------------- MODULE MCUsageStoreMeddled -------------------------
(* One live invocation, one earlier pair, and a process that meddles twice.*)
EXTENDS UsageStoreMeddled

MCId == 1 .. 2
MCLive == {2}
MCEventBytes == [k \in {"start", "finish"} |-> IF k = "start" THEN 2 ELSE 1]

Past(k) ==
    [by |-> 1, kind |-> k, bytes |-> MCEventBytes[k], entry |-> 0, collected |-> 0]

MCHistory ==
    {[n \in Name |-> Absent],
     [n \in Name |-> IF n \in {Start(1), Finish(1)} THEN Past(n.kind) ELSE Absent]}

MCReadings == {0, 2}
MCMeddled == {Start(1), Finish(1), Start(2), Finish(2), Temp(2), [kind |-> "other", id |-> 1]}

=============================================================================
