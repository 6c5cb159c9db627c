---------------------------- MODULE MCUsageStore ----------------------------
(* Two live invocations in a partition earlier ones have used.             *)
EXTENDS UsageStore

MCId == 1 .. 4
MCLive == {3, 4}
MCEventBytes == [k \in {"start", "finish"} |-> IF k = "start" THEN 2 ELSE 1]

Past(i, k, c) ==
    [by |-> i, kind |-> k, bytes |-> MCEventBytes[k], entry |-> 0, collected |-> c]
PastStaging(i) ==
    [by |-> i, kind |-> "start", bytes |-> 1, entry |-> 0, collected |-> 0]

(* A pair of age c, and of invocation 2 one of: nothing, a pair, an        *)
(* incomplete start, or an abandoned staging file.                         *)
Filled(S, last) ==
    [n \in Name |->
        IF n \notin S THEN Absent
        ELSE IF n.kind = "tmp" THEN PastStaging(n.id)
        ELSE Past(n.id, n.kind, IF n.kind = "start" THEN 0 ELSE last[n.id])]

MCHistory ==
    {Filled({}, <<0, 0>>),
     Filled({Start(1), Finish(1), Temp(2)}, <<0, 0>>),
     Filled({Start(1), Finish(1), Start(2), Finish(2)}, <<1, 0>>),
     Filled({Start(1), Start(2), Finish(2)}, <<0, 1>>)}

MCTightHistory ==
    {Filled({}, <<0, 0>>),
     Filled({Start(1), Finish(1)}, <<0, 0>>),
     Filled({Start(1), Temp(2)}, <<0, 0>>)}

MCReadings == {0, 2}

=============================================================================
