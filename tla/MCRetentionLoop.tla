--------------------------- MODULE MCRetentionLoop ---------------------------
(* Three groups in every combination of the record shapes below.           *)
EXTENDS RetentionLoop

MCId == {1, 2, 3}
MCEventBytes == [k \in {"start", "finish"} |-> IF k = "start" THEN 1 ELSE 2]

Event(i, k, e, c) ==
    [by |-> i, kind |-> k, bytes |-> MCEventBytes[k], entry |-> e, collected |-> c]
Malformed(k) ==
    [by |-> Foreign, kind |-> k, bytes |-> 1, entry |-> NoTime, collected |-> NoTime]

(* no group, incomplete, orphan, paired at three ages, a clock rollback    *)
(* between start and finish, disagreeing entries, an unobserved time, and a*)
(* malformed finish                                                        *)
Shape(i) ==
    {<<Absent, Absent>>,
     <<Event(i, "start", 0, 0), Absent>>,
     <<Absent, Event(i, "finish", 0, 1)>>,
     <<Event(i, "start", 0, 0), Event(i, "finish", 0, 0)>>,
     <<Event(i, "start", 0, 0), Event(i, "finish", 0, 1)>>,
     <<Event(i, "start", 0, 1), Event(i, "finish", 0, 2)>>,
     <<Event(i, "start", 0, 1), Event(i, "finish", 0, 0)>>,
     <<Event(i, "start", 0, 1), Event(i, "finish", 1, 1)>>,
     <<Event(i, "start", NoTime, 0), Event(i, "finish", NoTime, 1)>>,
     <<Event(i, "start", 0, 0), Malformed("finish")>>}

Staging == {Absent, Event(1, "start", 0, 0)}

MCPartitions ==
    {[n \in Name |->
        IF n.kind = "start" THEN s[n.id][1]
        ELSE IF n.kind = "finish" THEN s[n.id][2]
        ELSE IF n.kind = "tmp" /\ n.id = 1 THEN t
        ELSE Absent] :
      s \in {f \in [MCId -> UNION {Shape(i) : i \in MCId}] :
                \A i \in MCId : f[i] \in Shape(i)},
      t \in Staging}

MCClocks == {NoTime, 2, 3}

MCRequests ==
    {[op |-> "start", id |-> 3, bytes |-> 1],
     [op |-> "start", id |-> 3, bytes |-> 0],
     [op |-> "finish", id |-> 1, bytes |-> 2],
     [op |-> "finish", id |-> 2, bytes |-> 2],
     [op |-> "expired", id |-> 1, bytes |-> 0],
     [op |-> "all", id |-> 1, bytes |-> 0]}

=============================================================================
