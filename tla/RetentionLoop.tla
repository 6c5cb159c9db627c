---------------------------- MODULE RetentionLoop ----------------------------
(***************************************************************************)
(* RecordSet::plan of src/src/usage/store/records.rs step by step: admit   *)
(* the request, drop the temporaries, one pass over the sorted groups that *)
(* removes the expired ones, a second pass that removes groups until the   *)
(* reservation fits.  It computes on running totals; the properties below  *)
(* say that what it computes is the plan Retention defines.                *)
(***************************************************************************)
EXTENDS Retention, Sequences

CONSTANTS
    Partitions,  \* the partitions to plan for
    Clocks,      \* the current times to plan at
    Requests     \* the requests to plan

ASSUME InputAssumption ==
    /\ Partitions \subseteq Partition
    /\ Clocks \subseteq Time \cup {NoTime}
    /\ Requests \subseteq Request

VARIABLES
    fs, now, req,    \* the inputs, never changed
    stage,           \* where the function stands
    unseen,          \* groups the first pass has still to look at
    remaining,       \* groups the first pass left for the second
    remove,          \* Planned.remove: names in removal order
    keptBytes,       \* Planned.retained_bytes
    keptFiles,       \* Planned.retained_files
    result           \* "pending", "granted" or the error

inputs == <<fs, now, req>>
vars == <<fs, now, req, stage, unseen, remaining, remove, keptBytes, keptFiles, result>>

Init ==
    /\ fs \in Partitions /\ now \in Clocks /\ req \in Requests
    /\ ScanRefusal(fs) # "UnknownName"
    /\ stage = "admit"
    /\ unseen = {} /\ remaining = {} /\ remove = <<>>
    /\ keptBytes = BytesOf(fs, Present(fs)) /\ keptFiles = FilesOf(Present(fs))
    /\ result = "pending"

(* fits() on the running totals                                            *)
RoomNow ==
    /\ keptBytes + PendingBytes(req) <= ByteLimit
    /\ keptFiles + PendingFiles(req) <= FileLimit

(* The start of a group comes before its finish.                           *)
Listed(n) == IF fs[n] = Absent THEN <<>> ELSE <<n>>

GroupFiles_FinishFirst(i) == Listed(Finish(i)) \o Listed(Start(i))
GroupFiles(i) == Listed(Start(i)) \o Listed(Finish(i))

NextGroup(S) == CHOOSE i \in S : \A j \in S \ {i} : EvictedBefore(fs, i, j)

RemoveGroup_CountsOneFile(i) ==
    /\ remove' = remove \o GroupFiles(i)
    /\ keptBytes' = keptBytes - BytesOf(fs, Members(fs, {i}))
    /\ keptFiles' = keptFiles - 1

RemoveGroup(i) ==
    /\ remove' = remove \o GroupFiles(i)
    /\ keptBytes' = keptBytes - BytesOf(fs, Members(fs, {i}))
    /\ keptFiles' = keptFiles - Cardinality(Members(fs, {i}))

Admission ==
    IF req.op \in Kinds /\ req.bytes \notin 1 .. EventLimit THEN "InvalidReservation"
    ELSE IF req.op = "start" /\ req.id \in Groups(fs) THEN "Collision"
    ELSE IF req.op = "finish" /\ req.id \notin Groups(fs) THEN "MissingStart"
    ELSE IF req.op = "finish" /\ fs[Finish(req.id)] # Absent THEN "Collision"
    ELSE IF keptBytes > ByteLimit \/ keptFiles > FileLimit THEN "ScanLimit"
    ELSE "pending"

Admit ==
    /\ stage = "admit"
    /\ result' = Admission
    /\ stage' = IF Admission = "pending" THEN "temporaries" ELSE "done"
    /\ UNCHANGED <<inputs, unseen, remaining, remove, keptBytes, keptFiles>>

(* Temporaries are removed in name order, which the models leave open.     *)
DropTemporaries ==
    /\ stage = "temporaries"
    /\ \E order \in [1 .. Cardinality(Temporaries(fs)) -> Temporaries(fs)] :
          /\ {order[k] : k \in DOMAIN order} = Temporaries(fs)
          /\ remove' = order
    /\ keptBytes' = keptBytes - BytesOf(fs, Temporaries(fs))
    /\ keptFiles' = keptFiles - Cardinality(Temporaries(fs))
    /\ unseen' = Groups(fs)
    /\ stage' = "age"
    /\ UNCHANGED <<inputs, remaining, result>>

(* A finish skips its own group in the first pass, so neither pass sees it.*)
IsOwn_Never(i) == FALSE
IsOwn(i) == req.op = "finish" /\ i = req.id

AgeStep ==
    /\ stage = "age" /\ unseen # {}
    /\ LET i == NextGroup(unseen)
       IN  /\ unseen' = unseen \ {i}
           /\ \/ /\ IsOwn(i)
                 /\ UNCHANGED <<remaining, remove, keptBytes, keptFiles>>
              \/ /\ ~IsOwn(i) /\ (req.op = "all" \/ Expired(fs, now, i))
                 /\ RemoveGroup(i)
                 /\ UNCHANGED remaining
              \/ /\ ~IsOwn(i) /\ req.op # "all" /\ ~Expired(fs, now, i)
                 /\ remaining' = remaining \cup {i}
                 /\ UNCHANGED <<remove, keptBytes, keptFiles>>
    /\ UNCHANGED <<inputs, stage, result>>

AgeDone ==
    /\ stage = "age" /\ unseen = {}
    /\ stage' = "quota"
    /\ UNCHANGED <<inputs, unseen, remaining, remove, keptBytes, keptFiles, result>>

QuotaStep_NeverStops ==
    /\ stage = "quota" /\ remaining # {}
    /\ RemoveGroup(NextGroup(remaining))
    /\ remaining' = remaining \ {NextGroup(remaining)}
    /\ UNCHANGED <<inputs, stage, unseen, result>>

QuotaStep ==
    /\ stage = "quota" /\ remaining # {} /\ ~RoomNow
    /\ RemoveGroup(NextGroup(remaining))
    /\ remaining' = remaining \ {NextGroup(remaining)}
    /\ UNCHANGED <<inputs, stage, unseen, result>>

Conclude ==
    /\ stage = "quota" /\ (remaining = {} \/ RoomNow)
    /\ result' = IF RoomNow THEN "granted" ELSE "Capacity"
    /\ stage' = "done"
    /\ UNCHANGED <<inputs, unseen, remaining, remove, keptBytes, keptFiles>>

Next == Admit \/ DropTemporaries \/ AgeStep \/ AgeDone \/ QuotaStep \/ Conclude

Spec == Init /\ [][Next]_vars

-----------------------------------------------------------------------------
(* Properties                                                              *)

(* A group leaves the partition whole: whenever the plan removes one of its*)
(* files it removes the other too, its start directly before its finish.   *)
WholeGroupsInOrder ==
    \A k \in DOMAIN remove :
        /\ remove[k].kind = "finish" /\ fs[Start(remove[k].id)] # Absent
              => k > 1 /\ remove[k - 1] = Start(remove[k].id)
        /\ remove[k].kind = "start" /\ fs[Finish(remove[k].id)] # Absent
              => k < Len(remove) /\ remove[k + 1] = Finish(remove[k].id)

(* The running totals always describe what would be left, so subtracting   *)
(* them never underflows and the peak of a granted plan is within quota.   *)
TotalsDescribeTheRest ==
    LET left == Present(fs) \ {remove[k] : k \in DOMAIN remove}
    IN  /\ keptBytes = BytesOf(fs, left)
        /\ keptFiles = FilesOf(left)
        /\ result = "granted" => Fits(fs, left, req)

(* The two passes with their running totals compute exactly the shortest   *)
(* prefix of the eviction order, expired groups first, that makes room for *)
(* the reservation, in whole groups and with totals that describe what is  *)
(* left at every step, and refuse exactly when no prefix does.             *)
LoopComputesThePlan ==
    /\ WholeGroupsInOrder
    /\ TotalsDescribeTheRest
    /\ stage = "done" =>
          /\ (result = "granted") = (PlanRefusal(fs, now, req) = "none")
          /\ result # "granted" => result = PlanRefusal(fs, now, req)
          /\ result = "granted" =>
                {remove[k] : k \in DOMAIN remove} = Removals(fs, now, req)

=============================================================================
