------------------------------ MODULE Retention ------------------------------
(***************************************************************************)
(* What one usage partition holds, and what a publication may remove from  *)
(* it: the pure part of src/src/usage/store/records.rs.                    *)
(*                                                                         *)
(* A partition is a function from every possible name to the file found    *)
(* there, or Absent.  The empty .lock file is not in the function; it is   *)
(* the one extra file in every count.  The module has no variables, so the *)
(* planning loop (RetentionLoop), the transactions (UsageStore) and the    *)
(* proofs share the same definitions.                                      *)
(***************************************************************************)
EXTENDS Integers, FiniteSets, FiniteSetsExt

CONSTANTS
    Id,          \* invocation identities; 32 hex digits, here naturals
    EventBytes,  \* the length of a complete event of each kind
    EventLimit,  \* EVENT_LIMIT, 256 KiB in the code
    FileLimit,   \* PARTITION_FILE_LIMIT, 10 000 in the code
    ByteLimit,   \* PARTITION_BYTE_LIMIT, 100 MiB in the code
    Lifetime,    \* RETENTION_SECONDS, seven days in the code
    MaxTime,     \* bound on the wall clock
    Absent,      \* no file under this name
    NoTime,      \* a wall time that could not be observed
    Foreign      \* the author of bytes the store did not write

Kinds == {"start", "finish"}
Time == 0 .. MaxTime

ASSUME IdAssumption == Id \subseteq Nat /\ IsFiniteSet(Id)
ASSUME LimitAssumption ==
    /\ EventBytes \in [Kinds -> 1 .. EventLimit]
    /\ EventLimit \in Nat /\ FileLimit \in Nat /\ ByteLimit \in Nat
    /\ Lifetime \in Nat /\ MaxTime \in Nat
ASSUME SentinelAssumption ==
    /\ NoTime \notin Time
    /\ Foreign \notin Id

-----------------------------------------------------------------------------
(* Names and files                                                         *)

FinalName == [kind : Kinds, id : Id]
TempName == [kind : {"tmp"}, id : Id]
OtherName == [kind : {"other"}, id : Id]
Name == FinalName \cup TempName \cup OtherName

Start(i) == [kind |-> "start", id |-> i]
Finish(i) == [kind |-> "finish", id |-> i]
Temp_IsFinalName(i) == [kind |-> "start", id |-> i]
Temp(i) == [kind |-> "tmp", id |-> i]

(* The fields of a file are what stat and the envelope reader tell apart:  *)
(* who wrote it and as which kind of event, how much of it is there, and   *)
(* the entry and collection times it carries.                              *)
File == [by : Id \cup {Foreign}, kind : Kinds, bytes : 0 .. EventLimit,
         entry : Time \cup {NoTime}, collected : Time \cup {NoTime}]

ASSUME AbsentAssumption == Absent \notin File

Partition == [Name -> File \cup {Absent}]

Present(fs) == {n \in Name : fs[n] # Absent}
Groups(fs) == {n.id : n \in Present(fs) \cap FinalName}
Members(fs, G) == {n \in Present(fs) \cap FinalName : n.id \in G}
Temporaries(fs) == Present(fs) \cap TempName

(* classify: the envelope is complete and names the id and kind of its file. *)
Supported(fs, n) ==
    /\ fs[n] # Absent
    /\ fs[n].by = n.id
    /\ fs[n].kind = n.kind
    /\ fs[n].bytes = EventBytes[n.kind]

-----------------------------------------------------------------------------
(* Time coverage, expiry and the order of eviction                         *)

KnownCoverage(fs, i) ==
    /\ Supported(fs, Start(i)) /\ Supported(fs, Finish(i))
    /\ LET s == fs[Start(i)]
           f == fs[Finish(i)]
       IN  /\ NoTime \notin {s.entry, s.collected, f.entry, f.collected}
           /\ s.entry = f.entry
           /\ s.entry <= s.collected
           /\ s.collected <= f.collected

LastTime(fs, i) == fs[Finish(i)].collected

(* Group::eviction_key: known coverage first, oldest first, then by id.    *)
EvictedBefore_ById(fs, i, j) == i < j

EvictedBefore(fs, i, j) ==
    \/ KnownCoverage(fs, i) /\ ~KnownCoverage(fs, j)
    \/ /\ KnownCoverage(fs, i) /\ KnownCoverage(fs, j)
       /\ \/ LastTime(fs, i) < LastTime(fs, j)
          \/ LastTime(fs, i) = LastTime(fs, j) /\ i < j
    \/ ~KnownCoverage(fs, i) /\ ~KnownCoverage(fs, j) /\ i < j

Expired(fs, now, i) ==
    /\ now # NoTime
    /\ KnownCoverage(fs, i)
    /\ now - LastTime(fs, i) >= Lifetime

-----------------------------------------------------------------------------
(* Requests, room and the plan                                             *)

Request == [op : {"start", "finish", "expired", "all"}, id : Id, bytes : Nat]

PendingBytes(r) == IF r.op \in Kinds THEN r.bytes ELSE 0
PendingFiles(r) == IF r.op \in Kinds THEN 1 ELSE 0

BytesOf(fs, S) == MapThenSumSet(LAMBDA n : fs[n].bytes, S)
FilesOf(S) == 1 + Cardinality(S)

Fits_WithoutPending(fs, kept, r) ==
    BytesOf(fs, kept) <= ByteLimit /\ FilesOf(kept) <= FileLimit

Fits(fs, kept, r) ==
    /\ BytesOf(fs, kept) + PendingBytes(r) <= ByteLimit
    /\ FilesOf(kept) + PendingFiles(r) <= FileLimit

(* A finish never considers its own group for removal.                     *)
Candidates_OwnToo(fs, r) == Groups(fs)
Candidates(fs, r) == Groups(fs) \ (IF r.op = "finish" THEN {r.id} ELSE {})

MustGo(fs, now, r) ==
    IF r.op = "all" THEN Groups(fs)
                    ELSE {i \in Candidates(fs, r) : Expired(fs, now, i)}

(* The sets of groups an eviction in key order can have removed so far.    *)
Prefixes(fs, now, r) ==
    {D \in SUBSET Candidates(fs, r) :
        /\ MustGo(fs, now, r) \subseteq D
        /\ \A i \in D, j \in Candidates(fs, r) : EvictedBefore(fs, j, i) => j \in D}

KeptAfter(fs, D) ==
    ((Present(fs) \cap FinalName) \ Members(fs, D)) \cup (Present(fs) \cap OtherName)

Sufficient(fs, now, r) ==
    {D \in Prefixes(fs, now, r) : Fits(fs, KeptAfter(fs, D), r)}

Overfull(fs) ==
    BytesOf(fs, Present(fs)) > ByteLimit \/ FilesOf(Present(fs)) > FileLimit

(* What the scan and the classification refuse before any plan is made.    *)
ScanRefusal(fs) ==
    IF Overfull(fs) THEN "ScanLimit"
    ELSE IF Present(fs) \cap OtherName # {} THEN "UnknownName"
    ELSE "none"

(* The first refusal of the plan itself, in the order the code tests them. *)
PlanRefusal(fs, now, r) ==
    IF r.op \in Kinds /\ r.bytes \notin 1 .. EventLimit THEN "InvalidReservation"
    ELSE IF r.op = "start" /\ r.id \in Groups(fs) THEN "Collision"
    ELSE IF r.op = "finish" /\ r.id \notin Groups(fs) THEN "MissingStart"
    ELSE IF r.op = "finish" /\ fs[Finish(r.id)] # Absent THEN "Collision"
    ELSE IF Overfull(fs) THEN "ScanLimit"
    ELSE IF Sufficient(fs, now, r) = {} THEN "Capacity"
    ELSE "none"

(* The groups a granted request removes: the shortest prefix that makes    *)
(* enough room.  Prefixes are nested, so the shortest is the intersection. *)
Evicted(fs, now, r) ==
    {i \in Candidates(fs, r) : \A D \in Sufficient(fs, now, r) : i \in D}

Removals(fs, now, r) ==
    Temporaries(fs) \cup Members(fs, Evicted(fs, now, r))

=============================================================================
