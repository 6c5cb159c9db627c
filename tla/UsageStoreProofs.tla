-------------------------- MODULE UsageStoreProofs --------------------------
(***************************************************************************)
(* The types and the safety of UsageStore, proved for every set of         *)
(* invocations, every history and every limit by one inductive invariant,  *)
(* IInv, and on top of it what depends on the room in the partition.       *)
(*                                                                         *)
(* A step of one invocation leaves the local state of every other alone    *)
(* and changes the partition only under the lock (OthersKeep, FilesFrame), *)
(* so an invocation inside a transaction sees a partition that only it     *)
(* changes.  What remains is one lemma for each action about the           *)
(* invocation that takes it.                                               *)
(***************************************************************************)
EXTENDS UsageStore, RetentionProofs

(* The names of an invocation are names, and staging is never a final.     *)
LEMMA Names ==
    ASSUME NEW p \in Id
    PROVE  /\ Start(p) \in FinalName /\ Finish(p) \in FinalName
           /\ Temp(p) \in Name /\ Temp(p) \notin FinalName
           /\ FinalName \subseteq Name
BY DEF Start, Finish, Temp, FinalName, TempName, OtherName, Name, Kinds

LEMMA TargetIsFinal ==
    ASSUME TypeOK, NEW p \in Live
    PROVE  /\ p \in Id
           /\ Target(p) \in FinalName
           /\ Target(p) \in Name
           /\ Target(p) # Temp(p)
BY LiveAssumption DEF TypeOK, Target, Temp, FinalName, TempName, OtherName, Name, Kinds

(* What an invocation writes is a file of the partition.                   *)
LEMMA EventIsFile ==
    ASSUME TypeOK, NEW p \in Live, NEW n \in 0 .. EventBytes[phase[p]]
    PROVE  Event(p, n) \in File /\ Event(p, n) # Absent
BY LiveAssumption, LimitAssumption, AbsentAssumption DEF TypeOK, Event, File, Kinds, Time

LEMMA ScanErrorIsError ==
    ASSUME NEW p \in Live
    PROVE  ScanError(p) \in Errors
BY DEF ScanError, ScanRefusal, ReceiptRefusal, PlanRefusal, Errors

LEMMA RemovalsAreNames ==
    ASSUME NEW fs, NEW r, NEW t
    PROVE  Removals(fs, t, r) \subseteq Name
BY DEF Removals, Temporaries, Members, Present

-----------------------------------------------------------------------------

(* TypeOK is not inductive alone: a step that updates an entry of its      *)
(* ledger needs to know that there is one, and a failure reaches the       *)
(* cleanup only once there is something to clean up.                       *)
Ledgered == {"unlink", "unlinking", "creating", "writing", "renaming", "renamed", "cleanup",
             "cleaning"}

LedgerKept ==
    \A p \in Live :
        /\ pc[p] \in Ledgered => ledger[p] \in Partition
        /\ pc[p] \in {"scan", "unlink", "unlinking", "creating"} =>
              outcome[p].staging = "NotCreated"

TypeInv == TypeOK /\ LedgerKept

LEMMA NoOutcomeType == NoOutcome \in Outcome
BY DEF NoOutcome, Outcome, Errors

(* The outcome record under the updates the steps make.                    *)
LEMMA OutcomeUpdates ==
    ASSUME NEW o \in Outcome
    PROVE  /\ \A e \in Errors : [o EXCEPT !.error = e] \in Outcome
           /\ \A t \in BOOLEAN : [o EXCEPT !.removed = @ + 1, !.partial = t] \in Outcome
           /\ [o EXCEPT !.staging = "MayRemain"] \in Outcome
           /\ \A e \in Errors : [o EXCEPT !.staging = "MayRemain", !.error = e] \in Outcome
           /\ [o EXCEPT !.staging = "Removed"] \in Outcome
           /\ [o EXCEPT !.publication = "Published", !.staging = "Published"] \in Outcome
           /\ [NoOutcome EXCEPT !.staging = o.staging] \in Outcome
           /\ o.staging \in {"NotCreated", "Removed", "Published", "MayRemain"}
<1>1. \A e \in Errors : [o EXCEPT !.error = e] \in Outcome
  BY DEF Outcome
<1>2. \A t \in BOOLEAN : [o EXCEPT !.removed = @ + 1, !.partial = t] \in Outcome
  <2>1. \A k \in Nat, t \in BOOLEAN : [o EXCEPT !.removed = k, !.partial = t] \in Outcome
    BY Zenon DEF Outcome
  <2>2. o.removed \in Nat
    BY DEF Outcome
  <2>3. o.removed + 1 \in Nat
    BY <2>2
  <2> QED BY <2>1, <2>3
<1>3. [o EXCEPT !.staging = "MayRemain"] \in Outcome
  BY DEF Outcome
<1>4. \A e \in Errors : [o EXCEPT !.staging = "MayRemain", !.error = e] \in Outcome
  BY DEF Outcome
<1>5. [o EXCEPT !.staging = "Removed"] \in Outcome
  BY DEF Outcome
<1>6. [o EXCEPT !.publication = "Published", !.staging = "Published"] \in Outcome
  BY DEF Outcome
<1>7. o.staging \in {"NotCreated", "Removed", "Published", "MayRemain"}
  BY DEF Outcome
<1>8. [NoOutcome EXCEPT !.staging = o.staging] \in Outcome
  BY <1>7 DEF NoOutcome, Outcome, Errors
<1> QED BY <1>1, <1>2, <1>3, <1>4, <1>5, <1>6, <1>7, <1>8

LEMMA OutcomeAt ==
    ASSUME TypeOK, NEW p \in Live, NEW o \in Outcome, outcome' = [outcome EXCEPT ![p] = o]
    PROVE  /\ outcome' \in [Live -> Outcome]
           /\ \A q \in Live \ {p} : outcome'[q] = outcome[q]
BY DEF TypeOK

LEMMA FailType ==
    ASSUME TypeInv, NEW p \in Live, NEW e \in Errors, pc[p] \in Holding, Fail(p, e),
           pc[p] \in Ledgered => ledger'[p] \in Partition,
           \A q \in Live \ {p} : ledger'[q] = ledger[q],
           pc[p] \in Ledgered \cup {"scan"}
    PROVE  /\ outcome' \in [Live -> Outcome]
           /\ pc' \in [Live -> Places]
           /\ LedgerKept'
<1>1. outcome' \in [Live -> Outcome]
  BY OutcomeUpdates DEF TypeInv, TypeOK, Fail
<1>2. /\ pc' \in [Live -> Places]
      /\ pc'[p] \in {"cleanup", "settle"}
      /\ \A q \in Live \ {p} : pc'[q] = pc[q] /\ outcome'[q] = outcome[q]
  BY DEF TypeInv, TypeOK, Fail, Places, Holding
<1>3. pc'[p] = "cleanup" => pc[p] \in Ledgered
  BY DEF TypeInv, TypeOK, LedgerKept, Fail, Ledgered
<1>4. LedgerKept'
  BY <1>2, <1>3 DEF TypeInv, LedgerKept, Ledgered
<1> QED BY <1>1, <1>2, <1>4

LEMMA FileUpdate ==
    ASSUME TypeOK, NEW n \in Name, NEW f \in File \cup {Absent}
    PROVE  [files EXCEPT ![n] = f] \in Partition
BY DEF TypeOK, Partition

LEMMA LedgerUpdate ==
    ASSUME TypeOK, NEW p \in Live, ledger[p] \in Partition,
           NEW n \in Name, NEW f \in File \cup {Absent},
           ledger' = [ledger EXCEPT ![p][n] = f]
    PROVE  /\ ledger' \in [Live -> Partition \cup {Absent}]
           /\ ledger'[p] \in Partition
           /\ \A q \in Live \ {p} : ledger'[q] = ledger[q]
<1>1. [ledger[p] EXCEPT ![n] = f] \in Partition
  BY DEF Partition
<1> QED BY <1>1 DEF TypeOK

LEMMA DropType ==
    ASSUME TypeOK, NEW p \in Live, DropTransaction(p)
    PROVE  /\ physical' \in [Live -> Partition \cup {Absent}]
           /\ ledger' \in [Live -> Partition \cup {Absent}]
           /\ todo' \in [Live -> SUBSET Name]
           /\ outcome' \in [Live -> Outcome]
           /\ DOMAIN occupancy' = Live
BY OutcomeUpdates DEF TypeOK, DropTransaction

LEMMA EndType ==
    ASSUME TypeOK, NEW p \in Live, EndCollection(p)
    PROVE  /\ entry' \in [Live -> Time \cup {NoTime}]
           /\ now' \in [Live -> Time \cup {NoTime}]
           /\ receipt' \in [Live -> File \cup {Absent}]
BY DEF TypeOK, EndCollection

LEMMA TypeInit == Init => TypeInv
BY HistoryAssumption
   DEF Init, TypeInv, TypeOK, LedgerKept, Ledgered, LeftBehind, Places, Kinds, Holding,
       NoOutcome, Outcome, Errors

LEMMA TypeLifecycle ==
    ASSUME TypeInv, NEW p \in Live,
           Activate(p) \/ TryLock(p) \/ RunCommand(p) \/ Release(p) \/ Crash(p)
    PROVE  TypeInv'
<1> USE DEF TypeInv, LedgerKept, Ledgered
<1>1. CASE Activate(p)
  BY <1>1, ReadingsAssumption DEF TypeOK, Activate, unchangedInside, Places, Stopped
<1>2. CASE TryLock(p)
  <2>1. TypeOK'
    BY <1>2, NoOutcomeType, EndType DEF TypeOK, TryLock, Places, Holding, Stopped
  <2>2. LedgerKept'
    BY <1>2 DEF TypeOK, TryLock, NoOutcome
  <2> QED BY <2>1, <2>2
<1>3. CASE RunCommand(p)
  BY <1>3, EndType, ReadingsAssumption DEF TypeOK, RunCommand, Places, Stopped, Kinds
<1>4. CASE Release(p)
  <2>1. TypeOK'
    BY <1>4, DropType, EndType DEF TypeOK, Release, Places, Stopped
  <2> QED BY <1>4, <2>1 DEF TypeOK, Release, DropTransaction
<1>5. CASE Crash(p)
  <2>1. TypeOK'
    BY <1>5, DropType, EndType DEF TypeOK, Crash, Places, Stopped
  <2> QED BY <1>5, <2>1 DEF TypeOK, Crash, DropTransaction
<1> QED BY <1>1, <1>2, <1>3, <1>4, <1>5

LEMMA TypeScanAndPlan ==
    ASSUME TypeInv, NEW p \in Live, ScanAndPlan(p)
    PROVE  TypeInv'
<1> USE DEF outside, unchangedInside
<1>1. CASE \E e \in Errors : Fail(p, e) /\ unchangedInside
  BY <1>1, FailType DEF TypeInv, TypeOK, ScanAndPlan, Holding, Ledgered, LedgerKept
<1>2. CASE /\ physical' = [physical EXCEPT ![p] = files]
           /\ ledger' = [ledger EXCEPT ![p] = files]
           /\ todo' = [todo EXCEPT ![p] = Removals(files, now[p], Reservation(p))]
           /\ pc' = [pc EXCEPT ![p] = "unlink"]
           /\ UNCHANGED <<files, receipt, outcome>>
  <2>1. TypeOK'
    BY <1>2, RemovalsAreNames DEF TypeInv, TypeOK, ScanAndPlan, Places, Holding
  <2>2. LedgerKept'
    BY <1>2 DEF TypeInv, TypeOK, ScanAndPlan, LedgerKept, Ledgered
  <2> QED BY <2>1, <2>2 DEF TypeInv
<1> QED BY <1>1, <1>2, ScanErrorIsError DEF ScanAndPlan, Errors

LEMMA TypeCheck ==
    ASSUME TypeInv, NEW p \in Live, CheckUnlink(p) \/ CheckCreate(p)
    PROVE  TypeInv'
<1> USE DEF outside, unchangedInside
<1>1. CASE \E e \in Errors : Fail(p, e)
  BY <1>1, FailType DEF TypeInv, TypeOK, CheckUnlink, CheckCreate, Holding, Ledgered, LedgerKept
<1>2. CASE pc' \in {[pc EXCEPT ![p] = "unlinking"], [pc EXCEPT ![p] = "creating"]} /\ UNCHANGED outcome
  BY <1>2 DEF TypeInv, TypeOK, CheckUnlink, CheckCreate, Places, Holding, Ledgered, LedgerKept
<1> QED BY <1>1, <1>2 DEF CheckUnlink, CheckCreate, Errors

LEMMA TypeUnlink ==
    ASSUME TypeInv, NEW p \in Live, Unlink(p)
    PROVE  TypeInv'
<1> USE DEF outside, unchangedInside
<1>1. CASE Fail(p, "Io") /\ unchangedInside
  BY <1>1, FailType DEF TypeInv, TypeOK, Unlink, Holding, Ledgered, LedgerKept, Errors
<1>2. ASSUME NEW n \in todo[p],
             files' = [files EXCEPT ![n] = Absent],
             ledger' = LedgerAfterUnlink(p, n),
             todo' = [todo EXCEPT ![p] = @ \ {n}],
             outcome' = [outcome EXCEPT ![p].removed = @ + 1, ![p].partial = TearsPair(p, n)],
             pc' = [pc EXCEPT ![p] = "unlink"],
             UNCHANGED <<receipt, physical>>
      PROVE  TypeInv'
  <2>1. n \in Name /\ ledger[p] \in Partition /\ pc[p] = "unlinking"
    BY <1>2 DEF TypeInv, TypeOK, LedgerKept, Ledgered, Unlink
  <2>2. files' \in Partition
    BY <1>2, <2>1, FileUpdate DEF TypeInv
  <2>3. /\ ledger' \in [Live -> Partition \cup {Absent}]
        /\ ledger'[p] \in Partition
        /\ \A q \in Live \ {p} : ledger'[q] = ledger[q]
    BY <1>2, <2>1, LedgerUpdate DEF TypeInv, LedgerAfterUnlink
  <2>4. /\ outcome' \in [Live -> Outcome]
        /\ \A q \in Live : outcome'[q].staging = outcome[q].staging
    <3> DEFINE o == [outcome[p] EXCEPT !.removed = @ + 1, !.partial = TearsPair(p, n)]
    <3>1. outcome[p] \in Outcome /\ TearsPair(p, n) \in BOOLEAN
      BY DEF TypeInv, TypeOK, TearsPair
    <3>2. o \in Outcome
      BY <3>1, OutcomeUpdates
    <3>3. o.staging = outcome[p].staging
      BY <3>1 DEF Outcome
    <3>4. outcome' = [outcome EXCEPT ![p] = o]
      BY <1>2
    <3> QED BY <3>2, <3>3, <3>4 DEF TypeInv, TypeOK
  <2>5. TypeOK'
    BY <1>2, <2>2, <2>3, <2>4 DEF TypeInv, TypeOK, Unlink, Places, Holding
  <2>6. LedgerKept'
    BY <1>2, <2>1, <2>3, <2>4 DEF TypeInv, TypeOK, LedgerKept, Ledgered
  <2> QED BY <2>5, <2>6 DEF TypeInv
<1> QED BY <1>1, <1>2 DEF Unlink

LEMMA TypeCreate ==
    ASSUME TypeInv, NEW p \in Live, Create(p)
    PROVE  TypeInv'
<1> USE DEF outside, unchangedInside
<1>1. CASE Fail(p, "Io") /\ unchangedInside
  BY <1>1, FailType DEF TypeInv, TypeOK, Create, Holding, Ledgered, LedgerKept, Errors
<1>2. CASE /\ files' = [files EXCEPT ![Temp(p)] = Event(p, 0)]
           /\ UNCHANGED <<receipt, physical, todo>>
           /\ \/ /\ ledger' = [ledger EXCEPT ![p][Temp(p)] = Event(p, 0)]
                 /\ outcome' = [outcome EXCEPT ![p].staging = "MayRemain"]
                 /\ pc' = [pc EXCEPT ![p] = "writing"]
              \/ /\ outcome' = [outcome EXCEPT ![p].staging = "MayRemain", ![p].error = "Io"]
                 /\ pc' = [pc EXCEPT ![p] = "cleanup"]
                 /\ UNCHANGED ledger
  <2>1. /\ pc[p] = "creating" /\ ledger[p] \in Partition
        /\ Temp(p) \in Name /\ Event(p, 0) \in File
    BY LiveAssumption, LimitAssumption, Names, EventIsFile
    DEF TypeInv, TypeOK, LedgerKept, Ledgered, Create, Kinds
  <2>2. files' \in Partition
    BY <1>2, <2>1, FileUpdate DEF TypeInv
  <2>3. /\ ledger' \in [Live -> Partition \cup {Absent}]
        /\ ledger'[p] \in Partition
        /\ \A q \in Live \ {p} : ledger'[q] = ledger[q]
    BY <1>2, <2>1, LedgerUpdate DEF TypeInv, TypeOK
  <2>4. /\ outcome' \in [Live -> Outcome]
        /\ \A q \in Live \ {p} : outcome'[q] = outcome[q]
    <3>1. outcome[p] \in Outcome /\ "Io" \in Errors
      BY DEF TypeInv, TypeOK, Errors
    <3>2. /\ [outcome[p] EXCEPT !.staging = "MayRemain"] \in Outcome
          /\ [outcome[p] EXCEPT !.staging = "MayRemain", !.error = "Io"] \in Outcome
      BY <3>1, OutcomeUpdates
    <3>3. \/ outcome' = [outcome EXCEPT ![p] = [outcome[p] EXCEPT !.staging = "MayRemain"]]
          \/ outcome' = [outcome EXCEPT ![p] =
                            [outcome[p] EXCEPT !.staging = "MayRemain", !.error = "Io"]]
      BY <1>2
    <3> QED BY <3>2, <3>3, OutcomeAt DEF TypeInv
  <2>5. TypeOK'
    BY <1>2, <2>2, <2>3, <2>4 DEF TypeInv, TypeOK, Create, Places, Holding
  <2>6. LedgerKept'
    BY <1>2, <2>1, <2>3, <2>4 DEF TypeInv, TypeOK, LedgerKept, Ledgered
  <2> QED BY <2>5, <2>6 DEF TypeInv
<1> QED BY <1>1, <1>2 DEF Create

LEMMA TypeWrite ==
    ASSUME TypeInv, NEW p \in Live, Write(p)
    PROVE  TypeInv'
<1> USE DEF outside, unchangedInside
<1>1. CASE \E e \in Errors : Fail(p, e) /\ unchangedInside
  BY <1>1, FailType
  DEF TypeInv, TypeOK, Write, Holding, Ledgered, LedgerKept, Errors
<1>2. UNCHANGED outside BY DEF Write
<1>3. ASSUME NEW n \in AcceptedBytes(p), files' = [files EXCEPT ![Temp(p)] = Event(p, n)],
             Staged(p), UNCHANGED <<pc, outcome, receipt, physical, todo, ledger>>
      PROVE  TypeInv'
  <2>1. n \in 0 .. EventBytes[phase[p]]
    BY <1>3, LimitAssumption DEF TypeInv, TypeOK, AcceptedBytes, Staged, Event, Kinds
  <2>2. files' \in Partition
    BY <1>3, <2>1, EventIsFile, Names, FileUpdate, LiveAssumption DEF TypeInv
  <2> QED BY <1>2, <1>3, <2>2 DEF TypeInv, TypeOK, LedgerKept
<1> QED BY <1>1, <1>3 DEF Write, Errors

LEMMA TypeCheckStaged ==
    ASSUME TypeInv, NEW p \in Live, CheckStaged(p)
    PROVE  TypeInv'
<1> USE DEF outside, unchangedInside
<1>1. /\ pc[p] = "writing" /\ ledger[p] \in Partition
      /\ Temp(p) \in Name /\ files[Temp(p)] \in File \cup {Absent}
  BY LiveAssumption, Names
  DEF TypeInv, TypeOK, LedgerKept, Ledgered, CheckStaged, Partition
<1>2. /\ ledger' \in [Live -> Partition \cup {Absent}]
      /\ ledger'[p] \in Partition
      /\ \A q \in Live \ {p} : ledger'[q] = ledger[q]
  BY <1>1, LedgerUpdate DEF TypeInv, CheckStaged
<1>3. CASE \E e \in Errors : Fail(p, e)
  BY <1>1, <1>2, <1>3, FailType DEF TypeInv, TypeOK, CheckStaged, Holding, Ledgered
<1>4. CASE pc' = [pc EXCEPT ![p] = "renaming"] /\ UNCHANGED outcome
  BY <1>1, <1>2, <1>4
  DEF TypeInv, TypeOK, LedgerKept, CheckStaged, Places, Holding, Ledgered
<1> QED BY <1>3, <1>4 DEF CheckStaged, Errors

LEMMA TypeRename ==
    ASSUME TypeInv, NEW p \in Live, Rename(p)
    PROVE  TypeInv'
<1> USE DEF outside, unchangedInside
<1>1. CASE \E e \in Errors : Fail(p, e) /\ unchangedInside
  BY <1>1, FailType DEF TypeInv, TypeOK, Rename, Holding, Ledgered, LedgerKept
<1>2. CASE /\ files' = [files EXCEPT ![Target(p)] = files[Temp(p)], ![Temp(p)] = Absent]
           /\ outcome' = [outcome EXCEPT ![p].publication = "Published",
                                         ![p].staging = "Published"]
           /\ pc' = [pc EXCEPT ![p] = "renamed"]
           /\ UNCHANGED <<receipt, physical, todo, ledger>>
  <2>1. files' \in Partition
    BY <1>2, LiveAssumption, Names, TargetIsFinal DEF TypeInv, TypeOK, Partition
  <2>2. /\ outcome' \in [Live -> Outcome]
        /\ \A q \in Live \ {p} : outcome'[q] = outcome[q]
    BY <1>2, OutcomeUpdates DEF TypeInv, TypeOK
  <2> QED BY <1>2, <2>1, <2>2
      DEF TypeInv, TypeOK, LedgerKept, Rename, Places, Holding, Ledgered
<1> QED BY <1>1, <1>2 DEF Rename, Errors

LEMMA TypeCheckPublished ==
    ASSUME TypeInv, NEW p \in Live, CheckPublished(p)
    PROVE  TypeInv'
<1> USE DEF outside
<1>1. pc[p] = "renamed" /\ ledger[p] \in Partition /\ p \in Id
  BY LiveAssumption DEF TypeInv, TypeOK, LedgerKept, Ledgered, CheckPublished
<1>2. Renamed(p) \in Partition
  BY <1>1, Names, TargetIsFinal DEF TypeInv, Renamed, Partition
<1>3. /\ ledger' \in [Live -> Partition \cup {Absent}]
      /\ ledger'[p] \in Partition
      /\ \A q \in Live \ {p} : ledger'[q] = ledger[q]
  BY <1>1, <1>2 DEF TypeInv, TypeOK, CheckPublished
<1>4. CASE (\E e \in Errors : Fail(p, e)) /\ UNCHANGED receipt
  BY <1>1, <1>3, <1>4, FailType DEF TypeInv, TypeOK, CheckPublished, Holding, Ledgered
<1>5. CASE /\ receipt' = [receipt EXCEPT ![p] = ReceiptFor(p)]
           /\ pc' = [pc EXCEPT ![p] = "settle"] /\ UNCHANGED outcome
  <2>1. ReceiptFor(p) \in File \cup {Absent}
    BY <1>1, Names DEF TypeInv, TypeOK, ReceiptFor, Partition
  <2> QED BY <1>1, <1>3, <1>5, <2>1
      DEF TypeInv, TypeOK, LedgerKept, CheckPublished, Places, Holding, Ledgered
<1> QED BY <1>4, <1>5 DEF CheckPublished, Errors

LEMMA TypeCheckCleanUp ==
    ASSUME TypeInv, NEW p \in Live, CheckCleanUp(p)
    PROVE  TypeInv'
BY DEF CheckCleanUp, outside, unchangedInside, TypeInv, TypeOK, LedgerKept, Ledgered, Places,
       Holding

LEMMA TypeCleanUp ==
    ASSUME TypeInv, NEW p \in Live, CleanUp(p)
    PROVE  TypeInv'
<1> USE DEF outside
<1>1. pc[p] = "cleaning" /\ ledger[p] \in Partition /\ Temp(p) \in Name
  BY LiveAssumption, Names DEF TypeInv, TypeOK, LedgerKept, Ledgered, CleanUp
<1>2. files' \in Partition
  <2>1. [files EXCEPT ![Temp(p)] = Absent] \in Partition
    BY <1>1, FileUpdate DEF TypeInv
  <2> QED BY <2>1 DEF TypeInv, TypeOK, CleanUp
<1>3. /\ ledger' \in [Live -> Partition \cup {Absent}]
      /\ \A q \in Live \ {p} : ledger'[q] = ledger[q]
  <2>1. CASE ledger' = [ledger EXCEPT ![p][Temp(p)] = Absent]
    BY <1>1, <2>1, LedgerUpdate DEF TypeInv
  <2>2. CASE UNCHANGED ledger
    BY <2>2 DEF TypeInv, TypeOK
  <2> QED BY <2>1, <2>2 DEF CleanUp
<1>4. /\ outcome' \in [Live -> Outcome]
      /\ \A q \in Live \ {p} : outcome'[q] = outcome[q]
  <2>1. outcome[p] \in Outcome
    BY DEF TypeInv, TypeOK
  <2>2. [outcome[p] EXCEPT !.staging = "Removed"] \in Outcome
    BY <2>1, OutcomeUpdates
  <2>3. \/ outcome' = [outcome EXCEPT ![p] = [outcome[p] EXCEPT !.staging = "Removed"]]
        \/ outcome' = outcome
    BY DEF CleanUp
  <2> QED BY <2>2, <2>3, OutcomeAt DEF TypeInv, TypeOK
<1>5. /\ pc' = [pc EXCEPT ![p] = "settle"]
      /\ UNCHANGED <<receipt, physical, todo>> /\ UNCHANGED outside
  BY DEF CleanUp
<1>6. TypeOK'
  BY <1>1, <1>2, <1>3, <1>4, <1>5 DEF TypeInv, TypeOK, Places, Holding
<1>7. LedgerKept'
  BY <1>3, <1>4, <1>5 DEF TypeInv, TypeOK, LedgerKept, Ledgered
<1> QED BY <1>6, <1>7 DEF TypeInv

LEMMA TypeSettle ==
    ASSUME TypeInv, NEW p \in Live, Settle(p)
    PROVE  TypeInv'
<1>1. /\ outcome' \in [Live -> Outcome]
      /\ \A q \in Live \ {p} : outcome'[q] = outcome[q]
  <2>1. outcome[p] \in Outcome /\ outcome[p].error \in Errors
    BY DEF TypeInv, TypeOK, Outcome
  <2>2. CASE outcome' = outcome
    BY <2>2 DEF TypeInv, TypeOK
  <2>3. ASSUME NEW e \in {"IdentityChanged", "Io"},
               outcome' = [outcome EXCEPT ![p].error = IF @ = "none" THEN e ELSE @]
        PROVE  /\ outcome' \in [Live -> Outcome]
               /\ \A q \in Live \ {p} : outcome'[q] = outcome[q]
    <3> DEFINE f == IF outcome[p].error = "none" THEN e ELSE outcome[p].error
    <3>1. f \in Errors
      BY <2>1 DEF Errors
    <3>2. [outcome[p] EXCEPT !.error = f] \in Outcome
      BY <2>1, <3>1, OutcomeUpdates
    <3>3. outcome' = [outcome EXCEPT ![p] = [outcome[p] EXCEPT !.error = f]]
      BY <2>3
    <3> QED BY <3>2, <3>3, OutcomeAt DEF TypeInv
  <2> QED BY <2>2, <2>3 DEF Settle
<1>2. DOMAIN occupancy' = Live /\ receipt' \in [Live -> File \cup {Absent}]
  BY DEF TypeInv, TypeOK, Settle
<1> QED BY <1>1, <1>2 DEF TypeInv, TypeOK, LedgerKept, Settle, Places, Holding, Ledgered

LEMMA TypeStep == TypeInv /\ [Next]_vars => TypeInv'
<1> SUFFICES ASSUME TypeInv, [Next]_vars PROVE TypeInv'
  OBVIOUS
<1>1. CASE UNCHANGED vars
  BY <1>1 DEF TypeInv, TypeOK, LedgerKept, vars
<1>2. ASSUME NEW p \in Live, Activate(p) \/ Proceed(p) \/ Crash(p)
      PROVE  TypeInv'
  BY <1>2, TypeLifecycle, TypeScanAndPlan, TypeCheck, TypeUnlink, TypeCreate, TypeWrite,
     TypeCheckStaged, TypeRename, TypeCheckPublished, TypeCheckCleanUp, TypeCleanUp, TypeSettle
  DEF Proceed, Transact
<1> QED BY <1>1, <1>2 DEF Next

(* Every variable keeps its type in every reachable state, for any set of  *)
(* live invocations, history, clock readings and limits.                   *)
THEOREM TypeCorrect == Spec => []TypeOK
<1>1. Spec => []TypeInv
  BY TypeInit, TypeStep, PTL DEF Spec
<1> QED BY <1>1, PTL DEF TypeInv

-----------------------------------------------------------------------------
(* Safety                                                                  *)

Full(p) == Event(p, EventBytes[phase[p]])

(* Who has a receipt, what it says, and what may have become of its start. *)
Evidence(p) ==
    /\ receipt[p] # Absent =>
          /\ receipt[p].by = p /\ receipt[p].kind = "start"
          /\ receipt[p].bytes = EventBytes["start"]
          /\ receipt[p].entry = entry[p]
          /\ files[Start(p)] \in {Absent, receipt[p]}
          /\ phase[p] = "start" =>
                pc[p] \in {"settle", "release", "command"} /\ files[Temp(p)] = Absent
    /\ phase[p] = "finish" /\ pc[p] \notin Stopped => receipt[p] # Absent
    /\ pc[p] = "command" => receipt[p] # Absent /\ phase[p] = "start"
    /\ pc[p] = "new" => receipt[p] = Absent /\ phase[p] = "start"

(* From its scan to its rename a finish has its own start in the partition *)
(* and does not plan to remove it.                                         *)
OwnStartKept(p) ==
    phase[p] = "finish" /\ pc[p] \in {"unlink", "unlinking", "creating", "writing", "renaming"}
      => files[Start(p)] = receipt[p] /\ Start(p) \notin todo[p]

(* Where a staging file can be, and what is renamed.                       *)
StagingFile(p) ==
    /\ pc[p] = "renaming" => files[Temp(p)] = Full(p)
    /\ pc[p] = "renamed" => files[Target(p)] = Full(p) /\ files[Temp(p)] = Absent
    /\ files[Temp(p)] # Absent =>
          /\ outcome[p].staging = "MayRemain"
          /\ pc[p] \in {"writing", "renaming", "cleanup", "cleaning", "settle", "release"}
                       \cup Stopped

(* Abandoned staging files are planned for, then gone.                     *)
Swept(p) ==
    /\ pc[p] \in {"unlink", "unlinking"} => Temporaries(files) \subseteq todo[p]
    /\ pc[p] = "creating" => Temporaries(files) = {}
    /\ pc[p] \in {"writing", "renaming"} => Temporaries(files) \subseteq {Temp(p)}

Reported(p) ==
    occupancy[p] # Absent => pc[p] = "release" /\ occupancy[p] = Counted(files)

Local(p) ==
    /\ Evidence(p) /\ OwnStartKept(p) /\ StagingFile(p) /\ Swept(p) /\ Reported(p)

IInv ==
    /\ TypeInv /\ LockDiscipline /\ FinalsAreWhole
    /\ \A p \in Live : Local(p)

-----------------------------------------------------------------------------
(* Frames: what a step of p leaves alone                                   *)

StepOf(p) == Activate(p) \/ Proceed(p) \/ Crash(p)

Same(q) ==
    /\ pc'[q] = pc[q] /\ phase'[q] = phase[q] /\ entry'[q] = entry[q] /\ now'[q] = now[q]
    /\ receipt'[q] = receipt[q] /\ todo'[q] = todo[q] /\ outcome'[q] = outcome[q]
    /\ occupancy'[q] = occupancy[q]

LEMMA OthersKeep ==
    ASSUME TypeOK, NEW p \in Live, StepOf(p), NEW q \in Live, q # p
    PROVE  Same(q)
<1> USE DEF TypeOK, Same, outside, unchangedInside, DropTransaction, EndCollection, Fail
<1>1. CASE Activate(p) BY <1>1 DEF Activate
<1>2. CASE TryLock(p) BY <1>2 DEF TryLock
<1>3. CASE RunCommand(p) BY <1>3 DEF RunCommand
<1>4. CASE Release(p) BY <1>4 DEF Release
<1>5. CASE Crash(p) BY <1>5 DEF Crash
<1>6. CASE ScanAndPlan(p) BY <1>6 DEF ScanAndPlan
<1>7. CASE CheckUnlink(p) BY <1>7 DEF CheckUnlink
<1>8. CASE Unlink(p) BY <1>8 DEF Unlink
<1>9. CASE CheckCreate(p) BY <1>9 DEF CheckCreate
<1>10. CASE Create(p) BY <1>10 DEF Create
<1>11. CASE Write(p) BY <1>11 DEF Write
<1>12. CASE CheckStaged(p) BY <1>12 DEF CheckStaged
<1>13. CASE Rename(p) BY <1>13 DEF Rename
<1>14. CASE CheckPublished(p) BY <1>14 DEF CheckPublished
<1>15. CASE CleanUp(p) BY <1>15 DEF CleanUp
<1>16. CASE Settle(p) BY <1>16 DEF Settle
<1>17. CASE CheckCleanUp(p) BY <1>17 DEF CheckCleanUp
<1> QED BY <1>1, <1>2, <1>3, <1>4, <1>5, <1>6, <1>7, <1>8, <1>9, <1>10, <1>11, <1>12,
           <1>13, <1>14, <1>15, <1>16, <1>17
        DEF StepOf, Proceed, Transact

(* A step changes the partition only inside a transaction, and then only   *)
(* by removing a name or by changing a name of its own invocation.         *)
Touches(p) ==
    /\ pc[p] \in {"unlinking", "creating", "writing", "renaming", "cleaning"}
    /\ \A n \in Name : files'[n] = files[n] \/ files'[n] = Absent \/ n \in {Temp(p), Target(p)}

LEMMA FilesFrame ==
    ASSUME TypeInv, NEW p \in Live, StepOf(p)
    PROVE  files' = files \/ Touches(p)
<1> USE DEF TypeInv, TypeOK, Partition, outside, unchangedInside, Touches
<1>1. CASE Activate(p) BY <1>1 DEF Activate
<1>2. CASE TryLock(p) BY <1>2 DEF TryLock
<1>3. CASE RunCommand(p) BY <1>3 DEF RunCommand
<1>4. CASE Release(p) BY <1>4 DEF Release
<1>5. CASE Crash(p) BY <1>5 DEF Crash
<1>6. CASE ScanAndPlan(p) BY <1>6 DEF ScanAndPlan
<1>7. CASE CheckUnlink(p) BY <1>7 DEF CheckUnlink
<1>8. CASE Unlink(p) BY <1>8 DEF Unlink
<1>9. CASE CheckCreate(p) BY <1>9 DEF CheckCreate
<1>10. CASE Create(p) BY <1>10 DEF Create
<1>11. CASE Write(p) BY <1>11 DEF Write
<1>12. CASE CheckStaged(p) BY <1>12 DEF CheckStaged
<1>13. CASE Rename(p) BY <1>13 DEF Rename
<1>14. CASE CheckPublished(p) BY <1>14 DEF CheckPublished
<1>15. CASE CleanUp(p) BY <1>15 DEF CleanUp
<1>16. CASE Settle(p) BY <1>16 DEF Settle
<1>17. CASE CheckCleanUp(p) BY <1>17 DEF CheckCleanUp
<1> QED BY <1>1, <1>2, <1>3, <1>4, <1>5, <1>6, <1>7, <1>8, <1>9, <1>10, <1>11, <1>12,
           <1>13, <1>14, <1>15, <1>16, <1>17
        DEF StepOf, Proceed, Transact

LEMMA NamesApart ==
    ASSUME NEW p \in Id, NEW q \in Id, q # p, TypeOK
    PROVE  /\ Start(q) \notin {Temp(p), Target(p)}
           /\ Temp(q) \notin {Temp(p), Target(p)}
BY DEF Start, Temp, Target

-----------------------------------------------------------------------------
(* Only the holder of the lock is inside a transaction                     *)

LEMMA LockStep ==
    ASSUME TypeInv, LockDiscipline, NEW p \in Live, StepOf(p)
    PROVE  LockDiscipline'
<1>1. NoOne \notin Live
  BY NoneAssumption, LiveAssumption DEF NoOne
<1>2. ASSUME NEW q \in Live, q # p
      PROVE  pc'[q] = pc[q]
  BY <1>2, OthersKeep DEF TypeInv, Same
<1>3. \/ /\ holder' = holder
         /\ pc'[p] \in Holding <=> pc[p] \in Holding
      \/ holder = NoOne /\ holder' = p /\ pc'[p] \in Holding
      \/ holder = p /\ holder' = NoOne /\ pc'[p] \notin Holding
  <2> USE DEF TypeInv, TypeOK, outside, unchangedInside, Fail, Holding, LockDiscipline,
          InTransaction, Stopped
  <2>1. CASE Activate(p) BY <2>1 DEF Activate
  <2>2. CASE TryLock(p) BY <2>2 DEF TryLock
  <2>3. CASE RunCommand(p) BY <2>3 DEF RunCommand
  <2>4. CASE Release(p) BY <2>4 DEF Release
  <2>5. CASE Crash(p) BY <2>5 DEF Crash
  <2>6. CASE ScanAndPlan(p) BY <2>6 DEF ScanAndPlan
  <2>7. CASE CheckUnlink(p) BY <2>7 DEF CheckUnlink
  <2>8. CASE Unlink(p) BY <2>8 DEF Unlink
  <2>9. CASE CheckCreate(p) BY <2>9 DEF CheckCreate
  <2>10. CASE Create(p) BY <2>10 DEF Create
  <2>11. CASE Write(p) BY <2>11 DEF Write
  <2>12. CASE CheckStaged(p) BY <2>12 DEF CheckStaged
  <2>13. CASE Rename(p) BY <2>13 DEF Rename
  <2>14. CASE CheckPublished(p) BY <2>14 DEF CheckPublished
  <2>15. CASE CleanUp(p) BY <2>15 DEF CleanUp
  <2>16. CASE Settle(p) BY <2>16 DEF Settle
  <2>17. CASE CheckCleanUp(p) BY <2>17 DEF CheckCleanUp
  <2> QED BY <2>1, <2>2, <2>3, <2>4, <2>5, <2>6, <2>7, <2>8, <2>9, <2>10, <2>11, <2>12,
             <2>13, <2>14, <2>15, <2>16, <2>17
          DEF StepOf, Proceed, Transact
<1> QED BY <1>1, <1>2, <1>3 DEF LockDiscipline, InTransaction

-----------------------------------------------------------------------------
(* Finals                                                                  *)

(* A step leaves every final as it is or removes it, except a rename, which*)
(* gives the invocation's own event its name.                              *)
LEMMA FinalsFrame ==
    ASSUME TypeInv, NEW p \in Live, StepOf(p), NEW n \in FinalName
    PROVE  \/ files'[n] \in {files[n], Absent}
           \/ Rename(p) /\ n = Target(p) /\ files[n] = Absent /\ files'[n] = files[Temp(p)]
<1>1. /\ n \in Name /\ Temp(p) # n
      /\ Target(p) \in Name /\ Temp(p) \in Name /\ Target(p) # Temp(p)
  BY Names, TargetIsFinal DEF TypeInv
<1>2. files' = files \/ Touches(p)
  BY FilesFrame
<1>3. CASE n # Target(p)
  BY <1>1, <1>2, <1>3 DEF Touches
<1>4. CASE Rename(p)
  BY <1>1, <1>4 DEF Rename, unchangedInside, TypeInv, TypeOK, Partition
<1>5. CASE ~Rename(p) /\ n = Target(p) /\ files' # files
  <2> USE DEF TypeInv, TypeOK, Partition, unchangedInside
  <2>1. CASE Unlink(p) BY <1>1, <2>1 DEF Unlink
  <2>2. CASE Create(p) BY <1>1, <2>2 DEF Create
  <2>3. CASE Write(p) BY <1>1, <2>3 DEF Write
  <2>4. CASE CleanUp(p) BY <1>1, <2>4 DEF CleanUp
  <2> QED
    BY <1>2, <1>5, <2>1, <2>2, <2>3, <2>4
    DEF StepOf, Proceed, Transact, Touches, Activate, TryLock, RunCommand, Release, Crash,
        ScanAndPlan, CheckUnlink, CheckCreate, CheckStaged,
        CheckPublished, CheckCleanUp, Settle
<1> QED BY <1>1, <1>3, <1>4, <1>5

LEMMA FullIsSupported ==
    ASSUME TypeOK, NEW p \in Live, NEW fs, fs[Target(p)] = Full(p)
    PROVE  Supported(fs, Target(p))
BY EventIsFile, LimitAssumption DEF TypeOK, Supported, Target, Full, Event, Kinds

LEMMA WholeStep ==
    ASSUME TypeInv, FinalsAreWhole, NEW p \in Live, StagingFile(p), StepOf(p)
    PROVE  FinalsAreWhole'
<1> SUFFICES ASSUME NEW n \in FinalName, files'[n] # Absent
             PROVE  Supported(files', n)
  BY DEF FinalsAreWhole, Supported
<1>1. CASE files'[n] = files[n]
  BY <1>1 DEF FinalsAreWhole, Supported
<1>2. CASE Rename(p) /\ n = Target(p) /\ files'[n] = files[Temp(p)]
  BY <1>2, FullIsSupported DEF TypeInv, StagingFile, Rename
<1> QED BY <1>1, <1>2, FinalsFrame

-----------------------------------------------------------------------------
(* The invariant of the invocations that do not move                       *)

LEMMA LocalOther ==
    ASSUME IInv, NEW p \in Live, StepOf(p), NEW q \in Live, q # p
    PROVE  Local(q)'
<1>1. Same(q) /\ Local(q) /\ TypeOK
  BY OthersKeep DEF IInv, TypeInv
<1>2. p \in Id /\ q \in Id
  BY LiveAssumption
<1>3. pc[q] \in Holding => files' = files
  BY FilesFrame DEF IInv, Touches, LockDiscipline, InTransaction, Holding
<1>4. /\ files'[Start(q)] \in {files[Start(q)], Absent}
      /\ files'[Temp(q)] \in {files[Temp(q)], Absent}
  <2>1. Start(q) \in Name /\ Temp(q) \in Name
    BY <1>2, Names
  <2> QED BY <1>1, <1>2, <2>1, NamesApart, FilesFrame DEF IInv, Touches
<1>5. Evidence(q)'
  BY <1>1, <1>4 DEF Local, Evidence, Same
<1>6. OwnStartKept(q)'
  BY <1>1, <1>3 DEF Local, OwnStartKept, Same, Holding
<1>7. StagingFile(q)'
  BY <1>1, <1>3, <1>4
  DEF Local, StagingFile, Same, Holding, Full, Event, Target, Stopped
<1>8. Swept(q)'
  BY <1>1, <1>3 DEF Local, Swept, Same, Holding, Temporaries, Present
<1>9. Reported(q)'
  BY <1>1, <1>3 DEF Local, Reported, Same, Holding, Counted, Present
<1> QED BY <1>5, <1>6, <1>7, <1>8, <1>9 DEF Local

-----------------------------------------------------------------------------
(* The invariant of the invocation that moves, one lemma for each action   *)

LEMMA LocalLifecycle ==
    ASSUME IInv, NEW p \in Live,
           Activate(p) \/ TryLock(p) \/ RunCommand(p) \/ Release(p) \/ Crash(p)
    PROVE  Local(p)'
<1> USE DEF IInv, TypeInv, TypeOK, Local, Evidence, OwnStartKept, StagingFile, Swept,
            Reported, Stopped, Holding
<1>1. CASE Activate(p)
  BY <1>1 DEF Activate, unchangedInside
<1>2. CASE TryLock(p)
  BY <1>2 DEF TryLock, EndCollection
<1>3. CASE RunCommand(p)
  BY <1>3 DEF RunCommand, EndCollection
<1>4. CASE Release(p)
  <2>1. /\ outcome'[p].staging = outcome[p].staging /\ occupancy'[p] = Absent
        /\ files' = files /\ phase' = phase
    BY <1>4 DEF Release, DropTransaction, NoOutcome
  <2>2. CASE /\ phase[p] = "start" /\ receipt[p] # Absent
             /\ pc' = [pc EXCEPT ![p] = "command"] /\ UNCHANGED <<entry, now, receipt>>
    BY <1>4, <2>1, <2>2 DEF Release
  <2>3. CASE pc' = [pc EXCEPT ![p] = "done"] /\ EndCollection(p)
    <3>1. receipt'[p] = Absent /\ pc'[p] = "done"
      BY <2>3 DEF EndCollection
    <3> QED BY <1>4, <2>1, <3>1 DEF Release
  <2> QED BY <1>4, <2>2, <2>3 DEF Release
<1>5. CASE Crash(p)
  BY <1>5 DEF Crash, EndCollection, DropTransaction
<1> QED BY <1>1, <1>2, <1>3, <1>4, <1>5

LEMMA FailKeeps ==
    ASSUME TypeOK, NEW p \in Live, NEW e \in Errors, Fail(p, e)
    PROVE  /\ outcome'[p].staging = outcome[p].staging
           /\ pc'[p] \in {"cleanup", "settle"}
<1>1. outcome[p] \in Outcome
  BY DEF TypeOK
<1>2. [outcome[p] EXCEPT !.error = e].staging = outcome[p].staging
  BY <1>1 DEF Outcome
<1> QED BY <1>2 DEF TypeOK, Fail

LEMMA LocalScanAndPlan ==
    ASSUME IInv, NEW p \in Live, ScanAndPlan(p)
    PROVE  Local(p)'
<1> USE DEF IInv, TypeInv, TypeOK, Local, Evidence, OwnStartKept, StagingFile, Swept,
            Reported, Stopped, outside, unchangedInside
<1>1. CASE \E e \in Errors : Fail(p, e) /\ unchangedInside
  BY <1>1 DEF ScanAndPlan, Fail
<1>2. CASE /\ ScanError(p) = "none"
           /\ todo' = [todo EXCEPT ![p] = Removals(files, now[p], Reservation(p))]
           /\ pc' = [pc EXCEPT ![p] = "unlink"]
           /\ UNCHANGED <<files, receipt, outcome>>
  <2>1. Temporaries(files) \subseteq todo'[p]
    BY <1>2 DEF Removals
  <2>2. phase[p] = "finish" => files[Start(p)] = receipt[p]
    BY <1>2 DEF ScanError, ReceiptRefusal
  <2>3. phase[p] = "finish" => Start(p) \notin todo'[p]
    BY <1>2 DEF Removals, Temporaries, TempName, Members, Evicted, Candidates, Reservation,
                Start
  <2> QED BY <1>2, <2>1, <2>2, <2>3 DEF ScanAndPlan
<1> QED BY <1>1, <1>2, ScanErrorIsError DEF ScanAndPlan, Errors

LEMMA LocalCheck ==
    ASSUME IInv, NEW p \in Live, CheckUnlink(p) \/ CheckCreate(p)
    PROVE  Local(p)'
<1> USE DEF IInv, TypeInv, TypeOK, Local, Evidence, OwnStartKept, StagingFile, Swept,
            Reported, Stopped, outside, unchangedInside
<1>1. CASE \E e \in Errors : Fail(p, e)
  BY <1>1 DEF CheckUnlink, CheckCreate, Fail
<1>2. CASE /\ UNCHANGED outcome
           /\ \/ CheckUnlink(p) /\ pc' = [pc EXCEPT ![p] = "unlinking"]
              \/ CheckCreate(p) /\ pc' = [pc EXCEPT ![p] = "creating"]
  BY <1>2 DEF CheckUnlink, CheckCreate
<1> QED BY <1>1, <1>2 DEF CheckUnlink, CheckCreate, Errors

LEMMA LocalUnlink ==
    ASSUME IInv, NEW p \in Live, Unlink(p)
    PROVE  Local(p)'
<1> USE DEF IInv, TypeInv, TypeOK, Local, Evidence, OwnStartKept, StagingFile, Swept,
            Reported, Stopped, outside, unchangedInside
<1>1. CASE Fail(p, "Io") /\ unchangedInside
  BY <1>1 DEF Unlink, Fail
<1>2. ASSUME NEW n \in todo[p],
             files' = [files EXCEPT ![n] = Absent],
             todo' = [todo EXCEPT ![p] = @ \ {n}],
             pc' = [pc EXCEPT ![p] = "unlink"],
             UNCHANGED <<receipt, physical>>
      PROVE  Local(p)'
  <2>1. /\ n \in Name /\ Start(p) \in Name /\ Temp(p) \in Name
        /\ pc[p] = "unlinking" /\ pc'[p] = "unlink"
    BY <1>2, Names, LiveAssumption DEF Unlink
  <2>2. /\ files[Temp(p)] = Absent /\ files'[Temp(p)] = Absent
        /\ files'[Start(p)] \in {files[Start(p)], Absent}
    BY <1>2, <2>1 DEF Partition
  <2>3. Evidence(p)'
    BY <1>2, <2>1, <2>2 DEF Unlink
  <2>4. OwnStartKept(p)'
    BY <1>2, <2>1 DEF Unlink, Partition
  <2>5. StagingFile(p)'
    BY <2>1, <2>2
  <2>6. Swept(p)'
    BY <1>2, <2>1 DEF Temporaries, Present, Partition
  <2>7. Reported(p)'
    BY <1>2, <2>1 DEF Unlink
  <2> QED BY <2>3, <2>4, <2>5, <2>6, <2>7
<1> QED BY <1>1, <1>2 DEF Unlink

LEMMA LocalCreate ==
    ASSUME IInv, NEW p \in Live, Create(p)
    PROVE  Local(p)'
<1> USE DEF IInv, TypeInv, TypeOK, Local, Evidence, OwnStartKept, StagingFile, Swept,
            Reported, Stopped, outside, unchangedInside
<1>1. CASE Fail(p, "Io") /\ unchangedInside
  BY <1>1 DEF Create, Fail
<1>2. ASSUME files' = [files EXCEPT ![Temp(p)] = Event(p, 0)],
             UNCHANGED <<receipt, physical, todo>>,
             outcome'[p].staging = "MayRemain",
             pc' \in {[pc EXCEPT ![p] = "writing"], [pc EXCEPT ![p] = "cleanup"]}
      PROVE  Local(p)'
  <2>1. /\ Start(p) \in Name /\ Temp(p) \in Name /\ Start(p) # Temp(p)
        /\ pc[p] = "creating" /\ pc'[p] \in {"writing", "cleanup"}
    BY <1>2, Names, LiveAssumption DEF Create
  <2>2. files'[Start(p)] = files[Start(p)]
    BY <1>2, <2>1 DEF Partition
  <2>3. Swept(p)'
    BY <1>2, <2>1 DEF Temporaries, Present, Partition
  <2> QED BY <1>2, <2>1, <2>2, <2>3 DEF Create
<1>3. outcome' = [outcome EXCEPT ![p].staging = "MayRemain"] => outcome'[p].staging = "MayRemain"
  BY DEF Outcome
<1>4. outcome' = [outcome EXCEPT ![p].staging = "MayRemain", ![p].error = "Io"]
         => outcome'[p].staging = "MayRemain"
  BY DEF Outcome
<1> QED BY <1>1, <1>2, <1>3, <1>4 DEF Create

LEMMA LocalWrite ==
    ASSUME IInv, NEW p \in Live, Write(p)
    PROVE  Local(p)'
<1> USE DEF IInv, TypeInv, TypeOK, Local, Evidence, OwnStartKept, StagingFile, Swept,
            Reported, Stopped, outside, unchangedInside
<1>1. CASE \E e \in Errors : Fail(p, e) /\ unchangedInside
  BY <1>1, FailKeeps DEF Write
<1>2. pc[p] = "writing" /\ UNCHANGED outside BY DEF Write
<1>3. ASSUME NEW n \in AcceptedBytes(p), files' = [files EXCEPT ![Temp(p)] = Event(p, n)],
             Staged(p), UNCHANGED <<pc, outcome, receipt, physical, todo, ledger>>
      PROVE  Local(p)'
  <2>1. /\ Start(p) \in Name /\ Temp(p) \in Name /\ Start(p) # Temp(p)
    BY Names, LiveAssumption
  <2>2. files'[Start(p)] = files[Start(p)] /\ files[Temp(p)] # Absent
    <3>1. \A k \in 0 .. EventBytes[phase[p]] : Event(p, k) # Absent
      BY EventIsFile
    <3> QED BY <1>3, <2>1, <3>1 DEF Partition, Staged
  <2>3. Swept(p)'
    BY <1>2, <1>3, <2>1 DEF Temporaries, Present, Partition
  <2> QED BY <1>2, <1>3, <2>1, <2>2, <2>3
<1> QED BY <1>1, <1>3 DEF Write, Errors

LEMMA LocalCheckStaged ==
    ASSUME IInv, NEW p \in Live, CheckStaged(p)
    PROVE  Local(p)'
<1> USE DEF IInv, TypeInv, TypeOK, Local, Evidence, OwnStartKept, StagingFile, Swept,
            Reported, Stopped, outside
<1>1. files[Temp(p)] = Full(p)
  BY DEF CheckStaged, Staged, Full, Event
<1>2. CASE \E e \in Errors : Fail(p, e)
  BY <1>2, FailKeeps DEF CheckStaged
<1>3. CASE pc' = [pc EXCEPT ![p] = "renaming"] /\ UNCHANGED outcome
  BY <1>1, <1>3 DEF CheckStaged, Full, Event
<1> QED BY <1>2, <1>3 DEF CheckStaged, Errors

LEMMA LocalRename ==
    ASSUME IInv, NEW p \in Live, Rename(p)
    PROVE  Local(p)'
<1> USE DEF IInv, TypeInv, TypeOK, Local, Evidence, OwnStartKept, StagingFile, Swept,
            Reported, Stopped, outside, unchangedInside
<1>1. CASE \E e \in Errors : Fail(p, e) /\ unchangedInside
  BY <1>1, FailKeeps DEF Rename
<1>2. CASE /\ files' = [files EXCEPT ![Target(p)] = files[Temp(p)], ![Temp(p)] = Absent]
           /\ pc' = [pc EXCEPT ![p] = "renamed"]
           /\ UNCHANGED <<receipt, physical, todo, ledger>>
  <2>1. /\ Start(p) \in Name /\ Temp(p) \in Name /\ Start(p) # Temp(p)
        /\ Target(p) \in Name /\ Target(p) # Temp(p)
        /\ pc[p] = "renaming" /\ pc'[p] = "renamed"
    BY <1>2, Names, TargetIsFinal, LiveAssumption DEF Rename
  <2>2. files'[Target(p)] = Full(p) /\ files'[Temp(p)] = Absent
    BY <1>2, <2>1 DEF Partition
  <2>3. phase[p] = "finish" => files'[Start(p)] = files[Start(p)]
    BY <1>2, <2>1 DEF Partition, Target, Start
  <2>4. phase[p] = "start" \/ phase[p] = "finish"
    BY DEF Kinds
  <2>5. Evidence(p)'
    BY <1>2, <2>1, <2>3, <2>4 DEF Rename
  <2>6. StagingFile(p)'
    BY <1>2, <2>1, <2>2 DEF Rename, Full, Event, Target
  <2> QED BY <2>1, <2>5, <2>6 DEF Rename
<1> QED BY <1>1, <1>2 DEF Rename, Errors

LEMMA LocalCheckPublished ==
    ASSUME IInv, NEW p \in Live, CheckPublished(p)
    PROVE  Local(p)'
<1> USE DEF IInv, TypeInv, TypeOK, Local, Evidence, OwnStartKept, StagingFile, Swept,
            Reported, Stopped, outside
<1>1. CASE (\E e \in Errors : Fail(p, e)) /\ UNCHANGED receipt
  <2>1. pc[p] = "renamed" /\ pc'[p] \in {"cleanup", "settle"} /\ files' = files
    BY <1>1 DEF CheckPublished, Fail
  <2> QED BY <1>1, <2>1 DEF CheckPublished
<1>2. CASE /\ receipt' = [receipt EXCEPT ![p] = ReceiptFor(p)]
           /\ pc' = [pc EXCEPT ![p] = "settle"] /\ UNCHANGED outcome
  <2>1. phase[p] = "start" => files[Start(p)] = Full(p)
    BY DEF CheckPublished, Target, Start
  <2>2. phase[p] = "start" \/ phase[p] = "finish"
    BY DEF Kinds
  <2>3. pc[p] = "renamed" /\ pc'[p] = "settle" /\ files' = files
    BY <1>2 DEF CheckPublished
  <2>4. Evidence(p)'
    BY <1>2, <2>1, <2>2, <2>3 DEF CheckPublished, ReceiptFor, Full, Event
  <2> QED BY <1>2, <2>3, <2>4 DEF CheckPublished
<1> QED BY <1>1, <1>2 DEF CheckPublished, Errors

LEMMA LocalCheckCleanUp ==
    ASSUME IInv, NEW p \in Live, CheckCleanUp(p)
    PROVE  Local(p)'
<1> USE DEF IInv, TypeInv, TypeOK, Local, Evidence, OwnStartKept, StagingFile, Swept,
            Reported, Stopped, outside, unchangedInside
<1>1. pc[p] = "cleanup" /\ pc'[p] \in {"cleaning", "settle"}
  BY DEF CheckCleanUp
<1> QED BY <1>1 DEF CheckCleanUp

LEMMA LocalCleanUp ==
    ASSUME IInv, NEW p \in Live, CleanUp(p)
    PROVE  Local(p)'
<1> USE DEF IInv, TypeInv, TypeOK, Local, Evidence, OwnStartKept, StagingFile, Swept,
            Reported, Stopped, outside
<1>1. /\ Start(p) \in Name /\ Temp(p) \in Name /\ Start(p) # Temp(p)
      /\ pc[p] = "cleaning" /\ pc'[p] = "settle"
  BY Names, LiveAssumption DEF CleanUp
<1>2. files'[Start(p)] = files[Start(p)]
  BY <1>1 DEF CleanUp, Partition
<1>3. files'[Temp(p)] = Absent \/ (files' = files /\ outcome' = outcome)
  BY <1>1 DEF CleanUp, Partition
<1> QED BY <1>1, <1>2, <1>3 DEF CleanUp

LEMMA LocalSettle ==
    ASSUME IInv, NEW p \in Live, Settle(p)
    PROVE  Local(p)'
<1> USE DEF IInv, TypeInv, TypeOK, Local, Evidence, OwnStartKept, StagingFile, Swept,
            Reported, Stopped
<1>1. outcome'[p].staging = outcome[p].staging
  BY DEF Settle, Outcome
<1>2. Reported(p)'
  BY DEF Settle, Agrees, Counted
<1>3. receipt'[p] \in {receipt[p], Absent} /\ (receipt'[p] # receipt[p] => phase[p] = "start")
  BY DEF Settle
<1> QED BY <1>1, <1>2, <1>3 DEF Settle

-----------------------------------------------------------------------------
(* IInv is inductive                                                       *)

LEMMA Initially == Init => IInv
<1> SUFFICES ASSUME Init PROVE IInv
  OBVIOUS
<1>1. TypeInv
  BY TypeInit
<1>2. NoOne \notin Live
  BY NoneAssumption, LiveAssumption DEF NoOne
<1>3. LockDiscipline
  BY <1>2 DEF Init, LockDiscipline, InTransaction, Holding
<1>4. FinalsAreWhole
  BY HistoryAssumption DEF Init, FinalsAreWhole, LeftBehind
<1>5. ASSUME NEW p \in Live PROVE Local(p)
  <2>1. files[Temp(p)] = Absent
    BY HistoryAssumption, LiveAssumption, Names DEF Init, LeftBehind, Temp
  <2> QED BY <2>1 DEF Init, Local, Evidence, OwnStartKept, StagingFile, Swept, Reported
<1> QED BY <1>1, <1>3, <1>4, <1>5 DEF IInv

LEMMA LocalOwn ==
    ASSUME IInv, NEW p \in Live, StepOf(p)
    PROVE  Local(p)'
BY LocalLifecycle, LocalScanAndPlan, LocalCheck, LocalUnlink, LocalCreate, LocalWrite,
   LocalCheckStaged, LocalRename, LocalCheckPublished, LocalCheckCleanUp, LocalCleanUp,
   LocalSettle
DEF StepOf, Proceed, Transact

LEMMA Stutters == IInv /\ UNCHANGED vars => IInv'
<1> SUFFICES ASSUME IInv, UNCHANGED vars PROVE IInv'
  OBVIOUS
<1>1. TypeInv'
  BY TypeStep DEF IInv
<1>2. LockDiscipline'
  BY DEF IInv, LockDiscipline, InTransaction, vars
<1>3. FinalsAreWhole'
  BY DEF IInv, FinalsAreWhole, Supported, vars
<1>4. \A p \in Live : Local(p)'
  BY DEF IInv, Local, Evidence, OwnStartKept, StagingFile, Swept, Reported, Full, Event,
         Target, Temporaries, Present, Counted, vars
<1> QED BY <1>1, <1>2, <1>3, <1>4 DEF IInv

LEMMA Inductive == IInv /\ [Next]_vars => IInv'
<1> SUFFICES ASSUME IInv, [Next]_vars PROVE IInv'
  OBVIOUS
<1>1. CASE UNCHANGED vars
  BY <1>1, Stutters
<1>2. ASSUME NEW p \in Live, StepOf(p) PROVE IInv'
  <2>1. TypeInv'
    BY TypeStep DEF IInv
  <2>2. LockDiscipline'
    BY <1>2, LockStep DEF IInv
  <2>3. FinalsAreWhole'
    BY <1>2, WholeStep DEF IInv, Local
  <2>4. \A q \in Live : Local(q)'
    BY <1>2, LocalOwn, LocalOther
  <2> QED BY <2>1, <2>2, <2>3, <2>4 DEF IInv
<1> QED BY <1>1, <1>2 DEF Next, StepOf

THEOREM Invariance == Spec => []IInv
BY Initially, Inductive, PTL DEF Spec

-----------------------------------------------------------------------------
(* What follows                                                            *)

(* No two transactions ever overlap, accounting and cleanup included.      *)
THEOREM TransactionsExclude == Spec => []LockDiscipline
<1>1. IInv => LockDiscipline
  BY DEF IInv
<1> QED BY <1>1, Invariance, PTL

(* Only complete events of the right invocation and kind reach a final     *)
(* name, whatever fails or crashes.                                        *)
THEOREM OnlyWholeFinals == Spec => []FinalsAreWhole
<1>1. IInv => FinalsAreWhole
  BY DEF IInv
<1> QED BY <1>1, Invariance, PTL

(* No staging file is left without a crash or an outcome that admits it.   *)
THEOREM NoSilentStaging == Spec => []StagingIsAccountedFor
<1>1. IInv => StagingIsAccountedFor
  BY DEF IInv, StagingIsAccountedFor, Local, StagingFile
<1> QED BY <1>1, Invariance, PTL

(* A reported occupancy is the real one while its transaction lasts.       *)
THEOREM ReportedOccupancy == Spec => []OccupancyIsReal
<1>1. IInv => OccupancyIsReal
  BY DEF IInv, OccupancyIsReal, Local, Reported
<1> QED BY <1>1, Invariance, PTL

(* No step of the store, retention and cleanup included, changes a         *)
(* published record.                                                       *)
THEOREM PublishedIsFinal == Spec => FinalsNeverChange
<1>1. ASSUME IInv, [Next]_vars, NEW n \in FinalName, files[n] # Absent
      PROVE  files'[n] \in {files[n], Absent}
  <2>1. CASE UNCHANGED vars
    BY <2>1 DEF vars
  <2>2. ASSUME NEW p \in Live, StepOf(p)
        PROVE  files'[n] \in {files[n], Absent}
    BY <1>1, <2>2, FinalsFrame DEF IInv
  <2> QED BY <1>1, <2>1, <2>2 DEF Next, StepOf
<1>2. IInv /\ [Next]_vars =>
        [\A n \in FinalName : files[n] # Absent => files'[n] \in {files[n], Absent}]_vars
  BY <1>1
<1> QED BY <1>2, Invariance, PTL DEF Spec, FinalsNeverChange

(* A finish is published only next to the start of its invocation, exactly *)
(* as that invocation published it.                                        *)
THEOREM FinishNeverOrphaned == Spec => FinishJoinsItsStart
<1> DEFINE Joins(p) ==
      files[Finish(p)] = Absent /\ files'[Finish(p)] # Absent =>
            /\ receipt[p] # Absent
            /\ files'[Start(p)] = receipt[p]
            /\ files'[Finish(p)].entry = receipt[p].entry
<1>1. ASSUME IInv, [Next]_vars, NEW p \in Live, files[Finish(p)] = Absent,
             files'[Finish(p)] # Absent
      PROVE  Joins(p)
  <2>1. PICK q \in Live : StepOf(q)
    BY <1>1 DEF Next, StepOf, vars
  <2>2. /\ p \in Id /\ q \in Id /\ Finish(p) \in FinalName /\ Start(p) \in Name
        /\ Start(p) # Temp(p) /\ Start(p) # Finish(p)
    BY LiveAssumption, Names DEF Start, Finish
  <2>3. Rename(q) /\ Finish(p) = Target(q) /\ files'[Finish(p)] = files[Temp(q)]
    BY <1>1, <2>1, <2>2, FinalsFrame DEF IInv
  <2>4. q = p /\ phase[p] = "finish"
    BY <2>3 DEF Finish, Target
  <2>5. /\ pc[p] = "renaming"
        /\ files' = [files EXCEPT ![Finish(p)] = files[Temp(p)], ![Temp(p)] = Absent]
    BY <1>1, <2>3, <2>4 DEF Rename, unchangedInside, IInv, TypeInv, TypeOK, Partition
  <2>6. /\ receipt[p] # Absent /\ files[Start(p)] = receipt[p]
        /\ receipt[p].entry = entry[p] /\ files[Temp(p)] = Full(p)
    BY <1>1, <2>4, <2>5 DEF IInv, Local, Evidence, OwnStartKept, StagingFile, Stopped
  <2>7. files'[Start(p)] = files[Start(p)]
    BY <1>1, <2>2, <2>5 DEF IInv, TypeInv, TypeOK, Partition
  <2> QED BY <2>3, <2>4, <2>6, <2>7 DEF Full, Event
<1>2. IInv /\ [Next]_vars => [\A p \in Live : Joins(p)]_vars
  BY <1>1
<1> QED BY <1>2, Invariance, PTL DEF Spec, FinishJoinsItsStart

(* Once an event is published no abandoned staging file is left.           *)
THEOREM PublishingSweeps == Spec => PublishingSweepsStaging
<1> DEFINE Sweeps(p) ==
      pc[p] = "renaming" /\ pc'[p] = "renamed" => Temporaries(files') = {}
<1>1. ASSUME IInv, [Next]_vars, NEW p \in Live, pc[p] = "renaming", pc'[p] = "renamed"
      PROVE  Temporaries(files') = {}
  <2>1. PICK q \in Live : StepOf(q)
    BY <1>1 DEF Next, StepOf, vars
  <2>2. q = p
    BY <1>1, <2>1, OthersKeep DEF IInv, TypeInv, Same
  <2>3. ~Crash(p)
    BY <1>1 DEF Crash, IInv, TypeInv, TypeOK
  <2>4. Rename(p)
    BY <1>1, <2>1, <2>2, <2>3
    DEF StepOf, Proceed, Transact, Activate, TryLock, RunCommand, Release,
        ScanAndPlan, CheckUnlink, Unlink, CheckCreate, Create, Write,
        CheckStaged, CheckPublished, CheckCleanUp, CleanUp, Settle
  <2>5. files' = [files EXCEPT ![Target(p)] = files[Temp(p)], ![Temp(p)] = Absent]
    BY <1>1, <2>4, FailKeeps DEF Rename, IInv, TypeInv, Errors
  <2>6. Temporaries(files) \subseteq {Temp(p)} /\ Target(p) \notin TempName
    BY <1>1, TargetIsFinal DEF IInv, TypeInv, TypeOK, Local, Swept, Target, TempName, Kinds
  <2> QED BY <1>1, <2>5, <2>6, TargetIsFinal
      DEF IInv, TypeInv, TypeOK, Temporaries, Present, Partition
<1>2. IInv /\ [Next]_vars => [\A p \in Live : Sweeps(p)]_vars
  BY <1>1
<1> QED BY <1>2, Invariance, PTL DEF Spec, PublishingSweepsStaging

-----------------------------------------------------------------------------
(* Room, and no false alarm                                                *)

LEMMA OthersLedger ==
    ASSUME TypeInv, NEW p \in Live, StepOf(p), NEW q \in Live, q # p
    PROVE  ledger'[q] = ledger[q]
<1> USE DEF TypeInv, TypeOK, unchangedInside, DropTransaction, LedgerAfterUnlink
<1>1. CASE Activate(p) \/ TryLock(p) \/ RunCommand(p) \/ Release(p) \/ Crash(p)
  BY <1>1 DEF Activate, TryLock, RunCommand, Release, Crash
<1>2. CASE ScanAndPlan(p) \/ CheckUnlink(p) \/ Unlink(p) \/ CheckCreate(p) \/ Create(p)
  BY <1>2 DEF ScanAndPlan, CheckUnlink, Unlink, CheckCreate, Create
<1>3. CASE Write(p) \/ CheckStaged(p) \/ Rename(p) \/ CheckPublished(p) \/ CheckCleanUp(p)
           \/ CleanUp(p) \/ Settle(p)
  BY <1>3 DEF Write, CheckStaged, Rename, CheckPublished, CheckCleanUp, CleanUp, Settle
<1> QED BY <1>1, <1>2, <1>3 DEF StepOf, Proceed, Transact

LEMMA FailBlames ==
    ASSUME TypeOK, NEW p \in Live, NEW e \in Errors \ {"none"}, Fail(p, e)
    PROVE  outcome'[p].error # "none" /\ pc'[p] \in {"cleanup", "settle"}
<1>1. outcome[p] \in Outcome
  BY DEF TypeOK
<1>2. [outcome[p] EXCEPT !.error = e].error = e
  BY <1>1 DEF Outcome
<1> QED BY <1>2 DEF TypeOK, Fail

(* What the ledger of an invocation has to do with the partition at each   *)
(* of its steps: the change detection compares the two.                    *)
Tracks(p) ==
    /\ pc[p] \in {"unlink", "unlinking", "creating", "renaming"} => ledger[p] = files
    /\ pc[p] = "writing" =>
          Staged(p) /\ ledger[p] = [files EXCEPT ![Temp(p)] = Event(p, 0)]
    /\ pc[p] = "renamed" => Verified(p)
    /\ pc[p] = "settle" /\ outcome[p].error = "none" => ledger[p] = files
    /\ pc[p] \in {"cleanup", "cleaning"} => outcome[p].error # "none"

Alarms == {"IdentityChanged", "ReceiptMismatch", "UnknownName", "ScanLimit", "UnsafeEntry",
           "InvalidReservation"}

Calm(p) == outcome[p].error \notin Alarms

(* The room a transaction has made sure of before it writes.               *)
Room(p) ==
    /\ pc[p] = "creating" => Fits(files, Present(files), Reservation(p))
    /\ pc[p] = "writing" =>
          BytesOf(files, Present(files) \ {Temp(p)}) + EventBytes[phase[p]] <= ByteLimit

OnlyOwnNames == \A n \in OtherName : files[n] = Absent

Orderly(p) == Tracks(p) /\ Calm(p) /\ Room(p)

QuotaInv ==
    /\ IInv /\ WithinQuota /\ OnlyOwnNames
    /\ \A p \in Live : Orderly(p)

LEMMA FailOrderly ==
    ASSUME TypeOK, NEW p \in Live, NEW e \in Errors \ (Alarms \cup {"none"}), Fail(p, e)
    PROVE  Orderly(p)'
<1>1. outcome[p] \in Outcome
  BY DEF TypeOK
<1>2. [outcome[p] EXCEPT !.error = e].error = e
  BY <1>1 DEF Outcome
<1>3. outcome'[p].error = e /\ pc'[p] \in {"cleanup", "settle"}
  BY <1>2 DEF TypeOK, Fail
<1> QED BY <1>3 DEF Orderly, Tracks, Calm, Room

LEMMA OtherNamesStay ==
    ASSUME IInv, OnlyOwnNames, NEW p \in Live, StepOf(p)
    PROVE  OnlyOwnNames'
<1>1. \A n \in OtherName : n \in Name /\ n \notin {Temp(p), Target(p)}
  BY DEF OtherName, Name, Temp, Target, IInv, TypeInv, TypeOK, Kinds
<1> QED BY <1>1, FilesFrame DEF OnlyOwnNames, IInv, Touches

LEMMA OrderlyOther ==
    ASSUME QuotaInv, NEW p \in Live, StepOf(p), NEW q \in Live, q # p
    PROVE  Orderly(q)'
<1>1. Same(q) /\ ledger'[q] = ledger[q] /\ Orderly(q)
  BY OthersKeep, OthersLedger DEF QuotaInv, IInv, TypeInv
<1>2. pc[q] \in Holding => files' = files
  BY FilesFrame DEF QuotaInv, IInv, Touches, LockDiscipline, InTransaction, Holding
<1>3. pc[q] \notin Holding => pc[q] \notin
         {"unlink", "unlinking", "creating", "renaming", "writing", "renamed", "settle", "cleanup",
          "cleaning"}
  BY DEF Holding
<1>4. CASE files' # files
  <2>1. pc'[q] \notin
          {"unlink", "unlinking", "creating", "renaming", "writing", "renamed", "settle", "cleanup",
          "cleaning"}
    BY <1>1, <1>2, <1>3, <1>4 DEF Same
  <2> QED BY <1>1, <2>1 DEF Orderly, Tracks, Calm, Room, Same
<1>5. CASE files' = files
  <2>1. /\ pc'[q] = pc[q] /\ phase'[q] = phase[q] /\ outcome'[q] = outcome[q]
        /\ receipt'[q] = receipt[q]
    BY <1>1 DEF Same
  <2>2. /\ Staged(q)' = Staged(q) /\ Event(q, 0)' = Event(q, 0)
        /\ Verified(q)' = Verified(q) /\ Reservation(q)' = Reservation(q)
    BY <1>1, <1>5 DEF Same, Staged, Event, Verified, Renamed, Target, Reservation
  <2>3. Fits(files, Present(files), Reservation(q))' = Fits(files, Present(files), Reservation(q))
    BY <1>5, <2>2
  <2>4. Tracks(q)'
    BY <1>1, <1>5, <2>1, <2>2 DEF Orderly, Tracks
  <2>5. Calm(q)'
    BY <1>1, <2>1 DEF Orderly, Calm
  <2>6. Room(q)'
    BY <1>1, <1>5, <2>1, <2>2 DEF Orderly, Room
  <2> QED BY <2>4, <2>5, <2>6 DEF Orderly
<1> QED BY <1>4, <1>5

LEMMA OrderlyLifecycle ==
    ASSUME QuotaInv, NEW p \in Live,
           Activate(p) \/ TryLock(p) \/ RunCommand(p) \/ Release(p) \/ Crash(p)
    PROVE  Orderly(p)' /\ files' = files
<1> USE DEF QuotaInv, IInv, TypeInv, TypeOK, Orderly, Tracks, Room, Calm, Alarms, Stopped
<1>1. CASE Activate(p)
  BY <1>1 DEF Activate, unchangedInside
<1>2. CASE TryLock(p)
  <2>1. pc'[p] \in {"scan", "done"} /\ files' = files
    BY <1>2 DEF TryLock
  <2>2. outcome'[p].error \in {outcome[p].error, "none"}
    BY <1>2 DEF TryLock, NoOutcome
  <2> QED BY <2>1, <2>2
<1>3. CASE RunCommand(p)
  BY <1>3 DEF RunCommand
<1>4. CASE Release(p)
  BY <1>4 DEF Release, DropTransaction, NoOutcome
<1>5. CASE Crash(p)
  BY <1>5 DEF Crash, DropTransaction, NoOutcome
<1> QED BY <1>1, <1>2, <1>3, <1>4, <1>5

LEMMA ScanIsCalm ==
    ASSUME QuotaInv, NEW p \in Live, pc[p] = "scan"
    PROVE  ScanError(p) \in Errors \ Alarms
<1>1. ScanRefusal(files) = "none"
  BY DEF QuotaInv, WithinQuota, OnlyOwnNames, ScanRefusal, Present
<1>2. ReceiptRefusal(p) \notin Alarms
  <2>1. phase[p] = "finish" => receipt[p] # Absent /\ files[Start(p)] \in {Absent, receipt[p]}
    BY DEF QuotaInv, IInv, Local, Evidence, Stopped
  <2>2. phase[p] \in {"start", "finish"}
    BY DEF QuotaInv, IInv, TypeInv, TypeOK, Kinds
  <2> QED BY <2>1, <2>2 DEF ReceiptRefusal, Alarms
<1>3. PlanRefusal(files, now[p], Reservation(p)) \notin Alarms
  <2>1. EventBytes[phase[p]] \in 1 .. EventLimit
    BY LimitAssumption DEF QuotaInv, IInv, TypeInv, TypeOK
  <2> QED BY <2>1 DEF PlanRefusal, Reservation, QuotaInv, WithinQuota, Alarms
<1> QED BY <1>1, <1>2, <1>3, ScanErrorIsError DEF ScanError

LEMMA OrderlyScan ==
    ASSUME QuotaInv, NEW p \in Live, ScanAndPlan(p)
    PROVE  Orderly(p)' /\ files' = files
<1> USE DEF QuotaInv, IInv, TypeInv, TypeOK, outside, unchangedInside
<1>1. files' = files /\ pc[p] = "scan"
  BY DEF ScanAndPlan
<1>2. CASE \E e \in Errors \ (Alarms \cup {"none"}) : Fail(p, e)
  BY <1>1, <1>2, FailOrderly
<1>3. CASE /\ ledger' = [ledger EXCEPT ![p] = files] /\ UNCHANGED outcome
           /\ pc' = [pc EXCEPT ![p] = "unlink"]
  BY <1>1, <1>3 DEF Orderly, Tracks, Calm, Room
<1> QED BY <1>1, <1>2, <1>3, ScanIsCalm DEF ScanAndPlan, Errors, Alarms

LEMMA OrderlyCheck ==
    ASSUME QuotaInv, NEW p \in Live, CheckUnlink(p) \/ CheckCreate(p)
    PROVE  Orderly(p)' /\ files' = files
<1> USE DEF QuotaInv, IInv, TypeInv, TypeOK, outside, unchangedInside
<1>1. /\ files' = files /\ pc[p] = "unlink" /\ ledger' = ledger /\ phase' = phase
      /\ Agrees(p)
  BY DEF CheckUnlink, CheckCreate, Orderly, Tracks, Agrees
<1>2. CASE \E e \in Errors \ (Alarms \cup {"none"}) : Fail(p, e)
  BY <1>1, <1>2, FailOrderly
<1>3. CASE pc' = [pc EXCEPT ![p] = "unlinking"] /\ UNCHANGED outcome
  BY <1>1, <1>3 DEF Orderly, Tracks, Calm, Room
<1>4. CASE /\ pc' = [pc EXCEPT ![p] = "creating"] /\ UNCHANGED outcome
           /\ Fits(files, Present(files), Reservation(p))
  <2>1. Reservation(p)' = Reservation(p)
    BY <1>1 DEF Reservation
  <2>2. Room(p)'
    BY <1>1, <1>4, <2>1 DEF Room
  <2> QED BY <1>1, <1>4, <2>2 DEF Orderly, Tracks, Calm
<1> QED BY <1>1, <1>2, <1>3, <1>4 DEF CheckUnlink, CheckCreate, Errors, Alarms

LEMMA OrderlyUnlink ==
    ASSUME QuotaInv, NEW p \in Live, Unlink(p)
    PROVE  Orderly(p)' /\ WithinQuota'
<1> USE DEF QuotaInv, IInv, TypeInv, TypeOK, outside, unchangedInside
<1>1. CASE Fail(p, "Io") /\ unchangedInside
  <2>1. Orderly(p)'
    BY <1>1, FailOrderly DEF Errors, Alarms
  <2> QED BY <1>1, <2>1 DEF WithinQuota
<1>2. ASSUME NEW n \in todo[p],
             files' = [files EXCEPT ![n] = Absent],
             ledger' = LedgerAfterUnlink(p, n),
             outcome' = [outcome EXCEPT ![p].removed = @ + 1, ![p].partial = TearsPair(p, n)],
             pc' = [pc EXCEPT ![p] = "unlink"]
      PROVE  Orderly(p)' /\ WithinQuota'
  <2>1. n \in Name /\ ledger[p] = files
    BY <1>2 DEF Unlink, Orderly, Tracks
  <2>2. ledger'[p] = files'
    BY <1>2, <2>1 DEF LedgerAfterUnlink
  <2>3. outcome'[p].error = outcome[p].error
    BY <1>2 DEF Outcome
  <2>4. WithinQuota'
    <3>1. files' \in Partition /\ files'[n] = Absent
      BY <1>2, <2>1 DEF Partition
    <3>2. DifferIn(files, files', n)
      BY <1>2, <2>1, <3>1 DEF DifferIn, Partition
    <3> QED BY <3>1, <3>2, Emptied DEF WithinQuota
  <2> QED BY <1>2, <2>2, <2>3, <2>4 DEF Orderly, Tracks, Calm, Room
<1> QED BY <1>1, <1>2 DEF Unlink

LEMMA OrderlyCreate ==
    ASSUME QuotaInv, NEW p \in Live, Create(p)
    PROVE  Orderly(p)' /\ WithinQuota'
<1> USE DEF QuotaInv, IInv, TypeInv, TypeOK, outside, unchangedInside
<1>1. CASE Fail(p, "Io") /\ unchangedInside
  <2>1. Orderly(p)'
    BY <1>1, FailOrderly DEF Errors, Alarms
  <2> QED BY <1>1, <2>1 DEF WithinQuota
<1>2. CASE files[Temp(p)] = Absent /\ files' = [files EXCEPT ![Temp(p)] = Event(p, 0)]
  <2>1. /\ pc[p] = "creating" /\ Temp(p) \in Name /\ ledger[p] = files
        /\ Fits(files, Present(files), Reservation(p)) /\ phase[p] \in Kinds
    BY LiveAssumption, Names DEF Create, Orderly, Tracks, Room
  <2>2. Event(p, 0) \in File /\ Event(p, 0).bytes = 0 /\ EventBytes[phase[p]] \in Nat
    BY <2>1, EventIsFile, LimitAssumption DEF Event
  <2>3. Temp(p) \notin Present(files)
    BY <1>2 DEF Present
  <2>4. /\ BytesOf(files', Present(files')) = 0 + BytesOf(files, Present(files) \ {Temp(p)})
        /\ BytesOf(files', Present(files') \ {Temp(p)}) =
              BytesOf(files, Present(files) \ {Temp(p)})
        /\ FilesOf(Present(files')) = FilesOf(Present(files)) + 1
    <3>1. files' \in Partition /\ files'[Temp(p)] = Event(p, 0)
      BY <1>2, <2>1, <2>2 DEF Partition
    <3>2. DifferIn(files, files', Temp(p))
      BY <1>2, <2>1, <3>1 DEF DifferIn, Partition
    <3>3. files'[Temp(p)] # Absent /\ files'[Temp(p)].bytes = 0
      BY <2>2, <3>1, AbsentAssumption
    <3>4. files[Temp(p)] = Absent
      BY <1>2
    <3>5. BytesOf(files', Present(files')) = 0 + BytesOf(files, Present(files) \ {Temp(p)})
      BY <3>2, <3>3, Written
    <3>6. BytesOf(files', Present(files') \ {Temp(p)}) = BytesOf(files, Present(files) \ {Temp(p)})
      BY <3>2, RestStays
    <3>7. FilesOf(Present(files')) = FilesOf(Present(files)) + 1
      BY <3>2, <3>3, <3>4, Written
    <3> QED BY <3>5, <3>6, <3>7
  <2>5. /\ Present(files) \ {Temp(p)} = Present(files)
        /\ BytesOf(files, Present(files)) \in Nat /\ FilesOf(Present(files)) \in Nat
    BY <2>3, PresentIsFinite DEF FilesOf
  <2>6. /\ BytesOf(files, Present(files)) + EventBytes[phase[p]] <= ByteLimit
        /\ FilesOf(Present(files)) + 1 <= FileLimit
    BY <2>1 DEF Fits, Reservation, PendingBytes, PendingFiles
  <2>7. WithinQuota'
    <3>1. BytesOf(files', Present(files')) = BytesOf(files, Present(files))
      <4>1. BytesOf(files', Present(files')) = 0 + BytesOf(files, Present(files))
        BY <2>4, <2>5
      <4> QED BY <2>5, <4>1
    <3>2. BytesOf(files, Present(files)) <= ByteLimit
      BY <2>2, <2>5, <2>6, LimitAssumption
    <3> QED BY <2>4, <2>5, <2>6, <3>1, <3>2, LimitAssumption DEF WithinQuota, Overfull
  <2>8. CASE /\ ledger' = [ledger EXCEPT ![p][Temp(p)] = Event(p, 0)]
             /\ outcome' = [outcome EXCEPT ![p].staging = "MayRemain"]
             /\ pc' = [pc EXCEPT ![p] = "writing"]
    <3>1. outcome'[p].error = outcome[p].error
      BY <2>8 DEF Outcome
    <3>2. Event(p, 0)' = Event(p, 0) /\ \A k : Event(p, k)' = Event(p, k)
      BY DEF Create, Event
    <3>3. ledger'[p] = files' /\ files'[Temp(p)] = Event(p, 0)
      BY <1>2, <2>1, <2>8 DEF Partition
    <3>4. [files' EXCEPT ![Temp(p)] = Event(p, 0)] = files'
      BY <1>2, <2>1 DEF Partition
    <3>5. Staged(p)'
      BY <2>1, <2>2, <3>2, <3>3 DEF Staged, Create
    <3>6. phase' = phase
      BY DEF Create
    <3>7. Room(p)'
      BY <2>4, <2>5, <2>6, <2>8, <3>6 DEF Room
    <3>8. Tracks(p)'
      BY <2>8, <3>2, <3>3, <3>4, <3>5 DEF Tracks
    <3> QED BY <2>7, <3>1, <3>7, <3>8 DEF Orderly, Calm
  <2>9. CASE /\ outcome' = [outcome EXCEPT ![p].staging = "MayRemain", ![p].error = "Io"]
             /\ pc' = [pc EXCEPT ![p] = "cleanup"]
    <3>1. outcome'[p].error = "Io"
      BY <2>9 DEF Outcome
    <3> QED BY <2>7, <2>9, <3>1 DEF Orderly, Tracks, Calm, Room, Alarms
  <2>10. \/ Fail(p, "Io") /\ unchangedInside
         \/ /\ ledger' = [ledger EXCEPT ![p][Temp(p)] = Event(p, 0)]
            /\ outcome' = [outcome EXCEPT ![p].staging = "MayRemain"]
            /\ pc' = [pc EXCEPT ![p] = "writing"]
         \/ /\ outcome' = [outcome EXCEPT ![p].staging = "MayRemain", ![p].error = "Io"]
            /\ pc' = [pc EXCEPT ![p] = "cleanup"]
    BY DEF Create
  <2> QED BY <1>1, <2>8, <2>9, <2>10
<1> QED BY <1>1, <1>2 DEF Create

LEMMA OrderlyWrite ==
    ASSUME QuotaInv, NEW p \in Live, Write(p)
    PROVE  Orderly(p)' /\ WithinQuota'
<1> USE DEF QuotaInv, IInv, TypeInv, TypeOK, outside, unchangedInside
<1>1. CASE Fail(p, "Io") /\ unchangedInside
  <2>1. Orderly(p)'
    BY <1>1, FailOrderly DEF Errors, Alarms
  <2> QED BY <1>1, <2>1 DEF WithinQuota
<1>2. /\ pc[p] = "writing" /\ Staged(p) /\ ledger[p] = [files EXCEPT ![Temp(p)] = Event(p, 0)]
      /\ BytesOf(files, Present(files) \ {Temp(p)}) + EventBytes[phase[p]] <= ByteLimit
  BY DEF Write, Orderly, Tracks, Room
<1>3. Temp(p) \in Name /\ EventBytes[phase[p]] \in Nat /\ phase' = phase
  BY LiveAssumption, LimitAssumption, Names DEF Write
<1>4. \A k : Event(p, k)' = Event(p, k)
  BY DEF Write, Event
<1>5. files[Temp(p)].bytes = 0 => Agrees(p)
  <2>1. PICK k \in 0 .. EventBytes[phase[p]] : files[Temp(p)] = Event(p, k)
    BY <1>2 DEF Staged
  <2>2. ASSUME k = 0 PROVE [files EXCEPT ![Temp(p)] = Event(p, 0)] = files
    BY <1>3, <2>1, <2>2 DEF Partition
  <2>3. files[Temp(p)].bytes = k
    BY <2>1 DEF Event
  <2> QED BY <1>2, <2>2, <2>3 DEF Agrees
<1>6. ASSUME NEW n \in AcceptedBytes(p), files' = [files EXCEPT ![Temp(p)] = Event(p, n)],
             UNCHANGED <<pc, outcome, receipt, physical, todo, ledger>>
      PROVE  Orderly(p)' /\ WithinQuota'
  <2>1. n \in 0 .. EventBytes[phase[p]] /\ files[Temp(p)] # Absent
    <3>1. PICK k \in 0 .. EventBytes[phase[p]] : files[Temp(p)] = Event(p, k)
      BY <1>2 DEF Staged
    <3>2. files[Temp(p)].bytes \in Nat
      BY <1>3, <3>1 DEF Event
    <3> QED BY <1>3, <3>1, <3>2, EventIsFile DEF AcceptedBytes
  <2>2. Event(p, n) \in File /\ Event(p, n) # Absent /\ Event(p, n).bytes = n
    BY <2>1, EventIsFile DEF Event
  <2>3. files' \in Partition /\ files'[Temp(p)] = Event(p, n)
    BY <1>3, <1>6, <2>2 DEF Partition
  <2>4. DifferIn(files, files', Temp(p))
    BY <1>3, <1>6, <2>3 DEF DifferIn, Partition
  <2>5. /\ BytesOf(files', Present(files')) = n + BytesOf(files, Present(files) \ {Temp(p)})
        /\ BytesOf(files', Present(files') \ {Temp(p)}) =
              BytesOf(files, Present(files) \ {Temp(p)})
        /\ FilesOf(Present(files')) = FilesOf(Present(files))
    <3>1. files'[Temp(p)] # Absent /\ files'[Temp(p)].bytes = n
      BY <2>2, <2>3
    <3>2. BytesOf(files', Present(files')) = n + BytesOf(files, Present(files) \ {Temp(p)})
      BY <2>4, <3>1, Written
    <3>3. BytesOf(files', Present(files') \ {Temp(p)}) = BytesOf(files, Present(files) \ {Temp(p)})
      BY <2>4, RestStays
    <3>4. FilesOf(Present(files')) = FilesOf(Present(files))
      BY <2>1, <2>4, <3>1, Written
    <3> QED BY <3>2, <3>3, <3>4
  <2>6. BytesOf(files, Present(files) \ {Temp(p)}) \in Nat
    BY PresentIsFinite
  <2>7. WithinQuota'
    <3>1. BytesOf(files', Present(files')) <= ByteLimit
      BY <1>2, <1>3, <2>1, <2>5, <2>6, LimitAssumption
    <3>2. FilesOf(Present(files)) <= FileLimit
      BY PresentIsFinite, LimitAssumption DEF WithinQuota, Overfull, FilesOf
    <3>3. BytesOf(files', Present(files')) \in Nat /\ FilesOf(Present(files)) \in Nat
      BY <2>1, <2>5, <2>6, PresentIsFinite DEF FilesOf
    <3> QED BY <2>5, <3>1, <3>2, <3>3, LimitAssumption DEF WithinQuota, Overfull
  <2>8. Room(p)'
    BY <1>2, <1>3, <1>6, <2>5 DEF Room
  <2>9. Tracks(p)'
    <3>1. Staged(p)'
      BY <1>3, <1>4, <2>1, <2>3 DEF Staged
    <3>2. [files' EXCEPT ![Temp(p)] = Event(p, 0)] = [files EXCEPT ![Temp(p)] = Event(p, 0)]
      BY <1>3, <1>6 DEF Partition
    <3> QED BY <1>2, <1>4, <1>6, <3>1, <3>2 DEF Tracks
  <2> QED BY <1>6, <2>7, <2>8, <2>9 DEF Orderly, Calm
<1>7. \/ Fail(p, "Io") /\ unchangedInside
      \/ \E n \in AcceptedBytes(p) : /\ files' = [files EXCEPT ![Temp(p)] = Event(p, n)]
                                     /\ UNCHANGED <<pc, outcome, receipt, physical, todo, ledger>>
  BY <1>2, <1>5 DEF Write
<1> QED BY <1>1, <1>6, <1>7

LEMMA OrderlyCheckStaged ==
    ASSUME QuotaInv, NEW p \in Live, CheckStaged(p)
    PROVE  Orderly(p)' /\ files' = files
<1> USE DEF QuotaInv, IInv, TypeInv, TypeOK, outside
<1>1. /\ pc[p] = "writing" /\ files' = files /\ Temp(p) \in Name
      /\ ledger[p] = [files EXCEPT ![Temp(p)] = Event(p, 0)]
  BY LiveAssumption, Names DEF CheckStaged, Orderly, Tracks
<1>2. ledger'[p] = files
  <2>1. ledger'[p] = [ledger[p] EXCEPT ![Temp(p)] = files[Temp(p)]]
    BY DEF CheckStaged
  <2> QED BY <1>1, <2>1 DEF Partition
<1>3. CASE Fail(p, "Io")
  BY <1>1, <1>3, FailOrderly DEF Errors, Alarms
<1>4. CASE pc' = [pc EXCEPT ![p] = "renaming"] /\ UNCHANGED outcome
  BY <1>1, <1>2, <1>4 DEF Orderly, Tracks, Calm, Room
<1> QED BY <1>2, <1>3, <1>4 DEF CheckStaged

LEMMA OrderlyRename ==
    ASSUME QuotaInv, NEW p \in Live, Rename(p)
    PROVE  Orderly(p)' /\ WithinQuota'
<1> USE DEF QuotaInv, IInv, TypeInv, TypeOK, outside, unchangedInside
<1>1. CASE \E e \in {"Collision", "Io"} : Fail(p, e) /\ unchangedInside
  <2>1. Orderly(p)'
    BY <1>1, FailOrderly DEF Errors, Alarms
  <2> QED BY <1>1, <2>1 DEF WithinQuota
<1>2. CASE /\ files[Temp(p)] # Absent /\ files[Target(p)] = Absent
           /\ files' = [files EXCEPT ![Target(p)] = files[Temp(p)], ![Temp(p)] = Absent]
           /\ outcome' = [outcome EXCEPT ![p].publication = "Published",
                                         ![p].staging = "Published"]
           /\ pc' = [pc EXCEPT ![p] = "renamed"]
           /\ UNCHANGED <<receipt, physical, todo, ledger>>
  <2>1. /\ Temp(p) \in Name /\ Target(p) \in Name /\ Target(p) # Temp(p)
        /\ pc[p] = "renaming" /\ ledger[p] = files /\ phase' = phase
    BY LiveAssumption, Names, TargetIsFinal DEF Rename, Orderly, Tracks
  <2>2. /\ files' \in Partition /\ files'[Target(p)] = files[Temp(p)] /\ files'[Temp(p)] = Absent
        /\ \A x \in Name \ {Target(p), Temp(p)} : files'[x] = files[x]
    BY <1>2, <2>1 DEF Partition
  <2>3. WithinQuota'
    <3>1. files[Temp(p)] # Absent /\ files[Target(p)] = Absent
      BY <1>2
    <3>2. BytesOf(files', Present(files')) = BytesOf(files, Present(files))
      BY <2>1, <2>2, <3>1, Moved
    <3>3. FilesOf(Present(files')) = FilesOf(Present(files))
      BY <2>1, <2>2, <3>1, Moved
    <3> QED BY <3>2, <3>3 DEF WithinQuota, Overfull
  <2>4. Renamed(p)' = files'
    BY <1>2, <2>1 DEF Renamed, Target
  <2>5. phase[p] = "finish" => files'[Start(p)] = receipt[p]
    <3>1. phase[p] = "finish" => /\ files[Start(p)] = receipt[p]
                                 /\ Start(p) \in Name \ {Target(p), Temp(p)}
      BY <2>1, LiveAssumption, Names DEF Local, OwnStartKept, Target, Start, Temp
    <3> QED BY <2>2, <3>1
  <2>6. Verified(p)'
    BY <1>2, <2>1, <2>4, <2>5 DEF Verified
  <2>7. outcome'[p].error = outcome[p].error
    BY <1>2 DEF Outcome
  <2> QED BY <1>2, <2>3, <2>6, <2>7 DEF Orderly, Tracks, Calm, Room
<1> QED BY <1>1, <1>2 DEF Rename

LEMMA OrderlyCheckPublished ==
    ASSUME QuotaInv, NEW p \in Live, CheckPublished(p)
    PROVE  Orderly(p)' /\ files' = files
<1> USE DEF QuotaInv, IInv, TypeInv, TypeOK, outside
<1>1. pc[p] = "renamed" /\ files' = files /\ Verified(p)
  BY DEF CheckPublished, Orderly, Tracks
<1>2. CASE Fail(p, "Io")
  BY <1>1, <1>2, FailOrderly DEF Errors, Alarms
<1>3. CASE /\ ledger' = [ledger EXCEPT ![p] = Renamed(p)] /\ UNCHANGED outcome
           /\ pc' = [pc EXCEPT ![p] = "settle"]
  <2>1. ledger'[p] = files'
    BY <1>1, <1>3 DEF Verified
  <2> QED BY <1>1, <1>3, <2>1 DEF Orderly, Tracks, Calm, Room
<1> QED BY <1>1, <1>2, <1>3 DEF CheckPublished

LEMMA OrderlyCheckCleanUp ==
    ASSUME QuotaInv, NEW p \in Live, CheckCleanUp(p)
    PROVE  Orderly(p)' /\ files' = files
<1> USE DEF QuotaInv, IInv, TypeInv, TypeOK, outside, unchangedInside
<1>1. pc[p] = "cleanup" /\ pc'[p] \in {"cleaning", "settle"} /\ outcome[p].error # "none"
      /\ outcome' = outcome /\ files' = files
  BY DEF CheckCleanUp, Orderly, Tracks
<1> QED BY <1>1 DEF Orderly, Tracks, Calm, Room

LEMMA OrderlyCleanUp ==
    ASSUME QuotaInv, NEW p \in Live, CleanUp(p)
    PROVE  Orderly(p)' /\ WithinQuota'
<1> USE DEF QuotaInv, IInv, TypeInv, TypeOK, outside
<1>1. pc[p] = "cleaning" /\ pc' = [pc EXCEPT ![p] = "settle"] /\ outcome[p].error # "none"
  BY DEF CleanUp, Orderly, Tracks
<1>2. outcome'[p].error = outcome[p].error
  BY DEF CleanUp, Outcome
<1>3. CASE files' = [files EXCEPT ![Temp(p)] = Absent]
  <2>1. Temp(p) \in Name
    BY LiveAssumption, Names
  <2>2. files' \in Partition /\ files'[Temp(p)] = Absent
    BY <1>3, <2>1 DEF Partition
  <2>3. DifferIn(files, files', Temp(p))
    BY <1>3, <2>1, <2>2 DEF DifferIn, Partition
  <2>4. WithinQuota'
    BY <2>2, <2>3, Emptied DEF WithinQuota
  <2> QED BY <1>1, <1>2, <2>4 DEF Orderly, Tracks, Calm, Room
<1>4. CASE files' = files
  BY <1>1, <1>2, <1>4 DEF Orderly, Tracks, Calm, Room, WithinQuota
<1> QED BY <1>3, <1>4 DEF CleanUp

LEMMA OrderlySettle ==
    ASSUME QuotaInv, NEW p \in Live, Settle(p)
    PROVE  Orderly(p)' /\ files' = files
<1> USE DEF QuotaInv, IInv, TypeInv, TypeOK
<1>1. pc[p] = "settle" /\ pc' = [pc EXCEPT ![p] = "release"] /\ files' = files
  BY DEF Settle
<1>2. outcome[p].error = "none" => Agrees(p)
  BY <1>1 DEF Orderly, Tracks, Agrees
<1>3. outcome'[p].error \in {outcome[p].error, "Io"}
  <2>1. CASE UNCHANGED outcome
    BY <2>1
  <2>2. ASSUME NEW e \in {"IdentityChanged", "Io"}, e = "IdentityChanged" => ~Agrees(p),
               outcome' = [outcome EXCEPT ![p].error = IF @ = "none" THEN e ELSE @]
        PROVE  outcome'[p].error \in {outcome[p].error, "Io"}
    <3>1. outcome'[p].error = IF outcome[p].error = "none" THEN e ELSE outcome[p].error
      BY <2>2 DEF Outcome
    <3> QED BY <1>2, <2>2, <3>1
  <2> QED BY <2>1, <2>2 DEF Settle
<1> QED BY <1>1, <1>3 DEF Orderly, Tracks, Calm, Room, Alarms

LEMMA OrderlyOwn ==
    ASSUME QuotaInv, NEW p \in Live, StepOf(p)
    PROVE  Orderly(p)' /\ WithinQuota'
<1>1. files' = files => WithinQuota'
  BY DEF QuotaInv, WithinQuota
<1> QED BY <1>1, OrderlyLifecycle, OrderlyScan, OrderlyCheck, OrderlyUnlink, OrderlyCreate,
           OrderlyWrite, OrderlyCheckStaged, OrderlyRename, OrderlyCheckPublished,
           OrderlyCheckCleanUp, OrderlyCleanUp, OrderlySettle
        DEF StepOf, Proceed, Transact

LEMMA QuotaInit == Init => QuotaInv
<1> SUFFICES ASSUME Init PROVE QuotaInv
  OBVIOUS
<1>1. IInv
  BY Initially
<1>2. WithinQuota /\ OnlyOwnNames
  BY HistoryAssumption
  DEF Init, LeftBehind, WithinQuota, OnlyOwnNames, OtherName, Name
<1>3. \A p \in Live : Orderly(p)
  BY DEF Init, Orderly, Tracks, Calm, Room, Alarms, NoOutcome
<1> QED BY <1>1, <1>2, <1>3 DEF QuotaInv

LEMMA QuotaStep == QuotaInv /\ [Next]_vars => QuotaInv'
<1> SUFFICES ASSUME QuotaInv, [Next]_vars PROVE QuotaInv'
  OBVIOUS
<1>1. IInv'
  BY Inductive DEF QuotaInv
<1>2. CASE UNCHANGED vars
  <2>1. WithinQuota' /\ OnlyOwnNames'
    BY <1>2 DEF QuotaInv, vars, WithinQuota, OnlyOwnNames
  <2>2. ASSUME NEW p \in Live PROVE Orderly(p)'
    <3>1. Orderly(p)
      BY DEF QuotaInv
    <3>2. Tracks(p)'
      <4>1. (Staged(p) => Staged(p)') /\ (Verified(p) => Verified(p)')
        BY <1>2 DEF vars, Staged, Event, Verified, Renamed, Target
      <4>2. Event(p, 0)' = Event(p, 0)
        BY <1>2 DEF vars, Event
      <4> QED BY <1>2, <3>1, <4>1, <4>2 DEF vars, Orderly, Tracks
    <3>3. Calm(p)'
      BY <1>2, <3>1 DEF vars, Orderly, Calm
    <3>4. Room(p)'
      <4>1. Reservation(p)' = Reservation(p)
        BY <1>2 DEF vars, Reservation
      <4> QED BY <1>2, <3>1, <4>1 DEF vars, Orderly, Room
    <3> QED BY <3>2, <3>3, <3>4 DEF Orderly
  <2> QED BY <1>1, <2>1, <2>2 DEF QuotaInv
<1>3. ASSUME NEW p \in Live, StepOf(p) PROVE QuotaInv'
  <2>1. OnlyOwnNames'
    BY <1>3, OtherNamesStay DEF QuotaInv
  <2> QED BY <1>1, <1>3, <2>1, OrderlyOwn, OrderlyOther DEF QuotaInv
<1> QED BY <1>2, <1>3 DEF Next, StepOf

LEMMA QuotaInvariance == Spec => []QuotaInv
BY QuotaInit, QuotaStep, PTL DEF Spec

(* No interleaving of transactions, crashes and failures lets the partition*)
(* grow past its limits, staging and abandoned files counted.              *)
THEOREM QuotaKept == Spec => []WithinQuota
<1>1. QuotaInv => WithinQuota
  BY DEF QuotaInv
<1> QED BY <1>1, QuotaInvariance, PTL

(* While every process respects the lock, no transaction takes what the    *)
(* store itself did for interference, and none finds a partition it must   *)
(* refuse.                                                                 *)
THEOREM FalseAlarmNever == Spec => []NoFalseAlarm
<1>1. QuotaInv => NoFalseAlarm
  BY DEF QuotaInv, NoFalseAlarm, Orderly, Calm, Alarms
<1> QED BY <1>1, QuotaInvariance, PTL

=============================================================================
