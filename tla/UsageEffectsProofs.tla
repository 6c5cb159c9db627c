------------------------- MODULE UsageEffectsProofs -------------------------
(***************************************************************************)
(* What a transaction does to the rest of its partition and to the log a   *)
(* reader sees, proved for every set of invocations, every history and     *)
(* every limit: that the store implements UsageLog, which records go       *)
(* first, that the outcome tells what went, and what remains true when a   *)
(* process ignores the lock, as often as it likes.                         *)
(*                                                                         *)
(* Each step of the store is one step of the log or shows a reader         *)
(* nothing: a rename is the only step that publishes, an unlink the only   *)
(* one that forgets.  Between its scan and its last unlink an invocation   *)
(* sees the partition of its scan without the part of its plan that it has *)
(* carried out (Executes); which records go first, and what the outcome    *)
(* tells, follow from the order of the plan.  Under interference nothing   *)
(* is known of the partition, only of what the invocation itself remembers *)
(* of its scan and its own steps (Memory), and that a file stays as it was *)
(* between a check and the step after it unless the other process came in  *)
(* between (Window).                                                       *)
(***************************************************************************)
EXTENDS UsageStoreProofs, UsageStoreMeddled

-----------------------------------------------------------------------------
(* The log                                                                 *)

(* What the outcome says about the stage of an invocation: a publication   *)
(* is reported from the rename until the lock is released, and a receipt   *)
(* is made of nothing else.                                                *)
Announced(p) ==
    /\ outcome[p].publication = "Published" =>
          pc[p] \in {"renamed", "cleanup", "cleaning", "settle", "release"}
    /\ pc[p] = "renamed" => outcome[p].publication = "Published"
    /\ phase[p] = "start" /\ receipt[p] # Absent /\ pc[p] \in {"settle", "release"} =>
          outcome[p].publication = "Published"

LogInv == IInv /\ \A p \in Live : Announced(p)

LEMMA FailAnnounces ==
    ASSUME TypeOK, NEW p \in Live, NEW e \in Errors, Fail(p, e)
    PROVE  /\ outcome'[p].publication = outcome[p].publication
           /\ pc'[p] \in {"cleanup", "settle"}
<1>1. outcome[p] \in Outcome
  BY DEF TypeOK
<1>2. [outcome[p] EXCEPT !.error = e].publication = outcome[p].publication
  BY <1>1 DEF Outcome
<1> QED BY <1>2 DEF TypeOK, Fail

(* The three ways in which a step treats the publication of its invocation. *)
Publishes(p) ==
    /\ Rename(p) /\ pc'[p] = "renamed" /\ outcome'[p].publication = "Published"
    /\ files' = [files EXCEPT ![Target(p)] = files[Temp(p)], ![Temp(p)] = Absent]

Carries(p) ==
    /\ outcome'[p].publication = outcome[p].publication /\ phase'[p] = phase[p]
    /\ {pc[p], pc'[p]} \cap (Stopped \cup {"command"}) = {}

LEMMA TransactionCarries ==
    ASSUME IInv, NEW p \in Live, Transact(p)
    PROVE  /\ Carries(p) \/ Publishes(p)
           /\ pc[p] \notin {"new", "lock", "release"}
<1> USE DEF IInv, TypeInv, TypeOK, Carries, Publishes, outside, unchangedInside, Stopped
<1>1. outcome[p] \in Outcome
  OBVIOUS
<1>2. ASSUME NEW e \in Errors, Fail(p, e), phase' = phase,
             pc[p] \notin Stopped \cup {"command"}
      PROVE  Carries(p)
  BY <1>2, FailAnnounces
<1>3. CASE ScanAndPlan(p)
  BY <1>2, <1>3, ScanErrorIsError DEF ScanAndPlan, Errors
<1>4. CASE CheckUnlink(p)
  BY <1>2, <1>4 DEF CheckUnlink, Errors
<1>5. CASE Unlink(p)
  <2>1. CASE Fail(p, "Io")
    BY <1>2, <1>5, <2>1 DEF Unlink, Errors
  <2>2. ASSUME NEW n \in todo[p], pc' = [pc EXCEPT ![p] = "unlink"],
               outcome' = [outcome EXCEPT ![p].removed = @ + 1,
                                          ![p].partial = TearsPair(p, n)]
        PROVE  Carries(p)
    <3>1. outcome'[p].publication = outcome[p].publication
      BY <1>1, <2>2 DEF Outcome
    <3> QED BY <1>5, <2>2, <3>1 DEF Unlink
  <2> QED BY <1>5, <2>1, <2>2 DEF Unlink
<1>6. CASE CheckCreate(p)
  BY <1>2, <1>6 DEF CheckCreate, Errors
<1>7. CASE Create(p)
  <2>1. CASE Fail(p, "Io")
    BY <1>2, <1>7, <2>1 DEF Create, Errors
  <2>2. CASE outcome' = [outcome EXCEPT ![p].staging = "MayRemain"]
             /\ pc' = [pc EXCEPT ![p] = "writing"]
    BY <1>1, <1>7, <2>2 DEF Create, Outcome
  <2>3. CASE outcome' = [outcome EXCEPT ![p].staging = "MayRemain", ![p].error = "Io"]
             /\ pc' = [pc EXCEPT ![p] = "cleanup"]
    BY <1>1, <1>7, <2>3 DEF Create, Outcome
  <2> QED BY <1>7, <2>1, <2>2, <2>3 DEF Create
<1>8. CASE Write(p)
  BY <1>2, <1>8 DEF Write, Errors
<1>9. CASE CheckStaged(p)
  BY <1>2, <1>9 DEF CheckStaged, Errors
<1>10. CASE Rename(p)
  <2>1. CASE \E e \in Errors : Fail(p, e)
    BY <1>2, <1>10, <2>1 DEF Rename
  <2>2. CASE /\ files' = [files EXCEPT ![Target(p)] = files[Temp(p)], ![Temp(p)] = Absent]
             /\ outcome' = [outcome EXCEPT ![p].publication = "Published",
                                           ![p].staging = "Published"]
             /\ pc' = [pc EXCEPT ![p] = "renamed"]
    BY <1>1, <1>10, <2>2 DEF Rename, Outcome
  <2> QED BY <1>10, <2>1, <2>2 DEF Rename, Errors
<1>11. CASE CheckPublished(p)
  BY <1>2, <1>11 DEF CheckPublished, Errors
<1>12. CASE CleanUp(p)
  BY <1>1, <1>12 DEF CleanUp, Outcome
<1>13. CASE Settle(p)
  BY <1>1, <1>13 DEF Settle, Outcome
<1>14. pc[p] \notin {"new", "lock", "release"}
  BY DEF Transact, ScanAndPlan, CheckUnlink, Unlink, CheckCreate, Create, Write,
         CheckStaged, Rename, CheckPublished, CheckCleanUp, CleanUp, Settle
<1>15. CASE CheckCleanUp(p)
  BY <1>15 DEF CheckCleanUp
<1> QED BY <1>3, <1>4, <1>5, <1>6, <1>7, <1>8, <1>9, <1>10, <1>11, <1>12, <1>13, <1>14,
           <1>15
        DEF Transact

-----------------------------------------------------------------------------
(* LogInv is inductive                                                     *)

LEMMA AnnouncedInTransaction ==
    ASSUME LogInv, NEW p \in Live, Transact(p)
    PROVE  Announced(p)'
<1> USE DEF LogInv, IInv, TypeInv, TypeOK, Announced, Stopped
<1>1. CASE Publishes(p)
  BY <1>1 DEF Publishes
<1>2. CASE Carries(p)
  <2>1. outcome'[p].publication = outcome[p].publication /\ phase'[p] = phase[p]
    BY <1>2 DEF Carries
  <2>2. CASE CheckPublished(p)
    BY <2>1, <2>2 DEF CheckPublished, Fail
  <2>3. CASE Settle(p)
    BY <2>1, <2>3 DEF Settle
  <2>4. CASE CheckCleanUp(p) \/ CleanUp(p)
    <3>1. pc[p] \in {"cleanup", "cleaning"} /\ pc'[p] \in {"cleaning", "settle"}
          /\ receipt' = receipt
      BY <2>4 DEF CheckCleanUp, CleanUp, unchangedInside
    <3>2. phase[p] = "start" => receipt[p] = Absent
      BY <3>1 DEF Local, Evidence
    <3> QED BY <2>1, <3>1, <3>2
  <2>5. CASE \/ ScanAndPlan(p) \/ CheckUnlink(p) \/ Unlink(p) \/ CheckCreate(p)
             \/ Create(p) \/ Write(p) \/ CheckStaged(p) \/ Rename(p)
    <3>1. /\ pc[p] \in {"scan", "unlink", "unlinking", "creating", "writing", "renaming"}
          /\ receipt' = receipt
      BY <2>5 DEF ScanAndPlan, CheckUnlink, Unlink, CheckCreate, Create, Write,
                  CheckStaged, Rename, unchangedInside
    <3>2. outcome'[p].publication # "Published"
      BY <2>1, <3>1
    <3>3. pc'[p] # "renamed"
      BY <1>2, <2>5, <3>1, <3>2
      DEF ScanAndPlan, CheckUnlink, Unlink, CheckCreate, Create, Write, CheckStaged,
          Rename, Fail, Outcome
    <3>4. phase[p] = "start" => receipt[p] = Absent
      BY <3>1 DEF Local, Evidence
    <3> QED BY <2>1, <3>1, <3>2, <3>3, <3>4
  <2> QED BY <2>2, <2>3, <2>4, <2>5 DEF Transact
<1> QED BY <1>1, <1>2, TransactionCarries

LEMMA AnnouncedOutside ==
    ASSUME LogInv, NEW p \in Live,
           Activate(p) \/ TryLock(p) \/ RunCommand(p) \/ Release(p) \/ Crash(p)
    PROVE  Announced(p)'
<1> USE DEF LogInv, IInv, TypeInv, TypeOK, Announced
<1>1. [NoOutcome EXCEPT !.staging = outcome[p].staging].publication = "NotPublished"
  BY DEF NoOutcome
<1>2. CASE Activate(p)
  BY <1>2 DEF Activate
<1>3. CASE TryLock(p)
  BY <1>3 DEF TryLock, NoOutcome
<1>4. CASE RunCommand(p)
  BY <1>4 DEF RunCommand
<1>5. CASE Release(p)
  BY <1>1, <1>5 DEF Release, DropTransaction
<1>6. CASE Crash(p)
  BY <1>1, <1>6 DEF Crash, DropTransaction
<1> QED BY <1>2, <1>3, <1>4, <1>5, <1>6

LEMMA LogInvariance == Spec => []LogInv
<1>1. Init => LogInv
  BY Initially DEF Init, LogInv, Announced, NoOutcome
<1>2. LogInv /\ [Next]_vars => LogInv'
  <2> SUFFICES ASSUME LogInv, [Next]_vars PROVE LogInv'
    OBVIOUS
  <2>1. IInv'
    BY Inductive DEF LogInv
  <2>2. CASE UNCHANGED vars
    BY <2>1, <2>2 DEF LogInv, Announced, vars
  <2>3. ASSUME NEW p \in Live, StepOf(p), NEW q \in Live
        PROVE  Announced(q)'
    <3>1. CASE q = p
      BY <2>3, <3>1, AnnouncedInTransaction, AnnouncedOutside DEF StepOf, Proceed
    <3>2. CASE q # p
      BY <2>3, <3>2, OthersKeep DEF LogInv, IInv, TypeInv, Same, Announced
    <3> QED BY <3>1, <3>2
  <2> QED BY <2>1, <2>2, <2>3 DEF Next, StepOf, LogInv
<1> QED BY <1>1, <1>2, PTL DEF Spec

-----------------------------------------------------------------------------
(* Receipts                                                                *)

(* A transaction has no error until one ends its work, and a start that    *)
(* comes out of it with a receipt still has none.                          *)
Untroubled(p) ==
    /\ pc[p] \in {"scan", "unlink", "unlinking", "creating", "writing", "renaming", "renamed"}
          => outcome[p].error = "none"
    /\ phase[p] = "start" /\ receipt[p] # Absent /\ pc[p] \in {"settle", "release"}
          => outcome[p].error = "none"

LEMMA TroubleEnds ==
    ASSUME IInv, NEW p \in Live, Transact(p), receipt' = receipt,
           pc[p] # "settle", pc'[p] \in {"cleanup", "cleaning", "settle"}
    PROVE  Untroubled(p)'
<1>1. phase' = phase /\ pc[p] \notin {"settle", "release", "command"}
  BY DEF Transact, ScanAndPlan, CheckUnlink, Unlink, CheckCreate, Create, Write, CheckStaged,
         Rename, CheckPublished, CheckCleanUp, CleanUp, Settle, outside
<1>2. phase[p] = "start" => receipt[p] = Absent
  BY <1>1 DEF IInv, Local, Evidence
<1> QED BY <1>1, <1>2 DEF Untroubled

LEMMA UntroubledInTransaction ==
    ASSUME IInv, NEW p \in Live, Untroubled(p), Transact(p)
    PROVE  Untroubled(p)'
<1> USE DEF IInv, TypeInv, TypeOK, outside, unchangedInside
<1>1. outcome[p] \in Outcome
  OBVIOUS
<1>2. ASSUME NEW e \in Errors, Fail(p, e), receipt' = receipt, pc[p] # "settle"
      PROVE  Untroubled(p)'
  BY <1>2, FailKeeps, TroubleEnds
<1>3. ASSUME pc[p] \in {"scan", "unlink", "unlinking", "creating", "writing", "renaming"},
             pc'[p] \in {"unlink", "unlinking", "creating", "writing", "renaming", "renamed"},
             outcome'[p].error = outcome[p].error
      PROVE  Untroubled(p)'
  BY <1>3 DEF Untroubled
<1>4. CASE ScanAndPlan(p)
  BY <1>2, <1>3, <1>4, ScanErrorIsError DEF ScanAndPlan, Errors
<1>5. CASE CheckUnlink(p)
  BY <1>2, <1>3, <1>5 DEF CheckUnlink, Errors
<1>6. CASE Unlink(p)
  <2>1. CASE Fail(p, "Io") /\ unchangedInside
    BY <1>2, <1>6, <2>1 DEF Unlink, Errors
  <2>2. CASE \E n \in todo[p] :
               /\ outcome' = [outcome EXCEPT ![p].removed = @ + 1,
                                             ![p].partial = TearsPair(p, n)]
               /\ pc' = [pc EXCEPT ![p] = "unlink"]
    <3>1. outcome'[p].error = outcome[p].error
      BY <1>1, <2>2 DEF Outcome
    <3> QED BY <1>3, <1>6, <2>2, <3>1 DEF Unlink
  <2> QED BY <1>6, <2>1, <2>2 DEF Unlink
<1>7. CASE CheckCreate(p)
  BY <1>2, <1>3, <1>7 DEF CheckCreate, Errors
<1>8. CASE Create(p)
  <2>1. CASE Fail(p, "Io") /\ unchangedInside
    BY <1>2, <1>8, <2>1 DEF Create, Errors
  <2>2. CASE outcome' = [outcome EXCEPT ![p].staging = "MayRemain"]
             /\ pc' = [pc EXCEPT ![p] = "writing"]
    <3>1. outcome'[p].error = outcome[p].error
      BY <1>1, <2>2 DEF Outcome
    <3> QED BY <1>3, <1>8, <2>2, <3>1 DEF Create
  <2>3. CASE pc' = [pc EXCEPT ![p] = "cleanup"] /\ receipt' = receipt
    BY <1>8, <2>3, TroubleEnds DEF Create, Transact
  <2> QED BY <1>8, <2>1, <2>2, <2>3 DEF Create
<1>9. CASE Write(p)
  BY <1>2, <1>3, <1>9 DEF Write, Errors
<1>10. CASE CheckStaged(p)
  BY <1>2, <1>3, <1>10 DEF CheckStaged, Errors
<1>11. CASE Rename(p)
  <2>1. CASE \E e \in Errors : Fail(p, e) /\ unchangedInside
    BY <1>2, <1>11, <2>1 DEF Rename
  <2>2. CASE /\ outcome' = [outcome EXCEPT ![p].publication = "Published",
                                           ![p].staging = "Published"]
             /\ pc' = [pc EXCEPT ![p] = "renamed"]
    <3>1. outcome'[p].error = outcome[p].error
      BY <1>1, <2>2 DEF Outcome
    <3> QED BY <1>3, <1>11, <2>2, <3>1 DEF Rename
  <2> QED BY <1>11, <2>1, <2>2 DEF Rename, Errors
<1>12. CASE CheckPublished(p)
  <2>1. CASE (\E e \in Errors : Fail(p, e)) /\ UNCHANGED receipt
    BY <1>2, <1>12, <2>1 DEF CheckPublished
  <2>2. CASE pc' = [pc EXCEPT ![p] = "settle"] /\ UNCHANGED outcome
    BY <1>12, <2>2 DEF CheckPublished, Untroubled
  <2> QED BY <1>12, <2>1, <2>2 DEF CheckPublished, Errors
<1>13. CASE CheckCleanUp(p) \/ CleanUp(p)
  BY <1>13, TroubleEnds DEF CheckCleanUp, CleanUp
<1>14. CASE Settle(p)
  BY <1>14 DEF Settle, Untroubled
<1> QED BY <1>4, <1>5, <1>6, <1>7, <1>8, <1>9, <1>10, <1>11, <1>12, <1>13, <1>14
        DEF Transact

LEMMA UntroubledOutside ==
    ASSUME IInv, NEW p \in Live, Untroubled(p),
           Activate(p) \/ TryLock(p) \/ RunCommand(p) \/ Release(p) \/ Crash(p)
    PROVE  Untroubled(p)'
<1> USE DEF IInv, TypeInv, TypeOK
<1>1. CASE TryLock(p) /\ pc'[p] = "scan"
  <2>1. outcome'[p].error = "none"
    BY <1>1 DEF TryLock, NoOutcome
  <2> QED BY <1>1, <2>1 DEF Untroubled
<1>2. CASE pc'[p] \in {"new", "lock", "command"} \cup Stopped
  BY <1>2 DEF Untroubled, Stopped
<1> QED BY <1>1, <1>2 DEF Activate, TryLock, RunCommand, Release, Crash, Stopped

(* A receipt describes a start that was published and verified by a        *)
(* transaction without an error, and that is still as it was or has been   *)
(* evicted.                                                                *)
THEOREM ReceiptsAreEvidence == Spec => []ReceiptIsEvidence
<1>1. Init => \A p \in Live : Untroubled(p)
  BY DEF Init, Untroubled
<1>2. LogInv /\ (\A p \in Live : Untroubled(p)) /\ [Next]_vars
      => (\A p \in Live : Untroubled(p))'
  <2> SUFFICES ASSUME LogInv, \A p \in Live : Untroubled(p), [Next]_vars
               PROVE  \A p \in Live : Untroubled(p)'
    OBVIOUS
  <2>1. CASE UNCHANGED vars
    BY <2>1 DEF Untroubled, vars
  <2>2. ASSUME NEW p \in Live, StepOf(p), NEW q \in Live
        PROVE  Untroubled(q)'
    <3>1. CASE q = p
      BY <2>2, <3>1, UntroubledInTransaction, UntroubledOutside DEF StepOf, Proceed, LogInv
    <3>2. CASE q # p
      BY <2>2, <3>2, OthersKeep DEF LogInv, IInv, TypeInv, Same, Untroubled
    <3> QED BY <3>1, <3>2
  <2> QED BY <2>1, <2>2 DEF Next, StepOf
<1>3. LogInv /\ (\A p \in Live : Untroubled(p)) => ReceiptIsEvidence
  BY DEF LogInv, IInv, Local, Evidence, Announced, Untroubled, ReceiptIsEvidence
<1> QED BY <1>1, <1>2, <1>3, LogInvariance, PTL DEF Spec

-----------------------------------------------------------------------------
(* What a reader of the log sees of a step                                 *)

Started == {i \in Id : files[Start(i)] # Absent}
Finished == {i \in Id : files[Finish(i)] # Absent}
Stages == [p \in Live |-> StageOf(p)]

LEMMA StageOfOthers ==
    ASSUME TypeOK, NEW p \in Live, StepOf(p)
    PROVE  /\ \A q \in Live \ {p} : StageOf(q)' = StageOf(q)
           /\ Stages' = [Stages EXCEPT ![p] = StageOf(p)']
<1>1. \A q \in Live \ {p} : StageOf(q)' = StageOf(q)
  BY OthersKeep DEF Same, StageOf
<1> QED BY <1>1 DEF Stages

(* The finals, unlike the rest, are what readers see.                      *)
LEMMA FinalsSeen ==
    ASSUME \A n \in FinalName : (files'[n] = Absent) <=> (files[n] = Absent)
    PROVE  Started' = Started /\ Finished' = Finished
BY Names DEF Started, Finished

LEMMA Unseen ==
    ASSUME TypeOK, NEW p \in Live, StepOf(p), StageOf(p)' = StageOf(p),
           Started' = Started, Finished' = Finished
    PROVE  UNCHANGED Log!logVars
<1>1. Stages' = Stages
  BY StageOfOthers DEF Stages
<1> QED BY <1>1 DEF Log!logVars, Stages, Started, Finished

LEMMA Seen ==
    ASSUME TypeOK, NEW p \in Live, StepOf(p), StageOf(p) # "over", StageOf(p)' = "over",
           files' = files
    PROVE  Log!GiveUp(p)
<1>1. Stages' = [Stages EXCEPT ![p] = "over"]
  BY StageOfOthers
<1> QED BY <1>1 DEF Log!GiveUp, Stages, Started, Finished

(* Everything around the transactions: begun and over, or nothing at all.  *)
LEMMA LifecycleSeen ==
    ASSUME LogInv, NEW p \in Live,
           Activate(p) \/ TryLock(p) \/ RunCommand(p) \/ Release(p) \/ Crash(p)
    PROVE  Log!LogNext \/ UNCHANGED Log!logVars
<1> USE DEF LogInv, IInv, TypeInv, TypeOK
<1>1. files' = files /\ StepOf(p)
  BY DEF Activate, TryLock, RunCommand, Release, Crash, unchangedInside, StepOf, Proceed
<1>2. Started' = Started /\ Finished' = Finished
  BY <1>1, FinalsSeen
<1>3. StageOf(p)' = StageOf(p) \/ StageOf(p)' = "over"
  <2> USE DEF StageOf, Stopped, Announced, Local, Evidence
  <2>1. CASE Activate(p)
    BY <2>1 DEF Activate
  <2>2. CASE TryLock(p)
    BY <2>2 DEF TryLock, NoOutcome
  <2>3. CASE RunCommand(p)
    BY <2>3 DEF RunCommand
  <2>4. CASE Release(p)
    BY <2>4 DEF Release
  <2>5. CASE Crash(p)
    BY <2>5 DEF Crash
  <2> QED BY <2>1, <2>2, <2>3, <2>4, <2>5
<1> QED BY <1>1, <1>2, <1>3, Unseen, Seen DEF Log!LogNext

(* A step that does not publish hides everything but a removal.            *)
LEMMA CarriedSeen ==
    ASSUME LogInv, NEW p \in Live, Transact(p), Carries(p)
    PROVE  Log!LogNext \/ UNCHANGED Log!logVars
<1> USE DEF LogInv, IInv, TypeInv, TypeOK
<1>1. StepOf(p) /\ StageOf(p)' = StageOf(p) /\ p \in Id
  BY LiveAssumption DEF StepOf, Proceed, Carries, StageOf, Stopped
<1>2. CASE \E n \in Name : files[n] # Absent /\ files' = [files EXCEPT ![n] = Absent]
  <2>1. PICK n \in Name : files[n] # Absent /\ files' = [files EXCEPT ![n] = Absent]
    BY <1>2
  <2>2. Stages' = Stages
    BY <1>1, StageOfOthers DEF Stages
  <2>3. \A m \in Name : files'[m] = IF m = n THEN Absent ELSE files[m]
    BY <2>1 DEF Partition
  <2>4. CASE n.kind = "start" /\ n \in FinalName
    <3>1. n = Start(n.id) /\ n.id \in Id
      BY <2>4 DEF FinalName, Start
    <3>2. Started' = Started \ {n.id} /\ Finished' = Finished /\ n.id \in Started
      BY <2>1, <2>3, <3>1, Names DEF Started, Finished, Start, Finish
    <3>3. Log!Forget(n.id)
      BY <2>2, <3>2 DEF Log!Forget, Started, Finished, Stages
    <3> QED BY <3>1, <3>3 DEF Log!LogNext
  <2>5. CASE n.kind = "finish" /\ n \in FinalName
    <3>1. n = Finish(n.id) /\ n.id \in Id
      BY <2>5 DEF FinalName, Finish
    <3>2. Finished' = Finished \ {n.id} /\ Started' = Started /\ n.id \in Finished
      BY <2>1, <2>3, <3>1, Names DEF Started, Finished, Start, Finish
    <3>3. Log!Forget(n.id)
      BY <2>2, <3>2 DEF Log!Forget, Started, Finished, Stages
    <3> QED BY <3>1, <3>3 DEF Log!LogNext
  <2>6. CASE n \notin FinalName
    BY <1>1, <2>3, <2>6, Names, FinalsSeen, Unseen
  <2> QED BY <2>4, <2>5, <2>6 DEF FinalName, Kinds
<1>3. CASE \A n \in FinalName : files'[n] = files[n]
  BY <1>1, <1>3, FinalsSeen, Unseen
<1>4. \/ \A n \in FinalName : files'[n] = files[n]
      \/ \E n \in Name : files[n] # Absent /\ files' = [files EXCEPT ![n] = Absent]
  <2>1. Temp(p) \in Name /\ Temp(p) \notin FinalName
    BY <1>1, Names
  <2>2. CASE Unlink(p)
    BY <2>2 DEF Unlink, unchangedInside
  <2>3. CASE Create(p) \/ Write(p) \/ CleanUp(p)
    <3>1. files' = files \/ \E f : files' = [files EXCEPT ![Temp(p)] = f]
      BY <2>3 DEF Create, Write, CleanUp, unchangedInside
    <3>2. \A f : \A n \in FinalName : [files EXCEPT ![Temp(p)] = f][n] = files[n]
      BY <1>1, <2>1, Names DEF Partition
    <3> QED BY <3>1, <3>2
  <2>4. CASE Rename(p)
    <3>1. ~(pc' = [pc EXCEPT ![p] = "renamed"]
            /\ outcome' = [outcome EXCEPT ![p].publication = "Published",
                                          ![p].staging = "Published"])
      BY <2>4 DEF Rename, Carries, Announced, Outcome
    <3> QED BY <2>4, <3>1 DEF Rename, unchangedInside
  <2> QED BY <2>2, <2>3, <2>4
      DEF Transact, ScanAndPlan, CheckUnlink, CheckCreate, CheckStaged, CheckPublished,
          CheckCleanUp, Settle, unchangedInside
<1> QED BY <1>2, <1>3, <1>4

(* A rename is the one step in which a start or a finish becomes visible.  *)
LEMMA PublicationSeen ==
    ASSUME LogInv, NEW p \in Live, Publishes(p)
    PROVE  Log!LogNext
<1> USE DEF LogInv, IInv, TypeInv, TypeOK
<1>1. /\ StepOf(p) /\ p \in Id
      /\ pc[p] = "renaming" /\ pc'[p] = "renamed" /\ phase' = phase
      /\ outcome[p].publication # "Published" /\ outcome'[p].publication = "Published"
  BY LiveAssumption
  DEF StepOf, Proceed, Transact, Publishes, Rename, outside, Announced
<1>2. /\ Target(p) \in Name /\ Temp(p) \in Name /\ Temp(p) \notin FinalName
      /\ Target(p) # Temp(p) /\ files[Temp(p)] # Absent
  BY <1>1, Names, TargetIsFinal, EventIsFile, LimitAssumption
  DEF Local, StagingFile, Full, Kinds
<1>3. \A n \in FinalName : files'[n] = IF n = Target(p) THEN files[Temp(p)] ELSE files[n]
  <2>1. FinalName \subseteq Name
    BY <1>1, Names
  <2> QED BY <1>2, <2>1 DEF Publishes, Partition
<1>4. ASSUME NEW i \in Id
      PROVE  /\ files'[Start(i)] = IF Target(p) = Start(i) THEN files[Temp(p)] ELSE files[Start(i)]
             /\ files'[Finish(i)] = IF Target(p) = Finish(i) THEN files[Temp(p)]
                                    ELSE files[Finish(i)]
             /\ Target(p) = Start(i) <=> i = p /\ phase[p] = "start"
             /\ Target(p) = Finish(i) <=> i = p /\ phase[p] = "finish"
  <2>1. Start(i) \in FinalName /\ Finish(i) \in FinalName
    BY Names
  <2>2. /\ Target(p) = Start(i) <=> i = p /\ phase[p] = "start"
        /\ Target(p) = Finish(i) <=> i = p /\ phase[p] = "finish"
    BY DEF Target, Start, Finish
  <2> QED BY <1>3, <2>1, <2>2
<1>5. CASE phase[p] = "start"
  <2>1. StageOf(p) = "idle" /\ StageOf(p)' = "begun"
    BY <1>1, <1>5 DEF StageOf, Stopped
  <2>2. Started' = Started \cup {p} /\ Finished' = Finished
    BY <1>1, <1>2, <1>4, <1>5 DEF Started, Finished
  <2>3. Stages' = [Stages EXCEPT ![p] = "begun"] /\ Stages[p] = "idle"
    BY <1>1, <2>1, StageOfOthers DEF Stages
  <2>4. Log!Begin(p)
    BY <2>2, <2>3 DEF Log!Begin, Started, Finished, Stages
  <2> QED BY <2>4 DEF Log!LogNext
<1>6. CASE phase[p] = "finish"
  <2>1. StageOf(p) = "begun" /\ StageOf(p)' = "over"
    BY <1>1, <1>6 DEF StageOf, Stopped
  <2>2. Finished' = Finished \cup {p} /\ Started' = Started
    BY <1>1, <1>2, <1>4, <1>6 DEF Started, Finished
  <2>3. Stages' = [Stages EXCEPT ![p] = "over"] /\ Stages[p] = "begun"
    BY <1>1, <2>1, StageOfOthers DEF Stages
  <2>4. p \in Started
    BY <1>1, <1>6 DEF Local, Evidence, OwnStartKept, Started, Stopped
  <2>5. Log!End(p)
    BY <2>2, <2>3, <2>4 DEF Log!End, Started, Finished, Stages
  <2> QED BY <2>5 DEF Log!LogNext
<1> QED BY <1>5, <1>6 DEF Kinds

(* The partition with its lock, staging, planning and failures implements  *)
(* the log: a start appears once and in one step, a finish once and only   *)
(* beside its start, whatever the store goes through to get there.         *)
THEOREM StoreImplementsLog == Spec => ImplementsLog
<1>1. Init => Log!LogInit
  <2> SUFFICES ASSUME Init PROVE Log!LogInit
    OBVIOUS
  <2>1. \A i \in Live : files[Start(i)] = Absent /\ files[Finish(i)] = Absent
    BY HistoryAssumption, LiveAssumption, Names DEF Init, LeftBehind, Start, Finish
  <2>2. \A p \in Live : StageOf(p) = "idle"
    BY DEF Init, StageOf, Stopped, NoOutcome
  <2> QED BY <2>1, <2>2 DEF Log!LogInit
<1>2. LogInv /\ [Next]_vars => [Log!LogNext]_(Log!logVars)
  <2> SUFFICES ASSUME LogInv, [Next]_vars
               PROVE  Log!LogNext \/ UNCHANGED Log!logVars
    OBVIOUS
  <2>1. CASE UNCHANGED vars
    BY <2>1 DEF vars, Log!logVars, StageOf
  <2>2. ASSUME NEW p \in Live, StepOf(p)
        PROVE  Log!LogNext \/ UNCHANGED Log!logVars
    BY <2>2, LifecycleSeen, CarriedSeen, PublicationSeen, TransactionCarries
    DEF StepOf, Proceed, LogInv
  <2> QED BY <2>1, <2>2 DEF Next, StepOf
<1> QED BY <1>1, <1>2, LogInvariance, PTL DEF Spec, ImplementsLog, Log!LogSpec

-----------------------------------------------------------------------------
(* Plans                                                                   *)

Plan(p) == Removals(physical[p], now[p], Reservation(p))

(* An invocation that carries out its plan: what is done of it is gone, the*)
(* rest of the partition is as it was scanned, and of a pair the finish    *)
(* goes last.                                                              *)
Executes(p) ==
    pc[p] \in {"unlink", "unlinking"} =>
        /\ physical[p] \in Partition
        /\ todo[p] \subseteq Plan(p)
        /\ \A n \in Name : files[n] = IF n \in Plan(p) \ todo[p] THEN Absent ELSE physical[p][n]
        /\ \A i \in Id : Finish(i) \in Plan(p) \ todo[p] => Start(i) \notin todo[p]
        /\ phase[p] = "finish" => physical[p][Finish(p)] = Absent

PlanInv == IInv /\ \A p \in Live : Executes(p)

LEMMA OthersPlan ==
    ASSUME TypeInv, NEW p \in Live, StepOf(p), NEW q \in Live, q # p
    PROVE  physical'[q] = physical[q]
<1> USE DEF TypeInv, TypeOK, unchangedInside, DropTransaction
<1>1. CASE physical' = physical
  BY <1>1
<1>2. CASE Release(p) \/ Crash(p)
  BY <1>2 DEF Release, Crash
<1>3. CASE ScanAndPlan(p)
  BY <1>3 DEF ScanAndPlan
<1> QED BY <1>1, <1>2, <1>3
        DEF StepOf, Proceed, Transact, Activate, TryLock, RunCommand, CheckUnlink, Unlink,
            CheckCreate, Create, Write, CheckStaged, Rename, CheckPublished, CheckCleanUp,
            CleanUp, Settle

LEMMA ExecutesOther ==
    ASSUME PlanInv, NEW p \in Live, StepOf(p), NEW q \in Live, q # p
    PROVE  Executes(q)'
<1>1. pc[q] \in {"unlink", "unlinking"} => files' = files
  BY FilesFrame DEF PlanInv, IInv, Touches, LockDiscipline, InTransaction, Holding
<1>2. Same(q) /\ physical'[q] = physical[q]
  BY OthersKeep, OthersPlan DEF PlanInv, IInv, TypeInv
<1> QED BY <1>1, <1>2 DEF PlanInv, Executes, Plan, Reservation, Same

LEMMA ExecutesScan ==
    ASSUME PlanInv, NEW p \in Live, ScanAndPlan(p)
    PROVE  Executes(p)'
<1> USE DEF PlanInv, IInv, TypeInv, TypeOK
<1>1. CASE \E e \in Errors : Fail(p, e)
  BY <1>1, FailKeeps DEF Executes
<1>2. CASE /\ ScanError(p) = "none"
           /\ physical' = [physical EXCEPT ![p] = files]
           /\ todo' = [todo EXCEPT ![p] = Removals(files, now[p], Reservation(p))]
           /\ UNCHANGED files
  <2>1. now' = now /\ phase' = phase
    BY DEF ScanAndPlan, outside
  <2>2. Plan(p)' = todo'[p] /\ physical'[p] = files
    BY <1>2, <2>1 DEF Plan, Reservation
  <2>3. phase[p] = "finish" => files[Finish(p)] = Absent
    BY <1>2 DEF ScanError, ReceiptRefusal
  <2> QED BY <1>2, <2>1, <2>2, <2>3 DEF Executes
<1> QED BY <1>1, <1>2, ScanErrorIsError DEF ScanAndPlan, Errors

LEMMA ExecutesUnlink ==
    ASSUME PlanInv, NEW p \in Live, Unlink(p)
    PROVE  Executes(p)'
<1> USE DEF PlanInv, IInv, TypeInv, TypeOK
<1>1. CASE Fail(p, "Io")
  BY <1>1, FailKeeps DEF Executes, Errors
<1>2. ASSUME NEW n \in todo[p], IsNext(p, n), files' = [files EXCEPT ![n] = Absent],
             todo' = [todo EXCEPT ![p] = @ \ {n}], UNCHANGED <<receipt, physical>>
      PROVE  Executes(p)'
  <2>1. /\ pc[p] = "unlinking" /\ n \in Name /\ Executes(p)
        /\ Plan(p)' = Plan(p) /\ phase' = phase
    BY <1>2 DEF Unlink, outside, Plan, Reservation
  <2>2. \A m \in Name : files'[m] = IF m = n THEN Absent ELSE files[m]
    BY <1>2, <2>1 DEF Partition
  <2>3. ASSUME NEW i \in Id, Finish(i) \in Plan(p) \ todo'[p]
        PROVE  Start(i) \notin todo'[p]
    <3>1. CASE Finish(i) = n
      BY <1>2, <3>1 DEF IsNext, RemovedBefore, Start, Finish
    <3>2. CASE Finish(i) # n
      BY <1>2, <2>1, <2>3, <3>2 DEF Executes
    <3> QED BY <3>1, <3>2
  <2>4. todo'[p] = todo[p] \ {n}
    BY <1>2
  <2> QED BY <1>2, <2>1, <2>2, <2>3, <2>4 DEF Executes
<1> QED BY <1>1, <1>2 DEF Unlink

LEMMA ExecutesOwn ==
    ASSUME PlanInv, NEW p \in Live, StepOf(p)
    PROVE  Executes(p)'
<1> USE DEF PlanInv, IInv, TypeInv, TypeOK
<1>1. CASE CheckUnlink(p)
  <2>1. CASE \E e \in Errors : Fail(p, e)
    BY <2>1, FailKeeps DEF Executes
  <2>2. CASE pc' = [pc EXCEPT ![p] = "unlinking"]
    BY <1>1, <2>2 DEF CheckUnlink, Executes, Plan, Reservation, outside, unchangedInside
  <2> QED BY <1>1, <2>1, <2>2 DEF CheckUnlink, Errors
<1>2. CASE pc'[p] \notin {"unlink", "unlinking"}
  BY <1>2 DEF Executes
<1>3. CASE \/ CheckCreate(p) \/ Create(p) \/ Write(p) \/ CheckStaged(p) \/ Rename(p)
           \/ CheckPublished(p) \/ CheckCleanUp(p) \/ CleanUp(p) \/ Settle(p)
  BY <1>2, <1>3
  DEF CheckCreate, Create, Write, CheckStaged, Rename, CheckPublished, CheckCleanUp, CleanUp,
      Settle, Fail
<1>4. CASE Activate(p) \/ TryLock(p) \/ RunCommand(p) \/ Release(p) \/ Crash(p)
  BY <1>2, <1>4 DEF Activate, TryLock, RunCommand, Release, Crash
<1> QED BY <1>1, <1>3, <1>4, ExecutesScan, ExecutesUnlink DEF StepOf, Proceed, Transact

LEMMA PlanInvariance == Spec => []PlanInv
<1>1. Init => PlanInv
  BY Initially DEF Init, PlanInv, Executes
<1>2. PlanInv /\ [Next]_vars => PlanInv'
  <2> SUFFICES ASSUME PlanInv, [Next]_vars PROVE PlanInv'
    OBVIOUS
  <2>1. IInv'
    BY Inductive DEF PlanInv
  <2>2. CASE UNCHANGED vars
    BY <2>1, <2>2 DEF PlanInv, Executes, Plan, Reservation, vars
  <2>3. ASSUME NEW p \in Live, StepOf(p), NEW q \in Live
        PROVE  Executes(q)'
    BY <2>3, ExecutesOwn, ExecutesOther
  <2> QED BY <2>1, <2>2, <2>3 DEF Next, StepOf, PlanInv
<1> QED BY <1>1, <1>2, PTL DEF Spec

-----------------------------------------------------------------------------
(* What goes first                                                         *)

(* Only an unlink takes a final away.                                      *)
LEMMA GoneByUnlink ==
    ASSUME IInv, NEW p \in Live, StepOf(p), NEW n \in FinalName,
           files[n] # Absent, files'[n] = Absent
    PROVE  /\ pc[p] = "unlinking" /\ n \in todo[p] /\ IsNext(p, n)
<1> USE DEF IInv, TypeInv, TypeOK, unchangedInside
<1>1. /\ n \in Name /\ Temp(p) # n /\ Temp(p) \in Name /\ Target(p) \in Name
      /\ Target(p) # Temp(p) /\ files' # files
  BY Names, TargetIsFinal
<1>2. CASE Unlink(p)
  BY <1>1, <1>2 DEF Unlink, Partition
<1>3. CASE Create(p) \/ Write(p) \/ CleanUp(p)
  <2>1. files' = files \/ \E f : files' = [files EXCEPT ![Temp(p)] = f]
    BY <1>3 DEF Create, Write, CleanUp
  <2> QED BY <1>1, <2>1 DEF Partition
<1>4. CASE Rename(p)
  BY <1>1, <1>4 DEF Rename, Partition
<1> QED BY <1>1, <1>2, <1>3, <1>4
    DEF StepOf, Proceed, Transact, Activate, TryLock, RunCommand, Release, Crash,
        ScanAndPlan, CheckUnlink, CheckCreate, CheckStaged, CheckPublished, CheckCleanUp,
        Settle

(* The only record of an invocation that has not finished is evicted only  *)
(* when no complete pair with known times is left to evict, in any         *)
(* partition and for any limits.                                           *)
THEOREM UnfinishedLast == Spec => UnfinishedGoLast
<1> DEFINE Last(i) == /\ files[Start(i)] # Absent /\ files[Finish(i)] = Absent
                      /\ files'[Start(i)] = Absent
                      => \A j \in Id : ~KnownCoverage(files, j)
<1>1. ASSUME PlanInv, [Next]_vars, NEW i \in Id,
             files[Start(i)] # Absent, files[Finish(i)] = Absent, files'[Start(i)] = Absent,
             NEW j \in Id, KnownCoverage(files, j)
      PROVE  FALSE
  <2>1. PICK p \in Live : StepOf(p)
    BY <1>1 DEF Next, StepOf, vars
  <2> DEFINE fs == physical[p]
             r == Reservation(p)
  <2>2. /\ {Start(i), Finish(i), Start(j), Finish(j)} \subseteq FinalName \cap Name
        /\ Start(i).id = i /\ Start(j).id = j /\ Start(i).kind = "start"
        /\ Start(j).kind = "start"
    BY Names DEF Start, Finish
  <2>3. pc[p] = "unlinking" /\ Start(i) \in todo[p] /\ IsNext(p, Start(i)) /\ Executes(p)
    BY <1>1, <2>1, <2>2, GoneByUnlink DEF PlanInv
  <2>4. fs[Finish(i)] = Absent /\ ~KnownCoverage(fs, i)
    <3>1. fs[Finish(i)] = Absent
      BY <1>1, <2>2, <2>3 DEF Executes
    <3> QED BY <3>1 DEF KnownCoverage, Supported
  <2>5. /\ files[Start(j)] # Absent /\ files[Start(j)] = fs[Start(j)]
        /\ files[Finish(j)] # Absent /\ files[Finish(j)] = fs[Finish(j)]
    BY <1>1, <2>2, <2>3 DEF KnownCoverage, Supported, Executes
  <2>6. KnownCoverage(fs, j)
    BY <1>1, <2>5 DEF KnownCoverage, Supported
  <2>7. j \in Candidates(fs, r)
    <3>1. j \in Groups(fs)
      BY <2>2, <2>5 DEF Groups, Present
    <3>2. ~(r.op = "finish" /\ j = r.id)
      BY <2>3, <2>5 DEF Executes, Reservation
    <3> QED BY <3>1, <3>2 DEF Candidates
  <2>8. j \in Evicted(fs, now[p], r)
    <3>1. i \in Evicted(fs, now[p], r)
      BY <2>2, <2>3, PlansWholeGroups DEF Executes, Plan
    <3>2. EvictedBefore(fs, j, i)
      BY <2>4, <2>6 DEF EvictedBefore
    <3> QED BY <2>7, <3>1, <3>2, PlansInOrder
  <2>9. Start(j) \in todo[p] \ {Start(i)}
    <3>1. Start(j) \in Plan(p)
      BY <2>2, <2>5, <2>8, PlansWholeGroups DEF Plan
    <3> QED BY <2>2, <2>3, <2>4, <2>5, <2>6, <3>1 DEF Executes
  <2>10. EvictedBefore(fs, i, j)
    BY <2>2, <2>3, <2>9 DEF IsNext, RemovedBefore
  <2> QED BY <2>4, <2>6, <2>10 DEF EvictedBefore
<1>2. PlanInv /\ [Next]_vars => [\A i \in Id : Last(i)]_vars
  BY <1>1
<1> QED BY <1>2, PlanInvariance, PTL DEF Spec, UnfinishedGoLast

-----------------------------------------------------------------------------
(* What the outcome tells                                                  *)

Done(p) == Plan(p) \ todo[p]

HasTorn(p, i) == Start(i) \in Done(p) /\ Finish(i) \in todo[p]

AfterScan == Holding \ {"scan"}

(* From its scan to its release an invocation's outcome counts what is done*)
(* of its plan.  A pair that is torn comes next: whatever is left comes    *)
(* after its start in the order of the plan.                               *)
Told(p) ==
    /\ pc[p] = "scan" => outcome[p] = NoOutcome
    /\ physical[p] # Absent =>
        /\ pc[p] \in AfterScan
        /\ files[Target(p)] # Absent <=> outcome[p].publication = "Published"
        /\ physical[p][Temp(p)] = Absent /\ physical[p][Target(p)] = Absent
        /\ todo[p] \subseteq Plan(p) /\ Plan(p) \subseteq Present(physical[p])
        /\ \A n \in Present(physical[p]) : files[n] = Absent <=> n \in Done(p)
        /\ \A i \in Id : Finish(i) \in Done(p) => Start(i) \notin todo[p]
        /\ \A i \in Id : HasTorn(p, i) =>
               \A m \in todo[p] \ {Finish(i)} : RemovedBefore(physical[p], Start(i), m)
        /\ IsFiniteSet(Done(p)) /\ outcome[p].removed = Cardinality(Done(p))
        /\ outcome[p].partial = (\E i \in Id : HasTorn(p, i))

ToldInv == PlanInv /\ LogInv /\ \A p \in Live : Told(p)

LEMMA PlansWhatIsThere ==
    ASSUME NEW fs, NEW t, NEW r
    PROVE  Removals(fs, t, r) \subseteq Present(fs)
BY DEF Removals, Temporaries, Members, Present

(* Steps that do not carry out a part of the plan                          *)
Counts(p) ==
    /\ outcome'[p].removed = outcome[p].removed /\ outcome'[p].partial = outcome[p].partial
    /\ physical'[p] = physical[p] /\ todo'[p] = todo[p]
    /\ now'[p] = now[p] /\ phase'[p] = phase[p]
    /\ pc'[p] \in AfterScan

LEMMA FailCounts ==
    ASSUME TypeOK, NEW p \in Live, NEW e \in Errors, Fail(p, e),
           UNCHANGED <<physical, todo, now, phase>>
    PROVE  Counts(p) /\ outcome'[p].publication = outcome[p].publication
<1>1. outcome[p] \in Outcome
  BY DEF TypeOK
<1>2. /\ [outcome[p] EXCEPT !.error = e].removed = outcome[p].removed
      /\ [outcome[p] EXCEPT !.error = e].partial = outcome[p].partial
      /\ [outcome[p] EXCEPT !.error = e].publication = outcome[p].publication
  BY <1>1 DEF Outcome
<1>3. pc'[p] \in AfterScan
  BY DEF TypeOK, Fail, AfterScan, Holding
<1> QED BY <1>2, <1>3 DEF TypeOK, Fail, Counts

LEMMA TransactionCounts ==
    ASSUME IInv, NEW p \in Live,
           \/ CheckUnlink(p) \/ CheckCreate(p) \/ Create(p) \/ Write(p) \/ CheckStaged(p)
           \/ Rename(p) \/ CheckPublished(p) \/ CheckCleanUp(p) \/ CleanUp(p) \/ Settle(p)
    PROVE  Counts(p)
<1> USE DEF IInv, TypeInv, TypeOK, outside, unchangedInside
<1>1. outcome[p] \in Outcome
  OBVIOUS
<1>2. UNCHANGED <<physical, todo, now, phase>>
  BY DEF CheckUnlink, CheckCreate, Create, Write, CheckStaged, Rename, CheckPublished,
         CheckCleanUp, CleanUp, Settle
<1>3. CASE \E e \in Errors : Fail(p, e)
  BY <1>2, <1>3, FailCounts
<1>4. CASE UNCHANGED outcome /\ pc'[p] \in AfterScan
  BY <1>2, <1>4 DEF Counts
<1>5. CASE CheckUnlink(p) \/ CheckCreate(p) \/ Write(p) \/ CheckStaged(p)
           \/ CheckPublished(p) \/ CheckCleanUp(p)
  BY <1>3, <1>4, <1>5
  DEF CheckUnlink, CheckCreate, Write, CheckStaged, CheckPublished, CheckCleanUp, Errors,
      AfterScan, Holding
<1>6. CASE Create(p) /\ ~Fail(p, "Io")
  BY <1>1, <1>2, <1>6 DEF Create, Counts, Outcome, AfterScan, Holding
<1>7. CASE Rename(p) /\ ~Fail(p, "Io") /\ ~Fail(p, "Collision")
  BY <1>1, <1>2, <1>7 DEF Rename, Counts, Outcome, AfterScan, Holding
<1>8. CASE CleanUp(p)
  BY <1>1, <1>2, <1>8 DEF CleanUp, Counts, Outcome, AfterScan, Holding
<1>9. CASE Settle(p)
  BY <1>1, <1>2, <1>9 DEF Settle, Counts, Outcome, AfterScan, Holding
<1> QED BY <1>3, <1>5, <1>6, <1>7, <1>8, <1>9 DEF Errors

LEMMA ToldFrame ==
    ASSUME ToldInv, NEW p \in Live, Counts(p),
           \A n \in Present(physical[p]) : files'[n] = files[n],
           physical[p] # Absent =>
              (files'[Target(p)] # Absent <=> outcome'[p].publication = "Published")
    PROVE  Told(p)'
<1>1. Plan(p)' = Plan(p) /\ Done(p)' = Done(p) /\ Target(p)' = Target(p)
  BY DEF Counts, Plan, Done, Reservation, Target
<1>2. \A i \in Id : HasTorn(p, i)' <=> HasTorn(p, i)
  BY <1>1 DEF HasTorn, Counts
<1>3. Present(physical[p])' = Present(physical[p])
  BY DEF Counts, Present
<1>4. Told(p)
  BY DEF ToldInv
<1>5. \A i, m : RemovedBefore(physical[p], Start(i), m)' <=> RemovedBefore(physical[p], Start(i), m)
  BY DEF Counts
<1> QED BY <1>1, <1>2, <1>3, <1>4, <1>5 DEF Told, Counts, AfterScan

LEMMA ToldTransaction ==
    ASSUME ToldInv, NEW p \in Live,
           \/ CheckUnlink(p) \/ CheckCreate(p) \/ Create(p) \/ Write(p) \/ CheckStaged(p)
           \/ Rename(p) \/ CheckPublished(p) \/ CheckCleanUp(p) \/ CleanUp(p) \/ Settle(p)
    PROVE  Told(p)'
<1> USE DEF ToldInv, PlanInv, IInv, TypeInv, TypeOK
<1>1. Counts(p) /\ Transact(p)
  BY TransactionCounts DEF Transact
<1>2. CASE physical[p] = Absent
  BY <1>1, <1>2 DEF Counts, Told, AfterScan
<1>3. CASE physical[p] # Absent
  <2>1. /\ Temp(p) \in Name /\ Target(p) \in Name /\ Temp(p) # Target(p)
        /\ Temp(p) \notin Present(physical[p]) /\ Target(p) \notin Present(physical[p])
        /\ Present(physical[p]) \subseteq Name
    BY <1>3, Names, TargetIsFinal DEF Told, Present
  <2>2. CASE Publishes(p)
    <3>1. \A n \in Present(physical[p]) : files'[n] = files[n]
      BY <2>1, <2>2 DEF Publishes, Partition
    <3>2. files[Temp(p)] # Absent /\ files'[Target(p)] = files[Temp(p)]
      <4>1. files[Temp(p)] = Full(p)
        BY <2>2 DEF Publishes, Rename, Local, StagingFile
      <4>2. Full(p) # Absent
        BY EventIsFile, LimitAssumption DEF Full, Kinds
      <4> QED BY <2>1, <2>2, <4>1, <4>2 DEF Publishes, Partition
    <3> QED BY <1>1, <2>2, <3>1, <3>2, ToldFrame DEF Publishes
  <2>3. CASE Carries(p)
    <3>1. outcome'[p].publication = outcome[p].publication
      BY <2>3 DEF Carries
    <3>2. files' = files \/ \E f : files' = [files EXCEPT ![Temp(p)] = f]
      <4>1. CASE Rename(p)
        <5>1. outcome'[p].publication # "Published"
          BY <3>1, <4>1 DEF Rename, LogInv, Announced
        <5> QED BY <4>1, <5>1 DEF Rename, unchangedInside, Outcome
      <4>2. CASE Create(p) \/ Write(p) \/ CleanUp(p)
        BY <4>2 DEF Create, Write, CleanUp, unchangedInside
      <4> QED BY <4>1, <4>2
          DEF CheckUnlink, CheckCreate, CheckStaged, CheckPublished, CheckCleanUp, Settle,
              unchangedInside
    <3>3. \A n \in Present(physical[p]) \cup {Target(p)} : files'[n] = files[n]
      BY <2>1, <3>2 DEF Partition
    <3> QED BY <1>1, <1>3, <3>1, <3>3, ToldFrame DEF Told
  <2> QED BY <1>1, <2>2, <2>3, TransactionCarries
<1> QED BY <1>2, <1>3

(* A plan begins with nothing done of it.                                  *)
LEMMA ToldScan ==
    ASSUME ToldInv, NEW p \in Live, ScanAndPlan(p)
    PROVE  Told(p)'
<1> USE DEF ToldInv, PlanInv, IInv, TypeInv, TypeOK
<1>1. physical[p] = Absent /\ pc[p] = "scan" /\ pc'[p] # "scan"
  BY ScanErrorIsError, FailKeeps DEF ScanAndPlan, Told, AfterScan, Errors
<1>2. CASE UNCHANGED physical
  BY <1>1, <1>2 DEF Told
<1>3. CASE /\ ScanError(p) = "none"
           /\ physical' = [physical EXCEPT ![p] = files]
           /\ todo' = [todo EXCEPT ![p] = Removals(files, now[p], Reservation(p))]
           /\ pc' = [pc EXCEPT ![p] = "unlink"]
           /\ UNCHANGED <<files, receipt, outcome>>
  <2>1. /\ now' = now /\ phase' = phase /\ p \in Id
        /\ Start(p) \in FinalName /\ Finish(p) \in FinalName /\ FinalName \subseteq Name
    BY LiveAssumption, Names DEF ScanAndPlan, outside
  <2>2. Plan(p)' = todo'[p] /\ physical'[p] = files /\ Done(p)' = {}
    BY <1>3, <2>1 DEF Plan, Reservation, Done
  <2>3. files[Target(p)] = Absent
    <3>1. CASE phase[p] = "start"
      <4>1. p \notin Groups(files)
        BY <1>3, <3>1 DEF ScanError, PlanRefusal, Reservation
      <4> QED BY <2>1, <3>1, <4>1 DEF Groups, Present, Target, Start
    <3>2. CASE phase[p] = "finish"
      BY <1>3, <3>2 DEF ScanError, ReceiptRefusal, Target, Finish
    <3> QED BY <3>1, <3>2 DEF Kinds
  <2>4. files[Temp(p)] = Absent
    BY <1>1 DEF Local, StagingFile, LedgerKept
  <2>5. outcome[p].publication # "Published"
    BY <1>1 DEF LogInv, Announced
  <2>6. outcome[p].removed = 0 /\ outcome[p].partial = FALSE
    <3>1. outcome[p] = NoOutcome
      BY <1>1 DEF Told
    <3>2. NoOutcome.removed = 0 /\ NoOutcome.partial = FALSE
      BY DEF NoOutcome
    <3> QED BY <3>1, <3>2
  <2>7. Target(p)' = Target(p) /\ pc'[p] \in AfterScan
    BY <1>3, <2>1 DEF Target, AfterScan, Holding
  <2>8. \A i \in Id : ~HasTorn(p, i)'
    BY <2>2 DEF HasTorn
  <2>9. Plan(p)' \subseteq Present(physical[p])'
    BY <1>3, <2>2, PlansWhatIsThere DEF Present
  <2> QED BY <1>3, <2>2, <2>3, <2>4, <2>5, <2>6, <2>7, <2>8, <2>9, FS_EmptySet
      DEF Told, Present
<1> QED BY <1>2, <1>3 DEF ScanAndPlan, unchangedInside

(* One more removal: of a torn pair its finish, or else whatever is next.  *)
LEMMA TornGoesNext ==
    ASSUME ToldInv, NEW p \in Live, physical[p] # Absent,
           NEW n \in todo[p], IsNext(p, n), NEW i \in Id, HasTorn(p, i)
    PROVE  n = Finish(i)
<1> SUFFICES ASSUME n # Finish(i) PROVE FALSE
  OBVIOUS
<1> USE DEF ToldInv, PlanInv, IInv, TypeInv, TypeOK
<1>1. /\ RemovedBefore(physical[p], Start(i), n) /\ RemovedBefore(physical[p], n, Finish(i))
      /\ n # Start(i) /\ n \in Name /\ physical[p] \in Partition
  BY DEF IsNext, HasTorn, Told, Done
<1>2. /\ Start(i).kind = "start" /\ Start(i).id = i
      /\ Finish(i).kind = "finish" /\ Finish(i).id = i
  BY DEF Start, Finish
<1>3. n.kind # "tmp"
  BY <1>1, <1>2 DEF RemovedBefore
<1>4. n \in FinalName
  <2>1. n \in Present(physical[p]) /\ n \in Plan(p)
    BY DEF Told
  <2> QED BY <1>3, <2>1 DEF Plan, Removals, Temporaries, Members, TempName
<1>5. n.id # i /\ n.id \in Id
  <2>1. n = Start(n.id) \/ n = Finish(n.id)
    BY <1>4 DEF FinalName, Kinds, Start, Finish
  <2> QED BY <1>1, <1>4, <2>1 DEF FinalName
<1>6. EvictedBefore(physical[p], i, n.id) /\ EvictedBefore(physical[p], n.id, i)
  BY <1>1, <1>2, <1>3, <1>5 DEF RemovedBefore
<1> QED BY <1>1, <1>5, <1>6, EvictionOrder

LEMMA ToldUnlink ==
    ASSUME ToldInv, NEW p \in Live, Unlink(p)
    PROVE  Told(p)'
<1> USE DEF ToldInv, PlanInv, IInv, TypeInv, TypeOK
<1>1. CASE Fail(p, "Io") /\ unchangedInside
  <2>1. Counts(p) /\ outcome'[p].publication = outcome[p].publication
    BY <1>1, FailCounts DEF Unlink, outside, unchangedInside, Errors
  <2>2. files' = files
    BY <1>1 DEF unchangedInside
  <2> QED BY <2>1, <2>2, ToldFrame DEF Told
<1>2. ASSUME NEW n \in todo[p], IsNext(p, n), files[n] # Absent,
             files' = [files EXCEPT ![n] = Absent],
             todo' = [todo EXCEPT ![p] = @ \ {n}],
             outcome' = [outcome EXCEPT ![p].removed = @ + 1,
                                        ![p].partial = TearsPair(p, n)],
             pc' = [pc EXCEPT ![p] = "unlink"],
             UNCHANGED <<receipt, physical>>
      PROVE  Told(p)'
  <2>1. /\ pc[p] = "unlinking" /\ Executes(p) /\ physical[p] # Absent
        /\ now' = now /\ phase' = phase /\ physical' = physical
    <3>1. pc[p] = "unlinking" /\ now' = now /\ phase' = phase /\ physical' = physical
      BY <1>2 DEF Unlink, outside
    <3>2. Executes(p)
      OBVIOUS
    <3>3. physical[p] \in Partition
      BY <3>1, <3>2 DEF Executes
    <3> QED BY <3>1, <3>2, <3>3, NoneAssumption
  <2>2. Told(p) /\ n \in Plan(p) /\ n \in Present(physical[p]) /\ n \in Name
    BY <2>1 DEF Told, Present
  <2>3. /\ Plan(p)' = Plan(p) /\ todo'[p] = todo[p] \ {n} /\ Done(p)' = Done(p) \cup {n}
        /\ Target(p)' = Target(p)
    BY <1>2, <2>1, <2>2 DEF Plan, Reservation, Done, Target
  <2>4. \A m \in Name : files'[m] = IF m = n THEN Absent ELSE files[m]
    BY <1>2, <2>2 DEF Partition
  <2>5. \A m \in Present(physical[p]) : files'[m] = Absent <=> m \in Done(p)'
    BY <2>1, <2>2, <2>3, <2>4 DEF Told, Present
  <2>6. \A i \in Id : Finish(i) \in Done(p)' => Start(i) \notin todo'[p]
    BY <1>2, <2>1, <2>2, <2>3 DEF Told, IsNext, RemovedBefore, Start, Finish
  <2>7. ASSUME NEW i \in Id, HasTorn(p, i)'
        PROVE  /\ n = Start(i)
               /\ \A m \in todo'[p] \ {Finish(i)} : RemovedBefore(physical[p], Start(i), m)
    <3>1. n = Start(i)
      <4>1. Finish(i) \in todo[p] /\ Finish(i) # n
        BY <2>3, <2>7 DEF HasTorn
      <4>2. ~HasTorn(p, i)
        BY <1>2, <2>1, <4>1, TornGoesNext
      <4> QED BY <2>3, <2>7, <4>1, <4>2 DEF HasTorn
    <3> QED BY <1>2, <2>3, <3>1 DEF IsNext
  <2>8. (\E i \in Id : HasTorn(p, i)') <=> TearsPair(p, n)
    <3>1. ASSUME NEW i \in Id, HasTorn(p, i)' PROVE TearsPair(p, n)
      <4>1. n = Start(i) /\ Finish(i) \in todo[p] \ {n}
        BY <2>3, <2>7, <3>1 DEF HasTorn
      <4> QED BY <4>1 DEF TearsPair, Start, Finish
    <3>2. ASSUME TearsPair(p, n) PROVE \E i \in Id : HasTorn(p, i)'
      <4>1. PICK m \in todo[p] \ {n} : m.kind # "tmp" /\ m.id = n.id
        BY <3>2 DEF TearsPair
      <4>2. m \in FinalName /\ n \in FinalName
        BY <2>1, <2>2, <3>2, <4>1
        DEF TearsPair, Told, Plan, Removals, Temporaries, Members, TempName
      <4>3. {m, n} = {Start(n.id), Finish(n.id)} /\ n.id \in Id /\ m # n
        BY <4>1, <4>2 DEF FinalName, Kinds, Start, Finish
      <4>4. n # Finish(n.id)
        <5>1. Start(n.id) = m => ~RemovedBefore(physical[p], Finish(n.id), m)
          BY DEF RemovedBefore, Start, Finish
        <5> QED BY <1>2, <4>1, <4>3, <5>1 DEF IsNext
      <4>5. n = Start(n.id) /\ m = Finish(n.id)
        BY <4>3, <4>4
      <4> QED BY <2>3, <4>1, <4>3, <4>5 DEF HasTorn
    <3> QED BY <3>1, <3>2
  <2>9. /\ outcome'[p].removed = outcome[p].removed + 1
        /\ outcome'[p].partial = TearsPair(p, n)
        /\ outcome'[p].publication = outcome[p].publication
    BY <1>2 DEF Outcome
  <2>10. /\ IsFiniteSet(Done(p)') /\ outcome'[p].removed = Cardinality(Done(p)')
    <3>1. n \notin Done(p) /\ IsFiniteSet(Done(p))
      BY <2>1, <2>2 DEF Done, Told
    <3> QED BY <2>1, <2>2, <2>3, <2>9, <3>1, FS_AddElement DEF Told
  <2>11. files'[Target(p)] = files[Target(p)] /\ Target(p) # n
    BY <2>1, <2>2, <2>4, TargetIsFinal DEF Told, Present
  <2>12. pc'[p] = "unlink" /\ todo'[p] \subseteq Plan(p)
    BY <1>2, <2>1, <2>2, <2>3 DEF Told
  <2>13. Present(physical[p])' = Present(physical[p]) /\ physical'[p] = physical[p]
    BY <2>1 DEF Present
  <2>14. outcome'[p].partial = (\E i \in Id : HasTorn(p, i)')
    BY <2>8, <2>9 DEF TearsPair
  <2>15. files'[Target(p)] # Absent <=> outcome'[p].publication = "Published"
    BY <2>1, <2>2, <2>9, <2>11 DEF Told
  <2>16. \A i \in Id : HasTorn(p, i)' =>
            \A m \in todo'[p] \ {Finish(i)} : RemovedBefore(physical'[p], Start(i), m)
    BY <2>7, <2>13
  <2>17. /\ pc'[p] \in AfterScan /\ pc'[p] # "scan"
         /\ physical'[p][Temp(p)] = Absent /\ physical'[p][Target(p)] = Absent
         /\ Plan(p)' \subseteq Present(physical[p])'
    BY <2>1, <2>2, <2>3, <2>12, <2>13 DEF Told, AfterScan, Holding
  <2> QED BY <2>3, <2>5, <2>6, <2>10, <2>12, <2>13, <2>14, <2>15, <2>16, <2>17 DEF Told
<1> QED BY <1>1, <1>2 DEF Unlink, LedgerAfterUnlink

(* Around the transaction there is nothing to tell.                        *)
LEMMA ToldOutside ==
    ASSUME ToldInv, NEW p \in Live,
           Activate(p) \/ TryLock(p) \/ RunCommand(p) \/ Release(p) \/ Crash(p)
    PROVE  Told(p)'
<1> USE DEF ToldInv, PlanInv, IInv, TypeInv, TypeOK
<1>1. CASE Release(p) \/ Crash(p)
  <2>1. physical'[p] = Absent /\ pc'[p] # "scan"
    BY <1>1 DEF Release, Crash, DropTransaction
  <2> QED BY <2>1 DEF Told
<1>2. CASE Activate(p) \/ TryLock(p) \/ RunCommand(p)
  <2>1. pc[p] \in {"new", "lock", "command"} /\ physical' = physical
    BY <1>2 DEF Activate, TryLock, RunCommand, unchangedInside
  <2>2. physical'[p] = Absent
    BY <2>1 DEF Told, AfterScan, Holding
  <2>3. pc'[p] = "scan" => outcome'[p] = NoOutcome
    BY <1>2 DEF Activate, TryLock, RunCommand
  <2> QED BY <2>2, <2>3 DEF Told
<1> QED BY <1>1, <1>2

LEMMA ToldOther ==
    ASSUME ToldInv, NEW p \in Live, StepOf(p), NEW q \in Live, q # p
    PROVE  Told(q)'
<1> USE DEF ToldInv, PlanInv, IInv, TypeInv
<1>1. Same(q) /\ physical'[q] = physical[q]
  BY OthersKeep, OthersPlan
<1>2. CASE physical[q] = Absent
  BY <1>1, <1>2 DEF Told, Same
<1>3. CASE physical[q] # Absent
  <2>1. pc[q] \in AfterScan
    BY <1>3 DEF Told
  <2>2. files' = files
    BY <2>1, FilesFrame DEF AfterScan, Touches, LockDiscipline, InTransaction, Holding
  <2>3. Counts(q) /\ outcome'[q].publication = outcome[q].publication
    BY <1>1, <2>1 DEF Counts, Same
  <2> QED BY <1>3, <2>2, <2>3, ToldFrame DEF Told
<1> QED BY <1>2, <1>3

LEMMA ToldInvariance == Spec => []ToldInv
<1>1. Init => \A p \in Live : Told(p)
  BY DEF Init, Told
<1>2. PlanInv /\ PlanInv' /\ LogInv /\ LogInv' /\ (\A p \in Live : Told(p)) /\ [Next]_vars
      => (\A p \in Live : Told(p))'
  <2> SUFFICES ASSUME ToldInv, [Next]_vars PROVE \A p \in Live : Told(p)'
    BY DEF ToldInv
  <2>1. CASE UNCHANGED vars
    <3> TAKE p \in Live
    <3>1. Plan(p)' = Plan(p) /\ Done(p)' = Done(p)
      BY <2>1 DEF Done, Plan, Reservation, Present, vars
    <3>2. Told(p)
      BY DEF ToldInv
    <3> QED BY <2>1, <3>1, <3>2 DEF Told, HasTorn, Target, vars
  <2>2. ASSUME NEW p \in Live, StepOf(p), NEW q \in Live
        PROVE  Told(q)'
    <3>1. CASE q # p
      BY <2>2, <3>1, ToldOther
    <3>2. CASE q = p
      BY <2>2, <3>2, ToldOutside, ToldScan, ToldUnlink, ToldTransaction
      DEF StepOf, Proceed, Transact
    <3> QED BY <3>1, <3>2
  <2> QED BY <2>1, <2>2 DEF Next, StepOf
<1> QED BY <1>1, <1>2, PlanInvariance, LogInvariance, PTL DEF Spec, ToldInv

LEMMA OneOfTwo ==
    ASSUME NEW a, NEW b, a # b, NEW G
    PROVE  Cardinality({a, b} \cap G) = 1 <=> (a \in G <=> b \notin G)
<1>1. CASE a \in G /\ b \in G
  <2>1. {a, b} \cap G = {a} \cup {b}
    BY <1>1
  <2>2. Cardinality({a} \cup {b}) # 1
    <3>1. IsFiniteSet({a}) /\ Cardinality({a}) = 1 /\ b \notin {a}
      BY FS_Singleton
    <3>2. Cardinality({a} \cup {b}) = Cardinality({a}) + 1
      BY <3>1, FS_AddElement
    <3> QED BY <3>1, <3>2
  <2> QED BY <1>1, <2>1, <2>2
<1>2. CASE a \in G /\ b \notin G
  <2>1. {a, b} \cap G = {a}
    BY <1>2
  <2> QED BY <1>2, <2>1, FS_Singleton
<1>3. CASE a \notin G /\ b \in G
  <2>1. {a, b} \cap G = {b}
    BY <1>3
  <2> QED BY <1>3, <2>1, FS_Singleton
<1>4. CASE a \notin G /\ b \notin G
  <2>1. {a, b} \cap G = {}
    BY <1>4
  <2> QED BY <1>4, <2>1, FS_EmptySet
<1> QED BY <1>1, <1>2, <1>3, <1>4

(* The outcome of a transaction, successful or not, is what happened to    *)
(* the partition since it was scanned: as many retention removals as it    *)
(* says, a torn pair exactly when it says so, its own event there exactly  *)
(* when it says it was published, and no staging file it does not mention. *)
THEOREM OutcomeTellsAll == Spec => []EffectsAreReported
<1>1. ToldInv => EffectsAreReported
  <2> SUFFICES ASSUME ToldInv, NEW p \in Live, pc[p] = "release", physical[p] # Absent
      PROVE  LET gone == Present(physical[p]) \ Present(files)
                 Torn(i) == /\ {Start(i), Finish(i)} \subseteq Present(physical[p])
                            /\ Cardinality({Start(i), Finish(i)} \cap gone) = 1
                 o == outcome[p]
             IN  /\ o.removed = Cardinality(gone)
                 /\ o.partial = (\E i \in Id : Torn(i))
                 /\ (o.publication = "Published") =
                       (Target(p) \in Present(files) \ Present(physical[p]))
                 /\ o.staging # "MayRemain" => files[Temp(p)] = Absent
    BY DEF EffectsAreReported
  <2> DEFINE gone == Present(physical[p]) \ Present(files)
             Torn(i) == /\ {Start(i), Finish(i)} \subseteq Present(physical[p])
                        /\ Cardinality({Start(i), Finish(i)} \cap gone) = 1
  <2>1. Told(p) /\ TypeOK /\ StagingFile(p)
    BY DEF ToldInv, PlanInv, IInv, TypeInv, Local
  <2>2. gone = Done(p)
    BY <2>1 DEF Told, Done, Present
  <2>3. ASSUME NEW i \in Id PROVE Torn(i) <=> HasTorn(p, i)
    <3>1. /\ Start(i) \in FinalName /\ Finish(i) \in FinalName /\ Start(i) # Finish(i)
          /\ Start(i).id = i /\ Finish(i).id = i
      BY Names DEF Start, Finish
    <3>2. {Start(i), Finish(i)} \subseteq Present(physical[p]) =>
             (Start(i) \in Plan(p) <=> Finish(i) \in Plan(p))
      BY <3>1, PlansWholeGroups DEF Plan, Present
    <3>3. Plan(p) \subseteq Present(physical[p]) /\ todo[p] \subseteq Plan(p)
          /\ (Finish(i) \in Done(p) => Start(i) \notin todo[p])
      BY <2>1 DEF Told
    <3>4. HasTorn(p, i) => {Start(i), Finish(i)} \subseteq Present(physical[p])
      BY <3>3 DEF HasTorn, Done
    <3>5. Torn(i) <=> /\ {Start(i), Finish(i)} \subseteq Present(physical[p])
                      /\ (Start(i) \in Done(p) <=> Finish(i) \notin Done(p))
      BY <2>2, <3>1, OneOfTwo
    <3> HIDE DEF Torn
    <3> QED BY <3>2, <3>3, <3>4, <3>5 DEF HasTorn, Done
  <2>4. outcome[p].removed = Cardinality(gone)
    BY <2>1, <2>2 DEF Told
  <2>5. outcome[p].partial = (\E i \in Id : Torn(i))
    <3>1. (\E i \in Id : Torn(i)) = (\E i \in Id : HasTorn(p, i))
      <4> HIDE DEF Torn
      <4> QED BY <2>3
    <3>2. outcome[p].partial = (\E i \in Id : HasTorn(p, i))
      BY <2>1 DEF Told
    <3> QED BY <3>1, <3>2
  <2>6. (outcome[p].publication = "Published") =
           (Target(p) \in Present(files) \ Present(physical[p]))
    BY <2>1, TargetIsFinal DEF Told, Present
  <2>7. outcome[p].staging # "MayRemain" => files[Temp(p)] = Absent
    BY <2>1 DEF StagingFile
  <2> QED BY <2>4, <2>5, <2>6, <2>7
<1> QED BY <1>1, ToldInvariance, PTL

-----------------------------------------------------------------------------
(* Beside a process that ignores the lock                                  *)

(* What is left, as far as an invocation knows, of the partition it scanned.*)
LeftOf(p, n) == IF n \in Plan(p) \ todo[p] THEN Absent ELSE physical[p][n]

OwnStaging(p) == {Event(p, k) : k \in 0 .. EventBytes[phase[p]]}

(* A ledger has a scan, and a plan of names that are neither foreign nor   *)
(* the invocation's own.                                                   *)
Scanned(p) ==
    /\ ledger[p] # Absent =>
          /\ pc[p] \in Ledgered \cup {"settle", "release"}
          /\ physical[p] \in Partition /\ todo[p] \subseteq Plan(p)
    /\ pc[p] \in {"unlink", "unlinking"} => \A n \in todo[p] :
          n.kind # "other" /\ physical[p][n] # Absent /\ n \notin {Start(p), Finish(p)}

(* Until something fails the ledger is what is left of the scan and, later,*)
(* the staging file and then the event.                                    *)
Remembers(p) ==
    /\ pc[p] \in {"creating", "writing", "renaming", "renamed"} => todo[p] = {}
    /\ pc[p] \in {"unlink", "unlinking", "creating"} =>
          \A n \in Name : ledger[p][n] = LeftOf(p, n)
    /\ pc[p] = "writing" =>
          \A n \in Name : ledger[p][n] = IF n = Temp(p) THEN Event(p, 0) ELSE LeftOf(p, n)
    /\ pc[p] \in {"renaming", "renamed"} =>
          \A n \in Name : ledger[p][n] = IF n = Temp(p) THEN Full(p) ELSE LeftOf(p, n)
    /\ pc[p] = "settle" /\ outcome[p].error = "none" =>
          /\ ledger[p] # Absent /\ todo[p] = {}
          /\ \A n \in Name : ledger[p][n] = IF n = Target(p) THEN Full(p) ELSE LeftOf(p, n)
          /\ phase[p] = "finish" => ledger[p][Start(p)] = receipt[p]

(* Whatever failed, the ledger differs from the scan by planned removals,  *)
(* an announced publication and the invocation's own staging file.         *)
Explained(p) ==
    ledger[p] # Absent => \A n \in Name : ledger[p][n] # physical[p][n] =>
        \/ n \in Plan(p) /\ ledger[p][n] = Absent
        \/ n = Target(p) /\ ledger[p][n] = Full(p) /\ outcome[p].publication = "Published"
        \/ n = Temp(p) /\ ledger[p][n] \in OwnStaging(p)
           /\ outcome[p].staging \in {"MayRemain", "Published"}

(* How a transaction ends, and what its outcome says until then.           *)
Concludes(p) ==
    /\ pc[p] \in {"cleanup", "cleaning", "settle", "release"} => Explained(p)
    /\ occupancy[p] # Absent => pc[p] = "release"
    /\ pc[p] \in {"cleanup", "cleaning"} => outcome[p].error # "none"
    /\ pc[p] \in {"writing", "renaming", "cleanup", "cleaning"} =>
          outcome[p].staging = "MayRemain"
    /\ pc[p] = "renamed" =>
          outcome[p].staging = "Published" /\ outcome[p].publication = "Published"

(* Nothing of this speaks of the partition: it is what an invocation knows,*)
(* and only its own steps change it.                                       *)
Memory(p) == Scanned(p) /\ Remembers(p) /\ Concludes(p)

(* The other process comes in between a check and the removal it is for;   *)
(* what it did not touch since is what was checked.  It cannot bring back a*)
(* staging file that was renamed.                                          *)
Window(p) ==
    /\ pc[p] = "unlinking" =>
          \A n \in todo[p] : n \in since[p] \/ files[n] = physical[p][n]
    /\ pc[p] \in {"cleaning", "renaming"} => Temp(p) \in since[p] \/ Staged(p)
    /\ outcome[p].staging = "Published" /\ pc[p] \in {"renamed", "settle"} =>
          files[Temp(p)] \in {Absent, Alien}

MeddledInv ==
    /\ TypeInv /\ LockDiscipline /\ meddles \in Nat /\ since \in [Live -> SUBSET Name]
    /\ \A p \in Live : Memory(p) /\ Window(p)

-----------------------------------------------------------------------------
(* The memory of an invocation                                             *)

LEMMA MemoryFrame ==
    ASSUME NEW p \in Live, Memory(p), Same(p), physical'[p] = physical[p],
           ledger'[p] = ledger[p]
    PROVE  Memory(p)'
<1>1. /\ Plan(p)' = Plan(p) /\ Target(p)' = Target(p) /\ Full(p)' = Full(p)
      /\ OwnStaging(p)' = OwnStaging(p) /\ Event(p, 0)' = Event(p, 0)
  BY DEF Same, Plan, Reservation, Target, Full, OwnStaging, Event
<1>2. \A n : LeftOf(p, n)' = LeftOf(p, n)
  BY <1>1 DEF LeftOf, Same
<1>3. Scanned(p)'
  BY <1>1 DEF Memory, Scanned, Same
<1>4. Remembers(p)'
  BY <1>1, <1>2 DEF Memory, Remembers, Same
<1>5. Explained(p)' <=> Explained(p)
  BY <1>1 DEF Explained, Same
<1>6. Concludes(p)'
  BY <1>5 DEF Memory, Concludes, Same
<1> QED BY <1>3, <1>4, <1>6 DEF Memory

(* Its own earlier staging file is among those that the plan sweeps.       *)
LEMMA OwnTempPlanned ==
    ASSUME NEW p \in Live, physical[p] \in Partition
    PROVE  physical[p][Temp(p)] # Absent => Temp(p) \in Plan(p)
BY LiveAssumption, Names DEF Plan, Removals, Temporaries, Present, Temp, TempName

LEMMA HasLedger ==
    ASSUME TypeInv, NEW p \in Live, pc[p] \in Ledgered
    PROVE  ledger[p] \in Partition /\ ledger[p] # Absent
BY NoneAssumption DEF TypeInv, LedgerKept

LEMMA StagedEvents ==
    ASSUME TypeInv, NEW p \in Live
    PROVE  Event(p, 0) \in OwnStaging(p) /\ Full(p) \in OwnStaging(p)
BY LimitAssumption DEF TypeInv, TypeOK, OwnStaging, Full, Kinds

LEMMA MemoryExplains ==
    ASSUME TypeInv, NEW p \in Live, Memory(p)
    PROVE  Explained(p)
<1> USE DEF Memory, Scanned, Remembers, Concludes, Explained
<1>1. CASE pc[p] \in {"unlink", "unlinking", "creating"}
  BY <1>1 DEF LeftOf
<1>2. CASE pc[p] = "writing"
  BY <1>2, StagedEvents DEF LeftOf
<1>3. CASE pc[p] \in {"renaming", "renamed"}
  BY <1>3, StagedEvents DEF LeftOf
<1>4. CASE pc[p] \in {"cleanup", "cleaning", "settle", "release"}
  BY <1>4
<1>5. CASE pc[p] \notin Ledgered \cup {"settle", "release"}
  BY <1>5
<1> QED BY <1>1, <1>2, <1>3, <1>4, <1>5 DEF Ledgered

LEMMA ExplainedFrame ==
    ASSUME NEW p \in Live, Explained(p), UNCHANGED <<physical, todo, ledger>>,
           phase' = phase, entry' = entry, now' = now,
           outcome'[p].publication = outcome[p].publication,
           outcome'[p].staging = outcome[p].staging
    PROVE  Explained(p)'
<1>1. /\ Plan(p)' = Plan(p) /\ Target(p)' = Target(p) /\ Full(p)' = Full(p)
      /\ OwnStaging(p)' = OwnStaging(p)
  BY DEF Plan, Reservation, Target, Full, OwnStaging, Event
<1> QED BY <1>1 DEF Explained

(* A failure keeps what is explained and ends the rest.                    *)
LEMMA MemoryFail ==
    ASSUME TypeInv, NEW p \in Live, Memory(p), NEW e \in Errors \ {"none"}, Fail(p, e),
           pc[p] # "release", UNCHANGED <<physical, todo>>, UNCHANGED outside,
           ledger[p] = Absent => ledger'[p] = Absent, Explained(p)'
    PROVE  Memory(p)'
<1>1. /\ outcome'[p].error # "none" /\ pc'[p] \in {"cleanup", "settle"}
      /\ outcome'[p].staging = outcome[p].staging
  BY FailBlames, FailKeeps DEF TypeInv
<1>2. pc'[p] = "cleanup" => outcome[p].staging = "MayRemain"
  BY DEF Fail, TypeInv, TypeOK
<1>3. Plan(p)' = Plan(p)
  BY DEF Plan, Reservation, outside
<1>4. Scanned(p)'
  BY <1>1, <1>3 DEF Memory, Scanned, Ledgered
<1>5. Remembers(p)'
  BY <1>1 DEF Remembers
<1>6. Concludes(p)'
  BY <1>1, <1>2 DEF Memory, Concludes, outside
<1> QED BY <1>4, <1>5, <1>6 DEF Memory

LEMMA MemoryFailKeeping ==
    ASSUME TypeInv, NEW p \in Live, Memory(p), NEW e \in Errors \ {"none"}, Fail(p, e),
           pc[p] # "release", UNCHANGED <<physical, todo, ledger>>, UNCHANGED outside
    PROVE  Memory(p)'
<1>1. /\ outcome'[p].publication = outcome[p].publication
      /\ outcome'[p].staging = outcome[p].staging
  BY FailAnnounces, FailKeeps DEF TypeInv
<1>2. Explained(p)'
  BY <1>1, MemoryExplains, ExplainedFrame DEF outside
<1> QED BY <1>2, MemoryFail

LEMMA MemoryScan ==
    ASSUME TypeInv, NEW p \in Live, Memory(p), ScanAndPlan(p)
    PROVE  Memory(p)'
<1> USE DEF TypeInv, TypeOK
<1>1. pc[p] = "scan" /\ UNCHANGED outside
  BY DEF ScanAndPlan
<1>2. CASE \E e \in Errors \ {"none"} : Fail(p, e) /\ unchangedInside
  BY <1>1, <1>2, MemoryFailKeeping DEF unchangedInside
<1>3. CASE /\ ScanError(p) = "none"
           /\ physical' = [physical EXCEPT ![p] = files]
           /\ ledger' = [ledger EXCEPT ![p] = files]
           /\ todo' = [todo EXCEPT ![p] = Removals(files, now[p], Reservation(p))]
           /\ pc' = [pc EXCEPT ![p] = "unlink"]
  <2>1. /\ physical'[p] = files /\ ledger'[p] = files /\ pc'[p] = "unlink"
        /\ todo'[p] = Removals(files, now[p], Reservation(p)) /\ Plan(p)' = todo'[p]
    BY <1>1, <1>3 DEF Plan, Reservation, outside
  <2>2. ASSUME NEW n \in Removals(files, now[p], Reservation(p))
        PROVE  n.kind # "other" /\ files[n] # Absent /\ n \notin {Start(p), Finish(p)}
    <3>1. CASE n \in Temporaries(files)
      BY <3>1 DEF Temporaries, Present, TempName, Start, Finish
    <3>2. CASE n \in Present(files) \cap FinalName
               /\ n.id \in Candidates(files, Reservation(p))
      <4>1. n.id # p
        <5>1. CASE phase[p] = "start"
          BY <1>3, <3>2, <5>1 DEF ScanError, PlanRefusal, Reservation, Candidates
        <5>2. CASE phase[p] = "finish"
          BY <3>2, <5>2 DEF Reservation, Candidates
        <5> QED BY <5>1, <5>2 DEF Kinds
      <4> QED BY <3>2, <4>1 DEF Present, FinalName, Kinds, Start, Finish
    <3> QED BY <3>1, <3>2 DEF Removals, Members, Evicted
  <2>3. Scanned(p)'
    BY <2>1, <2>2 DEF Scanned, Ledgered, Start, Finish
  <2>4. Remembers(p)'
    BY <2>1 DEF Remembers, LeftOf
  <2>5. Concludes(p)'
    BY <1>1, <2>1 DEF Memory, Concludes, outside
  <2> QED BY <2>3, <2>4, <2>5 DEF Memory
<1> QED BY <1>2, <1>3, ScanErrorIsError DEF ScanAndPlan, Errors

LEMMA MemoryUnlink ==
    ASSUME TypeInv, NEW p \in Live, Memory(p), CheckUnlink(p) \/ Unlink(p) \/ CheckCreate(p)
    PROVE  Memory(p)'
<1> USE DEF TypeInv, TypeOK
<1>1. pc[p] \in {"unlink", "unlinking"} /\ UNCHANGED outside
  BY DEF CheckUnlink, Unlink, CheckCreate
<1>2. CASE \E e \in Errors \ {"none"} : Fail(p, e) /\ unchangedInside
  BY <1>1, <1>2, MemoryFailKeeping DEF unchangedInside
<1>3. physical' = physical /\ Plan(p)' = Plan(p) /\ occupancy'[p] = Absent
  BY <1>1 DEF CheckUnlink, Unlink, CheckCreate, unchangedInside, Plan, Reservation, outside,
              Memory, Concludes
<1>4. CASE /\ UNCHANGED outcome /\ unchangedInside
           /\ \/ pc' = [pc EXCEPT ![p] = "unlinking"]
              \/ pc' = [pc EXCEPT ![p] = "creating"] /\ todo[p] = {}
  <2>1. Plan(p)' = Plan(p) /\ (\A n : LeftOf(p, n)' = LeftOf(p, n))
    BY <1>3, <1>4 DEF LeftOf, unchangedInside
  <2>2. pc'[p] \in {"unlinking", "creating"} /\ (pc'[p] = "creating" => todo[p] = {})
    BY <1>4
  <2>3. Scanned(p)'
    BY <1>1, <1>4, <2>1, <2>2 DEF Memory, Scanned, Ledgered, unchangedInside
  <2>4. Remembers(p)'
    BY <1>1, <1>4, <2>1, <2>2 DEF Memory, Remembers, unchangedInside
  <2> QED BY <1>3, <2>2, <2>3, <2>4 DEF Memory, Concludes
<1>5. ASSUME NEW n \in todo[p],
             ledger' = LedgerAfterUnlink(p, n),
             todo' = [todo EXCEPT ![p] = @ \ {n}],
             pc' = [pc EXCEPT ![p] = "unlink"],
             UNCHANGED physical
      PROVE  Memory(p)'
  <2>1. /\ ledger[p] \in Partition /\ ledger[p] # Absent /\ n \in Name
        /\ todo[p] \subseteq Plan(p)
    BY <1>1, HasLedger DEF Ledgered, Memory, Scanned
  <2>2. /\ Plan(p)' = Plan(p) /\ todo'[p] = todo[p] \ {n} /\ pc'[p] = "unlink"
        /\ physical'[p] = physical[p]
    BY <1>3, <1>5
  <2>3. \A m \in Name : ledger'[p][m] = IF m = n THEN Absent ELSE ledger[p][m]
    BY <1>5, <2>1 DEF LedgerAfterUnlink, Partition
  <2>4. \A m \in Name : LeftOf(p, m)' = IF m = n THEN Absent ELSE LeftOf(p, m)
    BY <2>1, <2>2 DEF LeftOf
  <2>5. Remembers(p)'
    BY <1>1, <2>2, <2>3, <2>4 DEF Memory, Remembers
  <2>6. Scanned(p)'
    BY <1>1, <2>1, <2>2 DEF Memory, Scanned, Ledgered
  <2> QED BY <1>3, <2>2, <2>5, <2>6 DEF Memory, Concludes
<1> QED BY <1>2, <1>4, <1>5 DEF CheckUnlink, Unlink, CheckCreate, Errors

LEMMA MemoryCreate ==
    ASSUME TypeInv, NEW p \in Live, Memory(p), Create(p)
    PROVE  Memory(p)'
<1> USE DEF TypeInv, TypeOK
<1>1. /\ pc[p] = "creating" /\ UNCHANGED outside /\ physical' = physical /\ todo' = todo
      /\ ledger[p] \in Partition /\ ledger[p] # Absent /\ outcome[p] \in Outcome
  BY HasLedger DEF Create, unchangedInside, Ledgered
<1>2. /\ Plan(p)' = Plan(p) /\ (\A n : LeftOf(p, n)' = LeftOf(p, n))
      /\ Event(p, 0)' = Event(p, 0) /\ occupancy'[p] = Absent
  BY <1>1 DEF Plan, Reservation, outside, Event, LeftOf, Memory, Concludes
<1>3. CASE Fail(p, "Io") /\ unchangedInside
  BY <1>1, <1>3, MemoryFailKeeping DEF unchangedInside, Errors
<1>4. CASE /\ ledger' = [ledger EXCEPT ![p][Temp(p)] = Event(p, 0)]
           /\ outcome' = [outcome EXCEPT ![p].staging = "MayRemain"]
           /\ pc' = [pc EXCEPT ![p] = "writing"]
  <2>1. \A n \in Name : ledger'[p][n] = IF n = Temp(p) THEN Event(p, 0) ELSE ledger[p][n]
    BY <1>1, <1>4 DEF Partition
  <2>2. outcome'[p].staging = "MayRemain" /\ pc'[p] = "writing"
    BY <1>1, <1>4 DEF Outcome
  <2>3. Scanned(p)'
    BY <1>1, <1>2, <2>2 DEF Memory, Scanned, Ledgered
  <2>4. Remembers(p)'
    BY <1>1, <1>2, <2>1, <2>2 DEF Memory, Remembers
  <2> QED BY <1>2, <2>2, <2>3, <2>4 DEF Memory, Concludes
<1>5. CASE /\ outcome' = [outcome EXCEPT ![p].staging = "MayRemain", ![p].error = "Io"]
           /\ pc' = [pc EXCEPT ![p] = "cleanup"]
           /\ UNCHANGED ledger
  <2>1. /\ outcome'[p].staging = "MayRemain" /\ outcome'[p].error = "Io"
        /\ outcome'[p].publication = outcome[p].publication /\ pc'[p] = "cleanup"
    BY <1>1, <1>5 DEF Outcome
  <2>2. Scanned(p)'
    BY <1>1, <1>2, <1>5, <2>1 DEF Memory, Scanned, Ledgered
  <2>3. Remembers(p)'
    BY <2>1 DEF Remembers
  <2>4. Explained(p)'
    BY <1>1, <1>2, <1>5 DEF Memory, Remembers, Explained, LeftOf
  <2> QED BY <1>2, <2>1, <2>2, <2>3, <2>4 DEF Memory, Concludes
<1> QED BY <1>3, <1>4, <1>5 DEF Create

LEMMA MemoryWrite ==
    ASSUME TypeInv, NEW p \in Live, Memory(p), Write(p)
    PROVE  Memory(p)'
<1>1. pc[p] = "writing" /\ UNCHANGED outside
  BY DEF Write
<1>2. CASE \E e \in Errors \ {"none"} : Fail(p, e) /\ unchangedInside
  BY <1>1, <1>2, MemoryFailKeeping DEF unchangedInside
<1>3. CASE UNCHANGED <<pc, outcome, receipt, physical, todo, ledger>>
  BY <1>1, <1>3, MemoryFrame DEF Same, outside
<1> QED BY <1>2, <1>3 DEF Write, Errors

LEMMA CompleteIsFull ==
    ASSUME TypeInv, NEW p \in Live, CheckStaged(p)
    PROVE  files[Temp(p)] = Full(p)
<1>1. PICK n \in 0 .. EventBytes[phase[p]] : files[Temp(p)] = Event(p, n)
  BY DEF CheckStaged, Staged
<1>2. n = EventBytes[phase[p]]
  BY <1>1 DEF CheckStaged, Event
<1> QED BY <1>1, <1>2 DEF Full

LEMMA MemoryCheckStaged ==
    ASSUME TypeInv, NEW p \in Live, Memory(p), CheckStaged(p)
    PROVE  Memory(p)'
<1> USE DEF TypeInv, TypeOK
<1>1. /\ pc[p] = "writing" /\ UNCHANGED outside /\ physical' = physical /\ todo' = todo
      /\ ledger[p] \in Partition /\ ledger[p] # Absent /\ Temp(p) \in Name
      /\ outcome[p].staging = "MayRemain"
  BY HasLedger, LiveAssumption, Names DEF CheckStaged, Ledgered, Memory, Concludes
<1>2. /\ Plan(p)' = Plan(p) /\ (\A n : LeftOf(p, n)' = LeftOf(p, n))
      /\ Full(p)' = Full(p) /\ Target(p)' = Target(p) /\ OwnStaging(p)' = OwnStaging(p)
      /\ occupancy'[p] = Absent
  BY <1>1 DEF Plan, Reservation, outside, Event, Full, Target, OwnStaging, LeftOf, Memory,
              Concludes
<1>3. \A n \in Name : ledger'[p][n] = IF n = Temp(p) THEN Full(p) ELSE LeftOf(p, n)
  <2>1. \A n \in Name : ledger'[p][n] = IF n = Temp(p) THEN Full(p) ELSE ledger[p][n]
    BY <1>1, CompleteIsFull DEF CheckStaged, Partition
  <2> QED BY <1>1, <2>1 DEF Memory, Remembers
<1>4. CASE \E e \in Errors \ {"none"} : Fail(p, e)
  <2>1. /\ outcome'[p].publication = outcome[p].publication
        /\ outcome'[p].staging = outcome[p].staging
    BY <1>4, FailAnnounces, FailKeeps
  <2>2. Explained(p)'
    BY <1>1, <1>2, <1>3, <2>1, StagedEvents DEF Explained, LeftOf
  <2> QED BY <1>1, <1>4, <2>2, MemoryFail
<1>5. CASE pc' = [pc EXCEPT ![p] = "renaming"] /\ UNCHANGED outcome
  <2>1. pc'[p] = "renaming" /\ outcome' = outcome
    BY <1>5
  <2>2. Scanned(p)'
    BY <1>1, <1>2, <2>1 DEF Memory, Scanned, Ledgered
  <2>3. Remembers(p)'
    BY <1>1, <1>2, <1>3, <2>1 DEF Memory, Remembers
  <2> QED BY <1>1, <1>2, <2>1, <2>2, <2>3 DEF Memory, Concludes
<1> QED BY <1>4, <1>5 DEF CheckStaged, Errors

LEMMA MemoryRename ==
    ASSUME TypeInv, NEW p \in Live, Memory(p), Rename(p)
    PROVE  Memory(p)'
<1> USE DEF TypeInv, TypeOK
<1>1. /\ pc[p] = "renaming" /\ UNCHANGED outside /\ outcome[p] \in Outcome
      /\ UNCHANGED <<physical, todo, ledger>>
  BY DEF Rename, unchangedInside
<1>2. CASE \E e \in Errors \ {"none"} : Fail(p, e)
  BY <1>1, <1>2, MemoryFailKeeping
<1>3. CASE /\ outcome' = [outcome EXCEPT ![p].publication = "Published",
                                         ![p].staging = "Published"]
           /\ pc' = [pc EXCEPT ![p] = "renamed"]
  <2>1. /\ outcome'[p].publication = "Published" /\ outcome'[p].staging = "Published"
        /\ pc'[p] = "renamed"
    BY <1>1, <1>3 DEF Outcome
  <2>2. /\ Plan(p)' = Plan(p) /\ (\A n : LeftOf(p, n)' = LeftOf(p, n))
        /\ Full(p)' = Full(p) /\ occupancy'[p] = Absent
    BY <1>1 DEF Plan, Reservation, outside, Event, Full, LeftOf, Memory, Concludes
  <2>3. Scanned(p)'
    BY <1>1, <2>1, <2>2 DEF Memory, Scanned, Ledgered
  <2>4. Remembers(p)'
    BY <1>1, <2>1, <2>2 DEF Memory, Remembers
  <2> QED BY <2>1, <2>2, <2>3, <2>4 DEF Memory, Concludes
<1> QED BY <1>2, <1>3 DEF Rename, Errors

LEMMA MemoryCheckPublished ==
    ASSUME TypeInv, NEW p \in Live, Memory(p), CheckPublished(p)
    PROVE  Memory(p)'
<1> USE DEF TypeInv, TypeOK
<1>1. /\ pc[p] = "renamed" /\ UNCHANGED outside /\ physical' = physical /\ todo' = todo
      /\ files' = files /\ ledger[p] \in Partition /\ ledger[p] # Absent
      /\ Temp(p) \in Name /\ Target(p) \in Name /\ Target(p) # Temp(p)
      /\ todo[p] = {} /\ physical[p] \in Partition
  BY HasLedger, LiveAssumption, Names, TargetIsFinal
  DEF CheckPublished, Ledgered, Memory, Remembers, Scanned
<1>2. /\ Plan(p)' = Plan(p) /\ (\A n : LeftOf(p, n)' = LeftOf(p, n))
      /\ Full(p)' = Full(p) /\ Target(p)' = Target(p) /\ OwnStaging(p)' = OwnStaging(p)
      /\ occupancy'[p] = Absent
  BY <1>1 DEF Plan, Reservation, outside, Event, Full, Target, OwnStaging, LeftOf, Memory,
              Concludes
<1>3. LeftOf(p, Temp(p)) = Absent
  BY <1>1, OwnTempPlanned DEF LeftOf
<1>4. \A n \in Name : Renamed(p)[n] = IF n = Target(p) THEN Full(p) ELSE LeftOf(p, n)
  <2>1. \A n \in Name : Renamed(p)[n] =
            IF n = Temp(p) THEN Absent ELSE IF n = Target(p) THEN ledger[p][Temp(p)]
            ELSE ledger[p][n]
    BY <1>1 DEF Renamed, Partition
  <2> QED BY <1>1, <1>3, <2>1 DEF Memory, Remembers
<1>5. Renamed(p) # Absent
  BY <1>1, NoneAssumption DEF Renamed, Partition
<1>6. ledger'[p] \in {ledger[p], Renamed(p)}
  BY <1>1 DEF CheckPublished
<1>7. CASE \E e \in Errors \ {"none"} : Fail(p, e)
  <2>1. /\ outcome'[p].publication = outcome[p].publication
        /\ outcome'[p].staging = outcome[p].staging /\ outcome[p].publication = "Published"
    BY <1>1, <1>7, FailAnnounces, FailKeeps DEF Memory, Concludes
  <2>2. ASSUME ledger'[p] = ledger[p] PROVE Explained(p)'
    BY <1>1, <1>2, <2>1, <2>2, MemoryExplains DEF Explained
  <2>3. ASSUME ledger'[p] = Renamed(p) PROVE Explained(p)'
    BY <1>1, <1>2, <1>4, <2>1, <2>3 DEF Explained, LeftOf
  <2> QED BY <1>1, <1>6, <1>7, <2>2, <2>3, MemoryFail
<1>8. CASE /\ Verified(p) /\ ledger' = [ledger EXCEPT ![p] = Renamed(p)]
           /\ receipt' = [receipt EXCEPT ![p] = ReceiptFor(p)]
           /\ pc' = [pc EXCEPT ![p] = "settle"] /\ UNCHANGED outcome
  <2>1. ledger'[p] = Renamed(p) /\ pc'[p] = "settle" /\ outcome' = outcome
    BY <1>1, <1>8
  <2>2. phase[p] = "finish" => ledger'[p][Start(p)] = receipt'[p]
    BY <1>8, <2>1 DEF Verified, ReceiptFor
  <2>3. Scanned(p)'
    BY <1>1, <1>2, <2>1 DEF Memory, Scanned
  <2>4. Remembers(p)'
    BY <1>1, <1>2, <1>4, <1>5, <2>1, <2>2 DEF Remembers, outside, Start
  <2>5. Explained(p)'
    BY <1>1, <1>2, <1>4, <2>1 DEF Memory, Concludes, Explained, LeftOf
  <2> QED BY <1>2, <2>1, <2>3, <2>4, <2>5 DEF Memory, Concludes
<1> QED BY <1>7, <1>8 DEF CheckPublished, Errors

LEMMA MemoryCleanUp ==
    ASSUME TypeInv, NEW p \in Live, Memory(p), CheckCleanUp(p) \/ CleanUp(p)
    PROVE  Memory(p)'
<1> USE DEF TypeInv, TypeOK
<1>1. /\ pc[p] \in {"cleanup", "cleaning"} /\ pc'[p] \in {"cleaning", "settle"}
      /\ UNCHANGED outside /\ physical' = physical /\ todo' = todo
      /\ ledger[p] \in Partition /\ ledger[p] # Absent /\ Temp(p) \in Name
      /\ outcome[p] \in Outcome /\ outcome[p].error # "none"
      /\ outcome[p].staging = "MayRemain"
  BY HasLedger, LiveAssumption, Names
  DEF CheckCleanUp, CleanUp, unchangedInside, Ledgered, Memory, Concludes
<1>2. /\ Plan(p)' = Plan(p) /\ Full(p)' = Full(p) /\ Target(p)' = Target(p)
      /\ OwnStaging(p)' = OwnStaging(p) /\ occupancy'[p] = Absent
  BY <1>1 DEF Plan, Reservation, outside, Event, Full, Target, OwnStaging, Memory, Concludes
<1>3. Scanned(p)'
  BY <1>1, <1>2 DEF Memory, Scanned, Ledgered
<1>4. CASE UNCHANGED <<ledger, outcome>>
  <2>1. Explained(p)'
    BY <1>1, <1>4, MemoryExplains, ExplainedFrame DEF outside
  <2>2. Remembers(p)'
    BY <1>1, <1>4 DEF Remembers
  <2> QED BY <1>1, <1>2, <1>3, <1>4, <2>1, <2>2 DEF Memory, Concludes
<1>5. CASE /\ pc'[p] = "settle"
           /\ ledger' = [ledger EXCEPT ![p][Temp(p)] = Absent]
           /\ outcome' = [outcome EXCEPT ![p].staging = "Removed"]
  <2>1. /\ outcome'[p].staging = "Removed" /\ outcome'[p].error = outcome[p].error
        /\ outcome'[p].publication = outcome[p].publication
    BY <1>1, <1>5 DEF Outcome
  <2>2. \A n \in Name : ledger'[p][n] = IF n = Temp(p) THEN Absent ELSE ledger[p][n]
    BY <1>1, <1>5 DEF Partition
  <2>3. physical[p] \in Partition
    BY <1>1 DEF Memory, Scanned
  <2>4. Explained(p)'
    BY <1>1, <1>2, <2>1, <2>2, <2>3, MemoryExplains, OwnTempPlanned DEF Explained
  <2>5. Remembers(p)'
    BY <1>1, <1>5, <2>1 DEF Remembers
  <2> QED BY <1>1, <1>2, <1>3, <1>5, <2>1, <2>4, <2>5 DEF Memory, Concludes
<1> QED BY <1>1, <1>4, <1>5 DEF CheckCleanUp, CleanUp, unchangedInside

LEMMA MemorySettle ==
    ASSUME TypeInv, NEW p \in Live, Memory(p), Settle(p)
    PROVE  Memory(p)'
<1> USE DEF TypeInv, TypeOK
<1>1. /\ pc[p] = "settle" /\ pc'[p] = "release" /\ UNCHANGED <<physical, todo, ledger>>
      /\ phase' = phase /\ entry' = entry /\ now' = now
  BY DEF Settle
<1>2. /\ outcome'[p].publication = outcome[p].publication
      /\ outcome'[p].staging = outcome[p].staging
  BY DEF Settle, Outcome
<1>3. Explained(p)'
  BY <1>1, <1>2, MemoryExplains, ExplainedFrame
<1>4. Plan(p)' = Plan(p)
  BY <1>1 DEF Plan, Reservation
<1>5. Scanned(p)'
  BY <1>1, <1>4 DEF Memory, Scanned
<1> QED BY <1>1, <1>3, <1>5 DEF Memory, Remembers, Concludes

LEMMA MemoryOutside ==
    ASSUME TypeInv, NEW p \in Live, Memory(p),
           Activate(p) \/ TryLock(p) \/ RunCommand(p) \/ Release(p) \/ Crash(p)
    PROVE  Memory(p)'
<1> USE DEF TypeInv, TypeOK
<1>1. ledger'[p] = Absent /\ occupancy'[p] = Absent
  <2>1. CASE Release(p) \/ Crash(p)
    BY <2>1 DEF Release, Crash, DropTransaction
  <2>2. CASE Activate(p) \/ TryLock(p) \/ RunCommand(p)
    <3>1. /\ pc[p] \in {"new", "lock", "command"}
          /\ ledger' = ledger /\ occupancy' = occupancy
      BY <2>2 DEF Activate, TryLock, RunCommand, unchangedInside
    <3> QED BY <3>1 DEF Memory, Scanned, Concludes, Ledgered
  <2> QED BY <2>1, <2>2
<1>2. pc'[p] \in {"lock", "scan", "command"} \cup Stopped
  BY DEF Activate, TryLock, RunCommand, Release, Crash, Stopped
<1> QED BY <1>1, <1>2 DEF Memory, Scanned, Remembers, Concludes, Stopped

LEMMA MemoryOwn ==
    ASSUME TypeInv, NEW p \in Live, Memory(p), StepOf(p)
    PROVE  Memory(p)'
BY MemoryScan, MemoryUnlink, MemoryCreate, MemoryWrite, MemoryCheckStaged, MemoryRename,
   MemoryCheckPublished, MemoryCleanUp, MemorySettle, MemoryOutside
DEF StepOf, Proceed, Transact

-----------------------------------------------------------------------------
(* Between a check and its removal                                         *)

LEMMA WindowFrame ==
    ASSUME NEW p \in Live, Window(p), Same(p), physical'[p] = physical[p],
           todo[p] \subseteq Name,
           \A n \in Name : n \in since[p] \/ files'[n] # files[n] => n \in since'[p],
           \A n \in Name : files'[n] \in {files[n], Absent, Alien}
    PROVE  Window(p)'
<1>1. Temp(p) \in Name
  BY LiveAssumption, Names
<1>2. files'[Temp(p)] = files[Temp(p)] => (Staged(p) => Staged(p)')
  BY DEF Same, Staged, Event
<1> QED BY <1>1, <1>2 DEF Window, Same

LEMMA WindowFail ==
    ASSUME TypeInv, NEW p \in Live, Memory(p), Window(p), NEW e \in Errors, Fail(p, e),
           files' = files, pc[p] \in {"scan", "unlink", "unlinking", "creating", "writing",
                                      "renaming", "renamed"}
    PROVE  Window(p)'
<1>1. /\ outcome'[p].staging = outcome[p].staging /\ pc'[p] \in {"cleanup", "settle"}
  BY FailKeeps DEF TypeInv
<1>2. outcome[p].staging = "Published" => pc[p] = "renamed"
  BY DEF TypeInv, LedgerKept, Memory, Concludes
<1> QED BY <1>1, <1>2 DEF Window

LEMMA WindowOwn ==
    ASSUME TypeInv, NEW p \in Live, Memory(p), Window(p), StepOf(p)
    PROVE  Window(p)'
<1> USE DEF TypeInv, TypeOK
<1>1. CASE pc'[p] \notin {"unlinking", "cleaning", "renaming", "renamed", "settle"}
  BY <1>1 DEF Window
<1>2. ASSUME NEW e \in Errors, Fail(p, e), files' = files,
             pc[p] \in {"scan", "unlink", "unlinking", "creating", "writing", "renaming",
                        "renamed"}
      PROVE  Window(p)'
  BY <1>2, WindowFail
<1>3. CASE ScanAndPlan(p)
  BY <1>1, <1>2, <1>3, ScanErrorIsError DEF ScanAndPlan, unchangedInside, Errors
<1>4. CASE CheckUnlink(p)
  <2>1. CASE Agrees(p) /\ pc' = [pc EXCEPT ![p] = "unlinking"]
    <3>1. /\ pc[p] = "unlink" /\ ledger[p] = files /\ files' = files
          /\ physical' = physical /\ todo' = todo
      BY <1>4, <2>1 DEF CheckUnlink, unchangedInside, Agrees
    <3>2. \A n \in todo[p] : files[n] = physical[p][n]
      BY <3>1 DEF Memory, Remembers, LeftOf
    <3> QED BY <2>1, <3>1, <3>2 DEF Window
  <2> QED BY <1>2, <1>4, <2>1 DEF CheckUnlink, unchangedInside, Errors
<1>5. CASE Unlink(p)
  BY <1>1, <1>2, <1>5 DEF Unlink, unchangedInside, Errors
<1>6. CASE CheckCreate(p)
  BY <1>1, <1>2, <1>6 DEF CheckCreate, unchangedInside, Errors
<1>7. CASE Create(p)
  BY <1>1, <1>2, <1>7 DEF Create, unchangedInside, Errors
<1>8. CASE Write(p)
  BY <1>1, <1>2, <1>8 DEF Write, unchangedInside, Errors
<1>9. CASE CheckStaged(p)
  <2>1. CASE pc' = [pc EXCEPT ![p] = "renaming"]
    <3>1. Staged(p)'
      BY <1>9 DEF CheckStaged, Staged, Event, outside
    <3> QED BY <2>1, <3>1 DEF Window
  <2> QED BY <1>2, <1>9, <2>1 DEF CheckStaged, Errors
<1>10. CASE Rename(p)
  <2>1. CASE /\ files' = [files EXCEPT ![Target(p)] = files[Temp(p)], ![Temp(p)] = Absent]
             /\ pc' = [pc EXCEPT ![p] = "renamed"]
    <3>1. files'[Temp(p)] = Absent
      BY <2>1, LiveAssumption, Names, TargetIsFinal DEF Partition
    <3> QED BY <2>1, <3>1 DEF Window
  <2> QED BY <1>2, <1>10, <2>1 DEF Rename, unchangedInside, Errors
<1>11. CASE CheckPublished(p)
  <2>1. CASE pc' = [pc EXCEPT ![p] = "settle"] /\ UNCHANGED outcome
    BY <1>11, <2>1 DEF CheckPublished, Window
  <2> QED BY <1>2, <1>11, <2>1 DEF CheckPublished, Errors
<1>12. CASE CheckCleanUp(p)
  <2>1. /\ pc'[p] = "settle" \/ (pc'[p] = "cleaning" /\ Staged(p))
        /\ pc[p] = "cleanup" /\ files' = files /\ outcome' = outcome
    BY <1>12 DEF CheckCleanUp, unchangedInside
  <2>2. Staged(p)' <=> Staged(p)
    BY <1>12, <2>1 DEF CheckCleanUp, Staged, Event, outside
  <2> QED BY <2>1, <2>2 DEF Memory, Concludes, Window
<1>13. CASE CleanUp(p)
  <2>1. pc'[p] = "settle" /\ outcome'[p].staging # "Published"
    BY <1>13 DEF CleanUp, Memory, Concludes, Outcome
  <2> QED BY <2>1 DEF Window
<1>14. CASE Settle(p) \/ Activate(p) \/ TryLock(p) \/ RunCommand(p) \/ Release(p) \/ Crash(p)
  BY <1>1, <1>14 DEF Settle, Activate, TryLock, RunCommand, Release, Crash
<1> QED BY <1>3, <1>4, <1>5, <1>6, <1>7, <1>8, <1>9, <1>10, <1>11, <1>12, <1>13, <1>14
        DEF StepOf, Proceed, Transact

LEMMA KnowledgeOther ==
    ASSUME MeddledInv, NEW p \in Live, StoreStep(p), NEW q \in Live, q # p
    PROVE  Memory(q)' /\ Window(q)'
<1>1. StepOf(p) /\ since'[q] = since[q]
  BY DEF StoreStep, StepOf, MeddledInv
<1>2. Same(q) /\ physical'[q] = physical[q] /\ ledger'[q] = ledger[q]
  BY <1>1, OthersKeep, OthersPlan, OthersLedger DEF MeddledInv, TypeInv
<1>3. Memory(q)'
  BY <1>2, MemoryFrame DEF MeddledInv
<1>4. CASE pc[q] \in Holding
  <2>1. files' = files
    BY <1>1, <1>4, FilesFrame
    DEF MeddledInv, Touches, LockDiscipline, InTransaction, Holding
  <2> QED BY <1>1, <1>2, <1>3, <2>1, WindowFrame DEF MeddledInv, TypeInv, TypeOK
<1>5. CASE pc[q] \notin Holding
  BY <1>2, <1>3, <1>5 DEF Window, Same, Holding
<1> QED BY <1>4, <1>5

LEMMA MeddleKeeps == MeddledInv /\ Meddle => MeddledInv'
<1> SUFFICES ASSUME MeddledInv, Meddle PROVE MeddledInv'
  OBVIOUS
<1>1. Alien \in File
  BY LimitAssumption DEF Alien, File, Kinds
<1>2. PICK n \in Meddled, f \in {Absent, Alien} :
         /\ files' = [files EXCEPT ![n] = f]
         /\ since' = [p \in Live |-> since[p] \cup {n}]
  BY DEF Meddle
<1>3. /\ n \in Name /\ files' \in Partition
      /\ \A m \in Name : files'[m] = IF m = n THEN f ELSE files[m]
  BY <1>1, <1>2, MeddledAssumption DEF MeddledInv, TypeInv, TypeOK, Partition
<1>4. UNCHANGED <<holder, pc, phase, entry, now, receipt, physical, todo, ledger, outcome,
                  occupancy>>
  BY DEF Meddle
<1>5. TypeInv'
  BY <1>3, <1>4 DEF MeddledInv, TypeInv, TypeOK, LedgerKept
<1>6. LockDiscipline'
  BY <1>4 DEF MeddledInv, LockDiscipline, InTransaction
<1>7. meddles' \in Nat /\ since' \in [Live -> SUBSET Name]
  BY <1>2, <1>3 DEF Meddle, MeddledInv
<1>8. ASSUME NEW p \in Live PROVE Memory(p)' /\ Window(p)'
  <2>1. Same(p) /\ physical'[p] = physical[p] /\ ledger'[p] = ledger[p]
    BY <1>4 DEF Same
  <2>2. Memory(p)'
    BY <2>1, MemoryFrame DEF MeddledInv
  <2>3. Window(p)'
    BY <1>2, <1>3, <2>1, WindowFrame DEF MeddledInv, TypeInv, TypeOK
  <2> QED BY <2>2, <2>3
<1> QED BY <1>5, <1>6, <1>7, <1>8 DEF MeddledInv

LEMMA MeddledInvariance == MeddledSpec => []MeddledInv
<1>1. MeddledInit => MeddledInv
  <2> SUFFICES ASSUME MeddledInit PROVE MeddledInv
    OBVIOUS
  <2>1. TypeInv /\ LockDiscipline
    BY TypeInit, Initially DEF MeddledInit, IInv
  <2>2. ASSUME NEW p \in Live PROVE Memory(p) /\ Window(p)
    BY DEF MeddledInit, Init, Memory, Scanned, Remembers, Concludes, Window
  <2> QED BY <2>1, <2>2 DEF MeddledInit, MeddledInv
<1>2. MeddledInv /\ [MeddledNext]_allVars => MeddledInv'
  <2> SUFFICES ASSUME MeddledInv, [MeddledNext]_allVars PROVE MeddledInv'
    OBVIOUS
  <2>1. CASE UNCHANGED allVars
    <3>1. UNCHANGED vars /\ meddles' = meddles /\ since' = since
      BY <2>1 DEF allVars
    <3>2. TypeInv'
      BY <3>1, TypeStep DEF MeddledInv
    <3>3. LockDiscipline'
      BY <3>1 DEF vars, MeddledInv, LockDiscipline, InTransaction
    <3>4. ASSUME NEW p \in Live PROVE Memory(p)' /\ Window(p)'
      <4>1. Same(p) /\ physical'[p] = physical[p] /\ ledger'[p] = ledger[p] /\ files' = files
        BY <3>1 DEF vars, Same
      <4>2. Memory(p)'
        BY <4>1, MemoryFrame DEF MeddledInv
      <4>3. Window(p)'
        BY <3>1, <4>1, WindowFrame DEF MeddledInv, TypeInv, TypeOK
      <4> QED BY <4>2, <4>3
    <3> QED BY <3>1, <3>2, <3>3, <3>4 DEF MeddledInv
  <2>2. ASSUME NEW p \in Live, StoreStep(p) PROVE MeddledInv'
    <3>1. StepOf(p) /\ meddles' = meddles /\ since' = [since EXCEPT ![p] = {}]
      BY <2>2 DEF StoreStep, StepOf
    <3>2. TypeInv'
      BY <3>1, TypeStep DEF MeddledInv, Next, StepOf
    <3>3. LockDiscipline'
      BY <3>1, LockStep DEF MeddledInv
    <3>4. \A q \in Live : Memory(q)' /\ Window(q)'
      BY <2>2, <3>1, MemoryOwn, WindowOwn, KnowledgeOther DEF MeddledInv
    <3>5. since' \in [Live -> SUBSET Name]
      BY <3>1 DEF MeddledInv
    <3> QED BY <3>1, <3>2, <3>3, <3>4, <3>5 DEF MeddledInv
  <2> QED BY <2>1, <2>2, MeddleKeeps DEF MeddledNext
<1> QED BY <1>1, <1>2, PTL DEF MeddledSpec

(* A step of the store                                                     *)
LEMMA StoreSteps ==
    ASSUME MeddledInv, [MeddledNext]_allVars, meddles' = meddles
    PROVE  (\E p \in Live : StepOf(p)) \/ UNCHANGED vars
BY DEF MeddledInv, MeddledNext, StoreStep, Meddle, StepOf, allVars

(* Whatever an uncooperative process does, the store itself overwrites     *)
(* nothing that stands under a final or a foreign name.                    *)
THEOREM MeddledNotOverwritten == MeddledSpec => NeverOverwrites
<1>1. ASSUME MeddledInv, [MeddledNext]_allVars, meddles' = meddles,
             NEW n \in FinalName \cup OtherName, files[n] # Absent
      PROVE  files'[n] \in {files[n], Absent}
  <2>1. CASE UNCHANGED vars
    BY <2>1 DEF vars
  <2>2. ASSUME NEW p \in Live, StepOf(p)
        PROVE  files'[n] \in {files[n], Absent}
    <3>1. CASE n \in FinalName
      BY <1>1, <2>2, <3>1, FinalsFrame DEF MeddledInv
    <3>2. CASE n \in OtherName
      <4>1. n \in Name /\ n \notin {Temp(p), Target(p)}
        <5>1. n.kind = "other" /\ Temp(p).kind = "tmp" /\ Target(p).kind \in Kinds
          BY <1>1, <3>2 DEF MeddledInv, TypeInv, TypeOK, OtherName, Temp, Target
        <5> QED BY <3>2, <5>1 DEF Name, Kinds
      <4> QED BY <1>1, <2>2, <4>1, FilesFrame DEF MeddledInv, Touches
    <3> QED BY <3>1, <3>2
  <2> QED BY <1>1, <2>1, <2>2, StoreSteps
<1>2. MeddledInv /\ [MeddledNext]_allVars =>
        [meddles' = meddles =>
           \A n \in FinalName \cup OtherName :
              files[n] # Absent => files'[n] \in {files[n], Absent}]_allVars
  BY <1>1
<1> QED BY <1>2, MeddledInvariance, PTL DEF MeddledSpec, NeverOverwrites

(* Beside such a process a removal is by name, and still the store removes *)
(* no file but the one it has checked, unless the name was touched after   *)
(* that check, and no name that it neither planned to remove nor wrote.    *)
THEOREM MeddledOnlyChecked == MeddledSpec => RemovesOnlyWhatItChecked
<1> DEFINE Removed(n) ==
      \E p \in Live :
         /\ holder = p
         /\ \/ /\ n.kind # "other" /\ n \notin {Start(p), Finish(p)}
               /\ physical[p][n] # Absent
               /\ n \in since[p] \/ files[n] = physical[p][n]
            \/ n = Temp(p) /\ (n \in since[p] \/ Staged(p))
<1>1. ASSUME MeddledInv, [MeddledNext]_allVars, meddles' = meddles,
             NEW n \in Name, files[n] # Absent, files'[n] = Absent
      PROVE  Removed(n)
  <2> USE <1>1 DEF MeddledInv, TypeInv, TypeOK, unchangedInside
  <2>1. PICK p \in Live : StepOf(p)
    BY StoreSteps DEF vars
  <2>2. /\ p \in Id /\ Temp(p) \in Name /\ Target(p) \in Name /\ Target(p) # Temp(p)
        /\ files' # files /\ Touches(p)
    BY <2>1, LiveAssumption, Names, TargetIsFinal, FilesFrame
  <2>3. holder = p
    BY <2>2 DEF Touches, LockDiscipline, InTransaction, Holding
  <2>4. Memory(p) /\ Window(p)
    OBVIOUS
  <2>5. CASE Unlink(p)
    <3>1. pc[p] = "unlinking" /\ n \in todo[p]
      BY <2>5 DEF Unlink, Partition
    <3> QED BY <2>3, <2>4, <3>1 DEF Memory, Scanned, Window
  <2>6. CASE CleanUp(p)
    <3>1. pc[p] = "cleaning" /\ n = Temp(p)
      BY <2>2, <2>6 DEF CleanUp, Partition
    <3> QED BY <2>3, <2>4, <3>1 DEF Window
  <2>7. CASE Rename(p)
    <3>1. pc[p] = "renaming" /\ n = Temp(p)
      BY <2>2, <2>7 DEF Rename, Partition
    <3> QED BY <2>3, <2>4, <3>1 DEF Window
  <2>8. ASSUME NEW k \in 0 .. EventBytes[phase[p]]
        PROVE  files' # [files EXCEPT ![Temp(p)] = Event(p, k)]
    BY <2>2, EventIsFile DEF Partition
  <2>9. CASE Create(p) \/ Write(p)
    <3>1. EventBytes[phase[p]] \in Nat
      BY LimitAssumption DEF Kinds
    <3>2. Create(p) => files' = [files EXCEPT ![Temp(p)] = Event(p, 0)]
      BY <2>2 DEF Create
    <3>3. Write(p) => \E k \in 0 .. EventBytes[phase[p]] :
                         files' = [files EXCEPT ![Temp(p)] = Event(p, k)]
      BY <2>2, <3>1 DEF Write, AcceptedBytes, Staged, Event
    <3> QED BY <2>8, <2>9, <3>1, <3>2, <3>3
  <2> QED BY <2>1, <2>2, <2>5, <2>6, <2>7, <2>9
      DEF StepOf, Proceed, Transact, Activate, TryLock, RunCommand, Release, Crash,
          ScanAndPlan, CheckUnlink, CheckCreate, CheckStaged, CheckPublished, CheckCleanUp,
          Settle
<1>2. MeddledInv /\ [MeddledNext]_allVars =>
        [meddles' = meddles =>
           \A n \in Name : files[n] # Absent /\ files'[n] = Absent => Removed(n)]_allVars
  BY <1>1
<1> QED BY <1>2, MeddledInvariance, PTL DEF MeddledSpec, RemovesOnlyWhatItChecked

LEMMA SettlingSteps ==
    ASSUME MeddledInv, [MeddledNext]_allVars, NEW p \in Live,
           pc[p] = "settle", pc'[p] = "release"
    PROVE  Settle(p)
<1> USE DEF MeddledInv, TypeInv, TypeOK
<1>1. PICK q \in Live : StepOf(q)
  BY DEF MeddledNext, StoreStep, Meddle, StepOf, allVars, vars
<1>2. q = p
  BY <1>1, OthersKeep DEF Same
<1> QED BY <1>1, <1>2
    DEF StepOf, Proceed, Transact, Activate, TryLock, RunCommand, Release, Crash,
        ScanAndPlan, CheckUnlink, Unlink, CheckCreate, Create, Write, CheckStaged, Rename,
        CheckPublished, CheckCleanUp, CleanUp

(* An outcome without an error is true when it is made, beside any process:*)
(* the event is there and whole, a finish has its start, and of all other  *)
(* files those of the plan are gone and the rest is as it was scanned.     *)
THEOREM MeddledCleanIsIntact == MeddledSpec => CleanMeansIntact
<1> DEFINE Intact(p) ==
      pc[p] = "settle" /\ pc'[p] = "release" /\ outcome'[p].error = "none" =>
         /\ \A n \in Name :
               files[n] = IF n = Target(p) THEN Event(p, EventBytes[phase[p]])
                          ELSE IF n \in Removals(physical[p], now[p], Reservation(p))
                          THEN Absent ELSE physical[p][n]
         /\ phase[p] = "finish" => files[Start(p)] = receipt[p]
<1>1. ASSUME MeddledInv, [MeddledNext]_allVars, NEW p \in Live,
             pc[p] = "settle", pc'[p] = "release", outcome'[p].error = "none"
      PROVE  Intact(p)
  <2> USE <1>1 DEF MeddledInv, TypeInv, TypeOK
  <2>1. Settle(p)
    BY SettlingSteps
  <2>2. /\ outcome'[p].error = outcome[p].error
        /\ ledger[p] # Absent => Agrees(p)
    <3>1. ASSUME NEW e \in {"IdentityChanged", "Io"},
                 outcome' = [outcome EXCEPT ![p].error = IF @ = "none" THEN e ELSE @]
          PROVE  FALSE
      BY <3>1 DEF Outcome
    <3> QED BY <2>1, <3>1 DEF Settle
  <2>3. /\ ledger[p] = files /\ todo[p] = {}
        /\ \A n \in Name : files[n] = IF n = Target(p) THEN Full(p) ELSE LeftOf(p, n)
        /\ phase[p] = "finish" => files[Start(p)] = receipt[p]
    BY <2>2 DEF Memory, Remembers, Agrees
  <2> QED BY <2>3 DEF Full, LeftOf, Plan
<1>2. MeddledInv /\ [MeddledNext]_allVars => [\A p \in Live : Intact(p)]_allVars
  BY <1>1
<1> QED BY <1>2, MeddledInvariance, PTL DEF MeddledSpec, CleanMeansIntact

(* Whatever failed and whatever another process did, an occupancy is       *)
(* reported only of a partition that differs from the scan by what the     *)
(* transaction planned to remove, announces as published, or admits may    *)
(* remain.                                                                 *)
THEOREM MeddledExplained == MeddledSpec => OccupancyIsExplained
<1> DEFINE Accounted(p) ==
      pc[p] = "settle" /\ pc'[p] = "release" /\ occupancy'[p] # Absent =>
         \A n \in Name : files[n] # physical[p][n] =>
            \/ files[n] = Absent /\ n \in Removals(physical[p], now[p], Reservation(p))
            \/ /\ n = Target(p) /\ files[n] = Event(p, EventBytes[phase[p]])
               /\ outcome'[p].publication = "Published"
            \/ /\ n = Temp(p) /\ Staged(p)
               /\ outcome'[p].staging = "MayRemain"
<1>1. ASSUME MeddledInv, [MeddledNext]_allVars, NEW p \in Live,
             pc[p] = "settle", pc'[p] = "release", occupancy'[p] # Absent
      PROVE  Accounted(p)
  <2> USE <1>1 DEF MeddledInv, TypeInv, TypeOK
  <2>1. Settle(p) /\ occupancy[p] = Absent /\ Explained(p) /\ Window(p)
    BY SettlingSteps, MemoryExplains DEF Memory, Concludes
  <2>2. ledger[p] # Absent /\ ledger[p] = files /\ outcome' = outcome
    BY <2>1 DEF Settle, Agrees
  <2>3. Alien \notin OwnStaging(p) /\ Absent \notin OwnStaging(p)
    <3>1. \A k \in 0 .. EventBytes[phase[p]] : Event(p, k) # Absent /\ Event(p, k).by = p
      BY EventIsFile DEF Event
    <3>2. Alien.by = Foreign /\ p # Foreign
      BY LiveAssumption, SentinelAssumption DEF Alien
    <3> QED BY <3>1, <3>2 DEF OwnStaging
  <2>4. ASSUME NEW n \in Name, n = Temp(p), files[n] \in OwnStaging(p),
               outcome[p].staging \in {"MayRemain", "Published"}
        PROVE  Staged(p) /\ outcome'[p].staging = "MayRemain"
    BY <2>1, <2>2, <2>3, <2>4 DEF Window, OwnStaging, Staged
  <2> QED BY <2>1, <2>2, <2>4 DEF Explained, Plan, Full
<1>2. MeddledInv /\ [MeddledNext]_allVars => [\A p \in Live : Accounted(p)]_allVars
  BY <1>1
<1> QED BY <1>2, MeddledInvariance, PTL DEF MeddledSpec, OccupancyIsExplained

=============================================================================
