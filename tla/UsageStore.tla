----------------------------- MODULE UsageStore -----------------------------
(***************************************************************************)
(* Concurrent drft invocations recording their usage in one cache          *)
(* partition: src/src/usage/lifecycle.rs over the native transactions of   *)
(* src/src/usage/store/native/transaction.rs.                              *)
(*                                                                         *)
(* Every live invocation is a process.  It publishes a start event before  *)
(* its command runs and, if that returned a receipt, a finish event after  *)
(* it.  Each publication is one transaction under the partition's flock:   *)
(* scan and plan, unlink what the plan removes, create a staging file,     *)
(* write it, rename it to its final name, verify.  A checkpoint of the     *)
(* code (Point) is a step boundary here, so a crash, an I/O failure and,   *)
(* in UsageStoreMeddled, an uncooperative process can come in between.     *)
(*                                                                         *)
(* The wall clock may jump either way between two readings, so a reading   *)
(* is any element of Readings and no clock variable is needed.             *)
(***************************************************************************)
EXTENDS Retention

CONSTANTS
    Live,      \* the invocations that run; the other ids are earlier ones
    History,   \* the partitions earlier invocations may have left behind
    Readings   \* what a look at the wall clock may return

(* Earlier invocations obeyed the same protocol: their finals are whole, and *)
(* a crash may have left staging files or half of a pair.                  *)
LeftBehind(fs) ==
    /\ fs \in Partition
    /\ \A n \in Name : fs[n] # Absent => n.id \notin Live /\ n.kind # "other"
    /\ \A n \in FinalName : fs[n] # Absent => Supported(fs, n)
    /\ ~Overfull(fs)

ASSUME LiveAssumption == Live \subseteq Id
ASSUME HistoryAssumption == \A fs \in History : LeftBehind(fs)
ASSUME ReadingsAssumption == Readings \subseteq Time \cup {NoTime}
ASSUME NoneAssumption == Absent \notin Id /\ Absent \notin Partition

VARIABLES
    files,     \* the partition on disk
    holder,    \* who holds the flock on .lock
    pc,        \* where each invocation stands
    phase,     \* which event it is publishing
    entry,     \* its process-entry wall time
    now,       \* when the event being published was collected
    receipt,   \* StartReceipt: the start's observed stat and digest
    physical,  \* the inventory the plan was made for
    todo,      \* planned removals still to be done
    ledger,    \* the expected partition: confirmed own changes only
    outcome,   \* PublishOutcome of the latest transaction
    occupancy  \* its occupancy, once a last scan has confirmed it

vars == <<files, holder, pc, phase, entry, now, receipt, physical, todo, ledger, outcome,
          occupancy>>

NoOne == Absent

Errors == {"none", "Io", "RandomUnavailable", "ScanLimit", "UnknownName", "Collision",
           "MissingStart", "ReceiptMismatch", "InvalidReservation", "Capacity",
           "IdentityChanged", "UnsafeEntry"}

Outcome == [publication : {"NotPublished", "Published"},
            staging : {"NotCreated", "Removed", "Published", "MayRemain"},
            removed : Nat, partial : BOOLEAN, error : Errors]

NoOutcome == [publication |-> "NotPublished", staging |-> "NotCreated", removed |-> 0,
              partial |-> FALSE, error |-> "none"]

Holding == {"scan", "unlink", "unlinking", "creating", "writing", "renaming",
            "renamed", "cleanup", "cleaning", "settle", "release"}
Stopped == {"done", "crashed"}
Places == {"new", "lock", "command"} \cup Holding \cup Stopped

(* What an occupancy may be is the subject of OccupancyIsReal.             *)
TypeOK ==
    /\ files \in Partition
    /\ holder \in Live \cup {NoOne}
    /\ pc \in [Live -> Places]
    /\ phase \in [Live -> Kinds]
    /\ entry \in [Live -> Time \cup {NoTime}]
    /\ now \in [Live -> Time \cup {NoTime}]
    /\ receipt \in [Live -> File \cup {Absent}]
    /\ physical \in [Live -> Partition \cup {Absent}]
    /\ todo \in [Live -> SUBSET Name]
    /\ ledger \in [Live -> Partition \cup {Absent}]
    /\ outcome \in [Live -> Outcome]
    /\ DOMAIN occupancy = Live

Init ==
    /\ files \in History
    /\ holder = NoOne
    /\ pc = [p \in Live |-> "new"]
    /\ phase = [p \in Live |-> "start"]
    /\ entry = [p \in Live |-> NoTime]
    /\ now = [p \in Live |-> NoTime]
    /\ receipt = [p \in Live |-> Absent]
    /\ physical = [p \in Live |-> Absent]
    /\ todo = [p \in Live |-> {}]
    /\ ledger = [p \in Live |-> Absent]
    /\ outcome = [p \in Live |-> NoOutcome]
    /\ occupancy = [p \in Live |-> Absent]

-----------------------------------------------------------------------------
(* The lifecycle around the transactions                                   *)

unchangedInside == UNCHANGED <<files, receipt, physical, todo, ledger>>

(* The guard is dropped and with it everything local to the transaction;   *)
(* of its outcome only the fate of the staging file is remembered, which   *)
(* the properties speak of later.                                          *)
DropTransaction(p) ==
    /\ physical' = [physical EXCEPT ![p] = Absent]
    /\ ledger' = [ledger EXCEPT ![p] = Absent]
    /\ todo' = [todo EXCEPT ![p] = {}]
    /\ outcome' = [outcome EXCEPT ![p] = [NoOutcome EXCEPT !.staging = outcome[p].staging]]
    /\ occupancy' = [occupancy EXCEPT ![p] = Absent]

(* An invocation that ends, or never became active, remembers nothing.     *)
EndCollection(p) ==
    /\ entry' = [entry EXCEPT ![p] = NoTime]
    /\ now' = [now EXCEPT ![p] = NoTime]
    /\ receipt' = [receipt EXCEPT ![p] = Absent]

(* Entry, opt-in and the open of the partition.  A failure anywhere before *)
(* the lock, or collection being off, leaves the command to run unobserved.*)
Activate(p) ==
    /\ pc[p] = "new"
    /\ \/ /\ \E e \in Readings, c \in Readings :
                /\ entry' = [entry EXCEPT ![p] = e]
                /\ now' = [now EXCEPT ![p] = c]
          /\ pc' = [pc EXCEPT ![p] = "lock"]
       \/ pc' = [pc EXCEPT ![p] = "done"] /\ UNCHANGED <<entry, now>>
    /\ UNCHANGED <<holder, phase, outcome, occupancy>> /\ unchangedInside

(* try_lock: one nonblocking attempt.  Busy or any failure gives up.       *)
TryLock_IgnoresBusy(p) ==
    /\ pc[p] = "lock"
    /\ holder' = p
    /\ outcome' = [outcome EXCEPT ![p] = NoOutcome]
    /\ pc' = [pc EXCEPT ![p] = "scan"]
    /\ UNCHANGED <<phase, entry, now, receipt, files, physical, todo, ledger, occupancy>>

TryLock(p) ==
    /\ pc[p] = "lock"
    /\ \/ /\ holder = NoOne
          /\ holder' = p
          /\ outcome' = [outcome EXCEPT ![p] = NoOutcome]
          /\ pc' = [pc EXCEPT ![p] = "scan"]
          /\ UNCHANGED <<entry, now, receipt>>
       \/ /\ pc' = [pc EXCEPT ![p] = "done"]
          /\ EndCollection(p)
          /\ UNCHANGED <<holder, outcome>>
    /\ UNCHANGED <<phase, files, physical, todo, ledger, occupancy>>

(* finish(): take the active state, collect, and try the lock again.  An   *)
(* event that cannot be built ends collection.                             *)
RunCommand_StartsAgain(p) ==
    /\ pc[p] = "command"
    /\ pc' = [pc EXCEPT ![p] = "lock"]
    /\ UNCHANGED <<phase, entry, now, receipt, holder, outcome, files, physical, todo,
                   ledger, occupancy>>

RunCommand(p) ==
    /\ pc[p] = "command"
    /\ \/ /\ \E c \in Readings : now' = [now EXCEPT ![p] = c]
          /\ phase' = [phase EXCEPT ![p] = "finish"]
          /\ pc' = [pc EXCEPT ![p] = "lock"]
          /\ UNCHANGED <<entry, receipt>>
       \/ /\ pc' = [pc EXCEPT ![p] = "done"]
          /\ EndCollection(p)
          /\ UNCHANGED phase
    /\ UNCHANGED <<holder, outcome, files, physical, todo, ledger, occupancy>>

(* Only a start that returned a receipt leaves an active invocation.       *)
Release_KeepsActive(p) ==
    /\ pc[p] = "release"
    /\ holder' = NoOne
    /\ DropTransaction(p)
    /\ \/ /\ receipt[p] # Absent
          /\ pc' = [pc EXCEPT ![p] = "command"]
          /\ UNCHANGED <<entry, now, receipt>>
       \/ /\ receipt[p] = Absent
          /\ pc' = [pc EXCEPT ![p] = "done"]
          /\ EndCollection(p)
    /\ UNCHANGED <<files, phase>>

Release_KeepsLock(p) ==
    /\ pc[p] = "release"
    /\ DropTransaction(p)
    /\ \/ /\ phase[p] = "start" /\ receipt[p] # Absent
          /\ pc' = [pc EXCEPT ![p] = "command"]
          /\ holder' = NoOne
          /\ UNCHANGED <<entry, now, receipt>>
       \/ /\ phase[p] = "finish" \/ receipt[p] = Absent
          /\ pc' = [pc EXCEPT ![p] = "done"]
          /\ EndCollection(p)
          /\ UNCHANGED holder
    /\ UNCHANGED <<files, phase>>

Release(p) ==
    /\ pc[p] = "release"
    /\ holder' = NoOne
    /\ DropTransaction(p)
    /\ \/ /\ phase[p] = "start" /\ receipt[p] # Absent
          /\ pc' = [pc EXCEPT ![p] = "command"]
          /\ UNCHANGED <<entry, now, receipt>>
       \/ /\ phase[p] = "finish" \/ receipt[p] = Absent
          /\ pc' = [pc EXCEPT ![p] = "done"]
          /\ EndCollection(p)
    /\ UNCHANGED <<files, phase>>

(* Process death at any point: memory is gone, the kernel drops the flock, *)
(* the partition stays as it is.                                           *)
Crash(p) ==
    /\ pc[p] \notin {"new"} \cup Stopped
    /\ pc' = [pc EXCEPT ![p] = "crashed"]
    /\ holder' = IF holder = p THEN NoOne ELSE holder
    /\ DropTransaction(p) /\ EndCollection(p)
    /\ UNCHANGED <<files, phase>>

-----------------------------------------------------------------------------
(* The transaction: execute() and publish_with()                           *)

Target(p) == [kind |-> phase[p], id |-> p]

Event(p, n) == [by |-> p, kind |-> phase[p], bytes |-> n,
                entry |-> entry[p], collected |-> now[p]]

Reservation(p) == [op |-> phase[p], id |-> p, bytes |-> EventBytes[phase[p]]]

(* Ledger::validate: the same names, and every survivor unchanged.         *)
Agrees_OnNames(p) == {n \in Name : ledger[p][n] # Absent} = Present(files)
Agrees(p) == ledger[p] = files

(* An error with the staging descriptor open and nothing published goes    *)
(* through stage cleanup; every other error goes straight to accounting.   *)
Fail(p, e) ==
    /\ outcome' = [outcome EXCEPT ![p].error = e]
    /\ pc' = [pc EXCEPT ![p] =
                IF outcome[p].staging = "MayRemain" THEN "cleanup" ELSE "settle"]

outside == <<holder, phase, entry, now, occupancy>>

(* verify_receipt before the plan; the handle is the one that published.   *)
ReceiptRefusal(p) ==
    IF phase[p] = "start" THEN "none"
    ELSE IF files[Finish(p)] # Absent THEN "Collision"
    ELSE IF files[Start(p)] = Absent THEN "MissingStart"
    ELSE IF files[Start(p)] # receipt[p] THEN "ReceiptMismatch"
    ELSE "none"

ScanError(p) ==
    IF ScanRefusal(files) # "none" THEN ScanRefusal(files)
    ELSE IF ReceiptRefusal(p) # "none" THEN ReceiptRefusal(p)
    ELSE PlanRefusal(files, now[p], Reservation(p))

ScanAndPlan(p) ==
    /\ pc[p] = "scan"
    /\ \/ /\ ScanError(p) = "none"
          /\ physical' = [physical EXCEPT ![p] = files]
          /\ ledger' = [ledger EXCEPT ![p] = files]
          /\ todo' = [todo EXCEPT ![p] = Removals(files, now[p], Reservation(p))]
          /\ pc' = [pc EXCEPT ![p] = "unlink"]
          /\ UNCHANGED <<files, receipt, outcome>>
       \/ /\ ScanError(p) # "none"
          /\ Fail(p, ScanError(p)) /\ unchangedInside
       \/ \E e \in {"Io", "RandomUnavailable"} : Fail(p, e) /\ unchangedInside
    /\ UNCHANGED outside

(* Removal order: staging files, then groups by eviction key as the snapshot *)
(* had them, the start of a group before its finish.                       *)
RemovedBefore(fs, m, n) ==
    \/ m.kind = "tmp" /\ (n.kind # "tmp" \/ m.id < n.id)
    \/ m.kind # "tmp" /\ n.kind # "tmp" /\ m.id = n.id /\ m.kind = "start"
    \/ m.kind # "tmp" /\ n.kind # "tmp" /\ m.id # n.id /\ EvictedBefore(fs, m.id, n.id)

IsNext(p, n) ==
    /\ n \in todo[p]
    /\ \A m \in todo[p] \ {n} : RemovedBefore(physical[p], n, m)

CheckUnlink(p) ==
    /\ pc[p] = "unlink" /\ todo[p] # {}
    /\ \/ Agrees(p) /\ pc' = [pc EXCEPT ![p] = "unlinking"] /\ UNCHANGED outcome
       \/ ~Agrees(p) /\ Fail(p, "IdentityChanged")
       \/ Fail(p, "Io")
    /\ unchangedInside /\ UNCHANGED outside

TearsPair_LastCounts(p, n) == n.kind # "tmp"

(* partial_group: this removal leaves a planned sibling behind for now.    *)
TearsPair(p, n) ==
    n.kind # "tmp" /\ \E m \in todo[p] \ {n} : m.kind # "tmp" /\ m.id = n.id

LedgerAfterUnlink_Stale(p, n) == ledger
LedgerAfterUnlink(p, n) == [ledger EXCEPT ![p][n] = Absent]

Unlink(p) ==
    /\ pc[p] = "unlinking"
    /\ \/ \E n \in todo[p] :
             /\ IsNext(p, n) /\ files[n] # Absent
             /\ files' = [files EXCEPT ![n] = Absent]
             /\ ledger' = LedgerAfterUnlink(p, n)
             /\ todo' = [todo EXCEPT ![p] = @ \ {n}]
             /\ outcome' = [outcome EXCEPT
                    ![p].removed = @ + 1,
                    ![p].partial = TearsPair(p, n)]
             /\ pc' = [pc EXCEPT ![p] = "unlink"]
             /\ UNCHANGED <<receipt, physical>>
       \/ Fail(p, "Io") /\ unchangedInside
    /\ UNCHANGED outside

(* The capacity is checked again on what is really left.                   *)
CheckCreate_Refreshes(p) ==
    /\ pc[p] = "unlink" /\ todo[p] = {}
    /\ ledger' = [ledger EXCEPT ![p] = files]
    /\ \/ /\ Fits(files, Present(files), Reservation(p))
          /\ pc' = [pc EXCEPT ![p] = "creating"] /\ UNCHANGED outcome
       \/ /\ ~Fits(files, Present(files), Reservation(p))
          /\ Fail(p, "Capacity")
       \/ Fail(p, "Io")
    /\ UNCHANGED <<files, receipt, physical, todo>> /\ UNCHANGED outside

CheckCreate(p) ==
    /\ pc[p] = "unlink" /\ todo[p] = {}
    /\ \/ /\ Agrees(p) /\ Fits(files, Present(files), Reservation(p))
          /\ pc' = [pc EXCEPT ![p] = "creating"] /\ UNCHANGED outcome
       \/ /\ Agrees(p) /\ ~Fits(files, Present(files), Reservation(p))
          /\ Fail(p, "Capacity")
       \/ ~Agrees(p) /\ Fail(p, "IdentityChanged")
       \/ Fail(p, "Io")
    /\ unchangedInside /\ UNCHANGED outside

(* The file may exist before its stat enters the ledger: an error between  *)
(* the two leaves it to the cleanup.                                       *)
Create(p) ==
    /\ pc[p] = "creating"
    /\ \/ /\ files[Temp(p)] = Absent
          /\ files' = [files EXCEPT ![Temp(p)] = Event(p, 0)]
          /\ ledger' = [ledger EXCEPT ![p][Temp(p)] = Event(p, 0)]
          /\ outcome' = [outcome EXCEPT ![p].staging = "MayRemain"]
          /\ pc' = [pc EXCEPT ![p] = "writing"]
          /\ UNCHANGED <<receipt, physical, todo>>
       \/ /\ files[Temp(p)] = Absent
          /\ files' = [files EXCEPT ![Temp(p)] = Event(p, 0)]
          /\ outcome' = [outcome EXCEPT ![p].staging = "MayRemain", ![p].error = "Io"]
          /\ pc' = [pc EXCEPT ![p] = "cleanup"]
          /\ UNCHANGED <<receipt, physical, todo, ledger>>
       \/ Fail(p, "Io") /\ unchangedInside
    /\ UNCHANGED outside

(* The write loop accepts any positive count; zero or an error fails it.   *)
(* Created validates the partition before the first byte.                  *)
Staged(p) == files[Temp(p)] \in {Event(p, n) : n \in 0 .. EventBytes[phase[p]]}

AcceptedBytes(p) == files[Temp(p)].bytes + 1 .. EventBytes[phase[p]]

(* A staging entry that vanished or was replaced is given away by the      *)
(* descriptor's link count or by the named entry.                          *)
Write(p) ==
    /\ pc[p] = "writing"
    /\ \/ /\ Staged(p) /\ files[Temp(p)].bytes < EventBytes[phase[p]]
          /\ \/ /\ files[Temp(p)].bytes = 0 => Agrees(p)
                /\ \E n \in AcceptedBytes(p) :
                      files' = [files EXCEPT ![Temp(p)] = Event(p, n)]
                /\ UNCHANGED <<pc, outcome, receipt, physical, todo, ledger>>
             \/ /\ files[Temp(p)].bytes = 0 /\ ~Agrees(p)
                /\ Fail(p, "IdentityChanged") /\ unchangedInside
             \/ Fail(p, "Io") /\ unchangedInside
       \/ /\ ~Staged(p)
          /\ \E e \in {"UnsafeEntry", "IdentityChanged", "Io"} : Fail(p, e)
          /\ unchangedInside
    /\ UNCHANGED outside

(* Complete length and attributes, exact membership, the bytes read back.  *)
CheckStaged_AnyLength(p) ==
    /\ pc[p] = "writing" /\ Staged(p)
    /\ ledger' = [ledger EXCEPT ![p][Temp(p)] = files[Temp(p)]]
    /\ pc' = [pc EXCEPT ![p] = "renaming"]
    /\ UNCHANGED <<files, receipt, physical, todo, outcome>> /\ UNCHANGED outside

CheckStaged(p) ==
    /\ pc[p] = "writing" /\ Staged(p)
    /\ files[Temp(p)].bytes = EventBytes[phase[p]]
    /\ ledger' = [ledger EXCEPT ![p][Temp(p)] = files[Temp(p)]]
    /\ \/ ledger'[p] = files /\ pc' = [pc EXCEPT ![p] = "renaming"] /\ UNCHANGED outcome
       \/ ledger'[p] # files /\ Fail(p, "IdentityChanged")
       \/ Fail(p, "Io")
    /\ UNCHANGED <<files, receipt, physical, todo>> /\ UNCHANGED outside

(* RENAME_NOREPLACE is the commit point.                                   *)
Rename_Replaces(p) ==
    /\ pc[p] = "renaming"
    /\ files[Temp(p)] # Absent
    /\ files' = [files EXCEPT ![Target(p)] = files[Temp(p)], ![Temp(p)] = Absent]
    /\ outcome' = [outcome EXCEPT ![p].publication = "Published",
                                  ![p].staging = "Published"]
    /\ pc' = [pc EXCEPT ![p] = "renamed"]
    /\ UNCHANGED <<receipt, physical, todo, ledger>> /\ UNCHANGED outside

Rename(p) ==
    /\ pc[p] = "renaming"
    /\ \/ /\ files[Temp(p)] # Absent /\ files[Target(p)] = Absent
          /\ files' = [files EXCEPT ![Target(p)] = files[Temp(p)], ![Temp(p)] = Absent]
          /\ outcome' = [outcome EXCEPT ![p].publication = "Published",
                                        ![p].staging = "Published"]
          /\ pc' = [pc EXCEPT ![p] = "renamed"]
          /\ UNCHANGED <<receipt, physical, todo, ledger>>
       \/ files[Target(p)] # Absent /\ Fail(p, "Collision") /\ unchangedInside
       \/ Fail(p, "Io") /\ unchangedInside
    /\ UNCHANGED outside

Renamed(p) == [ledger[p] EXCEPT ![Target(p)] = ledger[p][Temp(p)], ![Temp(p)] = Absent]

(* After the rename: the ledger moves the name, the partition must agree,  *)
(* and a finish looks at its start once more.  Only a start gets a receipt.*)
Verified(p) ==
    /\ Renamed(p) = files
    /\ phase[p] = "finish" => files[Start(p)] = receipt[p]

ReceiptFor_AnyEvent(p) == files[Target(p)]
ReceiptFor(p) == IF phase[p] = "start" THEN files[Start(p)] ELSE receipt[p]

CheckPublished_ReceiptFirst(p) ==
    /\ pc[p] = "renamed"
    /\ receipt' = [receipt EXCEPT ![p] = ReceiptFor(p)]
    /\ \/ /\ Verified(p)
          /\ ledger' = [ledger EXCEPT ![p] = Renamed(p)]
          /\ pc' = [pc EXCEPT ![p] = "settle"] /\ UNCHANGED outcome
       \/ /\ \/ ~Verified(p) /\ Fail(p, "IdentityChanged")
             \/ Fail(p, "Io")
          /\ ledger' = [ledger EXCEPT ![p] = Renamed(p)]
    /\ UNCHANGED <<files, physical, todo>> /\ UNCHANGED outside

CheckPublished(p) ==
    /\ pc[p] = "renamed"
    /\ \/ /\ Verified(p)
          /\ ledger' = [ledger EXCEPT ![p] = Renamed(p)]
          /\ receipt' = [receipt EXCEPT ![p] = ReceiptFor(p)]
          /\ pc' = [pc EXCEPT ![p] = "settle"] /\ UNCHANGED outcome
       \/ /\ ~Verified(p)
          /\ Fail(p, "IdentityChanged")
          /\ ledger' = [ledger EXCEPT ![p] = Renamed(p)]
          /\ UNCHANGED receipt
       \/ /\ Fail(p, "Io")
          /\ ledger' \in {ledger, [ledger EXCEPT ![p] = Renamed(p)]}
          /\ UNCHANGED receipt
    /\ UNCHANGED <<files, physical, todo>> /\ UNCHANGED outside

(* Staging is removed only if descriptor and named entry still agree;      *)
(* otherwise it may remain.                                                *)
CheckCleanUp_ByName(p) ==
    /\ pc[p] = "cleanup"
    /\ pc' = [pc EXCEPT ![p] = "cleaning"]
    /\ UNCHANGED outcome /\ unchangedInside /\ UNCHANGED outside

CheckCleanUp(p) ==
    /\ pc[p] = "cleanup"
    /\ \/ Staged(p) /\ pc' = [pc EXCEPT ![p] = "cleaning"]
       \/ pc' = [pc EXCEPT ![p] = "settle"]
    /\ UNCHANGED outcome /\ unchangedInside /\ UNCHANGED outside

(* The unlink is by name, a call of its own.  One that fails, or finds     *)
(* nothing, leaves the outcome as it was.                                  *)
CleanUp_AssumesSuccess(p) ==
    /\ pc[p] = "cleaning"
    /\ files' \in {files, [files EXCEPT ![Temp(p)] = Absent]}
    /\ ledger' = [ledger EXCEPT ![p][Temp(p)] = files'[Temp(p)]]
    /\ outcome' = [outcome EXCEPT ![p].staging = "Removed"]
    /\ pc' = [pc EXCEPT ![p] = "settle"]
    /\ UNCHANGED <<receipt, physical, todo>> /\ UNCHANGED outside

CleanUp(p) ==
    /\ pc[p] = "cleaning"
    /\ \/ /\ files[Temp(p)] # Absent
          /\ files' = [files EXCEPT ![Temp(p)] = Absent]
          /\ ledger' = [ledger EXCEPT ![p][Temp(p)] = Absent]
          /\ outcome' = [outcome EXCEPT ![p].staging = "Removed"]
       \/ UNCHANGED <<files, ledger, outcome>>
    /\ pc' = [pc EXCEPT ![p] = "settle"]
    /\ UNCHANGED <<receipt, physical, todo>> /\ UNCHANGED outside

Counted(fs) == [files |-> FilesOf(Present(fs)), bytes |-> BytesOf(fs, Present(fs))]

(* Occupancy is reported only if a last scan agrees with the ledger; if not, *)
(* a receipt already made is withdrawn.                                    *)
Settle_CountsSnapshot(p) ==
    /\ pc[p] = "settle"
    /\ \/ /\ ledger[p] # Absent
          /\ occupancy' = [occupancy EXCEPT ![p] = Counted(physical[p])]
       \/ ledger[p] = Absent /\ UNCHANGED occupancy
    /\ pc' = [pc EXCEPT ![p] = "release"]
    /\ UNCHANGED <<files, physical, todo, ledger, receipt, outcome>>
    /\ UNCHANGED <<holder, phase, entry, now>>

Settle_TrustsLedger(p) ==
    /\ pc[p] = "settle"
    /\ \/ /\ ledger[p] # Absent
          /\ occupancy' = [occupancy EXCEPT ![p] = Counted(ledger[p])]
       \/ ledger[p] = Absent /\ UNCHANGED occupancy
    /\ pc' = [pc EXCEPT ![p] = "release"]
    /\ UNCHANGED <<files, physical, todo, ledger, receipt, outcome>>
    /\ UNCHANGED <<holder, phase, entry, now>>

Settle(p) ==
    /\ pc[p] = "settle"
    /\ \/ /\ ledger[p] # Absent /\ Agrees(p)
          /\ occupancy' = [occupancy EXCEPT ![p] = Counted(ledger[p])]
          /\ UNCHANGED <<outcome, receipt>>
       \/ /\ ledger[p] # Absent
          /\ \E e \in {"IdentityChanged", "Io"} :
                /\ e = "IdentityChanged" => ~Agrees(p)
                /\ outcome' = [outcome EXCEPT ![p].error = IF @ = "none" THEN e ELSE @]
          /\ receipt' = [receipt EXCEPT ![p] = IF phase[p] = "start" THEN Absent ELSE @]
          /\ UNCHANGED occupancy
       \/ ledger[p] = Absent /\ UNCHANGED <<outcome, occupancy, receipt>>
    /\ pc' = [pc EXCEPT ![p] = "release"]
    /\ UNCHANGED <<files, physical, todo, ledger>>
    /\ UNCHANGED <<holder, phase, entry, now>>

-----------------------------------------------------------------------------

Transact(p) ==
    \/ ScanAndPlan(p) \/ CheckUnlink(p) \/ Unlink(p) \/ CheckCreate(p) \/ Create(p)
    \/ Write(p) \/ CheckStaged(p) \/ Rename(p)
    \/ CheckPublished(p) \/ CheckCleanUp(p) \/ CleanUp(p) \/ Settle(p)

Proceed(p) == TryLock(p) \/ RunCommand(p) \/ Release(p) \/ Transact(p)

Next == \E p \in Live : Activate(p) \/ Proceed(p) \/ Crash(p)

(* A started process keeps running unless it crashes; whether and when one *)
(* starts, and crashes, is up to the environment.                          *)
Spec == Init /\ [][Next]_vars
FairSpec == Spec /\ \A p \in Live : WF_vars(Proceed(p))

-----------------------------------------------------------------------------
(* Safety                                                                  *)

InTransaction(p) == pc[p] \in Holding

(* Every step of a transaction, its accounting and its cleanup included,   *)
(* runs while its invocation holds the flock, so no two ever overlap.      *)
LockDiscipline == \A p \in Live : InTransaction(p) <=> holder = p

(* A final is never partial, mislabelled or somebody else's: whatever      *)
(* crashed or failed on the way, only complete events reach a final name.  *)
FinalsAreWhole == \A n \in FinalName : files[n] # Absent => Supported(files, n)

(* Nothing the store does changes a final once it is there: it stays as it *)
(* was published or it goes.                                               *)
FinalsNeverChange ==
    [][\A n \in FinalName : files[n] # Absent => files'[n] \in {files[n], Absent}]_vars

(* A finish appears only while the start of the same invocation is there,  *)
(* as that invocation published it, whatever cleanup its own or another    *)
(* transaction did in between.                                             *)
FinishJoinsItsStart ==
    [][\A p \in Live :
         files[Finish(p)] = Absent /\ files'[Finish(p)] # Absent =>
            /\ receipt[p] # Absent
            /\ files'[Start(p)] = receipt[p]
            /\ files'[Finish(p)].entry = receipt[p].entry]_vars

(* A receipt is evidence of a start that was published and verified: no    *)
(* transaction that failed, however late, returns one, and the start it    *)
(* names is there exactly as it was, or was evicted.                       *)
ReceiptIsEvidence ==
    \A p \in Live : receipt[p] # Absent =>
        /\ receipt[p].by = p /\ receipt[p].kind = "start"
        /\ receipt[p].bytes = EventBytes["start"]
        /\ files[Start(p)] \in {Absent, receipt[p]}
        /\ phase[p] = "start" /\ pc[p] = "release" =>
              outcome[p].error = "none" /\ outcome[p].publication = "Published"

(* The partition never exceeds its limits, staging files and the leftovers *)
(* of crashed invocations included.                                        *)
WithinQuota == ~Overfull(files)

(* Among cooperating invocations the change detection never mistakes the   *)
(* store's own work, or anyone else's, for interference.                   *)
NoFalseAlarm ==
    \A p \in Live :
        outcome[p].error \notin {"IdentityChanged", "ReceiptMismatch", "UnknownName",
                                "ScanLimit", "UnsafeEntry", "InvalidReservation"}

(* A new staging file is in use, was given up by a crash, or is confessed  *)
(* by the outcome of the transaction that left it.                         *)
StagingIsAccountedFor ==
    \A p \in Live : files[Temp(p)] # Absent =>
        /\ outcome[p].staging = "MayRemain"
        /\ pc[p] \in {"writing", "renaming", "cleanup", "cleaning", "settle", "release"}
                     \cup Stopped

(* What a finished transaction reports is what happened to the partition   *)
(* since it was scanned: how many retention removals, whether a pair was   *)
(* torn, and whether its own event and staging file are there.             *)
EffectsAreReported ==
    \A p \in Live : pc[p] = "release" /\ physical[p] # Absent =>
        LET gone == Present(physical[p]) \ Present(files)
            Torn(i) == /\ {Start(i), Finish(i)} \subseteq Present(physical[p])
                       /\ Cardinality({Start(i), Finish(i)} \cap gone) = 1
            o == outcome[p]
        IN  /\ o.removed = Cardinality(gone)
            /\ o.partial = (\E i \in Id : Torn(i))
            /\ (o.publication = "Published") =
                  (Target(p) \in Present(files) \ Present(physical[p]))
            /\ o.staging # "MayRemain" => files[Temp(p)] = Absent

(* A reported occupancy is the partition's real one.                       *)
OccupancyIsReal ==
    \A p \in Live : occupancy[p] # Absent =>
        pc[p] = "release" /\ occupancy[p] = Counted(files)

(* A publication leaves nobody else's abandoned staging behind.            *)
PublishingSweepsStaging ==
    [][\A p \in Live : pc[p] = "renaming" /\ pc'[p] = "renamed" =>
         Temporaries(files') = {}]_vars

(* The only record of an unfinished invocation, perhaps one still running, *)
(* is evicted only when no complete pair with known times is left.         *)
UnfinishedGoLast ==
    [][\A i \in Id :
         /\ files[Start(i)] # Absent /\ files[Finish(i)] = Absent
         /\ files'[Start(i)] = Absent
         => \A j \in Id : ~KnownCoverage(files, j)]_vars

-----------------------------------------------------------------------------
(* Refinement                                                              *)

StageOf(p) ==
    IF \/ pc[p] \in Stopped
       \/ phase[p] = "finish" /\ outcome[p].publication = "Published" THEN "over"
    ELSE IF \/ phase[p] = "finish" \/ pc[p] = "command"
            \/ outcome[p].publication = "Published" THEN "begun"
    ELSE "idle"

Log == INSTANCE UsageLog WITH
    starts <- {i \in Id : files[Start(i)] # Absent},
    finishes <- {i \in Id : files[Finish(i)] # Absent},
    stage <- [p \in Live |-> StageOf(p)]

(* The partition with its lock, staging, planning and failures implements  *)
(* the log: every step of every invocation publishes one event in one      *)
(* atomic step, removes one, gives up, or shows nothing to a reader.       *)
ImplementsLog == Log!LogSpec

-----------------------------------------------------------------------------
(* Liveness                                                                *)

(* No invocation waits for another: started, it ends or crashes, and leaves*)
(* the lock to the others.                                                 *)
EveryInvocationEnds ==
    \A p \in Live : pc[p] # "new" ~> pc[p] \in Stopped /\ holder # p

=============================================================================
