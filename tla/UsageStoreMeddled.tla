-------------------------- MODULE UsageStoreMeddled --------------------------
(***************************************************************************)
(* The transactions of UsageStore while another process of the same owner  *)
(* ignores the advisory lock: it removes, replaces or drops files into the *)
(* partition between any two steps (docs/usage-storage.md: "a process      *)
(* ignoring the advisory lock can still race").  The code does not promise *)
(* to win such a race; it promises not to destroy what it did not plan     *)
(* for, never to overwrite, and not to report what it can see is untrue.   *)
(***************************************************************************)
EXTENDS UsageStore

CONSTANTS
    Meddled,     \* the names the other process touches
    MaxMeddles   \* bound on how often it does

ASSUME MeddledAssumption == Meddled \subseteq Name /\ MaxMeddles \in Nat

VARIABLES
    meddles,  \* how often it has
    since     \* history: the names it touched since the last step of each
              \* invocation; no step of the store reads it

allVars == <<vars, meddles, since>>

Alien == [by |-> Foreign, kind |-> "start", bytes |-> 1,
          entry |-> NoTime, collected |-> NoTime]

MeddledInit == Init /\ meddles = 0 /\ since = [p \in Live |-> {}]

Meddle ==
    /\ meddles < MaxMeddles
    /\ meddles' = meddles + 1
    /\ \E n \in Meddled, f \in {Absent, Alien} :
          /\ files[n] # f
          /\ files' = [files EXCEPT ![n] = f]
          /\ since' = [p \in Live |-> since[p] \cup {n}]
    /\ UNCHANGED <<holder, pc, phase, entry, now, receipt, physical, todo, ledger, outcome,
                   occupancy>>

StoreStep(p) ==
    /\ Activate(p) \/ Proceed(p) \/ Crash(p)
    /\ since' = [since EXCEPT ![p] = {}]
    /\ UNCHANGED meddles

MeddledNext == (\E p \in Live : StoreStep(p)) \/ Meddle

MeddledSpec == MeddledInit /\ [][MeddledNext]_allVars

-----------------------------------------------------------------------------

(* A step of the store never replaces a record, whoever put it there, not  *)
(* even one that appears between the last check and the rename.            *)
NeverOverwrites ==
    [][meddles' = meddles =>
         \A n \in FinalName \cup OtherName :
            files[n] # Absent => files'[n] \in {files[n], Absent}]_allVars

(* A removal is by name, so a file that is put there between the check and *)
(* the removal is lost.  Nothing else is: what the store removes, of its   *)
(* plan or of its own staging, is the very file that it scanned or wrote,  *)
(* unless the name was touched after the step before, and it is never an   *)
(* event of the invocation itself or a name of another kind.               *)
RemovesOnlyWhatItChecked ==
    [][meddles' = meddles =>
         \A n \in Name : files[n] # Absent /\ files'[n] = Absent =>
            \E p \in Live :
               /\ holder = p
               /\ \/ /\ n.kind # "other" /\ n \notin {Start(p), Finish(p)}
                     /\ physical[p][n] # Absent
                     /\ n \in since[p] \/ files[n] = physical[p][n]
                  \/ n = Temp(p) /\ (n \in since[p] \/ Staged(p))]_allVars

(* A transaction that ends without an error leaves, at that moment, its    *)
(* whole event under its final name and every other file as its scan found *)
(* it, but for those it planned to remove, which are gone; and a finish    *)
(* has the start its receipt describes.  Whatever another process did in   *)
(* between has either failed the transaction or left no trace.             *)
CleanMeansIntact ==
    [][\A p \in Live :
         pc[p] = "settle" /\ pc'[p] = "release" /\ outcome'[p].error = "none" =>
            /\ \A n \in Name :
                  files[n] = IF n = Target(p) THEN Event(p, EventBytes[phase[p]])
                             ELSE IF n \in Removals(physical[p], now[p], Reservation(p))
                             THEN Absent ELSE physical[p][n]
            /\ phase[p] = "finish" => files[Start(p)] = receipt[p]]_allVars

(* An occupancy is reported, after whatever failure, only of a partition   *)
(* that the transaction can explain ("unexplained membership changes       *)
(* cannot be laundered into accounting"): the difference to its scan are   *)
(* planned removals, a publication that the outcome announces, and staging *)
(* that it says may remain.                                                *)
OccupancyIsExplained ==
    [][\A p \in Live :
         pc[p] = "settle" /\ pc'[p] = "release" /\ occupancy'[p] # Absent =>
            \A n \in Name : files[n] # physical[p][n] =>
               \/ files[n] = Absent /\ n \in Removals(physical[p], now[p], Reservation(p))
               \/ /\ n = Target(p) /\ files[n] = Event(p, EventBytes[phase[p]])
                  /\ outcome'[p].publication = "Published"
               \/ /\ n = Temp(p) /\ Staged(p)
                  /\ outcome'[p].staging = "MayRemain"]_allVars

=============================================================================
