----------------------------- MODULE Bootstrap -----------------------------
(***************************************************************************)
(* How invocations come to hold the lock of one usage partition:           *)
(* Partition::bootstrap (src/usage/store/native/bootstrap.rs) makes what   *)
(* is missing of the cache path, the partition directory and, if it made   *)
(* that directory, the file .lock; Partition::try_lock                     *)
(* (src/usage/store/native.rs) locks that file, once for the activation    *)
(* and once more for the finish of an invocation.                          *)
(*                                                                         *)
(* The named path is a chain of inodes: Root, CacheDepth directories the   *)
(* last of which is the cache, the partition, its lock.  Somebody who      *)
(* does not take part may remove or move away an entry of an Exposed level *)
(* at any time; invocations work through the descriptors they have opened. *)
(* The chain of the graph root, and the owner and mode of entries, are left*)
(* out: a check of theirs that fails is a Stop.                            *)
(***************************************************************************)
EXTENDS Naturals, Sequences

CONSTANTS
    Proc,         \* the invocations
    CacheDepth,   \* directories from Root down to the cache
    Exposed,      \* levels of the path whose entry outsiders may take away
    MaxInode,     \* bound: inodes ever made
    MaxTrouble    \* bound: errors, crashes, and entries taken away

ASSUME DepthAssumption == CacheDepth \in Nat \ {0}
ASSUME ExposedAssumption == Exposed \subseteq 1 .. CacheDepth + 2
ASSUME BoundAssumption == MaxInode \in Nat \ {0} /\ MaxTrouble \in Nat

Absent == 0
Root == 1
Inode == 1 .. MaxInode

VARIABLES
    entry,     \* directory |-> the inode its one name of interest stands for
    dead,      \* directories that are removed: nothing can be made in them
    born,      \* the last inode made
    level,     \* how far below Root an inode was made
    pc,
    depth,     \* the ancestor whose existence is looked up
    seen,      \* the inode it was found to be
    chain,     \* the retained directories, Root first
    made,      \* own mkdir made the partition
    lock,      \* the retained lock file
    visits,    \* times the lock was acquired
    trouble    \* errors, crashes and removals so far

tree == <<entry, dead, born, level>>
vars == <<entry, dead, born, level, pc, depth, seen, chain, made, lock, visits, trouble>>

Steps == {"look", "open", "enter", "mkdir", "opendir", "verify", "create", "openlock",
          "check", "ready", "reopen", "flock", "confirm", "inside"}

Init ==
    /\ \E present \in 0 .. CacheDepth + 2 :
          /\ present + 1 <= MaxInode
          /\ born = present + 1
          /\ entry = [n \in Inode |-> IF n <= present THEN n + 1 ELSE Absent]
          /\ level = [n \in Inode |-> IF n <= present + 1 THEN n - 1 ELSE 0]
    /\ dead = {}
    /\ pc = [p \in Proc |-> "idle"]
    /\ depth = [p \in Proc |-> CacheDepth - 1]
    /\ seen = [p \in Proc |-> Root]
    /\ chain = [p \in Proc |-> <<Root>>]
    /\ made = [p \in Proc |-> FALSE]
    /\ lock = [p \in Proc |-> Absent]
    /\ visits = [p \in Proc |-> 0]
    /\ trouble = 0

-----------------------------------------------------------------------------

(* What the path names at each level.                                      *)
Named[k \in 0 .. CacheDepth + 2] ==
    IF k = 0 THEN Root
    ELSE IF Named[k - 1] = Absent THEN Absent ELSE entry[Named[k - 1]]

(* The last retained directory, and whether all retained ones are still    *)
(* what their names stand for.                                             *)
At(p) == chain[p][Len(chain[p])]
ChainValid(p) ==
    \A i \in 1 .. Len(chain[p]) - 1 : entry[chain[p][i]] = chain[p][i + 1]
Valid(p) == ChainValid(p) /\ entry[At(p)] = lock[p]
AtPartition(p) == Len(chain[p]) = CacheDepth + 2

Goto(p, step) == pc' = [pc EXCEPT ![p] = step]
GotoIf(ok, p, step) == Goto(p, IF ok THEN step ELSE "failed")

(* An entry is made in directory d; not if the directory is removed.       *)
Make(d) ==
    /\ d \notin dead /\ born < MaxInode
    /\ born' = born + 1
    /\ entry' = [entry EXCEPT ![d] = born + 1]
    /\ level' = [level EXCEPT ![born + 1] = level[d] + 1]
    /\ UNCHANGED dead

Start(p) ==
    /\ pc[p] = "idle"
    /\ Goto(p, "look")
    /\ UNCHANGED <<tree, depth, seen, chain, made, lock, visits, trouble>>

(* Existing ancestors only, from the parent of the cache upwards; the one  *)
(* that is found is remembered.                                            *)
Look(p) ==
    /\ pc[p] = "look"
    /\ \/ \E n \in 1 .. born :
             /\ n = Named[depth[p]] /\ seen' = [seen EXCEPT ![p] = n]
             /\ Goto(p, "open") /\ UNCHANGED depth
       \/ /\ Named[depth[p]] = Absent /\ depth[p] > 0
          /\ depth' = [depth EXCEPT ![p] = @ - 1] /\ UNCHANGED <<pc, seen>>
    /\ UNCHANGED <<tree, chain, made, lock, visits, trouble>>

(* Chain::open opens it anew, component by component.                      *)
OpenAncestors(p) ==
    /\ pc[p] = "open"
    /\ \/ /\ Len(chain[p]) = depth[p] + 1
          /\ GotoIf(At(p) = seen[p], p, "enter") /\ UNCHANGED chain
       \/ /\ Len(chain[p]) <= depth[p] /\ entry[At(p)] # Absent
          /\ chain' = [chain EXCEPT ![p] = Append(@, entry[At(p)])] /\ UNCHANGED pc
       \/ /\ Len(chain[p]) <= depth[p] /\ entry[At(p)] = Absent
          /\ Goto(p, "failed") /\ UNCHANGED chain
    /\ UNCHANGED <<tree, depth, seen, made, lock, visits, trouble>>

(* Every level is entered alike: the retained chain is validated, the next *)
(* directory made unless it is there, then opened by its name.             *)
Enter(p) ==
    /\ pc[p] = "enter"
    /\ GotoIf(ChainValid(p), p, "mkdir")
    /\ UNCHANGED <<tree, depth, seen, chain, made, lock, visits, trouble>>

AtCache(p) == Len(chain[p]) = CacheDepth + 1

(* Creation authority comes from the mkdir of the partition alone.         *)
Mkdir_ExistingIsMine(p) ==
    /\ pc[p] = "mkdir"
    /\ \/ entry[At(p)] = Absent /\ Make(At(p)) /\ Goto(p, "opendir")
       \/ entry[At(p)] # Absent /\ Goto(p, "opendir") /\ UNCHANGED tree
       \/ At(p) \in dead /\ Goto(p, "failed") /\ UNCHANGED tree
    /\ made' = [made EXCEPT ![p] = AtCache(p)]
    /\ UNCHANGED <<depth, seen, chain, lock, visits, trouble>>

Mkdir_MineFromTheTop(p) ==
    /\ pc[p] = "mkdir"
    /\ \/ /\ entry[At(p)] = Absent /\ Make(At(p)) /\ Goto(p, "opendir")
          /\ made' = [made EXCEPT ![p] = Len(chain[p]) = 1 \/ @]
       \/ /\ entry[At(p)] # Absent /\ Goto(p, "opendir")
          /\ made' = [made EXCEPT ![p] = FALSE] /\ UNCHANGED tree
       \/ At(p) \in dead /\ Goto(p, "failed") /\ UNCHANGED <<tree, made>>
    /\ UNCHANGED <<depth, seen, chain, lock, visits, trouble>>

Mkdir(p) ==
    /\ pc[p] = "mkdir"
    /\ \/ /\ entry[At(p)] = Absent /\ Make(At(p)) /\ Goto(p, "opendir")
          /\ made' = [made EXCEPT ![p] = AtCache(p)]
       \/ entry[At(p)] # Absent /\ Goto(p, "opendir") /\ UNCHANGED <<tree, made>>
       \/ At(p) \in dead /\ Goto(p, "failed") /\ UNCHANGED <<tree, made>>
    /\ UNCHANGED <<depth, seen, chain, lock, visits, trouble>>

OpenDirectory(p) ==
    /\ pc[p] = "opendir"
    /\ \/ /\ entry[At(p)] # Absent
          /\ chain' = [chain EXCEPT ![p] = Append(@, entry[At(p)])]
          /\ Goto(p, IF ~AtCache(p) THEN "enter"
                     ELSE IF made[p] THEN "verify" ELSE "openlock")
       \/ entry[At(p)] = Absent /\ Goto(p, "failed") /\ UNCHANGED chain
    /\ UNCHANGED <<tree, depth, seen, made, lock, visits, trouble>>

(* The directory that was opened must be the one the name still stands for.*)
Verify(p) ==
    /\ pc[p] = "verify"
    /\ GotoIf(ChainValid(p), p, "create")
    /\ UNCHANGED <<tree, depth, seen, chain, made, lock, visits, trouble>>

(* Exclusive, in the retained directory; the created inode is retained.    *)
CreateLock(p) ==
    /\ pc[p] = "create"
    /\ \/ /\ entry[At(p)] = Absent /\ Make(At(p))
          /\ lock' = [lock EXCEPT ![p] = born'] /\ Goto(p, "check")
       \/ /\ entry[At(p)] # Absent \/ At(p) \in dead
          /\ Goto(p, "failed") /\ UNCHANGED <<tree, lock>>
    /\ UNCHANGED <<depth, seen, chain, made, visits, trouble>>

OpenLock_Repairing(p) ==
    /\ pc[p] = "openlock"
    /\ \/ /\ entry[At(p)] = Absent /\ Make(At(p))
          /\ lock' = [lock EXCEPT ![p] = born'] /\ Goto(p, "check")
       \/ /\ entry[At(p)] # Absent /\ Goto(p, "check")
          /\ lock' = [lock EXCEPT ![p] = entry[At(p)]] /\ UNCHANGED tree
       \/ At(p) \in dead /\ Goto(p, "failed") /\ UNCHANGED <<tree, lock>>
    /\ UNCHANGED <<depth, seen, chain, made, visits, trouble>>

(* A missing lock is an error and is never repaired.                       *)
OpenLock(p) ==
    /\ pc[p] = "openlock"
    /\ lock' = [lock EXCEPT ![p] = entry[At(p)]]
    /\ GotoIf(entry[At(p)] # Absent, p, "check")
    /\ UNCHANGED <<tree, depth, seen, chain, made, visits, trouble>>

Check(p) ==
    /\ pc[p] = "check"
    /\ GotoIf(Valid(p), p, "ready")
    /\ UNCHANGED <<tree, depth, seen, chain, made, lock, visits, trouble>>

(* try_lock: validate, open the lock anew and compare it with the retained *)
(* one, flock without waiting, validate again with the lock held.          *)
TryLock(p) ==
    /\ pc[p] = "ready"
    /\ GotoIf(Valid(p), p, "reopen")
    /\ UNCHANGED <<tree, depth, seen, chain, made, lock, visits, trouble>>

Reopen(p) ==
    /\ pc[p] = "reopen"
    /\ GotoIf(entry[At(p)] = lock[p], p, "flock")
    /\ UNCHANGED <<tree, depth, seen, chain, made, lock, visits, trouble>>

Holds(p) == pc[p] \in {"confirm", "inside"}
HeldByAnother(p) == \E q \in Proc \ {p} : Holds(q) /\ lock[q] = lock[p]

Flock(p) ==
    /\ pc[p] = "flock"
    /\ GotoIf(~HeldByAnother(p), p, "confirm")
    /\ UNCHANGED <<tree, depth, seen, chain, made, lock, visits, trouble>>

Confirm(p) ==
    /\ pc[p] = "confirm"
    /\ GotoIf(Valid(p), p, "inside")
    /\ UNCHANGED <<tree, depth, seen, chain, made, lock, visits, trouble>>

(* The guard is dropped: after the start is published, and after the finish. *)
Leave(p) ==
    /\ pc[p] = "inside"
    /\ visits' = [visits EXCEPT ![p] = @ + 1]
    /\ Goto(p, IF visits[p] = 0 THEN "ready" ELSE "done")
    /\ UNCHANGED <<tree, depth, seen, chain, made, lock, trouble>>

(* A system call fails, an entry is unsafe, or the invocation dies.        *)
Stop(p) ==
    /\ pc[p] \in Steps /\ trouble < MaxTrouble
    /\ trouble' = trouble + 1
    /\ Goto(p, "failed")
    /\ UNCHANGED <<tree, depth, seen, chain, made, lock, visits>>

(* Somebody clears the cache: an entry is moved away with all that is below*)
(* it, or removed, which takes an empty one.                               *)
Detach(d) ==
    /\ entry[d] # Absent /\ level[d] + 1 \in Exposed /\ trouble < MaxTrouble
    /\ trouble' = trouble + 1
    /\ entry' = [entry EXCEPT ![d] = Absent]
    /\ \/ UNCHANGED dead
       \/ entry[entry[d]] = Absent /\ dead' = dead \cup {entry[d]}
    /\ UNCHANGED <<born, level, pc, depth, seen, chain, made, lock, visits>>

Proceed(p) ==
    \/ Look(p) \/ OpenAncestors(p) \/ Enter(p) \/ Mkdir(p) \/ OpenDirectory(p)
    \/ Verify(p) \/ CreateLock(p) \/ OpenLock(p) \/ Check(p)
    \/ TryLock(p) \/ Reopen(p) \/ Flock(p) \/ Confirm(p) \/ Leave(p)

Next ==
    \/ \E p \in Proc : Start(p) \/ Proceed(p) \/ Stop(p)
    \/ \E d \in Inode : Detach(d)

(* A started invocation keeps running; nothing makes one start.            *)
Spec == Init /\ [][Next]_vars
FairSpec == Spec /\ \A p \in Proc : WF_vars(Proceed(p))

-----------------------------------------------------------------------------

(* An entry leads one level down, and a chain has one inode of each level. *)
TypeOK ==
    /\ born \in Inode
    /\ entry \in [Inode -> 0 .. born]
    /\ level \in [Inode -> 0 .. CacheDepth + 2]
    /\ \A n \in Inode : entry[n] # Absent => n <= born /\ level[entry[n]] = level[n] + 1
    /\ dead \subseteq Inode
    /\ pc \in [Proc -> Steps \cup {"idle", "failed", "done"}]
    /\ depth \in [Proc -> 0 .. CacheDepth - 1]
    /\ seen \in [Proc -> 1 .. born]
    /\ chain \in [Proc -> Seq(1 .. born)]
    /\ \A p \in Proc : Len(chain[p]) \in 1 .. CacheDepth + 2 /\ level[At(p)] = Len(chain[p]) - 1
    /\ made \in [Proc -> BOOLEAN]
    /\ lock \in [Proc -> 0 .. born]
    /\ visits \in [Proc -> 0 .. 2]
    /\ trouble \in 0 .. MaxTrouble

(* Two invocations never hold a lock of the same partition directory at    *)
(* once, wherever an invocation fails or dies and whatever is removed or   *)
(* moved away meanwhile, the entry of the partition itself excepted: a lock*)
(* that is missing is never made again (bootstrap.rs:106).                 *)
OneHolderPerPartition ==
    \A p, q \in Proc : Holds(p) /\ Holds(q) /\ p # q => At(p) # At(q)

(* No lock is made in a partition where an invocation, even one that has   *)
(* ended, ever retained one: a second lock would not exclude it.           *)
NoSecondLock ==
    [][\A d \in Inode : entry[d] = Absent /\ entry'[d] # Absent =>
          \A p \in Proc : At(p) = d => lock[p] = Absent]_vars

(* A directory without a lock, left by a creator that died.                *)
Orphaned == Named[CacheDepth + 1] # Absent /\ Named[CacheDepth + 2] = Absent

(* Undisturbed invocations that race to make the partition do not all fail:*)
(* if one starts, one gets in.                                             *)
SomeoneGetsIn ==
    ~Orphaned /\ [](trouble = 0)
        => (<>(\E p \in Proc : pc[p] # "idle") => <>(\E p \in Proc : pc[p] = "inside"))
=============================================================================
