-------------------------- MODULE BootstrapProofs --------------------------
(***************************************************************************)
(* As long as the entry of the partition directory itself stays, a         *)
(* partition gets one lock at most, and one invocation at a time holds it: *)
(* for any number of invocations, any depth of the cache, and any number   *)
(* of failures, crashes and removals of other entries.                     *)
(***************************************************************************)
EXTENDS Bootstrap, TLAPS

PartitionStays == CacheDepth + 1 \notin Exposed

(* Where an invocation is tells how long its chain is, whether it may be the *)
(* creator, and whether it has retained a lock.                            *)
Climbing == {"idle", "look", "open", "enter", "mkdir"}
Retaining == {"check", "ready", "reopen", "flock", "confirm", "inside"}

Stage(p) ==
    /\ pc[p] \in {"idle", "look"} => Len(chain[p]) = 1
    /\ pc[p] = "open" => Len(chain[p]) <= depth[p] + 1
    /\ pc[p] \in Climbing \cup {"opendir"} => Len(chain[p]) <= CacheDepth + 1
    /\ pc[p] \in Climbing => ~made[p]
    /\ pc[p] \in {"verify", "create"} => made[p]
    /\ pc[p] \in {"verify", "create", "openlock"} => AtPartition(p) /\ lock[p] = Absent
    /\ pc[p] \in Climbing \cup {"opendir"} => lock[p] = Absent
    /\ pc[p] \in Retaining => lock[p] # Absent
    /\ lock[p] # Absent => AtPartition(p)
    /\ made[p] /\ pc[p] = "opendir" => AtCache(p)
    /\ pc[p] \notin {"failed", "done"} => visits[p] < 2

(* The invocation that has made directory d and is yet to make its lock.   *)
Creating(p, d) ==
    /\ made[p]
    /\ \/ pc[p] = "opendir" /\ entry[At(p)] = d
       \/ pc[p] \in {"verify", "create"} /\ At(p) = d

OwnDirectoryIsThere == \A p \in Proc : made[p] /\ pc[p] = "opendir" => entry[At(p)] # Absent

OneCreator ==
    \A p, q \in Proc : \A d \in Inode : Creating(p, d) /\ Creating(q, d) => p = q

CreatorIsFirst ==
    \A p, q \in Proc : \A d \in Inode :
        Creating(p, d) => entry[d] = Absent /\ (At(q) = d => lock[q] = Absent)

OneLock ==
    \A p, q \in Proc :
        lock[p] # Absent /\ lock[q] # Absent /\ At(p) = At(q) => lock[p] = lock[q]

LockIsNamed ==
    \A p \in Proc : lock[p] # Absent /\ entry[At(p)] # Absent => entry[At(p)] = lock[p]

Exclusive == \A p, q \in Proc : Holds(p) /\ Holds(q) /\ lock[p] = lock[q] => p = q

TypeInv == TypeOK /\ \A p \in Proc : Stage(p)
IInv ==
    /\ TypeInv /\ OwnDirectoryIsThere /\ OneCreator /\ CreatorIsFirst
    /\ OneLock /\ LockIsNamed /\ Exclusive

StepOf(p) == Start(p) \/ Proceed(p) \/ Stop(p)

(* The steps that change no directory, chain or lock.                      *)
Looks(p) ==
    \/ Start(p) \/ Look(p) \/ Enter(p) \/ Verify(p) \/ Check(p) \/ TryLock(p) \/ Reopen(p)
    \/ Flock(p) \/ Confirm(p) \/ Leave(p) \/ Stop(p)

-----------------------------------------------------------------------------

LEMMA InitInv == Init => IInv
<1> SUFFICES ASSUME Init PROVE IInv
  OBVIOUS
<1>1. PICK present \in 0 .. CacheDepth + 2 :
        /\ present + 1 <= MaxInode
        /\ born = present + 1
        /\ entry = [n \in Inode |-> IF n <= present THEN n + 1 ELSE Absent]
        /\ level = [n \in Inode |-> IF n <= present + 1 THEN n - 1 ELSE 0]
  BY DEF Init
<1>2. /\ present \in Nat /\ CacheDepth \in Nat \ {0} /\ MaxInode \in Nat /\ MaxTrouble \in Nat
      /\ present <= CacheDepth + 2
  BY <1>1, DepthAssumption, BoundAssumption
<1>3. /\ born \in Inode
      /\ entry \in [Inode -> 0 .. born]
      /\ level \in [Inode -> 0 .. CacheDepth + 2]
  BY <1>1, <1>2 DEF Inode, Absent
<1>4. \A n \in Inode : entry[n] # Absent => n <= born /\ level[entry[n]] = level[n] + 1
  <2> SUFFICES ASSUME NEW n \in Inode, entry[n] # Absent
               PROVE  n <= born /\ level[entry[n]] = level[n] + 1
    OBVIOUS
  <2>0. n \in Nat /\ n >= 1 /\ n <= MaxInode
    BY <1>2 DEF Inode
  <2>1. n <= present /\ entry[n] = n + 1 /\ n + 1 \in Inode
    <3>1. entry[n] = IF n <= present THEN n + 1 ELSE Absent
      BY <1>1
    <3>2. n <= present /\ entry[n] = n + 1
      BY <3>1
    <3> QED BY <1>1, <1>2, <2>0, <3>2 DEF Inode
  <2>2. level[n] = n - 1 /\ level[n + 1] = n
    <3>1. level[n] = n - 1
      BY <1>1, <1>2, <2>0, <2>1
    <3>2. level[n + 1] = (n + 1) - 1
      BY <1>1, <1>2, <2>0, <2>1
    <3> QED BY <3>1, <3>2, <2>0
  <2>3. n <= born
    BY <1>1, <1>2, <2>0, <2>1
  <2>4. level[entry[n]] = level[n] + 1
    BY <2>0, <2>1, <2>2
  <2> QED BY <2>3, <2>4
<1>5. <<Root>> \in Seq(1 .. born) /\ Len(<<Root>>) = 1 /\ <<Root>>[1] = Root
  BY <1>3 DEF Inode, Root
<1>6. \A p \in Proc : chain[p] = <<Root>> /\ At(p) = Root
  BY <1>5 DEF Init, At
<1>7. Root \in Inode /\ level[Root] = 0
  BY <1>1, <1>2, <1>3 DEF Inode, Root
<1>8. /\ depth \in [Proc -> 0 .. CacheDepth - 1]
      /\ seen \in [Proc -> 1 .. born]
      /\ lock \in [Proc -> 0 .. born]
      /\ visits \in [Proc -> 0 .. 2] /\ trouble \in 0 .. MaxTrouble
  BY <1>1, <1>2 DEF Init, Root, Absent
<1>9. TypeOK
  BY <1>2, <1>3, <1>4, <1>5, <1>6, <1>7, <1>8 DEF TypeOK, Init
<1>10. \A p \in Proc : pc[p] = "idle" /\ ~made[p] /\ lock[p] = Absent
  BY DEF Init
<1>11. ASSUME NEW p \in Proc PROVE Stage(p)
  <2>1. Len(chain[p]) = 1 /\ 1 <= CacheDepth + 1 /\ visits[p] < 2
    BY <1>2, <1>5, <1>6 DEF Init
  <2> QED BY <1>10, <2>1 DEF Stage, Climbing, Retaining
<1> QED
  BY <1>9, <1>10, <1>11
  DEF IInv, TypeInv, OwnDirectoryIsThere, OneCreator, CreatorIsFirst, OneLock, LockIsNamed, Exclusive, Creating, Holds

Follows(a, b) ==
    \/ b = "failed"
    \/ a = "idle" /\ b = "look"
    \/ a = "look" /\ b \in {"look", "open"}
    \/ a = "enter" /\ b = "mkdir"
    \/ a = "verify" /\ b = "create"
    \/ a = "check" /\ b = "ready"
    \/ a = "ready" /\ b = "reopen"
    \/ a = "reopen" /\ b = "flock"
    \/ a = "flock" /\ b = "confirm"
    \/ a = "confirm" /\ b = "inside"
    \/ a = "inside" /\ b \in {"ready", "done"}

LEMMA Update ==
    ASSUME NEW S, NEW f \in [Proc -> S], NEW p \in Proc, NEW v \in S
    PROVE  /\ [f EXCEPT ![p] = v] \in [Proc -> S]
           /\ [f EXCEPT ![p] = v][p] = v
           /\ \A q \in Proc \ {p} : [f EXCEPT ![p] = v][q] = f[q]
OBVIOUS

Pc == Steps \cup {"idle", "failed", "done"}

LEMMA GoesTo ==
    ASSUME pc \in [Proc -> Pc], NEW p \in Proc, NEW b \in Pc, Goto(p, b)
    PROVE  /\ pc' \in [Proc -> Pc] /\ pc'[p] = b
           /\ \A q \in Proc \ {p} : pc'[q] = pc[q]
BY Update DEF Goto

LEMMA LooksFrame ==
    ASSUME TypeInv, NEW p \in Proc, Looks(p)
    PROVE  /\ UNCHANGED <<tree, chain, made, lock>>
           /\ pc' \in [Proc -> Pc]
           /\ \A q \in Proc \ {p} : pc'[q] = pc[q] /\ depth'[q] = depth[q] /\ visits'[q] = visits[q]
           /\ Follows(pc[p], pc'[p])
           /\ depth' \in [Proc -> 0 .. CacheDepth - 1] /\ seen' \in [Proc -> 1 .. born]
           /\ visits' \in [Proc -> 0 .. 2] /\ trouble' \in 0 .. MaxTrouble
           /\ pc'[p] \notin {"failed", "done"} => visits'[p] < 2
<1>1. /\ pc \in [Proc -> Pc] /\ depth \in [Proc -> 0 .. CacheDepth - 1]
      /\ seen \in [Proc -> 1 .. born] /\ visits \in [Proc -> 0 .. 2]
      /\ trouble \in 0 .. MaxTrouble
      /\ pc[p] \notin {"failed", "done"} => visits[p] < 2
  BY DEF TypeInv, TypeOK, Stage, Pc
<1>2. {"look", "open", "mkdir", "create", "ready", "reopen", "flock", "confirm", "inside",
       "failed", "done"} \subseteq Pc
  BY DEF Pc, Steps
<1>3. CASE Start(p)
  BY <1>1, <1>2, <1>3, GoesTo DEF Start, Follows
<1>4. CASE Look(p)
  <2>1. CASE \E n \in 1 .. born : seen' = [seen EXCEPT ![p] = n] /\ Goto(p, "open") /\ UNCHANGED depth
    BY <1>1, <1>2, <1>4, <2>1, GoesTo DEF Look, Follows
  <2>2. CASE /\ depth[p] > 0 /\ depth' = [depth EXCEPT ![p] = depth[p] - 1]
             /\ UNCHANGED <<pc, seen>>
    <3>1. depth[p] - 1 \in 0 .. CacheDepth - 1
      BY <1>1, <2>2, DepthAssumption
    <3> QED BY <1>1, <1>4, <2>2, <3>1, Update DEF Look, Follows
  <2> QED BY <1>4, <2>1, <2>2 DEF Look
<1>5. CASE Enter(p) BY <1>1, <1>2, <1>5, GoesTo DEF Enter, GotoIf, Follows
<1>6. CASE Verify(p) BY <1>1, <1>2, <1>6, GoesTo DEF Verify, GotoIf, Follows
<1>7. CASE Check(p) BY <1>1, <1>2, <1>7, GoesTo DEF Check, GotoIf, Follows
<1>8. CASE TryLock(p) BY <1>1, <1>2, <1>8, GoesTo DEF TryLock, GotoIf, Follows
<1>9. CASE Reopen(p) BY <1>1, <1>2, <1>9, GoesTo DEF Reopen, GotoIf, Follows
<1>10. CASE Flock(p) BY <1>1, <1>2, <1>10, GoesTo DEF Flock, GotoIf, Follows
<1>11. CASE Confirm(p) BY <1>1, <1>2, <1>11, GoesTo DEF Confirm, GotoIf, Follows
<1>12. CASE Leave(p)
  <2>1. visits' = [visits EXCEPT ![p] = visits[p] + 1] /\ visits[p] \in {0, 1}
    BY <1>1, <1>12 DEF Leave
  <2>2. visits[p] + 1 \in 0 .. 2 /\ (visits[p] = 0 => visits[p] + 1 < 2)
    BY <2>1
  <2>3. CASE visits[p] = 0 /\ Goto(p, "ready")
    BY <1>1, <1>2, <1>12, <2>1, <2>2, <2>3, GoesTo, Update DEF Leave, Follows
  <2>4. CASE Goto(p, "done")
    BY <1>1, <1>2, <1>12, <2>1, <2>2, <2>4, GoesTo, Update DEF Leave, Follows
  <2> QED BY <1>12, <2>3, <2>4 DEF Leave
<1>13. CASE Stop(p)
  <2>1. trouble' \in 0 .. MaxTrouble
    BY <1>1, <1>13, BoundAssumption DEF Stop
  <2> QED BY <1>1, <1>2, <1>13, <2>1, GoesTo DEF Stop, Follows
<1> QED
  BY <1>3, <1>4, <1>5, <1>6, <1>7, <1>8, <1>9, <1>10, <1>11, <1>12, <1>13 DEF Looks

LEMMA LooksType ==
    ASSUME TypeInv, NEW p \in Proc, Looks(p)
    PROVE  TypeInv'
<1>1. \A q \in Proc : At(q)' = At(q)
  BY LooksFrame DEF At
<1>2. TypeOK'
  BY <1>1, LooksFrame DEF TypeInv, TypeOK, Pc, tree
<1>3. Stage(p)'
  <2>1. pc[p] = "look" => Len(chain[p]) = 1 /\ depth'[p] + 1 >= 1
    BY LooksFrame, DepthAssumption DEF TypeInv, Stage
  <2>2. /\ Len(chain[p]) = Len(chain'[p]) /\ made'[p] = made[p] /\ lock'[p] = lock[p]
        /\ AtPartition(p)' = AtPartition(p) /\ AtCache(p)' = AtCache(p)
        /\ entry' = entry /\ At(p)' = At(p) /\ 1 <= CacheDepth + 1
    BY <1>1, LooksFrame, DepthAssumption DEF AtPartition, AtCache, tree
  <2>3. Stage(p) /\ Follows(pc[p], pc'[p]) /\ (pc'[p] \notin {"failed", "done"} => visits'[p] < 2)
    BY LooksFrame DEF TypeInv
  <2> QED BY <2>1, <2>2, <2>3 DEF Stage, Climbing, Retaining, Follows
<1>4. \A q \in Proc \ {p} : Stage(q)'
  BY <1>1, LooksFrame DEF TypeInv, Stage, AtPartition, AtCache, tree
<1> QED BY <1>2, <1>3, <1>4 DEF TypeInv

(* What making an entry and entering a directory do to the types.          *)
LEMMA MakeTree ==
    ASSUME TypeInv, NEW d \in 1 .. born, level[d] <= CacheDepth + 1, Make(d)
    PROVE  /\ born' = born + 1 /\ born' \in Inode /\ d \in Inode /\ dead' \subseteq Inode
           /\ entry' \in [Inode -> 0 .. born'] /\ entry'[d] = born' /\ entry'[born'] = Absent
           /\ \A n \in Inode \ {d} : entry'[n] = entry[n]
           /\ level' \in [Inode -> 0 .. CacheDepth + 2] /\ level'[born'] = level[d] + 1
           /\ \A n \in 1 .. born : level'[n] = level[n]
           /\ \A n \in Inode : entry'[n] # Absent => n <= born' /\ level'[entry'[n]] = level'[n] + 1
<1>1. /\ born' = born + 1 /\ born < MaxInode /\ dead' = dead
      /\ entry' = [entry EXCEPT ![d] = born + 1]
      /\ level' = [level EXCEPT ![born + 1] = level[d] + 1]
  BY DEF Make
<1>2. /\ born \in Nat \ {0} /\ born \in Inode /\ MaxInode \in Nat /\ CacheDepth \in Nat
      /\ entry \in [Inode -> 0 .. born] /\ level \in [Inode -> 0 .. CacheDepth + 2]
      /\ dead \subseteq Inode
      /\ \A n \in Inode : entry[n] # Absent => n <= born /\ level[entry[n]] = level[n] + 1
  BY DepthAssumption, BoundAssumption DEF TypeInv, TypeOK, Inode
<1>3. /\ born + 1 \in Inode /\ born + 1 \notin 1 .. born /\ d \in Inode /\ d # born + 1
      /\ 1 .. born \subseteq Inode
  BY <1>1, <1>2 DEF Inode
<1>4. entry[born + 1] = Absent
  BY <1>2, <1>3
<1>5. entry' \in [Inode -> 0 .. born']
  BY <1>1, <1>2, <1>3
<1>6. /\ entry'[d] = born + 1 /\ entry'[born + 1] = Absent
      /\ \A n \in Inode \ {d} : entry'[n] = entry[n]
  BY <1>1, <1>2, <1>3, <1>4
<1>7. level[d] + 1 \in 0 .. CacheDepth + 2
  BY <1>2, <1>3
<1>8. /\ level' \in [Inode -> 0 .. CacheDepth + 2] /\ level'[born + 1] = level[d] + 1
      /\ \A n \in 1 .. born : level'[n] = level[n]
  BY <1>1, <1>2, <1>3, <1>7
<1>9. ASSUME NEW n \in Inode, entry'[n] # Absent
      PROVE  n <= born' /\ level'[entry'[n]] = level'[n] + 1
  <2>1. CASE n = d
    BY <1>1, <1>2, <1>3, <1>6, <1>8, <2>1
  <2>2. CASE n # d
    <3>1. /\ entry'[n] = entry[n] /\ entry[n] # Absent /\ n <= born
          /\ level[entry[n]] = level[n] + 1
      BY <1>2, <1>6, <1>9, <2>2
    <3>2. n \in 1 .. born /\ entry[n] \in 1 .. born
      BY <1>2, <3>1 DEF Inode, Absent
    <3> QED BY <1>1, <1>2, <1>8, <3>1, <3>2
  <2> QED BY <2>1, <2>2
<1> QED BY <1>1, <1>2, <1>3, <1>5, <1>6, <1>8, <1>9

LEMMA ChainGrows ==
    ASSUME TypeInv, NEW p \in Proc, NEW n \in 1 .. born,
           chain' = [chain EXCEPT ![p] = Append(chain[p], n)]
    PROVE  /\ chain' \in [Proc -> Seq(1 .. born)]
           /\ Len(chain'[p]) = Len(chain[p]) + 1 /\ At(p)' = n
           /\ \A q \in Proc \ {p} : chain'[q] = chain[q] /\ At(q)' = At(q)
<1>1. chain \in [Proc -> Seq(1 .. born)]
  BY DEF TypeInv, TypeOK
<1>2. /\ Append(chain[p], n) \in Seq(1 .. born)
      /\ Len(Append(chain[p], n)) = Len(chain[p]) + 1
      /\ Append(chain[p], n)[Len(chain[p]) + 1] = n
  BY <1>1
<1>3. chain' \in [Proc -> Seq(1 .. born)] /\ chain'[p] = Append(chain[p], n)
  BY <1>1, <1>2
<1>4. \A q \in Proc \ {p} : chain'[q] = chain[q]
  BY <1>1
<1> QED BY <1>2, <1>3, <1>4 DEF At

LEMMA LastOfSeq ==
    ASSUME NEW S, NEW s \in Seq(S), Len(s) >= 1
    PROVE  s[Len(s)] \in S
OBVIOUS

LEMMA AtIsMade ==
    ASSUME TypeInv, NEW p \in Proc
    PROVE  /\ At(p) \in 1 .. born /\ At(p) \in Inode /\ level[At(p)] = Len(chain[p]) - 1
           /\ Len(chain[p]) \in Nat /\ Len(chain[p]) <= CacheDepth + 2
           /\ born \in Nat /\ CacheDepth \in Nat /\ 1 .. born \subseteq Inode
<1>1. /\ chain[p] \in Seq(1 .. born) /\ Len(chain[p]) \in 1 .. CacheDepth + 2
      /\ born \in Inode /\ level[At(p)] = Len(chain[p]) - 1
  BY DEF TypeInv, TypeOK
<1>2. Len(chain[p]) \in Nat /\ Len(chain[p]) <= CacheDepth + 2 /\ CacheDepth \in Nat
  BY <1>1, DepthAssumption
<1>3. born \in Nat /\ 1 .. born \subseteq Inode
  BY <1>1, BoundAssumption DEF Inode
<1>4. At(p) \in 1 .. born
  <2>1. Len(chain[p]) \in Nat /\ Len(chain[p]) >= 1
    BY <1>1, <1>2
  <2> QED BY <1>1, <2>1, LastOfSeq DEF At
<1> QED BY <1>1, <1>2, <1>3, <1>4

LEMMA EntryIsBelow ==
    ASSUME TypeInv, NEW d \in Inode, entry[d] # Absent
    PROVE  entry[d] \in 1 .. born /\ entry[d] \in Inode /\ level[entry[d]] = level[d] + 1
<1>1. /\ entry[d] \in 0 .. born /\ born \in 1 .. MaxInode
      /\ level[entry[d]] = level[d] + 1
  BY DEF TypeInv, TypeOK, Inode
<1> QED BY <1>1, BoundAssumption DEF Inode, Absent

LEMMA MkdirType ==
    ASSUME TypeInv, NEW p \in Proc, Mkdir(p)
    PROVE  TypeInv'
<1>1. /\ pc \in [Proc -> Pc] /\ made \in [Proc -> BOOLEAN]
      /\ pc[p] = "mkdir" /\ Len(chain[p]) <= CacheDepth + 1 /\ lock[p] = Absent /\ ~made[p]
      /\ visits[p] < 2
  BY DEF TypeInv, TypeOK, Stage, Pc, Mkdir, Climbing
<1>2. "opendir" \in Pc /\ "failed" \in Pc /\ AtCache(p) \in BOOLEAN
  BY DEF Pc, Steps, AtCache
<1>3. \A q \in Proc : At(q)' = At(q) /\ chain'[q] = chain[q]
  BY DEF Mkdir, At
<1>4. \A q \in Proc : AtPartition(q)' = AtPartition(q) /\ AtCache(q)' = AtCache(q)
  BY <1>3 DEF AtPartition, AtCache
<1>5. CASE Make(At(p)) /\ made' = [made EXCEPT ![p] = AtCache(p)] /\ Goto(p, "opendir")
  <2>1. At(p) \in 1 .. born /\ level[At(p)] <= CacheDepth + 1
    BY <1>1, AtIsMade
  <2>2. /\ pc' \in [Proc -> Pc] /\ pc'[p] = "opendir"
        /\ \A q \in Proc \ {p} : pc'[q] = pc[q] /\ made'[q] = made[q]
        /\ made' \in [Proc -> BOOLEAN] /\ made'[p] = AtCache(p)
    BY <1>1, <1>2, <1>5, GoesTo, Update
  <2>3. TypeOK'
    <3>1. 1 .. born \subseteq 1 .. born' /\ 0 .. born \subseteq 0 .. born' /\ Seq(1 .. born) \subseteq Seq(1 .. born')
      BY <1>5, <2>1, MakeTree, AtIsMade
    <3>2. \A q \in Proc : level'[At(q)'] = Len(chain'[q]) - 1
      BY <1>3, <1>5, <2>1, MakeTree, AtIsMade
    <3> QED
      BY <1>3, <1>5, <2>1, <2>2, <3>1, <3>2, MakeTree DEF TypeInv, TypeOK, Mkdir, Pc
  <2>4. Stage(p)'
    BY <1>1, <1>3, <1>4, <2>2 DEF Stage, Mkdir, Climbing, Retaining
  <2>5. \A q \in Proc \ {p} : Stage(q)'
    BY <1>3, <1>4, <2>2 DEF TypeInv, Stage, Mkdir
  <2> QED BY <2>3, <2>4, <2>5 DEF TypeInv
<1>6. CASE /\ UNCHANGED <<tree, made>>
           /\ (Goto(p, "opendir") /\ entry[At(p)] # Absent) \/ Goto(p, "failed")
  <2>1. pc' \in [Proc -> Pc] /\ pc'[p] \in {"opendir", "failed"} /\ \A q \in Proc \ {p} : pc'[q] = pc[q]
    BY <1>1, <1>2, <1>6, GoesTo
  <2>2. TypeOK'
    BY <1>3, <1>6, <2>1 DEF TypeInv, TypeOK, Mkdir, Pc, tree
  <2>3. Stage(p)'
    BY <1>1, <1>3, <1>4, <1>6, <2>1 DEF Stage, Mkdir, Climbing, Retaining
  <2>4. \A q \in Proc \ {p} : Stage(q)'
    BY <1>3, <1>4, <1>6, <2>1 DEF TypeInv, Stage, Mkdir, tree
  <2> QED BY <2>2, <2>3, <2>4 DEF TypeInv
<1> QED BY <1>5, <1>6 DEF Mkdir

LEMMA OpenType ==
    ASSUME TypeInv, NEW p \in Proc, OpenAncestors(p) \/ OpenDirectory(p)
    PROVE  TypeInv'
<1>1. /\ pc \in [Proc -> Pc] /\ pc[p] \in {"open", "opendir"}
      /\ Len(chain[p]) \in Nat /\ Len(chain[p]) <= CacheDepth + 1
      /\ visits[p] < 2 /\ lock[p] = Absent /\ depth[p] \in 0 .. CacheDepth - 1
  BY AtIsMade DEF TypeInv, TypeOK, Stage, Pc, OpenAncestors, OpenDirectory, Climbing
<1>2. {"open", "enter", "verify", "openlock", "failed"} \subseteq Pc
  BY DEF Pc, Steps
<1>3. UNCHANGED <<tree, depth, seen, made, lock, visits, trouble>>
  BY DEF OpenAncestors, OpenDirectory
<1>4. CASE chain' = [chain EXCEPT ![p] = Append(chain[p], entry[At(p)])] /\ entry[At(p)] # Absent
  <2>1. entry[At(p)] \in 1 .. born /\ level[entry[At(p)]] = Len(chain[p])
    BY <1>4, AtIsMade, EntryIsBelow
  <2>2. /\ chain' \in [Proc -> Seq(1 .. born)]
        /\ Len(chain'[p]) = Len(chain[p]) + 1 /\ At(p)' = entry[At(p)]
        /\ \A q \in Proc \ {p} : chain'[q] = chain[q] /\ At(q)' = At(q)
    BY <1>4, <2>1, ChainGrows
  <2>3. /\ pc' \in [Proc -> Pc] /\ \A q \in Proc \ {p} : pc'[q] = pc[q]
        /\ \/ pc[p] = "open" /\ pc'[p] = "open" /\ Len(chain[p]) <= depth[p]
           \/ pc[p] = "opendir" /\ pc'[p] = "enter" /\ ~AtCache(p)
           \/ pc[p] = "opendir" /\ pc'[p] = "verify" /\ AtCache(p) /\ made[p]
           \/ pc[p] = "opendir" /\ pc'[p] = "openlock" /\ AtCache(p) /\ ~made[p]
    <3>0. chain' # chain
      BY <1>1, <2>2
    <3>1. CASE OpenAncestors(p)
      BY <1>1, <3>0, <3>1 DEF OpenAncestors
    <3>2. CASE OpenDirectory(p)
      BY <1>1, <1>2, <1>4, <3>2, GoesTo DEF OpenDirectory
    <3> QED BY <3>1, <3>2
  <2>4. TypeOK'
    <3>1. \A q \in Proc : Len(chain'[q]) \in 1 .. CacheDepth + 2 /\ level[At(q)'] = Len(chain'[q]) - 1
      <4>1. Len(chain'[p]) \in 1 .. CacheDepth + 2 /\ level[At(p)'] = Len(chain'[p]) - 1
        <5>1. Len(chain[p]) \in Nat /\ Len(chain[p]) <= CacheDepth + 1 /\ CacheDepth \in Nat
          BY <1>1, AtIsMade
        <5>2. Len(chain'[p]) = Len(chain[p]) + 1
          BY <2>2
        <5>3. level[At(p)'] = Len(chain[p])
          BY <2>1, <2>2
        <5> QED BY <5>1, <5>2, <5>3
      <4>2. \A q \in Proc \ {p} : Len(chain[q]) \in 1 .. CacheDepth + 2 /\ level[At(q)] = Len(chain[q]) - 1
        BY DEF TypeInv, TypeOK
      <4> QED BY <2>2, <4>1, <4>2
    <3> QED BY <1>3, <2>2, <2>3, <3>1 DEF TypeInv, TypeOK, Pc, tree
  <2>5. Stage(p)'
    <3>1. /\ pc[p] = "open" => ~made[p] /\ Len(chain'[p]) <= depth'[p] + 1 /\ Len(chain'[p]) <= CacheDepth + 1
          /\ pc[p] = "opendir" /\ made[p] => AtCache(p)
          /\ AtCache(p) => AtPartition(p)'
          /\ ~AtCache(p) => Len(chain'[p]) <= CacheDepth + 1
          /\ lock'[p] = Absent /\ made'[p] = made[p] /\ visits'[p] < 2
      BY <1>1, <1>3, <2>2, <2>3, DepthAssumption
      DEF TypeInv, Stage, AtCache, AtPartition, Climbing
    <3> QED BY <2>3, <3>1 DEF Stage, Climbing, Retaining
  <2>6. \A q \in Proc \ {p} : Stage(q)'
    BY <1>3, <2>2, <2>3 DEF TypeInv, Stage, AtPartition, AtCache, tree
  <2> QED BY <2>4, <2>5, <2>6 DEF TypeInv
<1>5. CASE /\ chain' = chain
           /\ Goto(p, "failed") \/ (pc[p] = "open" /\ Goto(p, "enter"))
  <2>1. /\ pc' \in [Proc -> Pc] /\ \A q \in Proc \ {p} : pc'[q] = pc[q]
        /\ pc'[p] = "failed" \/ (pc[p] = "open" /\ pc'[p] = "enter")
    <3>1. CASE Goto(p, "failed")
      BY <1>1, <1>2, <3>1, GoesTo
    <3>2. CASE pc[p] = "open" /\ Goto(p, "enter")
      BY <1>1, <1>2, <3>2, GoesTo
    <3> QED BY <1>5, <3>1, <3>2
  <2>2. \A q \in Proc : At(q)' = At(q) /\ chain'[q] = chain[q]
    BY <1>5 DEF At
  <2>3. TypeOK'
    BY <1>3, <1>5, <2>1, <2>2 DEF TypeInv, TypeOK, Pc, tree
  <2>4. Stage(p)'
    <3>1. /\ Len(chain'[p]) <= CacheDepth + 1 /\ lock'[p] = Absent /\ visits'[p] < 2
          /\ pc[p] = "open" => ~made'[p]
      BY <1>1, <1>3, <2>2 DEF TypeInv, Stage, Climbing
    <3> QED BY <2>1, <3>1 DEF Stage, Climbing, Retaining
  <2>5. \A q \in Proc \ {p} : Stage(q)'
    BY <1>3, <2>1, <2>2 DEF TypeInv, Stage, AtPartition, AtCache, tree
  <2> QED BY <2>3, <2>4, <2>5 DEF TypeInv
<1>6. CASE OpenAncestors(p)
  BY <1>4, <1>5, <1>6 DEF OpenAncestors, GotoIf, Goto
<1>7. CASE OpenDirectory(p)
  BY <1>4, <1>5, <1>7 DEF OpenDirectory
<1> QED BY <1>6, <1>7

LEMMA LockType ==
    ASSUME TypeInv, NEW p \in Proc, CreateLock(p) \/ OpenLock(p)
    PROVE  TypeInv'
<1>1. /\ pc \in [Proc -> Pc] /\ pc[p] \in {"create", "openlock"}
      /\ AtPartition(p) /\ Len(chain[p]) = CacheDepth + 2 /\ lock[p] = Absent
      /\ visits[p] < 2 /\ lock \in [Proc -> 0 .. born]
  BY DEF TypeInv, TypeOK, Stage, Pc, CreateLock, OpenLock, AtPartition
<1>2. "check" \in Pc /\ "failed" \in Pc
  BY DEF Pc, Steps
<1>3. UNCHANGED <<depth, seen, chain, made, visits, trouble>>
  BY DEF CreateLock, OpenLock
<1>4. \A q \in Proc : /\ At(q)' = At(q) /\ chain'[q] = chain[q]
                       /\ AtPartition(q)' = AtPartition(q) /\ AtCache(q)' = AtCache(q)
  BY <1>3 DEF At, AtPartition, AtCache
<1>5. At(p) \in 1 .. born /\ level[At(p)] <= CacheDepth + 1
  BY <1>1, AtIsMade
<1>6. CASE Make(At(p)) /\ lock' = [lock EXCEPT ![p] = born'] /\ Goto(p, "check")
  <2>1. /\ 1 .. born \subseteq 1 .. born' /\ 0 .. born \subseteq 0 .. born'
        /\ Seq(1 .. born) \subseteq Seq(1 .. born') /\ born' \in 0 .. born' /\ born' # Absent
    BY <1>5, <1>6, MakeTree, AtIsMade DEF Absent
  <2>2. /\ pc' \in [Proc -> Pc] /\ pc'[p] = "check" /\ lock' \in [Proc -> 0 .. born'] /\ lock'[p] # Absent
        /\ \A q \in Proc \ {p} : pc'[q] = pc[q] /\ lock'[q] = lock[q]
    BY <1>1, <1>2, <1>6, <2>1, GoesTo, Update
  <2>3. TypeOK'
    <3>1. \A q \in Proc : level'[At(q)'] = Len(chain'[q]) - 1
      BY <1>4, <1>5, <1>6, MakeTree, AtIsMade
    <3> QED BY <1>3, <1>4, <1>5, <1>6, <2>1, <2>2, <3>1, MakeTree DEF TypeInv, TypeOK, Pc
  <2>4. Stage(p)'
    BY <1>1, <1>3, <1>4, <2>2 DEF Stage, Climbing, Retaining
  <2>5. \A q \in Proc \ {p} : Stage(q)'
    BY <1>3, <1>4, <2>2 DEF TypeInv, Stage
  <2> QED BY <2>3, <2>4, <2>5 DEF TypeInv
<1>7. CASE /\ UNCHANGED tree
           /\ \/ lock' = lock /\ Goto(p, "failed")
              \/ /\ lock' = [lock EXCEPT ![p] = entry[At(p)]]
                 /\ (entry[At(p)] # Absent /\ Goto(p, "check")) \/ Goto(p, "failed")
  <2>1. entry[At(p)] \in 0 .. born
    BY <1>5, AtIsMade DEF TypeInv, TypeOK
  <2>2. lock' \in [Proc -> 0 .. born] /\ \A q \in Proc \ {p} : lock'[q] = lock[q]
    BY <1>1, <1>7, <2>1, Update
  <2>3. /\ pc' \in [Proc -> Pc] /\ \A q \in Proc \ {p} : pc'[q] = pc[q]
        /\ pc'[p] = "failed" \/ (pc'[p] = "check" /\ lock'[p] # Absent)
    <3>1. CASE Goto(p, "failed")
      BY <1>1, <1>2, <3>1, GoesTo
    <3>2. CASE /\ lock' = [lock EXCEPT ![p] = entry[At(p)]]
               /\ entry[At(p)] # Absent /\ Goto(p, "check")
      BY <1>1, <1>2, <3>2, GoesTo
    <3> QED BY <1>7, <3>1, <3>2
  <2>4. TypeOK'
    BY <1>3, <1>4, <1>7, <2>2, <2>3 DEF TypeInv, TypeOK, Pc, tree
  <2>5. Stage(p)'
    BY <1>1, <1>3, <1>4, <2>3 DEF Stage, Climbing, Retaining
  <2>6. \A q \in Proc \ {p} : Stage(q)'
    BY <1>3, <1>4, <2>2, <2>3 DEF TypeInv, Stage
  <2> QED BY <2>4, <2>5, <2>6 DEF TypeInv
<1> QED BY <1>6, <1>7 DEF CreateLock, OpenLock, GotoIf

LEMMA DetachType ==
    ASSUME TypeInv, NEW d \in Inode, Detach(d)
    PROVE  TypeInv'
<1>1. UNCHANGED <<born, level, pc, depth, seen, chain, made, lock, visits>>
  BY DEF Detach
<1>2. \A q \in Proc : /\ At(q)' = At(q) /\ AtPartition(q)' = AtPartition(q) /\ AtCache(q)' = AtCache(q)
  BY <1>1 DEF At, AtPartition, AtCache
<1>3. entry' = [entry EXCEPT ![d] = Absent] /\ entry' \in [Inode -> 0 .. born]
  BY DEF Detach, TypeInv, TypeOK, Inode, Absent
<1>4. dead' \subseteq Inode
  BY EntryIsBelow DEF Detach, TypeInv, TypeOK
<1>5. trouble' \in 0 .. MaxTrouble
  BY BoundAssumption DEF Detach, TypeInv, TypeOK
<1>6. \A n \in Inode : entry'[n] # Absent => n <= born' /\ level'[entry'[n]] = level'[n] + 1
  BY <1>1, <1>3 DEF TypeInv, TypeOK
<1>7. TypeOK'
  BY <1>1, <1>2, <1>3, <1>4, <1>5, <1>6 DEF TypeInv, TypeOK
<1>8. \A q \in Proc : Stage(q)'
  BY <1>1, <1>2 DEF TypeInv, Stage
<1> QED BY <1>7, <1>8 DEF TypeInv

LEMMA TypeStep == TypeInv /\ [Next]_vars => TypeInv'
<1> SUFFICES ASSUME TypeInv, [Next]_vars PROVE TypeInv'
  OBVIOUS
<1>1. CASE UNCHANGED vars
  <2>1. \A q \in Proc : At(q)' = At(q) /\ AtPartition(q)' = AtPartition(q) /\ AtCache(q)' = AtCache(q)
    BY <1>1 DEF vars, At, AtPartition, AtCache
  <2> QED BY <1>1, <2>1 DEF vars, TypeInv, TypeOK, Stage
<1>2. CASE \E p \in Proc : StepOf(p)
  BY <1>2, LooksType, MkdirType, OpenType, LockType DEF StepOf, Proceed, Looks
<1>3. CASE \E d \in Inode : Detach(d)
  BY <1>3, DetachType
<1> QED BY <1>1, <1>2, <1>3 DEF Next, StepOf

(* Type correctness, whatever is taken away.                               *)
THEOREM TypeCorrect == Spec => []TypeOK
<1>1. Init => TypeInv
  BY InitInv DEF IInv
<1>2. TypeInv => TypeOK
  BY DEF TypeInv
<1> QED BY <1>1, <1>2, TypeStep, PTL DEF Spec

-----------------------------------------------------------------------------

(* The rest of the invariant.                                              *)
Safe == OwnDirectoryIsThere /\ OneCreator /\ CreatorIsFirst /\ OneLock /\ LockIsNamed /\ Exclusive

LEMMA SafeLooks ==
    ASSUME IInv, NEW p \in Proc, Looks(p)
    PROVE  Safe'
<1>1. /\ entry' = entry /\ chain' = chain /\ made' = made /\ lock' = lock
      /\ \A q \in Proc \ {p} : pc'[q] = pc[q]
      /\ Follows(pc[p], pc'[p])
  BY LooksFrame DEF IInv, tree
<1>2. \A q \in Proc : At(q)' = At(q)
  BY <1>1 DEF At
<1>3. \A q \in Proc : \A d \in Inode : Creating(q, d)' => Creating(q, d)
  BY <1>1, <1>2 DEF Creating, Follows
<1>4. OwnDirectoryIsThere'
  BY <1>1, <1>2 DEF IInv, OwnDirectoryIsThere, Follows
<1>5. OneCreator' /\ CreatorIsFirst'
  BY <1>1, <1>2, <1>3 DEF IInv, OneCreator, CreatorIsFirst
<1>6. OneLock' /\ LockIsNamed'
  BY <1>1, <1>2 DEF IInv, OneLock, LockIsNamed
<1>7. Exclusive'
  <2>1. CASE pc[p] = "flock" /\ pc'[p] = "confirm"
    <3>0. ~Stop(p)
      BY <2>1, GoesTo DEF Stop, IInv, TypeInv, TypeOK, Pc
    <3>1. Flock(p)
      BY <2>1, <3>0 DEF Looks, Start, Look, Enter, Verify, Check, TryLock, Reopen, Confirm, Leave
    <3>2. ~HeldByAnother(p)
      BY <2>1, <3>1 DEF Flock, GotoIf, Goto, IInv, TypeInv, TypeOK
    <3>3. \A q \in Proc \ {p} : Holds(q)' => Holds(q) /\ lock[q] # lock[p]
      BY <1>1, <3>2 DEF Holds, HeldByAnother
    <3> QED BY <1>1, <3>3 DEF IInv, Exclusive, Holds
  <2>2. CASE ~(pc[p] = "flock" /\ pc'[p] = "confirm")
    <3>1. \A q \in Proc : Holds(q)' => Holds(q)
      BY <1>1, <2>2 DEF Holds, Follows
    <3> QED BY <1>1, <3>1 DEF IInv, Exclusive
  <2> QED BY <2>1, <2>2
<1> QED BY <1>4, <1>5, <1>6, <1>7 DEF Safe

LEMMA SafeMkdir ==
    ASSUME IInv, NEW p \in Proc, Mkdir(p)
    PROVE  Safe'
<1>1. /\ TypeInv /\ pc \in [Proc -> Pc] /\ pc[p] = "mkdir" /\ ~made[p] /\ lock[p] = Absent
      /\ made \in [Proc -> BOOLEAN] /\ Len(chain[p]) <= CacheDepth + 1
  BY DEF IInv, TypeInv, TypeOK, Stage, Pc, Mkdir, Climbing
<1>2. "opendir" \in Pc /\ "failed" \in Pc /\ AtCache(p) \in BOOLEAN
  BY DEF Pc, Steps, AtCache
<1>3. lock' = lock /\ \A q \in Proc : At(q)' = At(q)
  BY DEF Mkdir, At
<1>4. pc'[p] \in {"opendir", "failed"} /\ \A q \in Proc \ {p} : pc'[q] = pc[q]
  BY <1>1, <1>2, GoesTo DEF Mkdir
<1>5. Exclusive'
  <2>1. \A q \in Proc : Holds(q)' => Holds(q)
    BY <1>1, <1>4 DEF Holds
  <2> QED BY <1>3, <2>1 DEF IInv, Exclusive
<1>6. OneLock'
  BY <1>3 DEF IInv, OneLock
<1>7. CASE UNCHANGED <<tree, made>>
  <2>1. entry' = entry /\ made' = made
    BY <1>7 DEF tree
  <2>2. \A q \in Proc : \A d \in Inode : Creating(q, d)' => Creating(q, d)
    BY <1>1, <1>3, <1>4, <2>1 DEF Creating
  <2>3. OwnDirectoryIsThere'
    BY <1>1, <1>3, <1>4, <2>1 DEF IInv, OwnDirectoryIsThere
  <2>4. OneCreator' /\ CreatorIsFirst' /\ LockIsNamed'
    BY <1>3, <2>1, <2>2 DEF IInv, OneCreator, CreatorIsFirst, LockIsNamed
  <2> QED BY <1>5, <1>6, <2>3, <2>4 DEF Safe
<1>8. CASE entry[At(p)] = Absent /\ Make(At(p)) /\ made' = [made EXCEPT ![p] = AtCache(p)]
  <2>1. /\ At(p) \in 1 .. born /\ At(p) \in Inode /\ level[At(p)] <= CacheDepth
        /\ level[At(p)] <= CacheDepth + 1 /\ born \in Nat
    BY <1>1, AtIsMade
  <2>2. /\ born' \in Inode /\ born' = born + 1 /\ entry'[At(p)] = born' /\ entry'[born'] = Absent
        /\ \A n \in Inode \ {At(p)} : entry'[n] = entry[n]
    BY <1>1, <1>8, <2>1, MakeTree
  <2>3. made'[p] = AtCache(p) /\ \A q \in Proc \ {p} : made'[q] = made[q]
    BY <1>1, <1>2, <1>8, Update
  <2>4. \A q \in Proc : At(q) \in Inode /\ At(q) # born'
    BY <1>1, <2>2, AtIsMade
  <2>5. \A q \in Proc : (lock[q] # Absent \/ pc[q] \in {"verify", "create"}) => At(q) # At(p)
    <3>1. \A q \in Proc : (lock[q] # Absent \/ pc[q] \in {"verify", "create"})
                             => level[At(q)] = CacheDepth + 1
      BY <1>1, AtIsMade DEF TypeInv, Stage, AtPartition
    <3> QED BY <2>1, <3>1, DepthAssumption
  <2>6. \A q \in Proc \ {p} : made[q] /\ pc[q] = "opendir" => entry[At(q)] # Absent /\ At(q) # At(p)
    BY <1>8 DEF IInv, OwnDirectoryIsThere
  <2>7. \A q \in Proc \ {p} : \A d \in Inode : Creating(q, d)' => Creating(q, d) /\ d # At(p) /\ d # born'
    <3> SUFFICES ASSUME NEW q \in Proc \ {p}, NEW d \in Inode, Creating(q, d)'
                 PROVE  Creating(q, d) /\ d # At(p) /\ d # born'
      OBVIOUS
    <3>1. made[q] /\ pc'[q] = pc[q] /\ At(q)' = At(q)
      BY <1>3, <1>4, <2>3 DEF Creating
    <3>2. CASE pc[q] = "opendir" /\ entry'[At(q)] = d
      <4>1. entry[At(q)] = d /\ d # Absent
        BY <2>2, <2>4, <2>6, <3>1, <3>2
      <4>2. Len(chain[q]) = CacheDepth + 1
        BY <1>1, <3>1, <3>2 DEF TypeInv, Stage, AtCache
      <4>3. level[At(q)] = CacheDepth
        BY <1>1, <4>2, AtIsMade
      <4>4. level[d] = CacheDepth + 1 /\ d \in 1 .. born
        BY <1>1, <2>4, <4>1, <4>3, EntryIsBelow
      <4>5. d # At(p) /\ d # born'
        BY <2>1, <2>2, <4>4, DepthAssumption
      <4> QED BY <3>1, <3>2, <4>1, <4>5 DEF Creating
    <3>3. CASE pc[q] \in {"verify", "create"} /\ At(q) = d
      BY <2>4, <2>5, <3>1, <3>3 DEF Creating
    <3> QED BY <3>1, <3>2, <3>3 DEF Creating
  <2>8. \A d \in Inode : Creating(p, d)' => d = born'
    BY <1>3, <1>4, <2>2 DEF Creating
  <2>9. OwnDirectoryIsThere'
    <3>1. entry'[At(p)] # Absent
      BY <2>1, <2>2 DEF Absent
    <3>2. \A q \in Proc \ {p} : made'[q] /\ pc'[q] = "opendir" => entry'[At(q)] # Absent
      BY <1>4, <2>2, <2>3, <2>4, <2>6
    <3> QED BY <1>3, <3>1, <3>2 DEF OwnDirectoryIsThere
  <2>10. OneCreator'
    BY <2>7, <2>8 DEF IInv, OneCreator
  <2>11. CreatorIsFirst'
    BY <1>3, <2>2, <2>4, <2>7, <2>8 DEF IInv, CreatorIsFirst
  <2>12. LockIsNamed'
    BY <1>3, <2>2, <2>4, <2>5 DEF IInv, LockIsNamed
  <2> QED BY <1>5, <1>6, <2>9, <2>10, <2>11, <2>12 DEF Safe
<1> QED BY <1>7, <1>8 DEF Mkdir

LEMMA SafeOpen ==
    ASSUME IInv, NEW p \in Proc, OpenAncestors(p) \/ OpenDirectory(p)
    PROVE  Safe'
<1>1. /\ TypeInv /\ pc \in [Proc -> Pc] /\ pc[p] \in {"open", "opendir"} /\ lock[p] = Absent
      /\ pc[p] = "open" => ~made[p]
      /\ pc[p] = "opendir" /\ made[p] => AtCache(p)
  BY DEF IInv, TypeInv, TypeOK, Stage, Pc, OpenAncestors, OpenDirectory, Climbing
<1>2. {"open", "enter", "verify", "openlock", "failed"} \subseteq Pc
  BY DEF Pc, Steps
<1>3. entry' = entry /\ made' = made /\ lock' = lock
  BY DEF OpenAncestors, OpenDirectory, tree
<1>4. /\ \A q \in Proc \ {p} : pc'[q] = pc[q] /\ At(q)' = At(q)
      /\ pc'[p] \in {"open", "enter", "verify", "openlock", "failed"}
      /\ pc'[p] = "verify" => pc[p] = "opendir" /\ made[p] /\ At(p)' = entry[At(p)]
  <2>1. entry[At(p)] # Absent => entry[At(p)] \in 1 .. born
    BY <1>1, AtIsMade, EntryIsBelow
  <2>2. CASE OpenAncestors(p)
    <3>1. CASE chain' = chain /\ GotoIf(At(p) = seen[p], p, "enter")
      BY <1>1, <1>2, <3>1, GoesTo DEF At, GotoIf
    <3>2. CASE entry[At(p)] # Absent /\ chain' = [chain EXCEPT ![p] = Append(chain[p], entry[At(p)])] /\ pc' = pc
      BY <1>1, <2>1, <2>2, <3>2, ChainGrows DEF OpenAncestors
    <3>3. CASE chain' = chain /\ Goto(p, "failed")
      BY <1>1, <1>2, <3>3, GoesTo DEF At
    <3> QED BY <2>2, <3>1, <3>2, <3>3 DEF OpenAncestors
  <2>3. CASE OpenDirectory(p)
    <3>1. CASE /\ entry[At(p)] # Absent /\ chain' = [chain EXCEPT ![p] = Append(chain[p], entry[At(p)])]
               /\ Goto(p, IF ~AtCache(p) THEN "enter" ELSE IF made[p] THEN "verify" ELSE "openlock")
      <4>1. At(p)' = entry[At(p)] /\ \A q \in Proc \ {p} : At(q)' = At(q)
        BY <1>1, <2>1, <3>1, ChainGrows
      <4> QED BY <1>1, <1>2, <2>3, <3>1, <4>1, GoesTo DEF OpenDirectory
    <3>2. CASE chain' = chain /\ Goto(p, "failed")
      BY <1>1, <1>2, <3>2, GoesTo DEF At
    <3> QED BY <2>3, <3>1, <3>2 DEF OpenDirectory
  <2> QED BY <2>2, <2>3
<1>5. \A q \in Proc : \A d \in Inode : Creating(q, d)' => Creating(q, d)
  BY <1>1, <1>3, <1>4 DEF Creating
<1>6. OwnDirectoryIsThere'
  BY <1>3, <1>4 DEF IInv, OwnDirectoryIsThere
<1>7. OneCreator' /\ CreatorIsFirst'
  BY <1>1, <1>3, <1>4, <1>5 DEF IInv, OneCreator, CreatorIsFirst
<1>8. OneLock' /\ LockIsNamed'
  BY <1>1, <1>3, <1>4 DEF IInv, OneLock, LockIsNamed
<1>9. Exclusive'
  <2>1. \A q \in Proc : Holds(q)' => Holds(q)
    BY <1>4 DEF Holds
  <2> QED BY <1>3, <2>1 DEF IInv, Exclusive
<1> QED BY <1>6, <1>7, <1>8, <1>9 DEF Safe

LEMMA SafeCreateLock ==
    ASSUME IInv, NEW p \in Proc, CreateLock(p)
    PROVE  Safe'
<1>1. /\ TypeInv /\ pc \in [Proc -> Pc] /\ pc[p] = "create" /\ lock[p] = Absent /\ made[p]
      /\ lock \in [Proc -> 0 .. born] /\ Len(chain[p]) = CacheDepth + 2
  BY DEF IInv, TypeInv, TypeOK, Stage, Pc, CreateLock, AtPartition
<1>2. "check" \in Pc /\ "failed" \in Pc
  BY DEF Pc, Steps
<1>3. made' = made /\ \A q \in Proc : At(q)' = At(q)
  BY DEF CreateLock, At
<1>4. pc'[p] \in {"check", "failed"} /\ \A q \in Proc \ {p} : pc'[q] = pc[q]
  BY <1>1, <1>2, GoesTo DEF CreateLock
<1>5. \A q \in Proc : Holds(q)' => Holds(q) /\ q # p
  BY <1>1, <1>4 DEF Holds
<1>6. CASE entry' = entry /\ lock' = lock
  <2>1. \A q \in Proc : \A d \in Inode : Creating(q, d)' => Creating(q, d)
    BY <1>3, <1>4, <1>6 DEF Creating
  <2>2. OwnDirectoryIsThere'
    BY <1>3, <1>4, <1>6 DEF IInv, OwnDirectoryIsThere
  <2>3. OneCreator' /\ CreatorIsFirst' /\ OneLock' /\ LockIsNamed' /\ Exclusive'
    BY <1>3, <1>5, <1>6, <2>1
    DEF IInv, OneCreator, CreatorIsFirst, OneLock, LockIsNamed, Exclusive
  <2> QED BY <2>2, <2>3 DEF Safe
<1>7. CASE Make(At(p)) /\ lock' = [lock EXCEPT ![p] = born']
  <2>1. /\ At(p) \in 1 .. born /\ At(p) \in Inode /\ level[At(p)] = CacheDepth + 1 /\ born \in Nat
    BY <1>1, AtIsMade
  <2>2. /\ born' \in Inode /\ born' = born + 1 /\ born' # Absent /\ entry'[At(p)] = born'
        /\ \A n \in Inode \ {At(p)} : entry'[n] = entry[n]
    <3>1. born + 1 # Absent /\ level[At(p)] <= CacheDepth + 1
      BY <2>1, DepthAssumption DEF Absent
    <3> QED BY <1>1, <1>7, <2>1, <3>1, MakeTree
  <2>3. lock'[p] = born' /\ \A q \in Proc \ {p} : lock'[q] = lock[q]
    BY <1>1, <1>7
  <2>4. Creating(p, At(p)) /\ \A q \in Proc : At(q) \in Inode
    BY <1>1, AtIsMade DEF Creating
  <2>5. \A q \in Proc \ {p} : At(q) = At(p) => lock[q] = Absent
    BY <2>1, <2>4 DEF IInv, CreatorIsFirst
  <2>6. \A q \in Proc : made[q] /\ pc[q] = "opendir" => At(q) # At(p)
    <3>1. \A q \in Proc : made[q] /\ pc[q] = "opendir" => level[At(q)] = CacheDepth
      BY <1>1, AtIsMade DEF TypeInv, Stage, AtCache
    <3> QED BY <2>1, <3>1, DepthAssumption
  <2>7. \A q \in Proc : \A d \in Inode : Creating(q, d)' => Creating(q, d) /\ q # p /\ d # At(p)
    <3> SUFFICES ASSUME NEW q \in Proc, NEW d \in Inode, Creating(q, d)'
                 PROVE  Creating(q, d) /\ q # p /\ d # At(p)
      OBVIOUS
    <3>1. q # p /\ pc'[q] = pc[q] /\ made[q]
      BY <1>3, <1>4 DEF Creating
    <3>2. Creating(q, d)
      BY <1>3, <2>2, <2>4, <2>6, <3>1 DEF Creating
    <3> QED BY <2>1, <2>4, <3>1, <3>2 DEF IInv, OneCreator
  <2>8. OwnDirectoryIsThere'
    BY <1>3, <1>4, <2>2, <2>4, <2>6 DEF IInv, OwnDirectoryIsThere
  <2>9. OneCreator'
    BY <2>7 DEF IInv, OneCreator
  <2>10. CreatorIsFirst'
    BY <1>3, <2>2, <2>3, <2>7 DEF IInv, CreatorIsFirst
  <2>11. OneLock'
    BY <1>3, <2>3, <2>5 DEF IInv, OneLock
  <2>12. LockIsNamed'
    BY <1>3, <2>2, <2>3, <2>4, <2>5 DEF IInv, LockIsNamed
  <2>13. Exclusive'
    BY <1>5, <2>3 DEF IInv, Exclusive
  <2> QED BY <2>8, <2>9, <2>10, <2>11, <2>12, <2>13 DEF Safe
<1> QED BY <1>6, <1>7 DEF CreateLock, tree

LEMMA SafeOpenLock ==
    ASSUME IInv, NEW p \in Proc, OpenLock(p)
    PROVE  Safe'
<1>1. /\ TypeInv /\ pc \in [Proc -> Pc] /\ pc[p] = "openlock" /\ lock[p] = Absent
      /\ lock' = [lock EXCEPT ![p] = entry[At(p)]] /\ lock \in [Proc -> 0 .. born]
  BY DEF IInv, TypeInv, TypeOK, Stage, Pc, OpenLock
<1>2. "check" \in Pc /\ "failed" \in Pc
  BY DEF Pc, Steps
<1>3. entry' = entry /\ made' = made /\ \A q \in Proc : At(q)' = At(q)
  BY DEF OpenLock, At, tree
<1>4. pc'[p] \in {"check", "failed"} /\ \A q \in Proc \ {p} : pc'[q] = pc[q]
  BY <1>1, <1>2, GoesTo DEF OpenLock, GotoIf
<1>5. lock'[p] = entry[At(p)] /\ \A q \in Proc \ {p} : lock'[q] = lock[q]
  BY <1>1
<1>6. \A q \in Proc : \A d \in Inode : Creating(q, d)' => Creating(q, d)
  BY <1>3, <1>4 DEF Creating
<1>7. OwnDirectoryIsThere'
  BY <1>3, <1>4 DEF IInv, OwnDirectoryIsThere
<1>8. OneCreator' /\ CreatorIsFirst'
  BY <1>3, <1>5, <1>6 DEF IInv, OneCreator, CreatorIsFirst
<1>9. OneLock' /\ LockIsNamed'
  BY <1>3, <1>5 DEF IInv, OneLock, LockIsNamed
<1>10. Exclusive'
  <2>1. \A q \in Proc : Holds(q)' => Holds(q) /\ q # p
    BY <1>1, <1>4 DEF Holds
  <2> QED BY <1>5, <2>1 DEF IInv, Exclusive
<1> QED BY <1>7, <1>8, <1>9, <1>10 DEF Safe

LEMMA SafeDetach ==
    ASSUME PartitionStays, IInv, NEW d \in Inode, Detach(d)
    PROVE  Safe'
<1>1. /\ TypeInv /\ entry' = [entry EXCEPT ![d] = Absent] /\ entry \in [Inode -> 0 .. born]
      /\ level[d] # CacheDepth
  BY DEF IInv, TypeInv, TypeOK, Detach, PartitionStays
<1>2. pc' = pc /\ made' = made /\ lock' = lock /\ \A q \in Proc : At(q)' = At(q) /\ At(q) \in Inode
  BY <1>1, AtIsMade DEF Detach, At
<1>3. entry'[d] = Absent /\ \A n \in Inode \ {d} : entry'[n] = entry[n]
  BY <1>1
<1>4. \A q \in Proc : made[q] /\ pc[q] = "opendir" => At(q) # d
  <2>1. \A q \in Proc : made[q] /\ pc[q] = "opendir" => Len(chain[q]) = CacheDepth + 1
    BY <1>1 DEF TypeInv, Stage, AtCache
  <2> QED BY <1>1, <2>1, AtIsMade
<1>5. \A q \in Proc : \A n \in Inode : Creating(q, n)' => Creating(q, n)
  BY <1>2, <1>3, <1>4 DEF Creating
<1>6. OwnDirectoryIsThere'
  BY <1>2, <1>3, <1>4 DEF IInv, OwnDirectoryIsThere
<1>7. OneCreator' /\ CreatorIsFirst'
  BY <1>2, <1>3, <1>5 DEF IInv, OneCreator, CreatorIsFirst
<1>8. OneLock' /\ LockIsNamed'
  BY <1>2, <1>3 DEF IInv, OneLock, LockIsNamed
<1>9. Exclusive'
  BY <1>2 DEF IInv, Exclusive, Holds
<1> QED BY <1>6, <1>7, <1>8, <1>9 DEF Safe

LEMMA Invariance == ASSUME PartitionStays PROVE IInv /\ [Next]_vars => IInv'
<1> SUFFICES ASSUME IInv, [Next]_vars PROVE IInv'
  OBVIOUS
<1>1. TypeInv'
  BY TypeStep DEF IInv
<1>2. CASE UNCHANGED vars
  <2>1. \A q \in Proc : At(q)' = At(q)
    BY <1>2 DEF vars, At
  <2>2. \A q \in Proc : \A d \in Inode : Creating(q, d)' <=> Creating(q, d)
    BY <1>2, <2>1 DEF vars, Creating
  <2> QED
    BY <1>1, <1>2, <2>1, <2>2
    DEF vars, IInv, OwnDirectoryIsThere, OneCreator, CreatorIsFirst, OneLock, LockIsNamed,
        Exclusive, Holds
<1>3. CASE \E p \in Proc : StepOf(p)
  <2>1. Safe'
    BY <1>3, SafeLooks, SafeMkdir, SafeOpen, SafeCreateLock, SafeOpenLock
    DEF StepOf, Proceed, Looks
  <2> QED BY <1>1, <2>1 DEF IInv, Safe
<1>4. CASE \E d \in Inode : Detach(d)
  <2>1. Safe'
    BY <1>4, SafeDetach
  <2> QED BY <1>1, <2>1 DEF IInv, Safe
<1> QED BY <1>2, <1>3, <1>4 DEF Next, StepOf

(* The inductive invariant holds throughout, as long as the partition stays. *)
LEMMA Always == ASSUME PartitionStays PROVE Spec => []IInv
<1>1. Init => IInv
  BY InitInv
<1>2. IInv /\ [Next]_vars => IInv'
  BY Invariance
<1> QED BY <1>1, <1>2, PTL DEF Spec

(* As long as the partition directory stays, one invocation at a time holds*)
(* a lock of it.                                                           *)
THEOREM OneHolder == ASSUME PartitionStays PROVE Spec => []OneHolderPerPartition
<1>1. Spec => []IInv
  BY Always
<1>2. IInv => OneHolderPerPartition
  <2>1. IInv => \A p \in Proc : Holds(p) => lock[p] # Absent
    BY DEF IInv, TypeInv, Stage, Holds, Retaining
  <2> QED BY <2>1 DEF IInv, OneLock, Exclusive, OneHolderPerPartition
<1> QED BY <1>1, <1>2, PTL

(* And none is ever made anew where one was retained.                      *)
THEOREM LockedOnce == ASSUME PartitionStays PROVE Spec => NoSecondLock
<1>1. ASSUME IInv, [Next]_vars, NEW d \in Inode, entry[d] = Absent, entry'[d] # Absent,
             NEW q \in Proc, At(q) = d
      PROVE  lock[q] = Absent
  <2>1. TypeInv
    BY <1>1 DEF IInv
  <2>2. ASSUME NEW p \in Proc, StepOf(p) PROVE At(p) = d /\ (Mkdir(p) \/ CreateLock(p))
    <3>1. entry' # entry
      BY <1>1
    <3>2. Mkdir(p) \/ CreateLock(p)
      BY <2>1, <2>2, <3>1, LooksFrame
      DEF StepOf, Proceed, Looks, OpenAncestors, OpenDirectory, OpenLock, tree
    <3>3. entry' = [entry EXCEPT ![At(p)] = born + 1]
      BY <3>1, <3>2 DEF Mkdir, CreateLock, Make, tree
    <3> QED BY <1>1, <2>1, <3>2, <3>3 DEF TypeInv, TypeOK
  <2>3. PICK p \in Proc : At(p) = d /\ (Mkdir(p) \/ CreateLock(p))
    <3>1. \A e \in Inode : ~Detach(e)
      BY <1>1, <2>1 DEF Detach, TypeInv, TypeOK
    <3> QED BY <1>1, <2>2, <3>1 DEF Next, StepOf, vars
  <2>4. CASE Mkdir(p)
    <3>1. Len(chain[p]) <= CacheDepth + 1
      BY <2>1, <2>4 DEF Mkdir, TypeInv, Stage, Climbing
    <3>2. level[d] <= CacheDepth
      BY <2>1, <2>3, <3>1, AtIsMade
    <3>3. lock[q] # Absent => Len(chain[q]) = CacheDepth + 2
      BY <2>1 DEF TypeInv, Stage, AtPartition
    <3>4. lock[q] # Absent => level[d] = CacheDepth + 1
      BY <1>1, <2>1, <3>3, AtIsMade
    <3> QED BY <3>2, <3>4, DepthAssumption
  <2>5. CASE CreateLock(p)
    BY <1>1, <2>1, <2>3, <2>5 DEF CreateLock, TypeInv, Stage, Creating, IInv, CreatorIsFirst
  <2> QED BY <2>3, <2>4, <2>5
<1> DEFINE Fresh == \A d \in Inode : entry[d] = Absent /\ entry'[d] # Absent =>
                       \A p \in Proc : At(p) = d => lock[p] = Absent
<1>2. IInv /\ [Next]_vars => [Fresh]_vars
  BY <1>1
<1>3. Spec => []IInv
  BY Always
<1> QED BY <1>2, <1>3, PTL DEF Spec, NoSecondLock

=============================================================================
