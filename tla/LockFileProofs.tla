---------------------------- MODULE LockFileProofs ----------------------------
(***************************************************************************)
(* Proofs about drft lock and drft check.  What check says of a tree and a *)
(* lockfile is set theory over the types of both; what the lockfile may    *)
(* hold follows from what each command has seen so far, IInv.              *)
(***************************************************************************)
EXTENDS LockFile, TLAPS

(* A node that has a hash is a file, and links to what its content says.   *)
LEMMA HashTellsLinks ==
    ASSUME NEW g \in Graph, NEW p \in Path
    PROVE  /\ Hash(g, p) \in Hashes /\ Links(g, p) \subseteq Path
           /\ Hash(g, p) # NoHash => Links(g, p) = LinksOf[Hash(g, p)]
           /\ g[p] = Absent => Hash(g, p) = NoHash /\ Links(g, p) = {}
<1>1. g[p] \in Node \cup {Absent} BY DEF Graph
<1>2. CASE g[p] = Absent BY <1>2 DEF Hash, Links, Hashes
<1>3. CASE g[p] \in {FileNode(v) : v \in Version}
  <2>1. PICK v \in Version : g[p] = FileNode(v) BY <1>3
  <2>2. g[p] # Absent BY <1>3, EntryAssumption DEF Node
  <2>3. LinksOf[v] \subseteq Path BY LinksAssumption
  <2> QED BY <2>1, <2>2, <2>3 DEF Hash, Links, Hashes, FileNode
<1>4. CASE g[p] \in Node /\ g[p] \notin {FileNode(v) : v \in Version}
  <2>1. g[p] # Absent BY <1>4, EntryAssumption
  <2>2. g[p].hash = NoHash /\ g[p].links \subseteq Path
    BY <1>4 DEF Node, Unreadable, Directory, Symlink
  <2> QED BY <2>1, <2>2 DEF Hash, Links, Hashes
<1> QED BY <1>1, <1>2, <1>3, <1>4

(* What a graph records of a node.                                         *)
LEMMA SnapshotIsALock ==
    ASSUME NEW g \in Graph
    PROVE  /\ Snapshot(g) \in Lock
           /\ \A p \in Path : (Snapshot(g)[p] # Absent) <=> Lockable(g, p)
           /\ \A p \in Path : Lockable(g, p) =>
                LockedHash(Snapshot(g), p) = Hash(g, p)
           /\ \A p, t \in Path :
                LockedTarget(Snapshot(g), p, t) =
                IF t \in Links(g, p) THEN Hash(g, t) ELSE Absent
<1>1. \A p \in Path : Recorded(g, p) \in LockEntry /\ Recorded(g, p) # Absent
  <2> SUFFICES ASSUME NEW p \in Path PROVE Recorded(g, p) \in LockEntry
    BY EntryAssumption
  <2>1. \A t \in Path : Hash(g, t) \in Hashes BY HashTellsLinks
  <2> QED BY <2>1 DEF Recorded, LockEntry, TargetHash
<1>2. Snapshot(g) \in Lock BY <1>1 DEF Snapshot, Lock
<1>3. \A p \in Path : (Snapshot(g)[p] # Absent) <=> Lockable(g, p)
  BY <1>1 DEF Snapshot
<1>4. \A p \in Path : Lockable(g, p) => LockedHash(Snapshot(g), p) = Hash(g, p)
  BY <1>1 DEF Snapshot, LockedHash, Recorded
<1>5. ASSUME NEW p \in Path, NEW t \in Path
      PROVE  LockedTarget(Snapshot(g), p, t) =
             IF t \in Links(g, p) THEN Hash(g, t) ELSE Absent
  <2>1. CASE Lockable(g, p)
    <3>1. Snapshot(g)[p] = Recorded(g, p) BY <2>1 DEF Snapshot
    <3>2. Recorded(g, p) # Absent BY <1>1
    <3>3. Recorded(g, p).edges[t] = IF t \in Links(g, p) THEN Hash(g, t) ELSE Absent
      BY DEF Recorded, TargetHash
    <3> QED BY <3>1, <3>2, <3>3 DEF LockedTarget
  <2>2. CASE ~Lockable(g, p)
    <3>1. Links(g, p) = {} BY <2>2 DEF Lockable
    <3>2. Snapshot(g)[p] = Absent BY <2>2 DEF Snapshot
    <3> QED BY <3>1, <3>2 DEF LockedTarget
  <2> QED BY <2>1, <2>2
<1> QED BY <1>2, <1>3, <1>4, <1>5

LEMMA SnapshotIsWhole ==
    ASSUME NEW g \in Graph
    PROVE  WholeEntries(Snapshot(g))
<1> SUFFICES ASSUME NEW p \in Path, LockedHash(Snapshot(g), p) # NoHash
             PROVE  {t \in Path : LockedTarget(Snapshot(g), p, t) # Absent}
                    = LinksOf[LockedHash(Snapshot(g), p)]
  BY DEF WholeEntries
<1>1. Lockable(g, p) BY SnapshotIsALock DEF LockedHash
<1>2. LockedHash(Snapshot(g), p) = Hash(g, p) BY <1>1, SnapshotIsALock
<1>3. Links(g, p) \subseteq Path /\ Links(g, p) = LinksOf[Hash(g, p)]
  BY <1>2, HashTellsLinks
<1>4. \A t \in Path : Hash(g, t) # Absent BY HashTellsLinks, HashAssumption DEF Hashes
<1>5. \A t \in Path : LockedTarget(Snapshot(g), p, t) # Absent <=> t \in Links(g, p)
  BY <1>4, SnapshotIsALock
<1> QED BY <1>2, <1>3, <1>5

(* A scoped lock changes the named entries and no other.                   *)
LEMMA RelockedIsALock ==
    ASSUME NEW lock \in Lock, NEW g \in Graph, NEW S \in SUBSET Path
    PROVE  /\ Relocked(lock, g, S) \in Lock
           /\ \A p \in S : Relocked(lock, g, S)[p] = Snapshot(g)[p]
           /\ \A p \in Path \ S : Relocked(lock, g, S)[p] = lock[p]
           /\ WholeEntries(lock) => WholeEntries(Relocked(lock, g, S))
<1> DEFINE new == Relocked(lock, g, S)
<1>1. new \in Lock BY SnapshotIsALock DEF Relocked, Lock
<1>2. \A p \in Path : new[p] = IF p \in S THEN Snapshot(g)[p] ELSE lock[p]
  BY DEF Relocked
<1>3. ASSUME WholeEntries(lock) PROVE WholeEntries(new)
  <2>1. WholeEntries(Snapshot(g)) BY SnapshotIsWhole
  <2> HIDE DEF new
  <2> QED BY <1>2, <1>3, <2>1 DEF WholeEntries, LockedHash, LockedTarget
<1> QED BY <1>1, <1>2, <1>3

-----------------------------------------------------------------------------
(* Staleness findings                                                      *)

(* A finding about an entry is one of five kinds; no kind mixes with another. *)
LEMMA FindingsOf ==
    ASSUME NEW g \in Graph, NEW lock \in Lock, NEW f
    PROVE  f \in Evaluate(g, lock) <=>
             \E p \in Path :
               \/ f = About("unlocked-node", p) /\ Lockable(g, p) /\ lock[p] = Absent
               \/ f = About("stale-node", p) /\ StaleNode(g, lock, p)
               \/ \E t \in Links(g, p) :
                     f = AboutEdge("stale-edge", p, t) /\ StaleEdge(g, lock, p, t)
               \/ \E t \in Links(g, p) :
                     f = AboutEdge("new-edge", p, t) /\ LockedTarget(lock, p, t) = Absent
               \/ f = About("removed-node", p) /\ lock[p] # Absent /\ g[p] = Absent
               \/ \E t \in Path \ Links(g, p) :
                     /\ f = AboutEdge("removed-edge", p, t)
                     /\ g[p] # Absent /\ LockedTarget(lock, p, t) # Absent
<1>1. f \in UnlockedNodes(g, lock) <=> \E p \in Path :
        f = About("unlocked-node", p) /\ Lockable(g, p) /\ lock[p] = Absent
  BY DEF UnlockedNodes
<1>2. f \in StaleNodes(g, lock) <=> \E p \in Path :
        f = About("stale-node", p) /\ StaleNode(g, lock, p)
  BY DEF StaleNodes
<1>3. f \in StaleEdges(g, lock) <=> \E p \in Path : \E t \in Links(g, p) :
        f = AboutEdge("stale-edge", p, t) /\ StaleEdge(g, lock, p, t)
  BY DEF StaleEdges
<1>4. f \in NewEdges(g, lock) <=> \E p \in Path : \E t \in Links(g, p) :
        f = AboutEdge("new-edge", p, t) /\ LockedTarget(lock, p, t) = Absent
  BY DEF NewEdges
<1>5. f \in RemovedNodes(g, lock) <=> \E p \in Path :
        f = About("removed-node", p) /\ lock[p] # Absent /\ g[p] = Absent
  BY DEF RemovedNodes
<1>6. f \in RemovedEdges(g, lock) <=> \E p \in Path : \E t \in Path \ Links(g, p) :
        /\ f = AboutEdge("removed-edge", p, t)
        /\ g[p] # Absent /\ LockedTarget(lock, p, t) # Absent
  BY DEF RemovedEdges
<1> QED BY <1>1, <1>2, <1>3, <1>4, <1>5, <1>6 DEF Evaluate

(* What check finds out about one path depends on that path's entry alone. *)
LEMMA FindingsAreLocal ==
    ASSUME NEW g \in Graph, NEW lock \in Lock, NEW new \in Lock,
           NEW p \in Path, lock[p] = new[p], NEW f, f.subject = p
    PROVE  f \in Evaluate(g, lock) <=> f \in Evaluate(g, new)
<1>1. LockedHash(lock, p) = LockedHash(new, p) BY DEF LockedHash
<1>2. \A t \in Path : LockedTarget(lock, p, t) = LockedTarget(new, p, t)
  BY DEF LockedTarget
<1>3. StaleNode(g, lock, p) = StaleNode(g, new, p) BY <1>1 DEF StaleNode
<1>4. \A t \in Path : StaleEdge(g, lock, p, t) = StaleEdge(g, new, p, t)
  BY <1>2, <1>3 DEF StaleEdge
<1>5. Links(g, p) \subseteq Path BY HashTellsLinks
<1>6. \A rule, q, t : About(rule, q).subject = q /\ AboutEdge(rule, q, t).subject = q
  BY DEF About, AboutEdge
<1>7. ASSUME NEW a \in Lock, NEW b \in Lock, a[p] = b[p],
             StaleNode(g, a, p) = StaleNode(g, b, p),
             \A t \in Path : StaleEdge(g, a, p, t) = StaleEdge(g, b, p, t),
             \A t \in Path : LockedTarget(a, p, t) = LockedTarget(b, p, t),
             f \in Evaluate(g, a)
      PROVE  f \in Evaluate(g, b)
  BY <1>5, <1>6, <1>7, FindingsOf
<1> QED BY <1>2, <1>3, <1>4, <1>7

(* Nothing is found about a path whose entry is what the tree says now.    *)
LEMMA SnapshotIsClean ==
    ASSUME NEW g \in Graph, NEW new \in Lock,
           NEW p \in Path, new[p] = Snapshot(g)[p], NEW f, f.subject = p
    PROVE  f \notin Evaluate(g, new)
<1> SUFFICES f \notin Evaluate(g, Snapshot(g)) BY FindingsAreLocal, SnapshotIsALock
<1> DEFINE lock == Snapshot(g)
<1>1. lock \in Lock /\ ((lock[p] # Absent) <=> Lockable(g, p)) BY SnapshotIsALock
<1>2. LockedHash(lock, p) = Hash(g, p)
  <2>1. CASE Lockable(g, p) BY <2>1, SnapshotIsALock
  <2>2. CASE ~Lockable(g, p) BY <2>2, <1>1 DEF Lockable, LockedHash
  <2> QED BY <2>1, <2>2
<1>3. \A t \in Path : LockedTarget(lock, p, t) =
                      IF t \in Links(g, p) THEN Hash(g, t) ELSE Absent
  BY SnapshotIsALock
<1>4. \A t \in Path : Hash(g, t) # Absent BY HashTellsLinks, HashAssumption DEF Hashes
<1>5. Links(g, p) \subseteq Path /\ (g[p] = Absent => ~Lockable(g, p))
  BY HashTellsLinks DEF Lockable
<1>6. ~StaleNode(g, lock, p) BY <1>2 DEF StaleNode, Differ
<1>7. \A t \in Links(g, p) : ~StaleEdge(g, lock, p, t)
  BY <1>3, <1>5 DEF StaleEdge, Differ
<1>8. \A rule, q, t : About(rule, q).subject = q /\ AboutEdge(rule, q, t).subject = q
  BY DEF About, AboutEdge
<1> HIDE DEF lock
<1>9. f \notin Evaluate(g, lock)
  BY <1>1, <1>3, <1>4, <1>5, <1>6, <1>7, <1>8, FindingsOf
<1> QED BY <1>9 DEF lock

LEMMA FindingsType ==
    ASSUME NEW g \in Graph, NEW b \in Lock \cup {NoLock}
    PROVE  Findings(g, b) \subseteq [rule : Rule, subject : Path \cup {Absent},
                                    target : Path \cup {Absent}]
<1> DEFINE Finding == [rule : Rule, subject : Path \cup {Absent}, target : Path \cup {Absent}]
<1>1. \A rule \in Rule : \A p \in Path \cup {Absent} : About(rule, p) \in Finding
  BY DEF About
<1>2. \A rule \in Rule : \A p, t \in Path : AboutEdge(rule, p, t) \in Finding
  BY DEF AboutEdge
<1>3. /\ "no-baseline" \in Rule /\ "unlocked-node" \in Rule /\ "stale-node" \in Rule
      /\ "stale-edge" \in Rule /\ "new-edge" \in Rule /\ "removed-node" \in Rule
      /\ "removed-edge" \in Rule
  BY DEF Rule
<1> HIDE DEF Finding
<1>4. NoBaseline(g, b) \subseteq Finding BY <1>1, <1>3 DEF NoBaseline
<1>5. ASSUME b # NoLock, NEW f \in Evaluate(g, b) PROVE f \in Finding
  <2>1. \A p \in Path : Links(g, p) \subseteq Path BY HashTellsLinks
  <2>2. b \in Lock BY <1>5
  <2> QED BY <1>1, <1>2, <1>3, <1>5, <2>1, <2>2, FindingsOf
<1>6. Findings(g, b) \subseteq Finding BY <1>4, <1>5 DEF Findings
<1> QED BY <1>6 DEF Finding

-----------------------------------------------------------------------------
(* The invariant                                                           *)

(* What a command has read and is about to write, against what there is.   *)
(* A lockfile that is missing or corrupt has been so since the start, so   *)
(* nobody can have read a baseline from it.                                *)
Ready(q) ==
    /\ base[q] # NoLock => WholeEntries(base[q])
    /\ content[q] # NoLock => WholeEntries(content[q])
    /\ lockfile \in {Missing, Corrupt} => base[q] = NoLock
    /\ pc[q] \in {"stage", "persist"} =>
         /\ content[q] # NoLock
         /\ lockfile = Corrupt => command[q].op = "all"
         /\ lockfile = Missing => Entries(content[q]) # {}

IInv == TypeOK /\ EntriesAreWhole /\ \A q \in Process : Ready(q)

LEMMA InitEstablishesIInv ==
    ASSUME Init
    PROVE  IInv
<1>1. Unread \in Seen BY DEF Seen
<1>2. TypeOK
  <2>1. NoReport \in Report BY DEF NoReport, Report
  <2>2. lockfile \in Lock \cup {Missing, Corrupt} BY BaselinesAssumption DEF Init
  <2>3. command \in [Process -> Command] BY CommandsAssumption DEF Init
  <2>4. tree \in Graph /\ edits \in 0 .. MaxEdits BY TreesAssumption, EditsAssumption DEF Init
  <2> QED BY <1>1, <2>1, <2>2, <2>3, <2>4 DEF Init, TypeOK, Places
<1>3. EntriesAreWhole BY BaselinesAssumption DEF Init, EntriesAreWhole
<1>4. \A q \in Process : Ready(q)
  <2>1. \A q \in Process : base[q] = NoLock /\ content[q] = NoLock /\ pc[q] = "new"
    BY DEF Init
  <2> QED BY <2>1 DEF Ready
<1> QED BY <1>2, <1>3, <1>4 DEF IInv

(* A command that only goes to another place.                              *)
LEMMA MovingKeepsIInv ==
    ASSUME IInv, NEW q \in Process, NEW place \in Places, Goto(q, place),
           UNCHANGED <<repository, command, view, base, decided>>,
           place \in {"read", "decide"} => view[q] \in Graph,
           place \in {"stage", "persist"} => pc[q] \in {"stage", "persist"}
    PROVE  IInv'
<1> USE DEF repository, decided
<1>1. pc \in [Process -> Places] BY DEF IInv, TypeOK
<1>2. pc' \in [Process -> Places] /\ pc'[q] = place /\ \A r \in Process \ {q} : pc'[r] = pc[r]
  BY <1>1 DEF Goto
<1>3. TypeOK' BY <1>2 DEF IInv, TypeOK
<1>4. EntriesAreWhole' BY DEF IInv, EntriesAreWhole
<1>5. \A r \in Process : Ready(r)' BY <1>2 DEF IInv, Ready
<1> QED BY <1>3, <1>4, <1>5 DEF IInv

(* A command that only sees one more path, or its whole graph.             *)
LEMMA SeeingKeepsIInv ==
    ASSUME IInv, NEW q \in Process, pc[q] = "walk",
           view' \in [Process -> [Path -> Seen]],
           \A r \in Process \ {q} : view'[r] = view[r],
           UNCHANGED <<repository, pc, command, base, decided>>
    PROVE  IInv'
<1> USE DEF repository, decided
<1>1. TypeOK' BY DEF IInv, TypeOK
<1>2. EntriesAreWhole' BY DEF IInv, EntriesAreWhole
<1>3. \A r \in Process : Ready(r)' BY DEF IInv, Ready
<1> QED BY <1>1, <1>2, <1>3 DEF IInv

LEMMA EditKeepsIInv ==
    ASSUME IInv, NEW p \in Path, Edit(p)
    PROVE  IInv'
<1> USE DEF decided
<1>1. tree' \in Graph /\ edits' \in 0 .. MaxEdits
  <2>1. PICK n \in Edits : tree' = [tree EXCEPT ![p] = n] BY DEF Edit
  <2>2. n \in Node \cup {Absent} BY EditsAssumption
  <2> QED BY <2>1, <2>2, EditsAssumption DEF Edit, IInv, TypeOK, Graph
<1>2. UNCHANGED <<lockfile, pc, command, view, base, content, report>> BY DEF Edit
<1>3. TypeOK' BY <1>1, <1>2 DEF IInv, TypeOK
<1>4. EntriesAreWhole' BY <1>2 DEF IInv, EntriesAreWhole
<1>5. \A r \in Process : Ready(r)' BY <1>2 DEF IInv, Ready
<1> QED BY <1>3, <1>4, <1>5 DEF IInv

LEMMA WalkKeepsIInv ==
    ASSUME IInv, NEW q \in Process, NEW p \in Path, List(q, p) \/ Look(q, p) \/ Read(q, p)
    PROVE  IInv'
<1>1. view \in [Process -> [Path -> Seen]] /\ tree \in Graph BY DEF IInv, TypeOK
<1>2. tree[p] \in Node \cup {Absent} BY <1>1 DEF Graph
<1>3. pc[q] = "walk" /\ UNCHANGED <<repository, pc, command, base, decided>>
  BY DEF List, Look, Read
<1>4. ASSUME NEW n \in Seen, view' = [view EXCEPT ![q][p] = n] PROVE IInv'
  <2>1. view' \in [Process -> [Path -> Seen]] BY <1>1, <1>4
  <2>2. \A r \in Process \ {q} : view'[r] = view[r] BY <1>1, <1>4
  <2> QED BY <1>3, <2>1, <2>2, SeeingKeepsIInv
<1>5. CASE List(q, p) BY <1>4, <1>5 DEF List, Seen
<1>6. CASE Look(q, p) BY <1>2, <1>4, <1>6 DEF Look, Seen
<1>7. CASE Read(q, p)
  <2>1. PICK n \in ReadsAs(p) : view' = [view EXCEPT ![q][p] = n] BY <1>7 DEF Read
  <2>2. n \in Node BY <1>2 DEF ReadsAs, Node
  <2> QED BY <1>4, <2>1, <2>2 DEF Seen
<1> QED BY <1>5, <1>6, <1>7

LEMMA BuildKeepsIInv ==
    ASSUME IInv, NEW q \in Process, Build(q)
    PROVE  IInv'
<1> USE DEF repository, decided
<1>1. view \in [Process -> [Path -> Seen]] /\ tree \in Graph /\ pc \in [Process -> Places]
  BY DEF IInv, TypeOK
<1>2. Built(q) \in Graph
  <2> SUFFICES ASSUME NEW p \in Path PROVE Built(q)[p] \in Node \cup {Absent}
    BY DEF Built, Graph
  <2>1. view[q][p] \in Node \cup {Absent} BY <1>1 DEF Build, Seen
  <2>2. CASE view[q][p] = Absent \/ view[q][p].kind # "symlink" BY <2>1, <2>2 DEF Built
  <2>3. CASE view[q][p] # Absent /\ view[q][p].kind = "symlink"
    <3>1. CASE tree[p] # Absent /\ tree[p].kind = "symlink"
      <4>1. tree[p] \in Node BY <1>1, <3>1 DEF Graph
      <4>2. tree[p].links = {} \/ \E t \in Path : tree[p].links = {t}
        BY <4>1, <3>1 DEF Node, FileNode, Unreadable, Directory, Symlink
      <4>3. Symlink(tree[p].links) \in Node BY <4>2 DEF Node
      <4> QED BY <2>3, <3>1, <4>3 DEF Built
    <3>2. CASE ~(tree[p] # Absent /\ tree[p].kind = "symlink")
      BY <2>3, <3>2 DEF Built, Node
    <3> QED BY <3>1, <3>2
  <2> QED BY <2>2, <2>3
<1>3. view' \in [Process -> [Path -> Seen]] /\ view'[q] = Built(q)
      /\ \A r \in Process \ {q} : view'[r] = view[r]
  <2>1. Built(q) \in [Path -> Seen] BY <1>2 DEF Graph, Seen
  <2> QED BY <1>1, <2>1 DEF Build
<1>4. pc' \in [Process -> Places] /\ pc'[q] = "read" /\ \A r \in Process \ {q} : pc'[r] = pc[r]
  BY <1>1 DEF Build, Goto, Places
<1>5. UNCHANGED <<tree, edits, lockfile, command, base, content, report>> BY DEF Build
<1>6. TypeOK' BY <1>2, <1>3, <1>4, <1>5 DEF IInv, TypeOK
<1>7. EntriesAreWhole' BY <1>5 DEF IInv, EntriesAreWhole
<1>8. \A r \in Process : Ready(r)' BY <1>4, <1>5 DEF IInv, Ready
<1> QED BY <1>6, <1>7, <1>8 DEF IInv

LEMMA ReadLockKeepsIInv ==
    ASSUME IInv, NEW q \in Process, ReadLock(q)
    PROVE  IInv'
<1> USE DEF repository, decided
<1>1. /\ base \in [Process -> Lock \cup {NoLock}] /\ pc \in [Process -> Places]
      /\ lockfile \in Lock \cup {Missing, Corrupt} /\ view[q] \in Graph
  BY DEF IInv, TypeOK, ReadLock
<1>2. UNCHANGED <<tree, edits, lockfile, command, view, content, report>> BY DEF ReadLock
<1>3. PICK place \in {"decide", "failed"} : Goto(q, place) BY DEF ReadLock
<1>4. /\ pc' \in [Process -> Places] /\ pc'[q] \in {"decide", "failed"}
      /\ \A r \in Process \ {q} : pc'[r] = pc[r]
  BY <1>1, <1>3 DEF Goto, Places
<1>5. PICK new \in {base[q], Usable(lockfile)} : base' = [base EXCEPT ![q] = new]
  BY <1>1 DEF ReadLock
<1>6. new \in Lock \cup {NoLock} BY <1>1, <1>5 DEF Usable
<1>7. base' \in [Process -> Lock \cup {NoLock}] /\ base'[q] = new
      /\ \A r \in Process \ {q} : base'[r] = base[r]
  BY <1>1, <1>5, <1>6
<1>8. TypeOK' BY <1>1, <1>2, <1>4, <1>7 DEF IInv, TypeOK
<1>9. EntriesAreWhole' BY <1>2 DEF IInv, EntriesAreWhole
<1>10. ASSUME NEW r \in Process PROVE Ready(r)'
  <2>1. CASE r = q
    <3>1. new # NoLock => WholeEntries(new)
      BY <1>5 DEF Usable, IInv, EntriesAreWhole, Ready
    <3>2. lockfile \in {Missing, Corrupt} => new = NoLock BY <1>5 DEF Usable, IInv, Ready
    <3>3. pc'[q] \notin {"stage", "persist"} BY <1>4
    <3>4. content[q] # NoLock => WholeEntries(content[q]) BY DEF IInv, Ready
    <3> QED BY <1>2, <1>7, <2>1, <3>1, <3>2, <3>3, <3>4 DEF Ready
  <2>2. CASE r # q BY <1>2, <1>4, <1>7, <2>2 DEF IInv, Ready
  <2> QED BY <2>1, <2>2
<1> QED BY <1>8, <1>9, <1>10 DEF IInv

(* A command that has decided what to write and where to go from there.    *)
LEMMA DecidingKeepsIInv ==
    ASSUME IInv, NEW q \in Process, NEW place \in {"stage", "done"}, Goto(q, place),
           NEW new \in Lock, WholeEntries(new), content' = [content EXCEPT ![q] = new],
           NEW said \in Report, report' = [report EXCEPT ![q] = said],
           UNCHANGED <<repository, command, view, base>>,
           place = "stage" =>
             /\ lockfile = Corrupt => command[q].op = "all"
             /\ lockfile = Missing => Entries(new) # {}
    PROVE  IInv'
<1> USE DEF repository
<1>1. /\ pc \in [Process -> Places] /\ content \in [Process -> Lock \cup {NoLock}]
      /\ report \in [Process -> Report]
  BY DEF IInv, TypeOK
<1>2. /\ pc' \in [Process -> Places] /\ pc'[q] = place
      /\ \A r \in Process \ {q} : pc'[r] = pc[r]
  BY <1>1 DEF Goto, Places
<1>3. /\ content' \in [Process -> Lock \cup {NoLock}] /\ content'[q] = new
      /\ \A r \in Process \ {q} : content'[r] = content[r]
  BY <1>1
<1>4. report' \in [Process -> Report] BY <1>1
<1>5. TypeOK' BY <1>2, <1>3, <1>4 DEF IInv, TypeOK
<1>6. EntriesAreWhole' BY DEF IInv, EntriesAreWhole
<1>7. ASSUME NEW r \in Process PROVE Ready(r)'
  <2>1. Ready(r) BY DEF IInv
  <2>2. CASE r = q
    <3>1. new # NoLock BY LockfileAssumption DEF NoLock
    <3> QED BY <1>2, <1>3, <2>1, <2>2, <3>1 DEF Ready
  <2>3. CASE r # q BY <1>2, <1>3, <2>1, <2>3 DEF Ready
  <2> QED BY <2>2, <2>3
<1> QED BY <1>5, <1>6, <1>7 DEF IInv

LEMMA DecideAllKeepsIInv ==
    ASSUME IInv, NEW q \in Process, DecideAll(q)
    PROVE  IInv'
<1> DEFINE new == Snapshot(view[q])
           said == [NoReport EXCEPT
                      !.locked = Entries(new),
                      !.dropped = IF base[q] = NoLock THEN {} ELSE Entries(base[q]) \ Entries(new),
                      !.unlisted = base[q] = NoLock /\ lockfile # Missing]
           place == IF Entries(new) # {} \/ lockfile # Missing THEN "stage" ELSE "done"
<1>1. view[q] \in Graph BY DEF IInv, TypeOK, DecideAll
<1>2. new \in Lock /\ WholeEntries(new) BY <1>1, SnapshotIsALock, SnapshotIsWhole
<1>3. said \in Report
  <2>1. Entries(new) \subseteq Path /\ Entries(base[q]) \subseteq Path BY DEF Entries
  <2> HIDE DEF new
  <2> QED BY <2>1 DEF NoReport, Report
<1>4. /\ Goto(q, place) /\ content' = [content EXCEPT ![q] = new]
      /\ report' = [report EXCEPT ![q] = said]
      /\ UNCHANGED <<repository, command, view, base>> /\ command[q].op = "all"
  BY DEF DecideAll
<1>5. place \in {"stage", "done"} /\ (place = "stage" /\ lockfile = Missing => Entries(new) # {})
  OBVIOUS
<1> HIDE DEF new, said, place
<1> QED BY <1>2, <1>3, <1>4, <1>5, DecidingKeepsIInv

LEMMA DecideNamedKeepsIInv ==
    ASSUME IInv, NEW q \in Process, DecideNamed(q)
    PROVE  IInv'
<1> DEFINE S == command[q].paths
           old == Existing(q)
           new == Relocked(old, view[q], S)
           locked == S \cap Entries(Snapshot(view[q]))
           said == [NoReport EXCEPT !.locked = locked, !.dropped = Dropped(q)]
           place == IF HasEffect(locked, Dropped(q)) THEN "stage" ELSE "done"
<1>1. view[q] \in Graph /\ base[q] \in Lock \cup {NoLock} /\ S \in SUBSET Path
  BY DEF IInv, TypeOK, DecideNamed, Command
<1>2. EmptyLock \in Lock /\ WholeEntries(EmptyLock)
  BY DEF EmptyLock, Lock, WholeEntries, LockedHash
<1>3. old \in Lock /\ WholeEntries(old)
  BY <1>1, <1>2 DEF Existing, IInv, Ready
<1>4. new \in Lock /\ WholeEntries(new) /\ \A p \in S : new[p] = Snapshot(view[q])[p]
  BY <1>1, <1>3, RelockedIsALock
<1>5. said \in Report
  <2>1. locked \subseteq Path /\ Dropped(q) \subseteq Path BY <1>1 DEF Dropped
  <2> HIDE DEF locked
  <2> QED BY <2>1 DEF NoReport, Report
<1>6. /\ Goto(q, place) /\ content' = [content EXCEPT ![q] = new]
      /\ report' = [report EXCEPT ![q] = said]
      /\ UNCHANGED <<repository, command, view, base>>
  BY DEF DecideNamed
<1>7. ~(base[q] = NoLock /\ lockfile # Missing) BY DEF DecideNamed, Refused
<1>8. lockfile # Corrupt
  BY <1>7, LockfileAssumption DEF IInv, Ready
<1>9. ASSUME place = "stage", lockfile = Missing PROVE Entries(new) # {}
  <2>1. base[q] = NoLock BY <1>9 DEF IInv, Ready
  <2>2. Dropped(q) = {} BY <2>1 DEF Dropped, Existing, EmptyLock, Entries
  <2>3. PICK p \in S : Snapshot(view[q])[p] # Absent /\ p \in Path
    BY <1>9, <2>2 DEF HasEffect, Entries
  <2> HIDE DEF new
  <2> QED BY <1>4, <2>3 DEF Entries
<1>10. place \in {"stage", "done"} OBVIOUS
<1> HIDE DEF new, said, place, S, old, locked
<1> QED BY <1>4, <1>5, <1>6, <1>8, <1>9, <1>10, DecidingKeepsIInv

LEMMA CheckKeepsIInv ==
    ASSUME IInv, NEW q \in Process, Check(q)
    PROVE  IInv'
<1> USE DEF repository
<1> DEFINE found == Findings(view[q], base[q])
<1>1. /\ pc \in [Process -> Places] /\ report \in [Process -> Report]
      /\ view[q] \in Graph /\ base[q] \in Lock \cup {NoLock}
  BY DEF IInv, TypeOK, Check
<1>2. found \subseteq [rule : Rule, subject : Path \cup {Absent}, target : Path \cup {Absent}]
  BY <1>1, FindingsType
<1> HIDE DEF found
<1>3. [report[q] EXCEPT !.findings = found] \in Report BY <1>1, <1>2 DEF Report
<1>4. report' = [report EXCEPT ![q] = [report[q] EXCEPT !.findings = found]]
  BY <1>1 DEF Check, found
<1>5. report' \in [Process -> Report] BY <1>1, <1>3, <1>4
<1>6. /\ pc' \in [Process -> Places] /\ pc'[q] = "done"
      /\ \A r \in Process \ {q} : pc'[r] = pc[r]
  BY <1>1 DEF Check, Goto, Places
<1>7. UNCHANGED <<repository, command, view, base, content>> BY DEF Check
<1>8. TypeOK' BY <1>5, <1>6, <1>7 DEF IInv, TypeOK
<1>9. EntriesAreWhole' BY <1>7 DEF IInv, EntriesAreWhole
<1>10. \A r \in Process : Ready(r)' BY <1>6, <1>7 DEF IInv, Ready
<1> QED BY <1>8, <1>9, <1>10 DEF IInv

LEMMA PersistKeepsIInv ==
    ASSUME IInv, NEW q \in Process, Persist(q)
    PROVE  IInv'
<1> USE DEF decided
<1>1. /\ pc \in [Process -> Places] /\ content[q] \in Lock \cup {NoLock} /\ Ready(q)
      /\ pc[q] = "persist"
  BY DEF IInv, TypeOK, Persist
<1>2. content[q] \in Lock /\ WholeEntries(content[q]) BY <1>1 DEF Ready
<1>3. lockfile' = content[q] /\ lockfile' \in Lock /\ lockfile' \notin {Missing, Corrupt}
  BY <1>2, LockfileAssumption DEF Persist
<1>4. /\ pc' \in [Process -> Places] /\ pc'[q] = "done"
      /\ \A r \in Process \ {q} : pc'[r] = pc[r]
  BY <1>1 DEF Persist, Goto, Places
<1>5. UNCHANGED <<tree, edits, command, view, base, content, report>> BY DEF Persist
<1>6. TypeOK' BY <1>3, <1>4, <1>5 DEF IInv, TypeOK
<1>7. EntriesAreWhole' BY <1>2, <1>3 DEF EntriesAreWhole
<1>8. \A r \in Process : Ready(r)' BY <1>3, <1>4, <1>5 DEF IInv, Ready
<1> QED BY <1>6, <1>7, <1>8 DEF IInv

LEMMA NextKeepsIInv ==
    ASSUME IInv, [Next]_vars
    PROVE  IInv'
<1>1. CASE UNCHANGED vars
  BY <1>1 DEF vars, IInv, TypeOK, EntriesAreWhole, Ready
<1>2. CASE \E p \in Path : Edit(p) BY <1>2, EditKeepsIInv
<1>3. ASSUME NEW q \in Process, Step(q) PROVE IInv'
  <2>1. CASE Start(q) BY <2>1, MovingKeepsIInv DEF Start, Places
  <2>2. CASE Build(q) BY <2>2, BuildKeepsIInv
  <2>3. CASE ReadLock(q) BY <2>3, ReadLockKeepsIInv
  <2>4. CASE DecideAll(q) BY <2>4, DecideAllKeepsIInv
  <2>5. CASE Refuse(q) BY <2>5, MovingKeepsIInv DEF Refuse, Places
  <2>6. CASE DecideNamed(q) BY <2>6, DecideNamedKeepsIInv
  <2>7. CASE Check(q) BY <2>7, CheckKeepsIInv
  <2>8. CASE Stage(q) BY <2>8, MovingKeepsIInv DEF Stage, Places
  <2>9. CASE Persist(q) BY <2>9, PersistKeepsIInv
  <2>10. CASE Abort(q) BY <2>10, MovingKeepsIInv DEF Abort, Places
  <2>11. CASE \E p \in Path : List(q, p) \/ Look(q, p) \/ Read(q, p) BY <2>11, WalkKeepsIInv
  <2> QED BY <1>3, <2>1, <2>2, <2>3, <2>4, <2>5, <2>6, <2>7, <2>8, <2>9, <2>10, <2>11 DEF Step
<1> QED BY <1>1, <1>2, <1>3 DEF Next

(* Whatever the tree does and however many commands run, every command     *)
(* stands between what it has read and what it will write as IInv says.    *)
THEOREM Invariance == Spec => []IInv
<1>1. Init => IInv BY InitEstablishesIInv
<1>2. IInv /\ [Next]_vars => IInv' BY NextKeepsIInv
<1> QED BY <1>1, <1>2, PTL DEF Spec

(* Every variable of LockFile has its type (TypeOK).                       *)
THEOREM TypeCorrect == Spec => []TypeOK
<1>1. IInv => TypeOK BY DEF IInv
<1> QED BY <1>1, Invariance, PTL

(* Whatever edits meet the walk, no lock entry pairs the hash of one       *)
(* content with the links of another (EntriesAreWhole).                    *)
THEOREM LockedFromOneRead == Spec => []EntriesAreWhole
<1>1. IInv => EntriesAreWhole BY DEF IInv
<1> QED BY <1>1, Invariance, PTL

LEMMA OnlyPersistWrites ==
    ASSUME [Next]_vars, ~\E q \in Process : Persist(q)
    PROVE  lockfile' = lockfile
BY DEF Next, vars, Step, Edit, Start, List, Look, Read, Build, ReadLock, DecideAll, Refuse,
       DecideNamed, Check, Stage, Abort, repository, decided

(* No step leaves a lockfile that does not parse (NeverTorn).              *)
THEOREM ReplacedWhole == Spec => NeverTorn
<1>1. ASSUME IInv, [Next]_vars PROVE [lockfile' = Corrupt => lockfile = Corrupt]_vars
  <2>1. CASE \E q \in Process : Persist(q)
    <3>1. PICK q \in Process : Persist(q) BY <2>1
    <3>2. content[q] \in Lock BY <1>1, <3>1 DEF IInv, TypeOK, Ready, Persist
    <3> QED BY <3>1, <3>2, LockfileAssumption DEF Persist
  <2>2. CASE ~\E q \in Process : Persist(q) BY <1>1, <2>2, OnlyPersistWrites
  <2> QED BY <2>1, <2>2
<1>2. Spec => [][Next]_vars BY DEF Spec
<1> QED BY <1>1, <1>2, Invariance, PTL DEF NeverTorn

(* Only lock --all replaces a lockfile that does not parse                 *)
(* (CorruptNeedsRebuild): a scoped lock that read it has refused, and one  *)
(* that read anything else cannot meet it.                                 *)
THEOREM UnreadableIsNotMerged == Spec => CorruptNeedsRebuild
<1>1. ASSUME IInv, [Next]_vars
      PROVE  [lockfile = Corrupt /\ lockfile' # Corrupt =>
                \E q \in Process : Writes(q) /\ command[q].op = "all"]_vars
  <2>1. CASE \E q \in Process : Persist(q)
    <3>1. PICK q \in Process : Persist(q) BY <2>1
    <3>2. Writes(q)
      BY <1>1, <3>1 DEF Writes, Persist, Goto, IInv, TypeOK
    <3>3. lockfile = Corrupt => command[q].op = "all" BY <1>1, <3>1 DEF IInv, Ready, Persist
    <3> QED BY <3>2, <3>3
  <2>2. CASE ~\E q \in Process : Persist(q) BY <1>1, <2>2, OnlyPersistWrites
  <2> QED BY <2>1, <2>2
<1>2. Spec => [][Next]_vars BY DEF Spec
<1> QED BY <1>1, <1>2, Invariance, PTL DEF CorruptNeedsRebuild

(* No command creates a lockfile without entries (NoEmptyBaseline).        *)
THEOREM BaselinesCoverSomething == Spec => NoEmptyBaseline
<1>1. ASSUME IInv, [Next]_vars
      PROVE  [lockfile = Missing => Entries(OnDisk') # {} \/ lockfile' = Missing]_vars
  <2>1. CASE \E q \in Process : Persist(q)
    <3>1. PICK q \in Process : Persist(q) BY <2>1
    <3>2. content[q] \in Lock /\ lockfile' = content[q]
      BY <1>1, <3>1 DEF IInv, TypeOK, Ready, Persist
    <3>3. OnDisk' = content[q] BY <3>2, LockfileAssumption DEF OnDisk
    <3>4. lockfile = Missing => Entries(content[q]) # {} BY <1>1, <3>1 DEF IInv, Ready, Persist
    <3> QED BY <3>3, <3>4
  <2>2. CASE ~\E q \in Process : Persist(q) BY <1>1, <2>2, OnlyPersistWrites
  <2> QED BY <2>1, <2>2
<1>2. Spec => [][Next]_vars BY DEF Spec
<1> QED BY <1>1, <1>2, Invariance, PTL DEF NoEmptyBaseline

-----------------------------------------------------------------------------
(* One lock command, beside any number of checks                           *)

Writer(q) == command[q].op # "check"

OneWriter == \A q, r \in Process : Writer(q) /\ Writer(r) => q = r

(* What q is about to write, and says, against the lockfile of now.        *)
Tells(q) ==
    /\ command[q].op = "named" =>
          \A p \in Path \ command[q].paths : content[q][p] = OnDisk[p]
    /\ report[q].dropped \subseteq Entries(OnDisk) \ Entries(content[q])
    /\ report[q].locked \subseteq Entries(content[q])
    /\ \A p \in Path : content[q][p] # OnDisk[p] =>
          p \in report[q].locked \cup report[q].dropped \/ report[q].unlisted
    /\ lockfile = Corrupt => report[q].unlisted

(* lock --all may also have failed to read the baseline.                   *)
HasRead(q) ==
    \/ base[q] = Usable(lockfile)
    \/ command[q].op = "all" /\ base[q] = NoLock /\ lockfile # Missing

Fresh(q) ==
    /\ pc[q] \in {"new", "walk", "read"} => base[q] = NoLock
    /\ Writer(q) /\ pc[q] = "decide" => HasRead(q)
    /\ pc[q] \in {"stage", "persist"} => Writer(q) /\ Tells(q)

AloneInv == IInv /\ OneWriter /\ \A q \in Process : Fresh(q)

(* A step that leaves the lockfile alone leaves all others as fresh.       *)
LEMMA FreshOther ==
    ASSUME AloneInv, NEW q \in Process, Step(q), ~Persist(q), NEW r \in Process, r # q
    PROVE  Fresh(r)'
<1> USE DEF AloneInv, IInv, TypeOK, repository, decided, Goto
<1>1. lockfile' = lockfile /\ command' = command
  BY DEF Step, Start, List, Look, Read, Build, ReadLock, DecideAll, Refuse, DecideNamed,
         Check, Stage, Abort
<1>2. pc'[r] = pc[r]
  BY DEF Step, Start, List, Look, Read, Build, ReadLock, DecideAll, Refuse, DecideNamed,
         Check, Stage, Abort
<1>3. base'[r] = base[r]
  BY DEF Step, Start, List, Look, Read, Build, ReadLock, DecideAll, Refuse, DecideNamed,
         Check, Stage, Abort
<1>4. content'[r] = content[r] /\ report'[r] = report[r]
  BY DEF Step, Start, List, Look, Read, Build, ReadLock, DecideAll, Refuse, DecideNamed,
         Check, Stage, Abort
<1> QED BY <1>1, <1>2, <1>3, <1>4 DEF Fresh, Writer, HasRead, Tells, OnDisk

LEMMA FreshAll ==
    ASSUME AloneInv, NEW q \in Process, DecideAll(q)
    PROVE  Fresh(q)'
<1> DEFINE new == Snapshot(view[q])
           gone == IF base[q] = NoLock THEN {} ELSE Entries(base[q]) \ Entries(new)
<1> USE DEF AloneInv, IInv, TypeOK
<1>1. /\ pc'[q] \in {"stage", "done"} /\ content'[q] = new
      /\ UNCHANGED <<lockfile, command>> /\ command[q].op = "all"
  BY DEF DecideAll, Goto, repository
<1>2. /\ report'[q].locked = Entries(new) /\ report'[q].dropped = gone
      /\ report'[q].unlisted = (base[q] = NoLock /\ lockfile # Missing)
  BY DEF DecideAll, NoReport
<1>3. new \in Lock
  BY SnapshotIsALock DEF DecideAll
<1>4. HasRead(q)
  BY <1>1 DEF Fresh, Writer, DecideAll
<1>5. /\ base[q] # NoLock => base[q] = OnDisk
      /\ base[q] = NoLock /\ ~(lockfile # Missing) => OnDisk = EmptyLock
      /\ lockfile = Corrupt => base[q] = NoLock
  BY <1>4, LockfileAssumption DEF HasRead, Usable, OnDisk, NoLock
<1> HIDE DEF new
<1>6. gone \subseteq Entries(OnDisk) \ Entries(new)
  BY <1>5
<1>7. ASSUME NEW p \in Path, new[p] # OnDisk[p]
      PROVE  p \in Entries(new) \cup gone \/ (base[q] = NoLock /\ lockfile # Missing)
  BY <1>5, <1>7 DEF Entries, EmptyLock
<1>8. OnDisk' = OnDisk
  BY <1>1 DEF OnDisk
<1> HIDE DEF gone
<1>9. Tells(q)'
  BY <1>1, <1>2, <1>5, <1>6, <1>7, <1>8, LockfileAssumption DEF Tells
<1> QED BY <1>1, <1>9 DEF Fresh, Writer

LEMMA FreshNamed ==
    ASSUME AloneInv, NEW q \in Process, DecideNamed(q)
    PROVE  Fresh(q)'
<1> DEFINE S == command[q].paths
           snapshot == Snapshot(view[q])
           new == Relocked(Existing(q), view[q], S)
<1> USE DEF AloneInv, IInv, TypeOK
<1>1. /\ pc'[q] \in {"stage", "done"} /\ content'[q] = new
      /\ UNCHANGED <<lockfile, command>> /\ command[q].op = "named" /\ S \subseteq Path
  BY DEF DecideNamed, Goto, repository, Command
<1>2. /\ report'[q].locked = S \cap Entries(snapshot) /\ report'[q].dropped = Dropped(q)
  BY DEF DecideNamed, NoReport
<1>3. HasRead(q) /\ ~(base[q] = NoLock /\ lockfile # Missing)
  BY <1>1 DEF Fresh, Writer, DecideNamed, Refused
<1>4. Existing(q) = OnDisk /\ lockfile # Corrupt
  BY <1>1, <1>3, LockfileAssumption DEF HasRead, Usable, OnDisk, Existing, NoLock
<1>5. \A p \in Path : new[p] = IF p \in S THEN snapshot[p] ELSE OnDisk[p]
  BY <1>4 DEF Relocked
<1>6. Dropped(q) = (S \cap Entries(OnDisk)) \ Entries(snapshot)
  BY <1>4 DEF Dropped
<1>7. OnDisk' = OnDisk
  BY <1>1 DEF OnDisk
<1> HIDE DEF new, S, snapshot
<1>8. /\ S \cap Entries(snapshot) \subseteq Entries(new)
      /\ Dropped(q) \subseteq Entries(OnDisk) \ Entries(new)
      /\ \A p \in Path : new[p] # OnDisk[p] =>
            p \in (S \cap Entries(snapshot)) \cup Dropped(q)
  BY <1>5, <1>6 DEF Entries
<1>9. Tells(q)'
  BY <1>1, <1>2, <1>4, <1>5, <1>7, <1>8 DEF Tells, S
<1> QED BY <1>1, <1>9 DEF Fresh, Writer

LEMMA FreshOwn ==
    ASSUME AloneInv, NEW q \in Process, Step(q)
    PROVE  Fresh(q)'
<1> USE DEF AloneInv, IInv, TypeOK, repository, decided, Goto
<1>1. CASE Start(q) \/ Refuse(q) \/ Check(q) \/ Persist(q) \/ Abort(q) \/ Build(q)
  BY <1>1 DEF Start, Refuse, Check, Persist, Abort, Build, Fresh
<1>2. CASE \E p \in Path : List(q, p) \/ Look(q, p) \/ Read(q, p)
  BY <1>2 DEF List, Look, Read, Fresh
<1>3. CASE Stage(q)
  BY <1>3 DEF Stage, Fresh, Writer, Tells, OnDisk
<1>4. CASE ReadLock(q)
  BY <1>4 DEF ReadLock, Fresh, HasRead, Writer, Usable
<1> QED BY <1>1, <1>2, <1>3, <1>4, FreshAll, FreshNamed DEF Step

LEMMA AloneInvariance == OneWriter /\ Spec => []AloneInv
<1>1. OneWriter /\ Init => AloneInv
  BY InitEstablishesIInv DEF Init, AloneInv, Fresh
<1>2. ASSUME AloneInv, [Next]_vars
      PROVE  AloneInv'
  <2>1. command' = command
    BY <1>2 DEF Next, vars, Edit, Step, Start, List, Look, Read, Build, ReadLock, DecideAll,
                Refuse, DecideNamed, Check, Stage, Persist, Abort
  <2>2. OneWriter'
    BY <1>2, <2>1 DEF AloneInv, OneWriter, Writer
  <2>3. CASE UNCHANGED vars \/ \E p \in Path : Edit(p)
    BY <1>2, <2>2, <2>3, NextKeepsIInv
    DEF vars, Edit, decided, AloneInv, Fresh, Writer, HasRead, Tells, OnDisk
  <2>4. ASSUME NEW q \in Process, Step(q), NEW r \in Process
        PROVE  Fresh(r)'
    <3>1. CASE r # q /\ Persist(q)
      <4>1. Writer(q) /\ pc[q] = "persist" /\ pc'[r] = pc[r]
            /\ UNCHANGED <<base, command>>
        BY <1>2, <3>1 DEF AloneInv, IInv, TypeOK, Fresh, Persist, Goto
      <4>2. ~Writer(r)
        BY <1>2, <3>1, <4>1 DEF AloneInv, OneWriter
      <4> QED BY <1>2, <4>1, <4>2 DEF AloneInv, Fresh, Writer
    <3> QED BY <1>2, <2>4, <3>1, FreshOther, FreshOwn
  <2>5. IInv'
    BY <1>2, NextKeepsIInv DEF AloneInv
  <2> QED BY <1>2, <2>2, <2>3, <2>4, <2>5 DEF Next, AloneInv
<1> QED BY <1>1, <1>2, PTL DEF Spec

LEMMA WritesByPersist ==
    ASSUME AloneInv, [Next]_vars, NEW q \in Process, Writes(q)
    PROVE  Tells(q) /\ OnDisk' = content[q] /\ command' = command /\ report' = report
<1> USE DEF AloneInv, IInv, TypeOK
<1>1. Persist(q)
  BY DEF Writes, Goto, Next, vars, Edit, Step, Start, List, Look, Read, Build, ReadLock,
         DecideAll, Refuse, DecideNamed, Check, Stage, Persist, Abort
<1>2. content[q] \in Lock /\ lockfile' = content[q]
  BY <1>1 DEF Ready, Persist
<1>3. OnDisk' = content[q]
  BY <1>2, LockfileAssumption DEF OnDisk
<1> QED BY <1>1, <1>3 DEF Persist, decided, Fresh

(* With one lock command at a time, beside any number of checks and edits, *)
(* a scoped lock leaves the entries of other paths as they are             *)
(* (OnlyNamedChange); with two it does not.                                *)
THEOREM NamedAlone == OneWriter /\ Spec => OnlyNamedChange
<1>1. AloneInv /\ [Next]_vars =>
        [\A q \in Process : Writes(q) /\ command[q].op = "named" =>
            \A p \in Path \ command[q].paths : OnDisk'[p] = OnDisk[p]]_vars
  BY WritesByPersist DEF Tells
<1> QED BY <1>1, AloneInvariance, PTL DEF Spec, OnlyNamedChange

(* With one lock command at a time, what it says it locked and dropped is  *)
(* the change of the lockfile, or it says that it cannot tell              *)
(* (ReportIsTheChange).                                                    *)
THEOREM ReportedAlone == OneWriter /\ Spec => ReportIsTheChange
<1>1. AloneInv /\ [Next]_vars =>
        [\A q \in Process : Writes(q) =>
           /\ report[q].dropped \subseteq Entries(OnDisk) \ Entries(OnDisk')
           /\ report[q].locked \subseteq Entries(OnDisk')
           /\ \A p \in Path : OnDisk'[p] # OnDisk[p] =>
                 p \in report[q].locked \cup report[q].dropped \/ report[q].unlisted
           /\ lockfile = Corrupt => report[q].unlisted]_vars
  BY WritesByPersist DEF Tells
<1> QED BY <1>1, AloneInvariance, PTL DEF Spec, ReportIsTheChange

-----------------------------------------------------------------------------
(* What check says                                                         *)

(* In every state, locking any set of paths clears exactly what check says *)
(* of them (LockingClearsWhatItNames).                                     *)
THEOREM LockingClears == Spec => []LockingClearsWhatItNames
<1>1. ASSUME NEW g \in Graph, NEW lock \in Lock, NEW S \in SUBSET Path
      PROVE  Evaluate(g, Relocked(lock, g, S)) = {f \in Evaluate(g, lock) : f.subject \notin S}
  <2> DEFINE new == Relocked(lock, g, S)
  <2>1. /\ new \in Lock /\ \A p \in S : new[p] = Snapshot(g)[p]
        /\ \A p \in Path \ S : new[p] = lock[p]
    BY RelockedIsALock
  <2>2. \A rule, q, t : About(rule, q).subject = q /\ AboutEdge(rule, q, t).subject = q
    BY DEF About, AboutEdge
  <2> HIDE DEF new
  <2>3. ASSUME NEW l \in Lock, NEW f \in Evaluate(g, l) PROVE f.subject \in Path
    BY <2>2, <2>3, FindingsOf
  <2>4. ASSUME NEW f \in Evaluate(g, new) PROVE f \in Evaluate(g, lock) /\ f.subject \notin S
    <3>1. f.subject \in Path BY <2>1, <2>3
    <3>2. f.subject \notin S BY <2>1, <2>4, <3>1, SnapshotIsClean
    <3> QED BY <2>1, <2>4, <3>1, <3>2, FindingsAreLocal
  <2>5. ASSUME NEW f \in Evaluate(g, lock), f.subject \notin S PROVE f \in Evaluate(g, new)
    <3>1. f.subject \in Path BY <2>3
    <3> QED BY <2>1, <2>5, <3>1, FindingsAreLocal
  <2>6. Evaluate(g, new) = {f \in Evaluate(g, lock) : f.subject \notin S} BY <2>4, <2>5
  <2> QED BY <2>6 DEF new
<1>2. TypeOK => LockingClearsWhatItNames BY <1>1 DEF TypeOK, LockingClearsWhatItNames
<1> QED BY <1>2, TypeCorrect, PTL

(* In every state, a path check is silent about is as it was locked        *)
(* (SilenceMeansUntouched), although findings stand for each other.        *)
THEOREM SilenceIsJustified == Spec => []SilenceMeansUntouched
<1>1. ASSUME tree \in Graph, lockfile \in Lock, NEW p \in Path,
             \A f \in Evaluate(tree, lockfile) : f.subject # p
      PROVE  Untouched(p)
  <2>1. \A rule, t : About(rule, p).subject = p /\ AboutEdge(rule, p, t).subject = p
    BY DEF About, AboutEdge
  <2>2. /\ ~(Lockable(tree, p) /\ lockfile[p] = Absent)
        /\ ~StaleNode(tree, lockfile, p)
        /\ ~(lockfile[p] # Absent /\ tree[p] = Absent)
        /\ \A t \in Links(tree, p) : ~StaleEdge(tree, lockfile, p, t)
        /\ \A t \in Links(tree, p) : LockedTarget(lockfile, p, t) # Absent
        /\ \A t \in Path \ Links(tree, p) :
              ~(tree[p] # Absent /\ LockedTarget(lockfile, p, t) # Absent)
    BY <1>1, <2>1, FindingsOf
  <2>3. Links(tree, p) \subseteq Path BY <1>1, HashTellsLinks
  <2>4. lockfile[p] = Absent => \A t \in Path : LockedTarget(lockfile, p, t) = Absent
    BY DEF LockedTarget
  <2>5. {t \in Path : LockedTarget(lockfile, p, t) # Absent} = Links(tree, p)
    BY <2>2, <2>3, <2>4
  <2>6. \A t \in Links(tree, p) : ~Differ(Hash(tree, t), LockedTarget(lockfile, p, t))
    BY <2>2 DEF StaleEdge
  <2> QED BY <2>2, <2>5, <2>6 DEF Untouched, StaleNode, Lockable
<1>2. ASSUME TypeOK PROVE SilenceMeansUntouched
  <2>1. lockfile \notin {Missing, Corrupt} => lockfile \in Lock /\ lockfile # NoLock
    BY <1>2, LockfileAssumption DEF TypeOK, NoLock
  <2>2. lockfile \notin {Missing, Corrupt} =>
          Evaluate(tree, lockfile) \subseteq Findings(tree, lockfile)
    BY <2>1 DEF Findings
  <2> QED BY <1>1, <1>2, <2>1, <2>2 DEF TypeOK, SilenceMeansUntouched
<1> QED BY <1>2, TypeCorrect, PTL

(* In every state and under every policy, what stands for a finding is     *)
(* shown and weighs as much (PolicyHidesNothing).                          *)
THEOREM NothingHidden == Spec => []PolicyHidesNothing
<1>1. ASSUME NEW F, NEW policy, NEW g \in Kept(F, policy)
      PROVE  \E f \in ApplyPolicy(F, policy) : f.subject = g.subject /\ AsSevere(f, g, policy)
  <2>1. CASE g \in ApplyPolicy(F, policy) BY <2>1 DEF AsSevere
  <2>2. CASE g \notin ApplyPolicy(F, policy)
    <3>1. PICK u \in Kept(F, policy) : StandsFor(u, g, policy)
      BY <2>2 DEF ApplyPolicy, Subsumers
    <3>2. u \in ApplyPolicy(F, policy) BY <3>1 DEF ApplyPolicy, StandsFor
    <3>3. u.subject = g.subject /\ AsSevere(u, g, policy) BY <3>1 DEF StandsFor, AsSevere
    <3> QED BY <3>2, <3>3
  <2> QED BY <2>1, <2>2
<1>2. ASSUME NEW F, NEW policy
      PROVE  Fails(ApplyPolicy(F, policy), policy) <=> Fails(Kept(F, policy), policy)
  <2>1. ApplyPolicy(F, policy) \subseteq Kept(F, policy) BY DEF ApplyPolicy
  <2> QED BY <1>1, <2>1 DEF Fails, AsSevere
<1>3. PolicyHidesNothing BY <1>1, <1>2 DEF PolicyHidesNothing
<1> QED BY <1>3, PTL

===============================================================================
