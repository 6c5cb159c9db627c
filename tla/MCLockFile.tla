------------------------------ MODULE MCLockFile ------------------------------
(* A document that links to a source, and perhaps to a path that comes and *)
(* goes.  Path is set by each run: three paths, or the first two.          *)
EXTENDS LockFile

CONSTANTS a, b, c, linking, relinked, plain

MCThree == {a, b, c}
MCTwo == {a, b}
MCVersion == {linking, relinked, plain}
MCLinksOf ==
    [v \in MCVersion |-> IF v = linking THEN {b} ELSE IF v = relinked THEN {b, c} \cap Path ELSE {}]

Tree(x, y, z) == [p \in Path |-> IF p = a THEN x ELSE IF p = b THEN y ELSE z]

Reviewed == Tree(FileNode(linking), FileNode(plain), FileNode(plain))
Rewritten == Tree(FileNode(relinked), FileNode(linking), Absent)
MCTrees ==
    {Reviewed,
     Tree(Symlink({b}), FileNode(plain), Directory),
     Tree(Absent, Absent, Unreadable)}
MCReviewed == {Reviewed}

MCEdits == {FileNode(plain), FileNode(relinked), Absent, Directory, Symlink({b}), Symlink({})}
MCEveryEdit == MCEdits \cup {FileNode(linking), Unreadable}
MCFewEdits == {FileNode(plain), FileNode(relinked), Absent}

MCBaselines == {Missing, Corrupt, EmptyLock, Snapshot(Reviewed), Snapshot(Rewritten)}
MCReviewedBaseline == {Snapshot(Reviewed)}
(* What scoped locks of one tree can make of a lock of another.            *)
MCMerged ==
    {Missing} \cup
    {Relocked(Snapshot(t), u, S) : t \in {Reviewed, Rewritten}, u \in MCTrees, S \in SUBSET Path}

Named(S) == [op |-> "named", paths |-> S]
All == [op |-> "all", paths |-> {}]
JustCheck == [op |-> "check", paths |-> {}]
MCCommands == {All, Named({a}), Named({c}), Named({b, c}), JustCheck}
MCScopedCommands == {Named({a}), Named({b})}

(* unlocked-node and new-edge in every combination of severities, with and *)
(* without an ignore of the first; the other rules at their default.       *)
MCPolicies ==
    {[severity |-> [r \in Rule |-> IF r = "unlocked-node" THEN s
                                   ELSE IF r = "new-edge" THEN t ELSE "warn"],
      ignored |-> i] :
       s \in {"off", "warn", "error"}, t \in {"off", "warn", "error"},
       i \in {{}, {<<"unlocked-node", a>>}}}

===============================================================================
