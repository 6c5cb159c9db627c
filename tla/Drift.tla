-------------------------------- MODULE Drift --------------------------------
(***************************************************************************)
(* What drft knows about a tree, what a lockfile remembers of it, and the  *)
(* findings that join the two: Lock::from_composed of src/src/lock.rs,     *)
(* evaluate of src/src/rules/staleness.rs, the policy of                   *)
(* src/src/rules/check.rs and the scoped update of run_lock in main.rs.    *)
(*                                                                         *)
(* A content hash stands for the content, so a version of a file is its    *)
(* hash and determines the links its parsers find.  Left out: structural   *)
(* rules, messages, line numbers and the order of findings.                *)
(***************************************************************************)

CONSTANTS
    Path,     \* node keys and link targets
    Version,  \* contents a file may have
    LinksOf,  \* the paths a content links to
    Absent,   \* no node, no lock entry, no edge
    NoHash    \* a node or target without a content hash

ASSUME LinksAssumption == LinksOf \in [Version -> SUBSET Path]
ASSUME HashAssumption == NoHash \notin Version /\ Absent \notin Version /\ Absent # NoHash

(* Nodes: a readable file, one whose bytes could not be read, a directory, *)
(* a symlink with at most one target inside the root.                      *)
FileNode(v) == [kind |-> "file", hash |-> v, links |-> LinksOf[v]]
Unreadable == [kind |-> "file", hash |-> NoHash, links |-> {}]
Directory == [kind |-> "directory", hash |-> NoHash, links |-> {}]
Symlink(T) == [kind |-> "symlink", hash |-> NoHash, links |-> T]

Node ==
    {FileNode(v) : v \in Version} \cup {Unreadable, Directory, Symlink({})}
    \cup {Symlink({t}) : t \in Path}

Graph == [Path -> Node \cup {Absent}]

Hash(g, p) == IF g[p] = Absent THEN NoHash ELSE g[p].hash
Links(g, p) == IF g[p] = Absent THEN {} ELSE g[p].links

-----------------------------------------------------------------------------
(* The lockfile                                                            *)

Hashes == Version \cup {NoHash}
LockEntry == [hash : Hashes, edges : [Path -> Hashes \cup {Absent}]]
Lock == [Path -> LockEntry \cup {Absent}]

ASSUME EntryAssumption == Absent \notin Node /\ Absent \notin LockEntry

EmptyLock == [p \in Path |-> Absent]
Entries(lock) == {p \in Path : lock[p] # Absent}

TargetHash_OfSource(g, p, t) == Hash(g, p)
TargetHash(g, p, t) == Hash(g, t)

Recorded(g, p) ==
    [hash |-> Hash(g, p),
     edges |-> [t \in Path |-> IF t \in Links(g, p) THEN TargetHash(g, p, t) ELSE Absent]]

(* Only what can drift is locked: content, or links.                       *)
Lockable(g, p) == Hash(g, p) # NoHash \/ Links(g, p) # {}

Snapshot(g) == [p \in Path |-> IF Lockable(g, p) THEN Recorded(g, p) ELSE Absent]

(* A scoped lock: named paths take their current state, all others keep    *)
(* the entry they had.                                                     *)
Relocked_FromEmpty(lock, g, S) == [p \in Path |-> IF p \in S THEN Snapshot(g)[p] ELSE Absent]
Relocked(lock, g, S) == [p \in Path |-> IF p \in S THEN Snapshot(g)[p] ELSE lock[p]]

(* Every named path must be a node, or an entry whose node is gone.        *)
Resolves(lock, g, S) == \A p \in S : g[p] # Absent \/ lock[p] # Absent

NamesDirectory(lock, g, S) ==
    \E p \in S : g[p] = Directory /\ lock[p] = Absent

-----------------------------------------------------------------------------
(* Staleness findings                                                      *)

LockedHash(lock, p) == IF lock[p] = Absent THEN NoHash ELSE lock[p].hash
LockedTarget(lock, p, t) == IF lock[p] = Absent THEN Absent ELSE lock[p].edges[t]

(* As drft writes an entry: its hash and its links tell of one content.    *)
WholeEntries(lock) ==
    \A p \in Path : LockedHash(lock, p) # NoHash =>
        {t \in Path : LockedTarget(lock, p, t) # Absent} = LinksOf[LockedHash(lock, p)]

About(rule, p) == [rule |-> rule, subject |-> p, target |-> Absent]
AboutEdge(rule, p, t) == [rule |-> rule, subject |-> p, target |-> t]

(* Two hashes are compared only when both are there.                       *)
Differ(h, k) == h # NoHash /\ k # NoHash /\ h # k

StaleNode(g, lock, p) == Differ(Hash(g, p), LockedHash(lock, p))

StaleEdge_OfFreshTarget(g, lock, p, t) ==
    /\ LockedTarget(lock, p, t) # Absent
    /\ ~StaleNode(g, lock, p)
    /\ Differ(Hash(g, t), LockedTarget(lock, p, t))
    /\ ~StaleNode(g, lock, t)

StaleEdge(g, lock, p, t) ==
    /\ LockedTarget(lock, p, t) # Absent
    /\ ~StaleNode(g, lock, p)
    /\ Differ(Hash(g, t), LockedTarget(lock, p, t))

UnlockedNodes(g, lock) ==
    {About("unlocked-node", p) : p \in {q \in Path : Lockable(g, q) /\ lock[q] = Absent}}

StaleNodes(g, lock) == {About("stale-node", p) : p \in {q \in Path : StaleNode(g, lock, q)}}

StaleEdges(g, lock) ==
    UNION {{AboutEdge("stale-edge", p, t) :
               t \in {u \in Links(g, p) : StaleEdge(g, lock, p, u)}} : p \in Path}

NewEdges(g, lock) ==
    UNION {{AboutEdge("new-edge", p, t) :
               t \in {u \in Links(g, p) : LockedTarget(lock, p, u) = Absent}} : p \in Path}

RemovedNodes(g, lock) ==
    {About("removed-node", p) : p \in {q \in Path : lock[q] # Absent /\ g[q] = Absent}}

RemovedEdges(g, lock) ==
    UNION {{AboutEdge("removed-edge", p, t) :
               t \in {u \in Path \ Links(g, p) :
                        g[p] # Absent /\ LockedTarget(lock, p, u) # Absent}} : p \in Path}

Evaluate(g, lock) ==
    UnlockedNodes(g, lock) \cup StaleNodes(g, lock) \cup StaleEdges(g, lock)
    \cup NewEdges(g, lock) \cup RemovedNodes(g, lock) \cup RemovedEdges(g, lock)

(* The lockfile as check reads it: a lock, or none that can be used.       *)
NoLock == Absent

NoBaseline(g, base) ==
    IF /\ Entries(Snapshot(g)) # {}
       /\ base = NoLock \/ Entries(base) = {}
    THEN {About("no-baseline", Absent)} ELSE {}

Findings(g, base) ==
    NoBaseline(g, base) \cup (IF base = NoLock THEN {} ELSE Evaluate(g, base))

-----------------------------------------------------------------------------
(* Policy                                                                  *)

Rule == {"no-baseline", "unlocked-node", "stale-node", "stale-edge", "new-edge",
         "removed-node", "removed-edge"}

Policy == [severity : [Rule -> {"off", "warn", "error"}],
           ignored : SUBSET (Rule \X (Path \cup {Absent}))]

(* Severities and ignores first.                                           *)
Kept(F, policy) ==
    {f \in F : /\ policy.severity[f.rule] # "off"
               /\ <<f.rule, f.subject>> \notin policy.ignored}

(* One finding stands for another only if it is at least as severe.        *)
StandsFor_Always(u, f, policy) ==
    u.rule = "unlocked-node" /\ f.rule = "new-edge" /\ u.subject = f.subject

StandsFor(u, f, policy) ==
    /\ u.rule = "unlocked-node" /\ f.rule = "new-edge" /\ u.subject = f.subject
    /\ policy.severity[u.rule] = "error" \/ policy.severity[f.rule] # "error"

Subsumers(F, policy) == Kept(F, policy)

ApplyPolicy(F, policy) ==
    {f \in Kept(F, policy) : \A u \in Subsumers(F, policy) : ~StandsFor(u, f, policy)}

Fails(F, policy) == \E f \in F : policy.severity[f.rule] = "error"

=============================================================================
