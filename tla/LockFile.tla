------------------------------- MODULE LockFile -------------------------------
(***************************************************************************)
(* drft lock and drft check at work on one repository while its files      *)
(* change: run_lock and run_check of src/src/main.rs over the walk of      *)
(* src/src/sources/fs.rs and read and write of src/src/lock.rs.            *)
(*                                                                         *)
(* The walk lists entries, and of one after the other looks at the type    *)
(* and reads the bytes, so a graph need not be the tree of any one moment. *)
(* The lockfile is replaced by rename.  Nothing keeps two drft processes,  *)
(* or an editor, apart.                                                    *)
(***************************************************************************)
EXTENDS Drift, Naturals

CONSTANTS
    Process,    \* running drft commands
    Commands,   \* what they may be asked to do
    Trees,      \* the trees to begin with
    Baselines,  \* the lockfiles to begin with
    Edits,      \* the nodes an edit may leave at a path
    MaxEdits,   \* bound on how often the tree changes
    Policies,   \* the severities and ignores to judge findings by
    Missing,    \* no lockfile
    Corrupt     \* a lockfile that does not parse

(* Everything, a scope named path by path, or a check.                     *)
Command == [op : {"all", "check"}, paths : {{}}]
           \cup [op : {"named"}, paths : SUBSET Path \ {{}}]

ASSUME CommandsAssumption == Commands \subseteq Command
ASSUME TreesAssumption == Trees \subseteq Graph
ASSUME BaselinesAssumption ==
    Baselines \subseteq {lock \in Lock : WholeEntries(lock)} \cup {Missing, Corrupt}
ASSUME PoliciesAssumption == Policies \subseteq Policy
ASSUME EditsAssumption == Edits \subseteq Node \cup {Absent} /\ MaxEdits \in Nat
ASSUME LockfileAssumption ==
    /\ Missing \notin Lock /\ Corrupt \notin Lock /\ Absent \notin Lock
    /\ Missing # Corrupt /\ Missing # Absent /\ Corrupt # Absent

VARIABLES
    tree,      \* the files under the graph root
    edits,     \* how often they changed
    lockfile,  \* .drft/lock.toml: Missing, Corrupt, or a lock
    pc,        \* where each command stands
    command,   \* what it was asked
    view,      \* the graph it has built so far
    base,      \* the baseline it has read
    content,   \* what it is about to write
    report     \* what it says it locked and dropped, or found

vars == <<tree, edits, lockfile, pc, command, view, base, content, report>>

(* An entry on its way into the graph.                                     *)
Awaiting(step) == [kind |-> step, hash |-> NoHash, links |-> {}]
Unread == Awaiting("unread")
Listed == Awaiting("listed")
Opened == Awaiting("opened")

Places == {"new", "walk", "read", "decide", "stage", "persist", "done", "failed"}

NoReport == [locked |-> {}, dropped |-> {}, unlisted |-> FALSE, findings |-> {}]

Init ==
    /\ tree \in Trees
    /\ edits = 0
    /\ lockfile \in Baselines
    /\ pc = [q \in Process |-> "new"]
    /\ command \in [Process -> Commands]
    /\ view = [q \in Process |-> [p \in Path |-> Unread]]
    /\ base = [q \in Process |-> NoLock]
    /\ content = [q \in Process |-> NoLock]
    /\ report = [q \in Process |-> NoReport]

Goto(q, place) == pc' = [pc EXCEPT ![q] = place]
repository == <<tree, edits, lockfile>>
decided == <<content, report>>

-----------------------------------------------------------------------------

Edit(p) ==
    /\ edits < MaxEdits
    /\ \E n \in Edits \ {tree[p]} : tree' = [tree EXCEPT ![p] = n]
    /\ edits' = edits + 1
    /\ UNCHANGED <<lockfile, pc, command, view, base, decided>>

(* The walk                                                                *)

Start(q) ==
    /\ pc[q] = "new" /\ Goto(q, "walk")
    /\ UNCHANGED <<repository, command, view, base, decided>>

List(q, p) ==
    /\ pc[q] = "walk" /\ view[q][p] = Unread
    /\ view' = [view EXCEPT ![q][p] = IF tree[p] = Absent THEN Absent ELSE Listed]
    /\ UNCHANGED <<repository, pc, command, base, decided>>

(* Its type, from lstat; what is gone by now counts as a file.             *)
Look(q, p) ==
    /\ pc[q] = "walk" /\ view[q][p] = Listed
    /\ \A other \in Path : view[q][other] # Opened
    /\ view' = [view EXCEPT
          ![q][p] = IF tree[p] # Absent /\ tree[p].kind \in {"symlink", "directory"}
                    THEN tree[p] ELSE Opened]
    /\ UNCHANGED <<repository, pc, command, base, decided>>

(* The bytes of a file.  A symlink put there meanwhile is followed wherever*)
(* it leads; a read that fails leaves a file without a hash.               *)
ReadsAs(p) ==
    IF tree[p] = Absent \/ tree[p] = Directory THEN {Unreadable}
    ELSE IF tree[p].kind = "symlink" THEN {Unreadable} \cup {FileNode(v) : v \in Version}
    ELSE {tree[p]}

Read(q, p) ==
    /\ pc[q] = "walk" /\ view[q][p] = Opened
    /\ \E n \in ReadsAs(p) : view' = [view EXCEPT ![q][p] = n]
    /\ UNCHANGED <<repository, pc, command, base, decided>>

(* Hashes and links come from the bytes the walk read; only where a symlink*)
(* points to is asked of the tree again.                                   *)
Built_FromTree(q) ==
    [p \in Path |->
        IF view[q][p] \in {Absent, Unreadable, Directory} THEN view[q][p]
        ELSE [view[q][p] EXCEPT !.links = Links(tree, p)]]

Built(q) ==
    [p \in Path |->
        IF view[q][p] # Absent /\ view[q][p].kind = "symlink"
        THEN Symlink(IF tree[p] # Absent /\ tree[p].kind = "symlink"
                     THEN tree[p].links ELSE {})
        ELSE view[q][p]]

Build(q) ==
    /\ pc[q] = "walk"
    /\ \A p \in Path : view[q][p] \notin {Unread, Listed, Opened}
    /\ view' = [view EXCEPT ![q] = Built(q)]
    /\ Goto(q, "read")
    /\ UNCHANGED <<repository, command, base, decided>>

(* The baseline.  What does not parse is no baseline.                      *)
Usable(file) == IF file \in {Missing, Corrupt} THEN NoLock ELSE file

(* lock --all reads it quietly; the other commands fail when the file is   *)
(* there and cannot be read.                                               *)
ReadLock(q) ==
    /\ pc[q] = "read"
    /\ \/ /\ base' = [base EXCEPT ![q] = Usable(lockfile)]
          /\ Goto(q, "decide")
       \/ /\ command[q].op = "all" /\ lockfile # Missing
          /\ Goto(q, "decide") /\ UNCHANGED base
       \/ /\ command[q].op # "all" /\ lockfile # Missing
          /\ Goto(q, "failed") /\ UNCHANGED base
    /\ UNCHANGED <<repository, command, view, decided>>

-----------------------------------------------------------------------------
(* drft lock --all                                                         *)

DecideAll(q) ==
    LET new == Snapshot(view[q]) IN
    /\ pc[q] = "decide" /\ command[q].op = "all"
    /\ content' = [content EXCEPT ![q] = new]
    /\ report' = [report EXCEPT
          ![q] = [NoReport EXCEPT
                    !.locked = Entries(new),
                    !.dropped = IF base[q] = NoLock THEN {}
                                ELSE Entries(base[q]) \ Entries(new),
                    !.unlisted = base[q] = NoLock /\ lockfile # Missing]]
    /\ Goto(q, IF Entries(new) # {} \/ lockfile # Missing THEN "stage" ELSE "done")
    /\ UNCHANGED <<repository, command, view, base>>

(* drft lock <path>...                                                     *)

Existing(q) == IF base[q] = NoLock THEN EmptyLock ELSE base[q]

Refused_CorruptIsEmpty(q) ==
    \/ ~Resolves(Existing(q), view[q], command[q].paths)
    \/ NamesDirectory(Existing(q), view[q], command[q].paths)

Refused(q) ==
    \/ base[q] = NoLock /\ lockfile # Missing
    \/ ~Resolves(Existing(q), view[q], command[q].paths)
    \/ NamesDirectory(Existing(q), view[q], command[q].paths)

Refuse(q) ==
    /\ pc[q] = "decide" /\ command[q].op = "named" /\ Refused(q)
    /\ Goto(q, "failed")
    /\ UNCHANGED <<repository, command, view, base, decided>>

(* Nothing is written when nothing was locked or dropped.                  *)
HasEffect(locked, dropped) == locked # {} \/ dropped # {}

Dropped_EveryName(q) == command[q].paths \ Entries(Snapshot(view[q]))
Dropped(q) ==
    (command[q].paths \cap Entries(Existing(q))) \ Entries(Snapshot(view[q]))

DecideNamed(q) ==
    LET locked == command[q].paths \cap Entries(Snapshot(view[q])) IN
    /\ pc[q] = "decide" /\ command[q].op = "named" /\ ~Refused(q)
    /\ content' = [content EXCEPT ![q] = Relocked(Existing(q), view[q], command[q].paths)]
    /\ report' = [report EXCEPT
          ![q] = [NoReport EXCEPT !.locked = locked, !.dropped = Dropped(q)]]
    /\ Goto(q, IF HasEffect(locked, Dropped(q)) THEN "stage" ELSE "done")
    /\ UNCHANGED <<repository, command, view, base>>

(* drft check                                                              *)

Check(q) ==
    /\ pc[q] = "decide" /\ command[q].op = "check"
    /\ report' = [report EXCEPT ![q].findings = Findings(view[q], base[q])]
    /\ Goto(q, "done")
    /\ UNCHANGED <<repository, command, view, base, content>>

-----------------------------------------------------------------------------
(* write(): a temporary file beside the lockfile, renamed over it.         *)

Stage(q) ==
    /\ pc[q] = "stage" /\ Goto(q, "persist")
    /\ UNCHANGED <<repository, command, view, base, decided>>

Persist(q) ==
    /\ pc[q] = "persist" /\ Goto(q, "done")
    /\ lockfile' = content[q]
    /\ UNCHANGED <<tree, edits, command, view, base, decided>>

(* An I/O error or a crash: the command ends and leaves the lockfile alone.*)
Abort(q) ==
    /\ pc[q] \in {"walk", "read", "decide", "stage", "persist"}
    /\ Goto(q, "failed")
    /\ UNCHANGED <<repository, command, view, base, decided>>

Step(q) ==
    \/ Start(q) \/ Build(q) \/ ReadLock(q)
    \/ DecideAll(q) \/ Refuse(q) \/ DecideNamed(q) \/ Check(q)
    \/ Stage(q) \/ Persist(q) \/ Abort(q)
    \/ \E p \in Path : List(q, p) \/ Look(q, p) \/ Read(q, p)

Next ==
    \/ \E p \in Path : Edit(p)
    \/ \E q \in Process : Step(q)

Spec == Init /\ [][Next]_vars

-----------------------------------------------------------------------------
(* Properties                                                              *)

Seen == Node \cup {Absent, Unread, Listed, Opened}
Report == [locked : SUBSET Path, dropped : SUBSET Path, unlisted : BOOLEAN,
           findings : SUBSET [rule : Rule, subject : Path \cup {Absent},
                              target : Path \cup {Absent}]]

TypeOK ==
    /\ tree \in Graph /\ edits \in 0 .. MaxEdits
    /\ lockfile \in Lock \cup {Missing, Corrupt}
    /\ pc \in [Process -> Places]
    /\ command \in [Process -> Command]
    /\ view \in [Process -> [Path -> Seen]]
    /\ \A q \in Process : pc[q] \in {"read", "decide"} => view[q] \in Graph
    /\ base \in [Process -> Lock \cup {NoLock}]
    /\ content \in [Process -> Lock \cup {NoLock}]
    /\ report \in [Process -> Report]

(* The hash and the links of an entry come from the same bytes, however the*)
(* file changed while drft walked the tree.                                *)
EntriesAreWhole == lockfile \in {Missing, Corrupt} \/ WholeEntries(lockfile)

(* A reader never finds a half-written lockfile.                           *)
NeverTorn == [][lockfile' = Corrupt => lockfile = Corrupt]_vars

OnDisk == IF lockfile \in {Missing, Corrupt} THEN EmptyLock ELSE lockfile

Writes(q) == pc[q] = "persist" /\ pc'[q] = "done"

(* A scoped lock speaks for the paths it names; what other paths were      *)
(* reviewed at stays as it was (README: "merging into the existing         *)
(* lockfile").                                                             *)
OnlyNamedChange ==
    [][\A q \in Process : Writes(q) /\ command[q].op = "named" =>
         \A p \in Path \ command[q].paths : OnDisk'[p] = OnDisk[p]]_vars

(* What lock says it dropped is exactly what left the file, unless it says *)
(* that it cannot tell; and no other entry changes unreported.             *)
ReportIsTheChange ==
    [][\A q \in Process : Writes(q) =>
         /\ report[q].dropped \subseteq Entries(OnDisk) \ Entries(OnDisk')
         /\ report[q].locked \subseteq Entries(OnDisk')
         /\ \A p \in Path : OnDisk'[p] # OnDisk[p] =>
               p \in report[q].locked \cup report[q].dropped \/ report[q].unlisted
         /\ lockfile = Corrupt => report[q].unlisted]_vars

(* No command creates a lockfile that covers nothing.                      *)
NoEmptyBaseline == [][lockfile = Missing => Entries(OnDisk') # {} \/ lockfile' = Missing]_vars

(* A baseline drft cannot read is replaced only by a rebuild.              *)
CorruptNeedsRebuild ==
    [][lockfile = Corrupt /\ lockfile' # Corrupt =>
         \E q \in Process : Writes(q) /\ command[q].op = "all"]_vars

(* Locking paths of a tree at rest clears what check says of them and      *)
(* nothing else, whatever else is stale.                                   *)
LockingClearsWhatItNames ==
    lockfile \in {Missing, Corrupt} \/
    \A S \in SUBSET Path :
        Evaluate(tree, Relocked(lockfile, tree, S)) =
        {f \in Evaluate(tree, lockfile) : f.subject \notin S}

(* A path check says nothing about is as it was locked: the same links, and*)
(* the same hashes of itself and of every target, where both were hashed.  *)
Untouched(p) ==
    /\ {t \in Path : LockedTarget(lockfile, p, t) # Absent} = Links(tree, p)
    /\ ~Differ(Hash(tree, p), LockedHash(lockfile, p))
    /\ \A t \in Links(tree, p) : ~Differ(Hash(tree, t), LockedTarget(lockfile, p, t))
    /\ Hash(tree, p) # NoHash => lockfile[p] # Absent
    /\ tree[p] = Absent => lockfile[p] = Absent

SilenceMeansUntouched ==
    lockfile \in {Missing, Corrupt} \/
    \A p \in Path :
        Untouched(p) \/ \E f \in Findings(tree, lockfile) : f.subject = p

AsSevere(f, g, policy) ==
    policy.severity[g.rule] = "error" => policy.severity[f.rule] = "error"

(* Whatever severities and ignores are configured, a finding they leave on *)
(* is shown, or one about the same path stands for it that weighs as much; *)
(* check fails exactly when something left on is an error.                 *)
PolicyHidesNothing ==
    LET F == Findings(tree, Usable(lockfile)) IN
    \A policy \in Policies :
        /\ \A g \in Kept(F, policy) :
              \E f \in ApplyPolicy(F, policy) :
                  f.subject = g.subject /\ AsSevere(f, g, policy)
        /\ Fails(ApplyPolicy(F, policy), policy) <=> Fails(Kept(F, policy), policy)

=============================================================================
