# A verification project for drft

drft builds a graph of the files in a repository, answers questions about it,
snapshots it into `.drft/lock.toml`, and reports where the two have drifted
apart. When a project opts in, every invocation also records its own usage as
two small event files in a shared per-user cache. This directory holds TLA+
models of both halves, the TLC runs that check them on small instances, and
TLAPS proofs of the properties that matter most for every size.

Paths below are relative to the repository root; the crate is in `src/`.

## The system

| Part | State | Operations | What is hard |
| --- | --- | --- | --- |
| Usage lifecycle (`src/usage/lifecycle.rs`) | the active invocation: id, receipt, observations | `activate`, the command, `finish` | two transactions with the whole command, unlocked, between them |
| Usage transactions (`src/usage/store/native/transaction.rs`) | the files of a partition; a ledger, an outcome | `publish_start`, `publish_finish` | a failure or a crash between any two system calls; other processes |
| Retention (`src/usage/store/records.rs`) | none (a plan over an inventory) | `RecordSet::scan`, `plan` | order, protected groups, running totals |
| Partition lock (`src/usage/store/native.rs`) | a `flock`, a chain of directory handles | `open_existing`, `try_lock`, drop | nonblocking; released by death |
| Partition bootstrap (`.../native/bootstrap.rs`) | directories, `.lock` | `open_or_create` | concurrent creators; a creator that dies |
| Scan (`.../native/scan.rs`) | none | `inventory_with`, `read`, `validate` | limits; changes during a scan |
| Capture (`src/usage/capture.rs`) | per stream: a prefix, a count, flags | begin and finish a write attempt | what may be claimed about bytes nobody saw arrive |
| Event writer and reader (`src/usage/{event,bounded,record}.rs`) | none | fit an event into two byte limits; classify one | one part too large must not cost the others; the reader must accept what the writer makes |
| Output (`src/main.rs`: `main`, `try_main`) | hints, a budget, an exit status | print, refuse, hint, fail | any write may fail, each on another path; everything is said once |
| Lockfile (`src/lock.rs`) | `.drft/lock.toml` | `from_composed`, `read`, `read_quiet`, `write` | missing, corrupt and empty are three things |
| Commands (`src/main.rs`) | none | `lock --all`, `lock <path>...`, `check`, `init`, read-only ones | the tree and the lockfile change while they run |
| Walk and fs graph (`src/sources/fs.rs`, `src/builders/fs.rs`, `src/graphs/`) | none | list, lstat, read, resolve symlinks, hash, parse | each at another moment |
| Rules and policy (`src/rules/`, `src/policy.rs`) | none | `evaluate`, `apply_policy`, `check_status` | findings that stand for other findings |
| Builders and composition (`src/builders/`, `src/graphs/`, `src/compose.rs`) | none (a fold over fragments) | build, merge, project | one path and one link in several graphs |
| Impact (`src/impact.rs`, `run_impact`) | a queue, the visited nodes | bounded breadth-first search, radius, diagnostics | the depth bound, cycles, a lockfile read after the tree |
| Nodes and edges (`src/{nodes,edges,projection}.rs`, `run_nodes`, `run_edges`) | none | resolve operands, project | operands relative to a directory; patterns; misses |
| Configuration, parsers, guide | none | pure functions | |

The lifecycle calls the lock and the transactions; a transaction scans, asks
retention for a plan and carries it out. Invocations meet only in the partition.
The commands walk the tree, compose a graph, read the lockfile and write it or
judge the graph by it; `nodes`, `edges`, `impact` and `graph` print a part of
it. Two commands meet only in the lockfile, and nothing excludes one from the
other. Whatever a command prints, hints or fails with goes through `main`, where
the recorder of its usage watches.

What makes each part correct: only whole events ever stand under final names; a
finish never stands without the start it belongs to; removal follows the plan
and, but for a file exchanged right after its check, never hits anything else; the outcome tells what really happened; nobody
waits for anybody. A lock entry describes one content; a lock command changes
what it names and says so; a reader never meets half a file; silence of `check`
means that nothing changed since somebody reviewed it. Every link a parser
finds is in the graph or in a finding; an answer of `impact` is at its distance
and says where it cannot be trusted. Every hint is said once, a byte budget is
kept or refused whole, and being recorded changes nothing. `PROJECT.json` lists the
hazards, each at its line, with the properties that watch it.

## Modules

### Usage records

* **Retention** - file names, events, groups, coverage, eviction order and what
  a plan removes, as operators over a partition `[Name -> File]`. A file is a
  record of whose event it is, its kind, its length and its two times; every
  clause of the classification that the plan depends on is kept, JSON is not.
* **RetentionLoop** - `RecordSet::plan` as the loop it is: admission,
  temporaries, an age pass and a quota pass over running totals. Its properties
  say that it computes what Retention defines.
* **UsageLog** - the abstract log a reader may rely on: a start appears at most
  once and in one step, a finish likewise and only beside its start, records
  may disappear and never return.
* **UsageStore** - concurrent invocations. `pc` walks through the checkpoints
  (`Point`) of `execute`; there is one action for each stretch of code between
  two of them (`ScanAndPlan`, `CheckUnlink`, `Unlink`, `CheckCreate`, `Create`,
  `Write`, `CheckStaged`, `Rename`, `CheckPublished`, `CheckCleanUp`, `CleanUp`,
  `Settle`), and `Activate`, `TryLock`, `RunCommand`, `Release` for the lifecycle around them.
  Each action has its failure branches, and `Crash` may follow any step.
  `ImplementsLog` is the refinement to UsageLog.
* **UsageStoreMeddled** - the same store while a process that does not take the
  lock adds, replaces or removes files. A check of a file and the call that then
  acts on its name are two steps (`CheckUnlink` and `Unlink`, `CheckCleanUp` and
  `CleanUp`, `CheckStaged` and `Rename`), so it can come in between. The history
  variable `since` holds the names it touched since the last step of each
  invocation; no action reads it.
* **RetentionProofs**, **RetentionLoopProofs**, **UsageStoreProofs**,
  **UsageEffectsProofs** - the proofs: the plan and the bytes it frees, the
  loop that computes it, the transactions, and what an outcome tells of them.
* **Bootstrap** - what comes before a transaction: `Partition::bootstrap` and
  `try_lock`. The path is a chain of inodes (`entry`, `level`); an invocation
  resolves the existing ancestors (`Look`), opens them one by one
  (`OpenAncestors`), makes and opens the rest (`Enter`, `Mkdir`,
  `OpenDirectory`), makes the lock if its own `mkdir` made the partition
  (`Verify`, `CreateLock`) or else opens it (`OpenLock`), and acquires it twice,
  for its start and its finish (`TryLock`, `Reopen`, `Flock`, `Confirm`,
  `Leave`). It keeps the inodes it has opened in `chain` and `lock`, as the code
  keeps descriptors. `Detach` takes an entry of an `Exposed` level away, with
  what is below it or empty; `Stop` is a failed call or a death. UsageStore
  takes over where `Flock` succeeds: its `TryLock` stands for that one step.
* **BootstrapProofs** - the proofs.

### Lockfile and check

* **Drift** - nodes, graphs, locks, what a lock records of a graph, the findings
  of `evaluate`, the gate on a baseline, and the policy. A content stands for
  its hash, and `LinksOf` says what its parsers find in it: the parsers are
  deterministic, so this loses nothing but their text.
* **LockFile** - `lock --all`, `lock <path>...` and `check` as processes over a
  tree that is edited under them. `List`, `Look` and `Read` are the three
  moments at which the walk meets a path (directory listing, lstat, read);
  `Build` resolves symlinks once more against the tree; `ReadLock`, `DecideAll`,
  `Refuse`, `DecideNamed`, `Check`, `Stage` and `Persist` follow `run_lock`,
  `run_check` and `lock::write`. `Abort` is an I/O error or a crash anywhere.
* **LockFileProofs** - the proofs.

### What an invocation says and records

* **Capture** - one stream's recorder. It is told of a write before it happens
  and of the result afterwards and never sees the writer, so its claims follow
  from those two calls. A byte is its place in the stream: a retained prefix
  can be told from a selection.
* **UsageEvent** - the writer of a finish, part by part within its two limits
  (structured records, error text, prefixes of the streams), each measured by
  the length of its JSON, and every condition under which the reader accepts
  the result. A record is its kind and its length.
* **Report** - one invocation from its arguments to its exit status: where hints
  go in either format, the budget, each write to stdout or stderr that fails or
  not, and what the recorder observes on the way. `event` is the finish that
  comes of it. An invocation of UsageStore between its two transactions is an
  invocation of Report.
* **ReportUnrecorded** - the refinement `UsageIsInvisible`: forget the recorder
  and its event, and what is left is an invocation that nobody records.
* **ReportProofs** - the proofs.

### Reading the graph

* **Corpus** - from a tree to the composed graph and the findings about its
  shape: what the walk yields of a path, what the parsers take from a content,
  the fragments of the builders, their composition as a fold, unresolved edges
  and fragments, detached nodes, unreadable texts.
* **Impact** - `drft impact`: compose, take one node of the queue per step, read
  the lockfile afterwards, and derive the diagnostics of the edges that were
  looked at. Staleness comes from Drift, by `INSTANCE`.
* **Reading** - `drft nodes` and `drft edges` next to it: operands to keys from
  the directory drft runs in, selectors one per step, projection by namespace
  and field.
* **ReadingProofs** - the proofs about all three.

The modules named MC hold the instances. Definitions named `X_Something` beside
a definition `X` are mutants: the way a plausible bug in that code would read.
No specification uses them. Every property has one that TLC refutes it with,
which shows that the property can tell the code from broken code.

## Runs

| Run | Instance | What it shows |
| --- | --- | --- |
| `retention` | 3 ids, ten shapes of a group in every combination, a staging file or none, 3 clocks, 6 requests | the two-pass loop computes the plan that Retention defines |
| `store` | 2 live and 2 earlier invocations, 4 histories, 2 clock readings | the lock excludes; finals are whole and never change; receipts, staging, effects and occupancy are reported truthfully; quota holds; no false alarm; unfinished records go last |
| `store_tight` | the same in a partition for the lock and two files, under fairness | each can evict the other's start while it runs: no orphaned finish, the store implements UsageLog, and every invocation that starts ends and leaves the lock, although others crash with it |
| `store_meddled` | 1 live invocation, 1 earlier pair, 2 interferences anywhere | nothing is overwritten; the store removes only the very file it scanned or wrote, unless that was exchanged right after its check; an outcome without an error leaves the scanned partition less the plan plus the event; an occupancy is reported only of a partition the transaction can explain |
| `bootstrap` | 2 invocations, a cache two levels deep, any part of the path there at first, 2 failures, deaths or removals | one holder per partition; no second lock where one was retained; undisturbed, one of the racers gets in |
| `drift` | 3 paths, 3 contents, 3 trees, all trees within 3 edits, 40 merged locks | locking clears exactly what it names; silence means unchanged; policy hides nothing |
| `lock` | 1 command (whole or scoped lock, or check), 5 baselines, 3 trees, 1 edit at any moment of the walk | entries are whole; only named entries change; the report is the change; an unreadable lockfile is never merged into |
| `lock_race` | 2 scoped locks at once | expected to fail, see below |
| `report` | every kind of command, budget and format, recorded or not, each write failing or not | hints once; budget whole or refused; the finish is true, within its limits and accepted by its reader, and optional parts never cost it; recording is invisible |
| `report_scan` | the same, with operands behind `--` that read like flags | expected to fail, see below |
| `reading` | 54 trees, `impact` in each direction to 3 bounds against other trees' lockfiles, `nodes` and `edges` with 11 selector lists and 7 filters from two directories | every link is in the graph or in a finding; namespaces give back their graphs; the answer is at its shortest distance; a review points at the link; diagnostics are those of the edges looked at; a projection is what its selectors stand for |
| `reading_brackets` | the same from inside a directory whose name is a pattern of another | expected to fail, see below |

**Bounds.** Two live invocations are all the lock can distinguish: at most one
is inside and any number of the rest look alike. Two earlier ones give the
planner a choice of order. Limits are a few files and bytes so that eviction,
capacity failure and the boundary itself are all reached; an event of two bytes
has one partial length. Two clock readings are enough for ages of zero, exactly
the lifetime, and rollback. Two interferences allow a replacement that is later
undone. `bootstrap` has one level to resolve, one to make and one to lock; two
troubles are a death and a removal, or two removals; 13 inodes are never used
up (the path, and one more of it for each removal).

Three paths are a document, its source and a bystander; three contents allow a
document to keep its links, change them, or lose them. One edit during the walk
splits every pair of its moments; `drift` needs no walk, so it takes three.

`report` scales every length down until each limit is met from below, at it and
from above: an event of at most 100, structured records of 62 with 8 kept for
counters, 3 errors of a chain, prefixes of 8 and 6 bytes, counters up to 15 in
binary, budgets of 4 and 9 bytes for results of 0, 3 and 6, a projection that
counts as large from 5. Start events are below and above their limit, and each
list of findings or errors leaves another part out.

`reading` has a document, one in a directory, a target that may be a file, a
symlink or a directory, and a file that may be whole, binary or unreadable;
bodies and declared keys link in cycles, twice to one target, to a name where
no file is, to a URI and to a bare anchor. A chain of three next to a direct
link is what it takes to tell a shortest distance from a found one; bounds of
1, 2 and none fall short of it, meet it and do not matter.

**Fairness.** `store_tight` and `bootstrap` assume weak fairness of `Proceed(p)`,
that a started process which is able to go on is scheduled eventually. No step of a
bootstrap or a transaction waits for another process (the `flock` is nonblocking), so this is
the operating system's scheduling and nothing more. Starting, crashing and
failing are never required.

**Stopping.** Invocations and commands end, so the runs do not check for
deadlock; `EveryInvocationEnds` shows where it matters that an invocation stops
only at its end, and without the lock: one that kept it would not stop the
others, it would leave them unrecorded.

## Disagreements between code and documentation

**Two scoped locks at once** (`lock_race`). `OnlyNamedChange` fails:
`run_lock` reads the lockfile (`src/main.rs:722`), merges into the copy it read
and replaces the file (`src/main.rs:868`), and nothing excludes another
`drft lock` in between. The last writer restores the old entries of the paths
that the first one locked, while both report them as locked. `README.md:63`
says that a scoped lock locks the named nodes, "merging into the existing
lockfile". The next `check` reports the lost paths as stale again, so nothing
is hidden, but a review is lost. With one lock command at a time the property
holds (run `lock`, and `NamedAlone` below).

**Hints told twice** (`report_scan`). `wants_json_output` (`src/main.rs:313`)
scans the raw arguments, those behind `--` included, where clap takes them for
operands. `drft nodes -- --format json` runs as text and fails: the tail of
`try_main` prints the hints as text (`src/main.rs:463`), and `main`, which takes
the run for JSON, folds them into its error envelope again
(`src/main.rs:272`). The comment at `src/main.rs:451` and
`docs/reading.md:149` rule that out. Without such operands
`HintsReachTheReaderOnce` holds (run `report`, and `HintsToldOnce` below).

**Directories with glob characters** (`reading_brackets`). `resolve_selector`
makes the pattern `{key}/**` of a directory without escaping the key
(`src/main.rs:1584`). Inside `app/[slug]`, `drft nodes .` matches what is below
`app/s`, `app/l`, ... instead: it prints another subtree, or hints that the
directory has no files. `src/main.rs:1564` and `docs/reading.md:49` promise the
subtree under every spelling. From directories with plain names
`ProjectionAnswersTheSelectors` holds (run `reading`, and `SelectorsAnswered`
below, whose hypothesis `PlainDirectories` this run shows to be needed).

Smaller things the models keep as the code has them, where no document says
otherwise: a working directory that is not Unicode makes `main` panic on its
error path, with exit status 101 and no finish (`ScanPanics` in Report); `impact` outbound
or in both directions lists targets that do not exist, and URIs; a symlink to
the root has the edge target `""`; at the root, `drft nodes .` is not found,
because the root's key is empty.

## What is proved

`tlapm` checks these for all values of the constants, from the named
assumptions of the modules and nothing else. In brackets, the property that a
run checks.

**Retention** (`RetentionLoopProofs`): `LoopIsThePlan` (LoopComputesThePlan).
Retention defines a quota plan by what it must achieve: the evictions that are
closed under the order and make room, intersected. The loop takes groups off one
by one and keeps two running totals. `LoopInv` says that the totals are those of
what is left, that the groups that are gone are a lower part of the order of eviction, and
that no lower part that was passed makes room; such parts are nested, so the
first that does is the intersection.

**Usage store, safety** (`UsageStoreProofs`):
`TypeCorrect`, `TransactionsExclude` (LockDiscipline), `OnlyWholeFinals`
(FinalsAreWhole), `NoSilentStaging` (StagingIsAccountedFor), `ReportedOccupancy` (OccupancyIsReal),
`PublishedIsFinal` (FinalsNeverChange), `FinishNeverOrphaned`
(FinishJoinsItsStart), `PublishingSweeps`, `QuotaKept` (WithinQuota),
`FalseAlarmNever` (NoFalseAlarm).

The invariant `IInv` is the types, LockDiscipline, FinalsAreWhole and, for each
invocation, `Local(p)`. FinalsAreWhole is not inductive by itself: that a
renamed file is whole follows from the check of the staging file one step
earlier, so `Local` remembers what each `pc` has established: what the staging
file holds, that the ledger equals the partition while its owner holds the lock,
which part of the plan is still to do, and what a receipt is about. An invocation
outside its transaction is disturbed only through files that are not its own,
so every action needs one lemma for the invocation that takes it (`Local...`)
and one lemma serves for all others (`LocalOther`).

WithinQuota and NoFalseAlarm are sums over the files of a partition. `QuotaInv`
adds to `IInv` that every file has a name that some invocation owns
(`OnlyOwnNames`) and, per invocation (`Orderly`), that its ledger counts the
partition file by file and byte by byte (`Tracks`), that the room it needs is
there once its plan is done (`Room`), and that no verdict of foreign changes has
been passed (`Calm`). What a removal or a write does to the sum is proved once
in `RetentionProofs` (`Emptied`, `Written`, `RestStays`).

**Usage store, refinement** (`UsageEffectsProofs`): `StoreImplementsLog`
(ImplementsLog). The stage of an invocation in the log is computed from its
phase and its outcome, so `LogInv` adds what an outcome announces of a
publication at each `pc` (`Announced`). A rename is the only step that
publishes, an unlink the only one that forgets, and every other step is a
stutter of the log.

**Usage store, effects** (`UsageEffectsProofs`): `UnfinishedLast`
(UnfinishedGoLast) rests on `PlanInv`: between its scan and its last unlink an
invocation sees the partition of its scan without the part of its plan that is
done, and of a pair the finish goes last. That order makes an unfinished start
in the middle of a plan tell that every complete pair went before it.
`ReceiptsAreEvidence` (ReceiptIsEvidence) adds to `IInv` that up to its last scan
a transaction outside its cleanup has met no error (`Untroubled`): a receipt is
made in the one step that finds the published start intact.
`OutcomeTellsAll` (EffectsAreReported) rests on `ToldInv`: the number in the
outcome is the cardinality of what is gone, and a group that lost only one of
its two files is the one the plan was interrupted in.

Beside a process that ignores the lock, nothing is known of the partition any
more. `MeddledInv` is the types, the lock, and for each invocation two things.
`Memory(p)` is what it remembers of its own steps and says nothing of what
`files` holds: its ledger differs from its scan by the part of the plan that is
done and by its own event or staging file, and its outcome admits those.
`Window(p)` is that between a check and the step after it the checked file is
still there, if its name was not touched in between (`since`). `Settle` compares
the ledger with the partition, so what `Memory` says of the ledger becomes true
of the files. This gives, for any number of live invocations and of
interferences, `MeddledNotOverwritten` (NeverOverwrites), `MeddledOnlyChecked`
(RemovesOnlyWhatItChecked), `MeddledCleanIsIntact` (CleanMeansIntact) and
`MeddledExplained` (OccupancyIsExplained). A file that is put in the place of
another after the check and before the removal by name is lost, in the code and
in the model; `RemovesOnlyWhatItChecked` says that no other is.

**Bootstrap** (`BootstrapProofs`): `TypeCorrect`; and, as long as the entry of
the partition stays (`PartitionStays`), `OneHolder` (OneHolderPerPartition) and
`LockedOnce` (NoSecondLock). `IInv` adds to the types what each `pc` knows
(`Stage`) and, per directory, that at most one invocation may still make its
lock (`OneCreator`), that nobody retained a lock before that one did
(`CreatorIsFirst`), and that retained locks of one directory are one inode
(`OneLock`), whose holder is unique (`Exclusive`).

`PartitionStays` is needed. The partition is opened by name after the `mkdir`
(`bootstrap.rs:100`), so a creator whose directory is replaced just then takes
the other one for its own, and with a removal of the lock as well two locks are
made. `docs/usage-storage.md:65` asks that this infrastructure is not removed
while a collector may use it; levels above the partition, and the lock, need no
such care.

**Lockfile** (`LockFileProofs`): `TypeCorrect`, `LockedFromOneRead`
(EntriesAreWhole), `ReplacedWhole`, `UnreadableIsNotMerged`
(CorruptNeedsRebuild), `BaselinesCoverSomething`, `LockingClears`
(LockingClearsWhatItNames), `SilenceIsJustified` (SilenceMeansUntouched),
`NothingHidden` (PolicyHidesNothing), and with one lock command beside any
number of checks (`OneWriter`) `NamedAlone` (OnlyNamedChange) and
`ReportedAlone` (ReportIsTheChange).

`LockingClears` and `SilenceIsJustified` are set theory over any graph and any
lock: what `check` finds about a path depends on that path's entry alone
(`FindingsAreLocal`), and nothing is found about an entry that is the tree's own
(`SnapshotIsClean`). The others rest on `IInv`: for each command, `Ready(q)`
relates what it has read and is about to write to the file as it is now. Its
centre is that a missing or corrupt lockfile has been so since the start, so
no command can have read a baseline from it. `AloneInv` adds what is true only
when nobody else writes: what the one lock command has read is still what is on
disk (`Fresh`), so its content and its report are about the file it replaces
(`Tells`). Run `lock_race` shows that `OneWriter` cannot be dropped.

The assumption on baselines is that a lockfile drft starts with has whole
entries; a file edited by hand may violate it, and only `LockedFromOneRead`
depends on it.

**Report** (`ReportProofs`): `RecordingIsInvisible` (UsageIsInvisible), a step
simulation: no guard and no output of a step reads the recorder, and a recorder
that is not active stays so. `BudgetKept` (BudgetIsAtomic) from an invariant
that relates what is about to be printed to the decision on the budget.

`HintsToldOnce` (HintsReachTheReaderOnce), under the assumption that operands do
not look like flags, without which run `report_scan` refutes it.
`HintInvariant` follows the hints on each of the routes they can take: still
pending, printed before an error, in an envelope of the result or of the
error, dropped with a refused result.

`FinishIsTrue` (FinishTellsWhatHappened), `FinishIsAccepted`
(ReaderAcceptsTheFinish) and `OptionalPartsAreFree`
(OptionalPartsNeverCostTheFinish) rest on one invariant, `RecordInvariant`: what
the recorder of each stream may claim, given the calls it was told of, and what
was observed of findings, hints and the budget at each `pc`. The rest is
arithmetic on the writer: a fold that takes parts while they fit stays in its
room, a number is never longer than a greater one (`Width`), and the parts that
are added last find the room that was kept for them. `HeadroomAssumption` is the
condition that this needs of the limits: `COUNTER_HEADROOM`
(`src/usage/event.rs:367`) covers every growth of the counters from the
skeleton, as the comment there says. With the limits of the code, 1024 is more
than enough; the run has the least headroom its own limits allow.

**Reading** (`ReadingProofs`), with the graph as the fold, the search and the
projection leave it:

* `MergeKeepsNamespaces` and `NamespacesKept` (NamespacesKeepTheirGraph):
  merging one more graph gives it back under its own namespace and changes no
  other, and so the composition of all graphs gives back each of them.
  `FoldGoesAlong` is the induction over the sequence of graphs; `NodesUpTo` and
  `EdgesUpTo` say what a composition holds after its first graphs.
* `EveryLink` (EveryLinkIsAccountedFor): a link that is written in a file is an
  edge of the graph its parser belongs to, and it is reported as unresolved
  exactly if nothing answers to it. `TextEdges` and `ComposedEdges` follow a
  link from the text to the composed graph.
* `ReachedAtDistance` (ReachedAtShortestDistance). `TraversalInvariant` is the
  invariant of a breadth-first search: depths along the queue never fall and
  span at most two levels, what was met is expanded, queued or at the bound, and
  a node has depth d exactly if it is in the ball of d hops around the seeds and
  in no smaller one (`Walking`). A counting argument shows that the balls stop
  growing within as many hops as there are targets, which is what the property
  takes for no bound. TLC checked this invariant on the instance of run
  `reading` before it was proved.
* `ReviewPoints` (ReviewPointsAtTheLink) and `DiagnosticsMatch`
  (DiagnosticsMatchTheTraversal) follow from the edges that were looked at, which
  the same invariant relates to the nodes that were expanded.
* `SelectorsAnswered` (ProjectionAnswersTheSelectors), if drft runs in a directory
  whose names are not patterns of other names (`PlainDirectories`).
  `SelectInvariant` says that what is picked is what the selectors treated so far
  stand for, and what was said is which of them stand for nothing. Operands,
  `..` and patterns are compared part by part with the paths of the tree.

The assumptions of these modules are what the program checks or builds itself:
graphs have distinct names that are not `fs`, two paths are spelled differently,
a bound is positive, an operand without characters of a pattern is no pattern.

The library states induction for an operator as a parameter, which the provers here
cannot instantiate. Where a proof goes by induction it takes a least element
instead, of a set of naturals that would be counterexamples (`LeastNumber`), and
for finite sets the least cardinality.

**Only model-checked.** Liveness (EveryInvocationEnds, SomeoneGetsIn) rests on
fairness and on when an action is enabled, out of reach of the prover, and stays
with TLC. All other properties of the passing runs are theorems, under the
hypotheses named above.

## What is not modelled

* Path identity beyond Bootstrap: ownership, modes, symlink checks and placement
  inside the graph appear only as "the check fails". A validation of several
  levels is one step in Bootstrap. Identity hashing and random identifiers: the
  models assume that ids of invocations do not collide.
* Parsing Markdown, YAML and TOML, and JSON's syntax: a content is what its
  parsers find in it, an event its fields. How a path in a link is spelled,
  normalized and resolved, the slugs of headings, and the causes and
  corrections that findings and hints suggest.
* The matching of globs itself, patterns that do not compile and absolute
  operands. Reading gives each name the set of names it matches.
* Betweenness in impact analysis, a floating-point ranking, and the order it
  gives the answer.
* Configuration: parsing, validation, legacy layouts, and `init`, which is one
  check and one create.
* Wording: the guide, the texts of hints and findings, help.
* Power loss: the code makes no durability claim, and a crash here is the death
  of a process.
* A write attempt of the capture that is begun and never finished
  (`src/usage/capture.rs`, `Drop`): both callers finish it in the statement after
  the write.
* A lockfile or a cache edited by hand while drft runs, beyond UsageStoreMeddled.

## Plan

The models were written in the order of the modules above: retention and the
store first, then the lockfile, the bootstrap, what an invocation says and
records, and reading the graph. Open:

1. **Init and layout** - check, then create, with two inits or an editor.
2. **The partition's entry** - a bootstrap that resolves it by name a second time,
   to say what a replaced directory can cost at most.
3. The scan of a partition entry by entry, with changes in between.
