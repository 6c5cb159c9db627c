------------------------------ MODULE Capture ------------------------------
(***************************************************************************)
(* What the usage recorder keeps of an output stream                       *)
(* (src/src/usage/capture.rs).  A capture never sees the writer: it is     *)
(* told of each write before it happens and of its result afterwards, so   *)
(* all it may claim about accepted bytes follows from these two calls.     *)
(*                                                                         *)
(* A byte is the number of its place in the stream, so that a retained     *)
(* prefix can be told from a selection of bytes.  A forgotten attempt      *)
(* cannot happen in this program: both callers finish an attempt in the    *)
(* statement after the write, and a panic in between ends the process.     *)
(***************************************************************************)
EXTENDS Naturals, Sequences

CONSTANT CountMax    \* the largest count that fits the counter (u64::MAX)

ASSUME CountMaxAssumption == CountMax \in Nat

Exact(n) == [status |-> "exact", bytes |-> n]
Overflow == [status |-> "overflow"]

ByteCount == [status : {"exact"}, bytes : 0 .. CountMax] \cup {Overflow}

AddBytes(count, n) ==
  IF count.status = "exact" /\ count.bytes + n <= CountMax
  THEN Exact(count.bytes + n)
  ELSE Overflow

StreamCapture(limit) ==
  [prefix : {p \in Seq(Nat) : Len(p) <= limit}, limit : {limit},
   observed : ByteCount, attempted : BOOLEAN, failed : BOOLEAN,
   unfinished : BOOLEAN, pending : BOOLEAN, truncated : BOOLEAN]

NewCapture(limit) ==
  [prefix |-> <<>>, limit |-> limit, observed |-> Exact(0),
   attempted |-> FALSE, failed |-> FALSE, unfinished |-> FALSE,
   pending |-> FALSE, truncated |-> FALSE]

\* A plausible bug: a write that does not fit as a whole is left out, and a
\* later, shorter one is retained behind the gap.
Retain_WholeWrites(c, input) ==
  IF Len(input) <= c.limit - Len(c.prefix) THEN Len(input) ELSE 0

Retain(c, input) ==
  LET room == c.limit - Len(c.prefix)
  IN  IF Len(input) <= room THEN Len(input) ELSE room

BeginWrite(c, input) ==
  [c EXCEPT !.unfinished = @ \/ c.pending,
            !.pending = TRUE,
            !.attempted = TRUE,
            !.observed = AddBytes(@, Len(input)),
            !.prefix = @ \o SubSeq(input, 1, Retain(c, input)),
            !.truncated = @ \/ Retain(c, input) < Len(input)]

FinishWrite(c, ok) == [c EXCEPT !.failed = @ \/ ~ok, !.pending = FALSE]

WriteOutcome(c) ==
  LET unfinished == c.unfinished \/ c.pending
  IN  IF ~c.attempted THEN [status |-> "not_attempted"]
      ELSE IF c.failed \/ unfinished
      THEN [status |-> "unknown_acceptance", failed |-> c.failed,
            unfinished |-> unfinished]
      ELSE [status |-> "all_succeeded"]

AcceptedBytes(c) ==
  CASE WriteOutcome(c).status = "not_attempted" -> [status |-> "not_attempted"]
    [] WriteOutcome(c).status = "all_succeeded" ->
         [status |-> "known", bytes |-> c.observed]
    [] OTHER -> [status |-> "unknown"]

\* A plausible bug: bytes left out of the event do not count as truncation.
Snapshot_TrimsSilently(c, retained) ==
  LET kept == IF retained <= Len(c.prefix) THEN retained ELSE Len(c.prefix)
  IN  [prefix |-> SubSeq(c.prefix, 1, kept),
       observed |-> c.observed,
       truncated |-> c.truncated,
       outcome |-> WriteOutcome(c),
       accepted |-> AcceptedBytes(c)]

\* The observations of a capture with at most the first `retained` bytes.
Snapshot(c, retained) ==
  LET kept == IF retained <= Len(c.prefix) THEN retained ELSE Len(c.prefix)
  IN  [prefix |-> SubSeq(c.prefix, 1, kept),
       observed |-> c.observed,
       truncated |-> c.truncated \/ kept < Len(c.prefix),
       outcome |-> WriteOutcome(c),
       accepted |-> AcceptedBytes(c)]

=============================================================================
