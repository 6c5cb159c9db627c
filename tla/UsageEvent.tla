---------------------------- MODULE UsageEvent ----------------------------
(***************************************************************************)
(* The events of an invocation as they are written                         *)
(* (src/src/usage/event.rs, src/src/usage/bounded.rs) and as they are read *)
(* again when retention looks at the partition (src/src/usage/record.rs).  *)
(* The writer fits what it saw into two byte budgets; the reader trusts    *)
(* nothing and calls an event that breaks one of its rules malformed,      *)
(* whose times then count for nothing.                                     *)
(*                                                                         *)
(* A record (a finding, a hint, an error text) is its kind and the length  *)
(* of its JSON.  Of the envelope only the length of its fixed part is kept *)
(* (Skeleton, StructuredSkeleton) and, field by field, the parts whose     *)
(* length depends on what was admitted: counters, availability, the name   *)
(* of the traversal, the flags and prefixes of the streams.                *)
(***************************************************************************)
EXTENDS Capture, FiniteSetsExt

CONSTANTS
  EventLimit,           \* EVENT_LIMIT, for the whole event
  StructuredLimit,      \* STRUCTURED_PAYLOAD_LIMIT, for its records
  Headroom,             \* COUNTER_HEADROOM
  DepthLimit,           \* ERROR_DEPTH_LIMIT
  StdoutLimit,          \* STDOUT_LIMIT
  StderrLimit,          \* STDERR_LIMIT
  Radix,                \* of a number's digits (10)
  Skeleton,             \* length of the fixed part of a finish
  StructuredSkeleton,   \* the share of it that holds the records
  TraversalLen          \* length of the name of each traversal

Traversals ==
  {"complete", "not_started", "budget_stopped", "depth_stopped",
   "formatter_failed"}

ASSUME EventAssumption ==
  /\ EventLimit \in Nat /\ StructuredLimit \in Nat /\ Headroom \in Nat
  /\ DepthLimit \in Nat \ {0} /\ StdoutLimit \in Nat /\ StderrLimit \in Nat
  /\ StdoutLimit < CountMax /\ StderrLimit < CountMax
  /\ Radix \in Nat \ {0, 1}
  /\ Skeleton \in Nat /\ StructuredSkeleton \in 0 .. Skeleton
  /\ TraversalLen \in [Traversals -> Nat]

-----------------------------------------------------------------------------
(* Lengths                                                                 *)

Least(a, b) == IF a <= b THEN a ELSE b
Minus(a, b) == IF a >= b THEN a - b ELSE 0      \* saturating_sub

Width[n \in Nat] == IF n < Radix THEN 1 ELSE 1 + Width[n \div Radix]

Available(v) == [status |-> "available", value |-> v]
Unavailable(reason) == [status |-> "unavailable", value |-> reason]
IsAvailable(a) == a.status = "available"

\* "unavailable" and a reason are longer than any count this model reaches.
AvailabilityLen(a) ==
  IF IsAvailable(a) THEN Width[a.value] ELSE 1 + Width[CountMax]

Base64(n) == 4 * ((n + 2) \div 3)

TotalLen(records) ==
  LET upTo[n \in 0 .. Len(records)] ==
        IF n = 0 THEN 0 ELSE upTo[n - 1] + records[n].len
  IN  upTo[Len(records)]

ArrayLen(records) == TotalLen(records) + Minus(Len(records), 1)  \* commas

PrefixLen(p) ==
  AvailabilityLen(p.total) + Width[p.included] + AvailabilityLen(p.omitted)
    + ArrayLen(p.records)

StructuredLen(s) ==
  StructuredSkeleton + PrefixLen(s.findings.prefix) + PrefixLen(s.hints)
    + TraversalLen[s.error.traversal] + PrefixLen(s.error.prefix)

ByteCountLen(b) == IF b.status = "exact" THEN Width[b.bytes] ELSE 1

StreamLen(s) ==
  Base64(Len(s.prefix)) + Width[Len(s.prefix)] + ByteCountLen(s.observed)
    + (IF s.truncated THEN 0 ELSE 1)      \* "false" is longer than "true"

EventLen(e) ==
  Skeleton - StructuredSkeleton + StructuredLen(e.structured)
    + StreamLen(e.stdout) + StreamLen(e.stderr)

-----------------------------------------------------------------------------
(* The writer                                                              *)

\* A value that does not fit is refused as a whole.
FitsIn(len, limit) == len <= limit

\* The longest prefix of the findings that fits the fixed limit, kept while
\* the command still has them, with the number there were.
Retained(coverage, records) ==
  LET fits(n) == 2 + ArrayLen(SubSeq(records, 1, n)) <= StructuredLimit
      n == Max({i \in 0 .. Len(records) : i = 0 \/ fits(i)})
  IN  [coverage |-> coverage, total |-> Len(records),
       records |-> SubSeq(records, 1, n)]

NothingRetained == [coverage |-> "none", total |-> 0, records |-> <<>>]

EmptyPrefix(total) ==
  [total |-> total, included |-> 0, omitted |-> total, records |-> <<>>]

\* push, for each of the first n records.
Pushed(p, records) ==
  [p EXCEPT !.included = Len(records),
            !.omitted = IF IsAvailable(p.total)
                        THEN Available(p.total.value - Len(records))
                        ELSE p.total,
            !.records = records]

Cost(records) == TotalLen(records) + Len(records)  \* one comma each

\* The records admitted before the first that does not fit.
Admitted(records, room) ==
  SubSeq(records, 1, Max({n \in 0 .. Len(records) :
                            Cost(SubSeq(records, 1, n)) <= room}))

\* A plausible bug: a chain that ends exactly at the limit is complete.
Told_LastIsComplete(chain, room) ==
  LET before(i) == Minus(room, Cost(SubSeq(chain, 1, i - 1)))
      fits(i) == /\ chain[i].raw <= Minus(before(i), 3)
                 /\ chain[i].len <= Minus(before(i), 1)
      n == Max({k \in 0 .. Least(Len(chain), DepthLimit) :
                  \A i \in 1 .. k : fits(i)})
  IN  [records |-> [i \in 1 .. n |-> [kind |-> "text", len |-> chain[i].len]],
       traversal |-> IF n = Len(chain) THEN "complete"
                     ELSE IF n = DepthLimit THEN "depth_stopped"
                     ELSE "budget_stopped"]

\* The texts of an error and its sources, outermost first, as far as they
\* can be told: [raw] is the length of a text, [len] of its JSON.  A text
\* whose Display fails ends the process when main prints it, before this.
Told(chain, room) ==
  LET before(i) == Minus(room, Cost(SubSeq(chain, 1, i - 1)))
      fits(i) == /\ chain[i].raw <= Minus(before(i), 3)
                 /\ chain[i].len <= Minus(before(i), 1)
      n == Max({k \in 0 .. Least(Len(chain), DepthLimit) :
                  \A i \in 1 .. k : fits(i)})
  IN  [records |-> [i \in 1 .. n |-> [kind |-> "text", len |-> chain[i].len]],
       traversal |-> IF n = DepthLimit THEN "depth_stopped"
                     ELSE IF n = Len(chain) THEN "complete"
                     ELSE "budget_stopped"]

ErrorPayload(present) ==
  [present |-> present,
   traversal |-> IF present THEN "not_started" ELSE "complete",
   prefix |-> EmptyPrefix(IF present THEN Unavailable("traversal_stopped")
                                     ELSE Available(0))]

\* What a finish is made from: the caller's observations, what was retained
\* of the findings (or nothing), the hints, the error chain (empty without
\* an error) and the two captures.
Blank(input) ==
  [kind |-> "finish", exit |-> input.exit, completion |-> input.completion,
   mode |-> input.mode, hint |-> input.hint, refusal |-> input.refusal,
   structured |->
     [findings |->
        IF input.findings = NothingRetained
        THEN [coverage |-> Unavailable("not_observed"),
              prefix |-> EmptyPrefix(Unavailable("not_observed"))]
        ELSE [coverage |-> Available(input.findings.coverage),
              prefix |-> EmptyPrefix(Available(input.findings.total))],
      hints |-> EmptyPrefix(Available(Len(input.hints))),
      error |-> ErrorPayload(input.chain # <<>>)],
   stdout |-> Snapshot(input.stdout, 0),
   stderr |-> Snapshot(input.stderr, 0)]

NoEvent == [kind |-> "none"]

\* Room for the records beside the blank event, or a refusal.
FitsBlank(blank) ==
  /\ FitsIn(EventLen(blank), EventLimit)
  /\ FitsIn(StructuredLen(blank.structured), StructuredLimit)
  /\ Headroom <= Least(EventLimit - EventLen(blank),
                       StructuredLimit - StructuredLen(blank.structured))

RecordRoom(blank) ==
  Least(EventLimit - EventLen(blank),
        StructuredLimit - StructuredLen(blank.structured)) - Headroom

WithRecords(input, blank) ==
  LET room == RecordRoom(blank)
      findings == Admitted(input.findings.records, room)
      roomForHints == room - Cost(findings)
      hints == Admitted(input.hints, roomForHints)
      roomForError == roomForHints - Cost(hints)
      told == Told(input.chain, roomForError)
      error == [blank.structured.error EXCEPT
                  !.traversal = told.traversal,
                  !.prefix = IF told.traversal = "complete"
                             THEN Pushed(EmptyPrefix(
                                    Available(Len(told.records))), told.records)
                             ELSE Pushed(@, told.records)]
  IN  [blank EXCEPT
         !.structured.findings.prefix = Pushed(@, findings),
         !.structured.hints = Pushed(@, hints),
         !.structured.error = IF input.chain = <<>> THEN @ ELSE error]

\* A plausible bug: the counters of the streams are taken for free.
StreamRoom_ToTheBrim(e) == EventLimit - EventLen(e)

StreamRoom(e) == Minus(EventLimit - EventLen(e), Headroom)

\* Base64 takes four bytes for three: stdout first, stderr what is left.
WithStreams(input, e) ==
  LET stdout == Snapshot(input.stdout, (StreamRoom(e) \div 4) * 3)
      left == StreamRoom(e) - Base64(Len(stdout.prefix))
  IN  [e EXCEPT !.stdout = stdout,
                !.stderr = Snapshot(input.stderr, (left \div 4) * 3)]

FinishEvent(input) ==
  LET blank == Blank(input)
      recorded == WithRecords(input, blank)
      full == WithStreams(input, recorded)
  IN  IF /\ FitsBlank(blank)
         /\ FitsIn(StructuredLen(recorded.structured), StructuredLimit)
         /\ FitsIn(EventLen(recorded), EventLimit)
         /\ FitsIn(EventLen(full), EventLimit)
      THEN full
      ELSE NoEvent

-----------------------------------------------------------------------------
(* The reader                                                              *)

PrefixOk(p, kind, unknownRecords) ==
  /\ p.included = Len(p.records)
  /\ IF IsAvailable(p.total)
     THEN /\ IsAvailable(p.omitted)
          /\ p.included + p.omitted.value = p.total.value
     ELSE /\ p.total = p.omitted
          /\ unknownRecords \/ p.included = 0
  /\ \A i \in DOMAIN p.records : p.records[i].kind = kind

FindingsOk(f) ==
  /\ PrefixOk(f.prefix, "finding", FALSE)
  /\ IF IsAvailable(f.coverage)
     THEN /\ f.coverage.value \in {"construction", "full", "selected"}
          /\ IsAvailable(f.prefix.total)
     ELSE f.coverage = f.prefix.total

ErrorOk(e) ==
  /\ PrefixOk(e.prefix, "text", TRUE)
  /\ IF ~e.present
     THEN e.traversal = "complete" /\ e.prefix.total = Available(0)
     ELSE \/ /\ e.traversal = "complete"
             /\ e.prefix.included \in 1 .. DepthLimit - 1
             /\ IsAvailable(e.prefix.total)
             /\ e.prefix.omitted = Available(0)
          \/ /\ e.traversal \in {"budget_stopped", "formatter_failed"}
             /\ e.prefix.total = Unavailable("traversal_stopped")
             /\ e.prefix.included < DepthLimit
          \/ /\ e.traversal = "depth_stopped"
             /\ e.prefix.total = Unavailable("traversal_stopped")
             /\ e.prefix.included = DepthLimit

StructuredOk(s) ==
  /\ StructuredLen(s) <= StructuredLimit
  /\ FindingsOk(s.findings)
  /\ PrefixOk(s.hints, "hint", FALSE)
  /\ ErrorOk(s.error)

StreamOk(s, limit) ==
  LET raw == Len(s.prefix)
  IN  /\ raw <= limit
      /\ IF s.observed.status = "exact"
         THEN /\ s.observed.bytes >= raw
              /\ s.truncated <=> s.observed.bytes > raw
         ELSE s.truncated
      /\ CASE s.outcome.status = "not_attempted" ->
                /\ s.accepted.status = "not_attempted"
                /\ s.observed = Exact(0)
           [] s.outcome.status = "all_succeeded" ->
                s.accepted = [status |-> "known", bytes |-> s.observed]
           [] OTHER -> /\ s.outcome.failed \/ s.outcome.unfinished
                       /\ s.accepted.status = "unknown"

HintOk(h) ==
  /\ h.embedding \in {"not_embedded", "result_document"}
  /\ h.route \in {"none", "stdout_document", "stderr_text", "stderr_json"}
  /\ h.suppression \in {"none", "explicit", "budget_refusal",
                        "earlier_write_failure"}
  /\ h.attempt \in {"not_attempted", "attempted", "unavailable"}

\* The finish is one the reader takes for what it is.
SupportedFinish(e) ==
  /\ EventLen(e) <= EventLimit
  /\ e.exit \in {"clean", "violations", "usage_error"}
  /\ e.completion \in {"returned", "command_error", "output_budget_refused",
                       "stdout_write_failed"}
  /\ e.mode \in {"text", "json", "bare_jgf", "raw_graph_set", "no_document"}
  /\ HintOk(e.hint)
  /\ StructuredOk(e.structured)
  /\ StreamOk(e.stdout, StdoutLimit)
  /\ StreamOk(e.stderr, StderrLimit)
=============================================================================
