------------------------------ MODULE Report ------------------------------
(***************************************************************************)
(* What one invocation of drft tells its caller: a result on stdout, hints *)
(* and errors on stderr, an exit status, and, when its project opted in,   *)
(* a finish event about all of these (main, try_main and the run_*         *)
(* functions of src/src/main.rs with the observations of                   *)
(* src/src/usage/lifecycle.rs).                                            *)
(*                                                                         *)
(* The steps are the moments at which the invocation touches a stream or   *)
(* decides where hints go.  Any write may fail: stdout because its reader  *)
(* has gone or for another reason, stderr by a panic that ends the process *)
(* without a finish.  A text is what it says (kind, hints) and its length. *)
(* The commands are those that differ here: "nodes" stands for nodes and   *)
(* edges, "raw" is graph --raw, "guide" any command that is not recorded   *)
(* and prints, "init" the one that does not.                               *)
(***************************************************************************)
EXTENDS UsageEvent, SequencesExt

CONSTANTS
  Commands,       \* the commands considered
  Budgets,        \* values of --max-bytes
  Sizes,          \* lengths of rendered results, without hints and newline
  HintLen,        \* length of each hint, alone or in a document
  LargeBytes,     \* LARGE_PROJECTION_BYTES
  FindingLists,   \* findings a graph can have, as records
  ErrorChains,    \* errors a command can end with, as chains of texts
  StartLens,      \* lengths a start event can have
  OperandsLookLikeFlags  \* whether an operand may read --format json

NoBudget == -1
HintNames == {"config", "run", "large"}

Covered == {"check", "graph", "raw", "nodes", "impact", "lock"}  \* usage_command
Budgeted == {"graph", "raw", "nodes", "impact"}
WithOperands == {"nodes", "impact", "lock"}

ASSUME ReportAssumption ==
  /\ Commands \subseteq Covered \cup {"guide", "init"}
  /\ Budgets \subseteq Nat /\ Sizes \subseteq Nat /\ LargeBytes \in Nat
  /\ HintLen \in [HintNames -> Nat \ {0}]
  /\ OperandsLookLikeFlags \in BOOLEAN
  /\ StartLens \subseteq Nat
  /\ FindingLists \subseteq Seq([kind : {"finding"}, len : Nat])
  /\ ErrorChains \subseteq Seq([raw : Nat, len : Nat \ {0}]) \ {<<>>}

\* "More than all possible usize count-width increases and enum spelling
\* changes from the empty skeleton" (src/src/usage/event.rs:367): three
\* counts of records that grow from zero, the name of the traversal, and the
\* retained bytes of two streams, whose digits and two flags grow from one.
ASSUME HeadroomAssumption ==
  /\ \A t \in Traversals :
       Width[StructuredLimit] + Width[3] + Width[DepthLimit] + TraversalLen[t]
         <= Headroom + 3 + TraversalLen["not_started"]
  /\ Width[StdoutLimit] + Width[StderrLimit] <= Headroom
  /\ DepthLimit <= CountMax

VARIABLES
  args,       \* the arguments: as clap read them, and as main scanned them
  pc,         \* where the invocation is
  hints,      \* the hints raised, in order
  delivered,  \* Hints::delivered
  result,     \* what try_main returns
  chain,      \* the error it returns, with its sources
  stdout,     \* the texts written to stdout
  stderr,     \* and to stderr
  told,       \* how many hints were printed one by one
  obs,        \* Invocation::active
  exit,       \* the exit status
  event       \* the finish event offered for publication

vars == <<args, pc, hints, delivered, result, chain, stdout, stderr, told, obs,
          exit, event>>

Arguments ==
  {a \in [cmd : Commands, json : BOOLEAN, scan : {"json", "other", "panics"},
          max : Budgets \cup {NoBudget}] :
     /\ a.cmd \notin Budgeted => a.max = NoBudget
     \* wants_json_output finds the flag that clap took, or an operand; it
     \* panics if it first meets a directory whose name is not Unicode.
     /\ a.json => a.scan # "other"
     /\ a.scan = "json" /\ ~a.json => a.cmd \in WithOperands /\ OperandsLookLikeFlags}

Text == [kind : {"document", "jgf", "graph_set", "text", "hint",
                 "hint_envelope", "error", "error_envelope"},
         hints : SUBSET HintNames, len : Nat, ok : BOOLEAN]

InitialHint ==
  [embedding |-> "not_embedded", route |-> "none", suppression |-> "none",
   attempt |-> "not_attempted"]

NotRecording ==
  [active |-> FALSE, stdout |-> NewCapture(StdoutLimit),
   stderr |-> NewCapture(StderrLimit), findings |-> NothingRetained,
   hint |-> InitialHint, refused |-> FALSE, mode |-> "no_document"]

Init ==
  /\ args \in Arguments
  /\ pc = "load"
  /\ hints = <<>> /\ delivered = FALSE
  /\ result = "none" /\ chain = <<>>
  /\ stdout = <<>> /\ stderr = <<>> /\ told = 0
  /\ obs = NotRecording
  /\ exit = "none" /\ event = NoEvent

-----------------------------------------------------------------------------
(* Observations: all of them do nothing unless the invocation is recorded. *)

Recording(o, observed) == IF o.active THEN observed ELSE o

\* The bytes of a text that follows those written before.
BytesAfter(texts, len) == [i \in 1 .. len |-> TotalLen(texts) + i]

ObserveFindings(o, coverage, records) ==
  Recording(o, [o EXCEPT !.findings = Retained(coverage, records)])

ObserveEmbedded(o) ==
  Recording(o, [o EXCEPT !.hint.embedding = "result_document",
                         !.hint.route = "stdout_document"])

ObserveStderrAttempt(o, route) ==
  Recording(o, [o EXCEPT !.hint.route = route, !.hint.attempt = "attempted"])

ObserveSuppression(o, why) ==
  Recording(o, [o EXCEPT !.hint.suppression = IF @ = "none" THEN why ELSE @])

ObserveRefusal(o) ==
  Recording(o, [o EXCEPT !.hint.suppression = "budget_refusal",
                         !.refused = TRUE])

ObserveStdout(o, mode, bytes, ok) ==
  Recording(o,
    [o EXCEPT
       !.mode = mode,
       !.hint.attempt = IF o.hint.embedding = "result_document"
                        THEN "attempted" ELSE @,
       !.hint.suppression = IF ~ok /\ o.hint.route = "stdout_document"
                            THEN "earlier_write_failure" ELSE @,
       !.stdout = FinishWrite(BeginWrite(@, bytes), ok)])

\* format_args!("{}\n") reaches the writer as the text and the newline.
ObserveStderr(o, bytes) ==
  LET line == SubSeq(bytes, 1, Len(bytes) - 1)
      once == FinishWrite(BeginWrite(o.stderr, line), TRUE)
  IN  Recording(o, [o EXCEPT !.stderr =
        FinishWrite(BeginWrite(once, <<bytes[Len(bytes)]>>), TRUE)])

StdoutWriteFailed(o) == o.active /\ o.stdout.failed

-----------------------------------------------------------------------------
(* The streams                                                             *)

HintRecords(hs) ==
  [i \in DOMAIN hs |-> [kind |-> "hint", len |-> HintLen[hs[i]]]]

LenOf(hs) == TotalLen(HintRecords(hs))

\* Errors of the output itself have no source.
PlainErrors == {c \in ErrorChains : Len(c) = 1}

Exceeds(len) == args.max # NoBudget /\ len > args.max

\* The invocation dies with its stderr; nobody finishes it.
Panic ==
  /\ pc' = "dead" /\ exit' = "101" /\ event' = NoEvent
  /\ UNCHANGED <<args, hints, delivered, result, chain, stdout, told>>

\* A line on stderr, the last of n hints' own, after which the invocation is
\* at next.
WriteStderr(kind, names, len, o, n, next) ==
  \/ /\ stderr' = Append(stderr, [kind |-> kind, hints |-> names,
                                  len |-> len, ok |-> TRUE])
     /\ obs' = ObserveStderr(o, BytesAfter(stderr, len))
     /\ pc' = next /\ told' = n
     /\ UNCHANGED <<args, hints, delivered, result, chain, stdout, exit, event>>
  \/ /\ stderr' = Append(stderr, [kind |-> kind, hints |-> names,
                                  len |-> len, ok |-> FALSE])
     /\ obs' = o
     /\ Panic

\* The one write of a result: all of it, or an error that says whether its
\* reader has gone.  Nothing is left to fail in an empty text.
WriteStdout(kind, names, len, mode, o, good) ==
  \E outcome \in {"written", "closed", "stdout_failed"} :
    /\ len = 0 => outcome = "written"
    /\ stdout' = Append(stdout, [kind |-> kind, hints |-> names, len |-> len,
                                 ok |-> outcome = "written"])
    /\ obs' = ObserveStdout(o, mode, BytesAfter(stdout, len),
                            outcome = "written")
    /\ result' = IF outcome = "written" THEN good ELSE outcome
    /\ chain' \in IF outcome = "written" THEN {<<>>} ELSE PlainErrors

\* A plausible bug: the budget is held against the document as measured
\* before its newline and its last hint.
PrintWithin_AsMeasured(kind, names, len, mode, json, o) ==
  IF Exceeds(len - 1 - (IF "large" \in names THEN HintLen["large"] ELSE 0))
  THEN /\ result' = IF json THEN "refused_json" ELSE "refused_text"
       /\ chain' \in PlainErrors
       /\ obs' = ObserveRefusal(o)
       /\ UNCHANGED stdout
  ELSE WriteStdout(kind, names, len, mode, o, "clean")

\* enforce_output_budget, then the write.
PrintWithin(kind, names, len, mode, json, o) ==
  IF Exceeds(len)
  THEN /\ result' = IF json THEN "refused_json" ELSE "refused_text"
       /\ chain' \in PlainErrors
       /\ obs' = ObserveRefusal(o)
       /\ UNCHANGED stdout
  ELSE WriteStdout(kind, names, len, mode, o, "clean")

-----------------------------------------------------------------------------
(* The steps of try_main                                                   *)

\* Arguments, graph root, configuration; a covered command is activated, and
\* recorded if its start event fits and was published.
Load ==
  /\ pc = "load"
  /\ UNCHANGED <<args, delivered, stdout, stderr, told, exit, event>>
  /\ \/ /\ result' = "failed" /\ chain' \in ErrorChains
        /\ pc' = "report"
        /\ UNCHANGED <<hints, obs>>
     \/ /\ pc' = "evaluate"
        /\ hints' \in IF args.cmd \in Covered THEN {<<>>, <<"config">>}
                                              ELSE {<<>>}
        /\ \E published \in BOOLEAN, len \in StartLens :
             obs' = [obs EXCEPT !.active = /\ args.cmd \in Covered
                                           /\ FitsIn(len, EventLimit)
                                           /\ published]
        /\ UNCHANGED <<result, chain>>

\* The graph is built and read: findings, hints, or an error.
Evaluate ==
  /\ pc = "evaluate"
  /\ UNCHANGED <<args, delivered, stdout, stderr, told, exit, event>>
  /\ IF args.cmd \in Covered
     THEN /\ \E records \in FindingLists :
               obs' = ObserveFindings(obs, "construction", records)
          /\ hints' \in {hints, Append(hints, "run")}
     ELSE UNCHANGED <<hints, obs>>
  /\ \/ /\ result' = "failed" /\ chain' \in ErrorChains
        /\ pc' = "route"
     \/ /\ pc' = "render"
        /\ UNCHANGED <<result, chain>>

\* check and impact replace the findings by those they report.
Judged(o) ==
  CASE args.cmd = "check" ->
         {ObserveFindings(o, "full", records) : records \in FindingLists}
    [] args.cmd = "impact" ->
         {ObserveFindings(o, "selected", records) : records \in FindingLists}
    [] OTHER -> {o}

WithLargeHint(len) ==
  IF len >= LargeBytes THEN Append(hints, "large") ELSE hints

Embeds == args.json /\ args.cmd \in {"check", "nodes", "impact", "lock"}
Bare == args.cmd = "raw" \/ (args.json /\ args.cmd = "graph")

Clean == IF args.cmd = "check" THEN {"clean", "violations"} ELSE {"clean"}

\* A drft envelope: print_json_document, and the JSON of run_check.
RenderDocument(o, size) ==
  LET measured == size + LenOf(hints)
      all == IF args.cmd = "check" THEN hints ELSE WithLargeHint(measured)
      len == size + LenOf(all) + 1
  IN  /\ Embeds
      /\ size > 0
      /\ hints' = all
      /\ delivered' = TRUE
      /\ IF args.cmd = "check"
         THEN \E good \in Clean :
                WriteStdout("document", Range(all), len, "json",
                            ObserveEmbedded(o), good)
         ELSE PrintWithin("document", Range(all), len, "json", TRUE,
                          ObserveEmbedded(o))

\* A document of another format: composed JGF, or the raw graph set, which
\* is JSON whatever was asked for.
RenderBare(o, size) ==
  /\ Bare
  /\ size > 0
  /\ hints' = WithLargeHint(size)
  /\ UNCHANGED delivered
  /\ IF args.cmd = "raw"
     THEN PrintWithin("graph_set", {}, size + 1, "raw_graph_set", TRUE, o)
     ELSE PrintWithin("jgf", {}, size + 1, "bare_jgf", TRUE, o)

\* Text: a projection with its budget, the lines of check and lock without.
RenderText(o, size) ==
  /\ ~Embeds /\ ~Bare /\ args.cmd \in Covered
  /\ UNCHANGED delivered
  /\ IF args.cmd \in {"check", "lock"}
     THEN /\ UNCHANGED hints
          /\ args.cmd = "lock" => size > 0
          /\ \E good \in Clean :
               WriteStdout("text", {}, size, "text", o, good)
     ELSE /\ hints' = WithLargeHint(size)
          /\ PrintWithin("text", {}, size, "text", FALSE, o)

\* A command that is not recorded, and whose hints nobody raised.
RenderOther(o, size) ==
  /\ args.cmd \notin Covered
  /\ UNCHANGED <<hints, delivered>>
  /\ IF args.cmd = "init"
     THEN /\ result' = "clean"
          /\ obs' = o
          /\ UNCHANGED <<stdout, chain>>
     ELSE WriteStdout("text", {}, size, "text", o, "clean")

Render ==
  /\ pc = "render"
  /\ pc' = "route"
  /\ UNCHANGED <<args, stderr, told, exit, event>>
  /\ \E o \in Judged(obs), size \in Sizes :
       \/ RenderDocument(o, size)
       \/ RenderBare(o, size)
       \/ RenderText(o, size)
       \/ RenderOther(o, size)

Ok == result \in {"clean", "violations"}

Undelivered == hints # <<>> /\ ~delivered

\* A plausible bug: the error path is not left alone.
HintsOnTheirOwn_OnErrorsToo == Undelivered /\ args.json

HintsOnTheirOwn == Undelivered /\ args.json /\ Ok

HintsAsText ==
  /\ Undelivered
  /\ ~args.json
  /\ result \notin {"closed", "refused_json"}

\* The hints that no document carried: an envelope of their own,
RouteEnvelope ==
  /\ pc = "route" /\ HintsOnTheirOwn
  /\ WriteStderr("hint_envelope", Range(hints), LenOf(hints) + 1,
                 ObserveStderrAttempt(obs, "stderr_json"), told, "report")

\* line by line,
RouteLine ==
  /\ pc = "route" /\ HintsAsText /\ told < Len(hints)
  /\ WriteStderr("hint", {hints[told + 1]}, HintLen[hints[told + 1]] + 1,
                 ObserveStderrAttempt(obs, "stderr_text"), told + 1, "route")

\* or not at all, here.
RouteNothing ==
  /\ pc = "route"
  /\ ~HintsOnTheirOwn
  /\ HintsAsText => told = Len(hints)
  /\ pc' = "report"
  /\ obs' = IF Undelivered /\ ~HintsAsText /\ StdoutWriteFailed(obs)
            THEN ObserveSuppression(obs, "earlier_write_failure") ELSE obs
  /\ UNCHANGED <<args, hints, delivered, result, chain, stdout, stderr, told,
                 exit, event>>

-----------------------------------------------------------------------------
(* The rest of main                                                        *)

ErrorAsJson == args.scan = "json" \/ result = "refused_json"

\* The arguments are only scanned when there is an error to report.
ScanPanics ==
  /\ pc = "report"
  /\ ~Ok /\ result # "closed"
  /\ args.scan = "panics"
  /\ Panic
  /\ UNCHANGED <<stderr, obs>>

ReportError ==
  /\ pc = "report"
  /\ ~Ok /\ result # "closed"
  /\ args.scan # "panics"
  /\ IF ErrorAsJson
     THEN WriteStderr("error_envelope", Range(hints),
            TotalLen(chain) + LenOf(hints) + 1,
            IF hints # <<>> THEN ObserveStderrAttempt(obs, "stderr_json")
                            ELSE obs,
            told, "finish")
     ELSE WriteStderr("error", {}, TotalLen(chain) + 1, obs, told, "finish")

ReportNothing ==
  /\ pc = "report"
  /\ Ok \/ result = "closed"
  /\ pc' = "finish"
  /\ UNCHANGED <<args, hints, delivered, result, chain, stdout, stderr, told,
                 obs, exit, event>>

\* A plausible bug: the recorder is asked whether the reader has gone.
ExitCode_ByTheRecorder ==
  CASE result = "clean" \/ StdoutWriteFailed(obs) -> "0"
    [] result = "violations" -> "1"
    [] OTHER -> "2"

ExitCode ==
  CASE result \in {"clean", "closed"} -> "0"
    [] result = "violations" -> "1"
    [] OTHER -> "2"

Refusal == result \in {"refused_json", "refused_text"}

\* A plausible bug: only a reader that has gone counts as a failed write.
Completion_ByErrorOnly ==
  IF Ok THEN "returned"
  ELSE IF Refusal THEN "output_budget_refused"
  ELSE IF result = "closed" THEN "stdout_write_failed"
  ELSE "command_error"

Completion ==
  IF Ok THEN "returned"
  ELSE IF Refusal THEN "output_budget_refused"
  ELSE IF result = "closed" \/ StdoutWriteFailed(obs) THEN "stdout_write_failed"
  ELSE "command_error"

FinishInput ==
  [exit |-> CASE ExitCode = "0" -> "clean"
              [] ExitCode = "1" -> "violations"
              [] OTHER -> "usage_error",
   completion |-> Completion, mode |-> obs.mode, hint |-> obs.hint,
   refusal |-> obs.refused, findings |-> obs.findings,
   hints |-> HintRecords(hints),
   chain |-> chain, stdout |-> obs.stdout, stderr |-> obs.stderr]

Finish ==
  /\ pc = "finish"
  /\ pc' = "done"
  /\ exit' = ExitCode
  /\ event' = IF obs.active THEN FinishEvent(FinishInput) ELSE NoEvent
  /\ UNCHANGED <<args, hints, delivered, result, chain, stdout, stderr, told,
                 obs>>

Next ==
  \/ Load \/ Evaluate \/ Render
  \/ RouteEnvelope \/ RouteLine \/ RouteNothing
  \/ ScanPanics \/ ReportError \/ ReportNothing \/ Finish

Spec == Init /\ [][Next]_vars

-----------------------------------------------------------------------------
(* Properties                                                              *)

CarriedBy(texts, h) == {i \in DOMAIN texts : texts[i].ok /\ h \in texts[i].hints}

\* Whoever still reads what the invocation writes is told each hint once: in
\* the result, on a line, in an envelope of its own, or with the error that
\* ended the command - and in text before that error
\* (src/docs/reading.md:149).  A reader that went away is left alone.
HintsReachTheReaderOnce ==
  pc = "done" =>
    IF result = "closed"
    THEN stderr = <<>>
    ELSE /\ \A h \in Range(hints) :
              Cardinality(CarriedBy(stdout, h))
                + Cardinality(CarriedBy(stderr, h)) = 1
         /\ \A i, j \in DOMAIN stderr :
              stderr[i].kind = "error" /\ stderr[j].kind = "hint" => j < i

\* --max-bytes is kept to by everything the command puts on stdout, hints
\* and newline included, and a refusal comes before the first byte, with
\* exit status 2 and one record on stderr that explains it
\* (src/docs/reading.md:116).
BudgetIsAtomic ==
  /\ args.max # NoBudget =>
       /\ Len(stdout) <= 1
       /\ ~ \E i \in DOMAIN stdout : stdout[i].len > args.max
  /\ Refusal => /\ stdout = <<>>
                /\ pc = "done" =>
                     /\ exit = "2"
                     /\ \E i \in DOMAIN stderr : \A j \in DOMAIN stderr :
                          stderr[j].kind \in {"error", "error_envelope"} <=> j = i

\* A stream's capture agrees with what was really written to it.
AccountsFor(snapshot, texts) ==
  /\ snapshot.prefix = [i \in 1 .. Len(snapshot.prefix) |-> i]
  /\ IF TotalLen(texts) <= CountMax
     THEN snapshot.observed = Exact(TotalLen(texts))
     ELSE snapshot.observed = Overflow
  /\ snapshot.outcome.status =
       IF texts = <<>> THEN "not_attempted"
       ELSE IF \A i \in DOMAIN texts : texts[i].ok THEN "all_succeeded"
       ELSE "unknown_acceptance"

Attempted(texts) ==
  \E i \in DOMAIN texts : texts[i].kind = "document" \/ texts[i].hints # {}

\* The finish event tells what happened: how the command ended, what became
\* of its output, which hints there were and whether and where somebody
\* tried to write them.
FinishTellsWhatHappened ==
  event # NoEvent =>
    /\ event.completion = "output_budget_refused" <=> Refusal
    /\ event.completion = "stdout_write_failed"
         <=> \E i \in DOMAIN stdout : ~stdout[i].ok
    /\ event.completion = "returned" <=> Ok
    /\ event.exit = "usage_error" <=> exit = "2"
    /\ event.structured.hints.total = Available(Len(hints))
    /\ AccountsFor(event.stdout, stdout)
    /\ AccountsFor(event.stderr, stderr)
    /\ event.hint.attempt = "attempted"
         <=> Attempted(stdout) \/ Attempted(stderr)
    /\ event.hint.route \in {"stderr_text", "stderr_json"}
         <=> Attempted(stderr)
    /\ event.hint.suppression # "none" =>
         event.completion \in {"output_budget_refused", "stdout_write_failed"}

\* Whatever was captured, and however much of it had to be left out, the
\* reader takes the finish for a finish.
ReaderAcceptsTheFinish == event # NoEvent => SupportedFinish(event)

\* Findings, hints, errors and output are optional: however many there are,
\* admitting them never makes an event too large that was possible without.
OptionalPartsNeverCostTheFinish ==
  pc = "done" /\ obs.active /\ FitsBlank(Blank(FinishInput)) => event # NoEvent
=============================================================================
