---------------------------- MODULE ReportProofs ----------------------------
(***************************************************************************)
(* Proofs about Report for every set of commands, budgets, lengths and     *)
(* errors: being recorded changes nothing about an invocation, --max-bytes *)
(* holds, each hint is told once, and the finish event that is published   *)
(* is accepted by its reader, tells what happened and is never refused for *)
(* its optional parts.                                                     *)
(***************************************************************************)
EXTENDS ReportUnrecorded, FiniteSetTheorems, TLAPS

-----------------------------------------------------------------------------
(* A recorder that is not active is never changed by what it observes.     *)

LEMMA PlainNotRecording == Plain!NotRecording = NotRecording
  BY DEF Plain!NotRecording, NotRecording, Plain!NewCapture, NewCapture,
         Plain!NothingRetained, NothingRetained, Plain!InitialHint,
         InitialHint, Plain!Exact, Exact

LEMMA NotActive == NotRecording.active = FALSE
  BY DEF NotRecording

LEMMA StaysInactive ==
  [NotRecording EXCEPT !.active = FALSE] = NotRecording
  <1>1. DOMAIN [NotRecording EXCEPT !.active = FALSE] = DOMAIN NotRecording
    OBVIOUS
  <1>2. \A x \in DOMAIN NotRecording :
          [NotRecording EXCEPT !.active = FALSE][x] = NotRecording[x]
    BY NotActive
  <1>3. QED
    BY <1>1, <1>2 DEF NotRecording

LEMMA PlainObserves ==
  ASSUME NEW x, NEW y
  PROVE  /\ Plain!ObserveFindings(NotRecording, x, y) = NotRecording
         /\ Plain!ObserveEmbedded(NotRecording) = NotRecording
         /\ Plain!ObserveStderrAttempt(NotRecording, x) = NotRecording
         /\ Plain!ObserveSuppression(NotRecording, x) = NotRecording
         /\ Plain!ObserveRefusal(NotRecording) = NotRecording
         /\ Plain!StdoutWriteFailed(NotRecording) = FALSE
  BY NotActive
  DEF Plain!ObserveFindings, Plain!ObserveEmbedded, Plain!ObserveStderrAttempt,
      Plain!ObserveSuppression, Plain!ObserveRefusal, Plain!StdoutWriteFailed,
      Plain!Recording

LEMMA PlainObservesStdout ==
  ASSUME NEW mode, NEW bytes, NEW ok
  PROVE  Plain!ObserveStdout(NotRecording, mode, bytes, ok) = NotRecording
  BY NotActive DEF Plain!ObserveStdout, Plain!Recording

LEMMA PlainObservesStderr ==
  ASSUME NEW bytes
  PROVE  Plain!ObserveStderr(NotRecording, bytes) = NotRecording
  BY NotActive DEF Plain!ObserveStderr, Plain!Recording

-----------------------------------------------------------------------------
(* The unrecorded invocation has the same arguments, lengths and texts.    *)

LEMMA PlainConstants ==
  /\ Plain!NoBudget = NoBudget
  /\ Plain!Covered = Covered
  /\ Plain!Budgeted = Budgeted
  /\ Plain!WithOperands = WithOperands
  /\ Plain!PlainErrors = PlainErrors
  /\ Plain!NoEvent = NoEvent
  BY DEF Plain!NoBudget, NoBudget, Plain!Covered, Covered, Plain!Budgeted,
         Budgeted, Plain!WithOperands, WithOperands, Plain!PlainErrors,
         PlainErrors, Plain!NoEvent, NoEvent

LEMMA PlainArguments == Plain!Arguments = Arguments
  BY PlainConstants DEF Plain!Arguments, Arguments

LEMMA PlainInit == Init => Plain!Init
  BY PlainArguments, PlainNotRecording, PlainConstants DEF Init, Plain!Init

LEMMA PlainIsStill ==
  /\ NotRecording' = NotRecording
  /\ NoEvent' = NoEvent
  BY DEF NotRecording, NoEvent, NewCapture, NothingRetained, InitialHint, Exact

LEMMA PlainLoad == Load => Plain!Load
  <1> SUFFICES ASSUME Load PROVE Plain!Load
    OBVIOUS
  <1>1. CASE pc' = "report"
    BY <1>1, PlainConstants, PlainIsStill DEF Load, Plain!Load
  <1>2. CASE pc' = "evaluate"
    <2>1. PICK len \in StartLens : TRUE
      BY <1>2 DEF Load
    <2>2. (/\ args.cmd \in Plain!Covered
           /\ Plain!FitsIn(len, EventLimit)
           /\ FALSE) = FALSE
      OBVIOUS
    <2>3. NotRecording = [NotRecording EXCEPT !.active =
                            /\ args.cmd \in Plain!Covered
                            /\ Plain!FitsIn(len, EventLimit)
                            /\ FALSE]
      BY StaysInactive, <2>2, Zenon
    <2>4. \E published \in BOOLEAN, l \in StartLens :
            NotRecording' = [NotRecording EXCEPT !.active =
                              /\ args.cmd \in Plain!Covered
                              /\ Plain!FitsIn(l, EventLimit)
                              /\ published]
      <3>1. FALSE \in BOOLEAN
        OBVIOUS
      <3>2. QED
        BY <2>1, <2>3, <3>1, PlainIsStill, Zenon
    <2>5. QED
      BY <1>2, <2>4, PlainConstants, PlainIsStill DEF Load, Plain!Load
  <1>3. QED
    BY <1>1, <1>2 DEF Load

LEMMA PlainEvaluate == Evaluate => Plain!Evaluate
  BY PlainConstants, PlainIsStill, PlainObserves DEF Evaluate, Plain!Evaluate

LEMMA PlainExceeds == ASSUME NEW len PROVE Plain!Exceeds(len) = Exceeds(len)
  BY PlainConstants DEF Plain!Exceeds, Exceeds

LEMMA PlainTotalLen ==
  ASSUME NEW records PROVE Plain!TotalLen(records) = TotalLen(records)
  BY DEF Plain!TotalLen, TotalLen

LEMMA PlainLenOf == ASSUME NEW hs PROVE Plain!LenOf(hs) = LenOf(hs)
  BY PlainTotalLen DEF Plain!LenOf, LenOf, Plain!HintRecords, HintRecords

LEMMA PlainWriteStdout ==
  ASSUME NEW kind, NEW names, NEW len, NEW mode, NEW o, NEW good,
         WriteStdout(kind, names, len, mode, o, good)
  PROVE  Plain!WriteStdout(kind, names, len, mode, NotRecording, good)
  <1>1. \A outcome, bytes :
          NotRecording'
            = Plain!ObserveStdout(NotRecording, mode, bytes, outcome = "written")
    BY NotActive, PlainIsStill DEF Plain!ObserveStdout, Plain!Recording
  <1>2. QED
    BY <1>1, PlainConstants DEF WriteStdout, Plain!WriteStdout

LEMMA PlainPrintWithin ==
  ASSUME NEW kind, NEW names, NEW len, NEW mode, NEW json, NEW o,
         PrintWithin(kind, names, len, mode, json, o)
  PROVE  Plain!PrintWithin(kind, names, len, mode, json, NotRecording)
  <1>1. CASE Exceeds(len)
    BY <1>1, PlainConstants, PlainIsStill, PlainObserves, PlainExceeds
    DEF PrintWithin, Plain!PrintWithin
  <1>2. CASE ~Exceeds(len)
    BY <1>2, PlainExceeds, PlainWriteStdout DEF PrintWithin, Plain!PrintWithin
  <1>3. QED
    BY <1>1, <1>2

LEMMA PlainJudged ==
  ASSUME NEW o \in Judged(obs)
  PROVE  NotRecording \in Plain!Judged(NotRecording)
  BY PlainObserves DEF Judged, Plain!Judged

LEMMA PlainRenderDocument ==
  ASSUME NEW o, NEW size, RenderDocument(o, size)
  PROVE  Plain!RenderDocument(NotRecording, size)
  <1>1. Plain!Embeds = Embeds /\ Plain!Clean = Clean
    BY DEF Embeds, Plain!Embeds, Clean, Plain!Clean
  <1>2. \A n : Plain!WithLargeHint(n) = WithLargeHint(n)
    BY DEF WithLargeHint, Plain!WithLargeHint
  <1>3. \A f : Plain!Range(f) = Range(f)
    BY DEF Range, Plain!Range
  <1>4. Plain!ObserveEmbedded(NotRecording) = NotRecording
    BY PlainObserves
  <1>5. \A kind, names, len, mode, good :
          WriteStdout(kind, names, len, mode, ObserveEmbedded(o), good)
            => Plain!WriteStdout(kind, names, len, mode, NotRecording, good)
    BY PlainWriteStdout
  <1>6. \A kind, names, len, mode, json :
          PrintWithin(kind, names, len, mode, json, ObserveEmbedded(o))
            => Plain!PrintWithin(kind, names, len, mode, json, NotRecording)
    BY PlainPrintWithin
  <1>7. QED
    BY <1>1, <1>2, <1>3, <1>4, <1>5, <1>6, PlainLenOf
    DEF RenderDocument, Plain!RenderDocument

LEMMA PlainRenderBare ==
  ASSUME NEW o, NEW size, RenderBare(o, size)
  PROVE  Plain!RenderBare(NotRecording, size)
  BY PlainPrintWithin
  DEF RenderBare, Plain!RenderBare, Bare, Plain!Bare, WithLargeHint,
      Plain!WithLargeHint

LEMMA PlainRenderText ==
  ASSUME NEW o, NEW size, RenderText(o, size)
  PROVE  Plain!RenderText(NotRecording, size)
  BY PlainPrintWithin, PlainWriteStdout, PlainConstants
  DEF RenderText, Plain!RenderText, Bare, Plain!Bare, Embeds, Plain!Embeds,
      WithLargeHint, Plain!WithLargeHint, Clean, Plain!Clean

LEMMA PlainRenderOther ==
  ASSUME NEW o, NEW size, RenderOther(o, size)
  PROVE  Plain!RenderOther(NotRecording, size)
  BY PlainWriteStdout, PlainConstants, PlainIsStill
  DEF RenderOther, Plain!RenderOther

LEMMA PlainRender == Render => Plain!Render
  BY PlainJudged, PlainRenderDocument, PlainRenderBare, PlainRenderText,
     PlainRenderOther, PlainIsStill
  DEF Render, Plain!Render

LEMMA PlainWriteStderr ==
  ASSUME NEW kind, NEW names, NEW len, NEW o, NEW n, NEW next,
         WriteStderr(kind, names, len, o, n, next)
  PROVE  Plain!WriteStderr(kind, names, len, NotRecording, n, next)
  <1>1. \A bytes : NotRecording' = Plain!ObserveStderr(NotRecording, bytes)
    BY PlainObservesStderr, PlainIsStill
  <1>2. QED
    BY <1>1, PlainConstants, PlainIsStill
    DEF WriteStderr, Plain!WriteStderr, Panic, Plain!Panic

LEMMA PlainRouting ==
  /\ Plain!Undelivered = Undelivered
  /\ Plain!Ok = Ok
  /\ Plain!HintsOnTheirOwn = HintsOnTheirOwn
  /\ Plain!HintsAsText = HintsAsText
  BY DEF Undelivered, Plain!Undelivered, Ok, Plain!Ok, HintsOnTheirOwn,
         Plain!HintsOnTheirOwn, HintsAsText, Plain!HintsAsText

LEMMA PlainRouteEnvelope == RouteEnvelope => Plain!RouteEnvelope
  BY PlainRouting, PlainLenOf, PlainWriteStderr, PlainObserves
  DEF RouteEnvelope, Plain!RouteEnvelope, Range, Plain!Range

LEMMA PlainRouteLine == RouteLine => Plain!RouteLine
  BY PlainRouting, PlainWriteStderr, PlainObserves
  DEF RouteLine, Plain!RouteLine

LEMMA PlainRouteNothing == RouteNothing => Plain!RouteNothing
  BY PlainRouting, PlainObserves, PlainIsStill, PlainConstants
  DEF RouteNothing, Plain!RouteNothing

LEMMA PlainScanPanics == ScanPanics => Plain!ScanPanics
  BY PlainIsStill, PlainRouting, PlainConstants
  DEF ScanPanics, Plain!ScanPanics, Panic, Plain!Panic

LEMMA PlainReportError == ReportError => Plain!ReportError
  BY PlainRouting, PlainLenOf, PlainTotalLen, PlainWriteStderr, PlainObserves
  DEF ReportError, Plain!ReportError, ErrorAsJson, Plain!ErrorAsJson, Range,
      Plain!Range

LEMMA PlainReportNothing == ReportNothing => Plain!ReportNothing
  BY PlainRouting, PlainIsStill DEF ReportNothing, Plain!ReportNothing

LEMMA PlainFinish == Finish => Plain!Finish
  BY PlainIsStill, PlainConstants, NotActive
  DEF Finish, Plain!Finish, ExitCode, Plain!ExitCode

LEMMA PlainStutter == UNCHANGED vars => UNCHANGED Plain!vars
  BY PlainIsStill DEF vars, Plain!vars

\* Collection never changes output or status (lifecycle.rs, main.rs): every
\* behaviour of an invocation, its recorder forgotten, is a behaviour of one
\* that nobody records.
THEOREM RecordingIsInvisible == Spec => UsageIsInvisible
  <1>1. Init => Plain!Init
    BY PlainInit
  <1>2. [Next]_vars => [Plain!Next]_(Plain!vars)
    BY PlainLoad, PlainEvaluate, PlainRender, PlainRouteEnvelope,
       PlainRouteLine, PlainRouteNothing, PlainScanPanics, PlainReportError,
       PlainReportNothing, PlainFinish, PlainStutter
    DEF Next, Plain!Next
  <1>3. QED
    BY <1>1, <1>2, PTL DEF Spec, UsageIsInvisible, Plain!Spec

-----------------------------------------------------------------------------
(* --max-bytes.  What is written before the result, and what is written    *)
(* after a refusal, decide it: nothing reaches stdout before Render, and no*)
(* error is reported before ReportError, which ends the reporting.         *)

IsSequence(s) == \E S : s \in Seq(S)

LEMMA AppendedOne ==
  ASSUME NEW s, IsSequence(s), NEW e
  PROVE  /\ IsSequence(Append(s, e))
         /\ Len(Append(s, e)) = Len(s) + 1
         /\ Len(s) \in Nat
         /\ DOMAIN s = 1 .. Len(s)
         /\ DOMAIN Append(s, e) = 1 .. Len(s) + 1
         /\ \A i \in 1 .. Len(s) : Append(s, e)[i] = s[i]
         /\ Append(s, e)[Len(s) + 1] = e
  <1>1. PICK S : s \in Seq(S)
    BY DEF IsSequence
  <1>2. s \in Seq(S \cup {e})
    BY <1>1
  <1>3. Append(s, e) \in Seq(S \cup {e})
    BY <1>2
  <1>4. QED
    BY <1>2, <1>3 DEF IsSequence

ErrorKinds == {"error", "error_envelope"}

Streams == IsSequence(stdout) /\ IsSequence(stderr)

Quiet ==
  pc \in {"load", "evaluate", "render"} => stdout = <<>> /\ result = "none"

WithinBudget ==
  args.max # NoBudget =>
    /\ Len(stdout) <= 1
    /\ ~ \E i \in DOMAIN stdout : stdout[i].len > args.max

RefusedFirst == Refusal => stdout = <<>>

NoErrorYet ==
  pc \in {"load", "evaluate", "render", "route", "report"} =>
    \A i \in DOMAIN stderr : stderr[i].kind \notin ErrorKinds

OneError ==
  pc \in {"finish", "done"} /\ Refusal =>
    \E i \in DOMAIN stderr : \A j \in DOMAIN stderr :
      stderr[j].kind \in ErrorKinds <=> j = i

ExitTells == pc = "done" /\ Refusal => exit = "2"

BudgetInvariant ==
  /\ args \in Arguments
  /\ Streams /\ Quiet /\ WithinBudget /\ RefusedFirst
  /\ NoErrorYet /\ OneError /\ ExitTells

LEMMA BudgetInit == Init => BudgetInvariant
  <1> SUFFICES ASSUME Init PROVE BudgetInvariant
    OBVIOUS
  <1>1. IsSequence(<<>>)
    BY DEF IsSequence
  <1>2. QED
    BY <1>1 DEF Init, BudgetInvariant, Streams, Quiet, WithinBudget,
                RefusedFirst, Refusal, NoErrorYet, OneError, ExitTells

\* An error ends the reporting, and no line before it is one.
LEMMA StderrKept ==
  ASSUME BudgetInvariant,
         NEW kind, NEW names, NEW len, NEW o, NEW n, NEW next,
         WriteStderr(kind, names, len, o, n, next),
         pc \in {"route", "report"},
         \/ kind \notin ErrorKinds /\ next \in {"route", "report"}
         \/ kind \in ErrorKinds /\ next = "finish"
  PROVE  BudgetInvariant'
  <1>1. PICK ok : /\ stderr' = Append(stderr, [kind |-> kind, hints |-> names,
                                              len |-> len, ok |-> ok])
                  /\ pc' \in {next, "dead"}
                  /\ UNCHANGED <<args, result, stdout>>
    BY DEF WriteStderr, Panic
  <1> DEFINE e == [kind |-> kind, hints |-> names, len |-> len, ok |-> ok]
  <1>2. /\ IsSequence(stderr')
        /\ Len(stderr) \in Nat
        /\ DOMAIN stderr = 1 .. Len(stderr)
        /\ DOMAIN stderr' = 1 .. Len(stderr) + 1
        /\ \A i \in 1 .. Len(stderr) : stderr'[i] = stderr[i]
        /\ stderr'[Len(stderr) + 1].kind = kind
    BY <1>1, AppendedOne DEF BudgetInvariant, Streams
  <1>3. \A i \in 1 .. Len(stderr) : stderr[i].kind \notin ErrorKinds
    BY <1>2 DEF BudgetInvariant, NoErrorYet
  <1>4. NoErrorYet'
    BY <1>1, <1>2, <1>3 DEF NoErrorYet
  <1>5. OneError'
    <2> SUFFICES ASSUME pc' = "finish"
        PROVE  \E i \in DOMAIN stderr' : \A j \in DOMAIN stderr' :
                 stderr'[j].kind \in ErrorKinds <=> j = i
      BY <1>1 DEF OneError
    <2>1. kind \in ErrorKinds
      BY <1>1
    <2>2. \A j \in DOMAIN stderr' :
            stderr'[j].kind \in ErrorKinds <=> j = Len(stderr) + 1
      BY <1>2, <1>3, <2>1
    <2>3. QED
      BY <1>2, <2>2
  <1>6. QED
    BY <1>1, <1>2, <1>4, <1>5
    DEF BudgetInvariant, Streams, Quiet, WithinBudget, RefusedFirst, Refusal,
        ExitTells

\* What one write of the result may leave behind.
Rendered ==
  /\ IsSequence(stdout')
  /\ args.max # NoBudget =>
       Len(stdout') <= 1 /\ ~ \E i \in DOMAIN stdout' : stdout'[i].len > args.max
  /\ result' \in {"refused_json", "refused_text"} => stdout' = <<>>

LEMMA FirstText ==
  ASSUME NEW e, stdout = <<>>, stdout' = Append(stdout, e)
  PROVE  /\ IsSequence(stdout') /\ Len(stdout') = 1
         /\ \A i \in DOMAIN stdout' : stdout'[i] = e
  <1>1. IsSequence(stdout) /\ Len(stdout) = 0
    BY DEF IsSequence
  <1>2. /\ IsSequence(stdout') /\ Len(stdout') = Len(stdout) + 1
        /\ DOMAIN stdout' = 1 .. Len(stdout) + 1
        /\ stdout'[Len(stdout) + 1] = e
    BY <1>1, AppendedOne
  <1>3. QED
    BY <1>1, <1>2

LEMMA WriteStdoutRenders ==
  ASSUME NEW kind, NEW names, NEW len, NEW mode, NEW o,
         NEW good \in {"clean", "violations"},
         stdout = <<>>, ~Exceeds(len),
         WriteStdout(kind, names, len, mode, o, good)
  PROVE  Rendered
  <1>1. PICK outcome \in {"written", "closed", "stdout_failed"} :
          /\ stdout' = Append(stdout, [kind |-> kind, hints |-> names,
                                      len |-> len, ok |-> outcome = "written"])
          /\ result' = IF outcome = "written" THEN good ELSE outcome
    BY DEF WriteStdout
  <1>2. /\ IsSequence(stdout') /\ Len(stdout') = 1
        /\ \A i \in DOMAIN stdout' : stdout'[i].len = len
    BY <1>1, FirstText
  <1>3. result' \notin {"refused_json", "refused_text"}
    BY <1>1
  <1>4. QED
    BY <1>2, <1>3 DEF Rendered, Exceeds

LEMMA PrintWithinRenders ==
  ASSUME NEW kind, NEW names, NEW len, NEW mode, NEW json, NEW o,
         stdout = <<>>, PrintWithin(kind, names, len, mode, json, o)
  PROVE  Rendered
  <1>1. CASE Exceeds(len)
    BY <1>1 DEF PrintWithin, Rendered, IsSequence
  <1>2. CASE ~Exceeds(len)
    <2>1. WriteStdout(kind, names, len, mode, o, "clean")
      BY <1>2 DEF PrintWithin
    <2>2. QED
      BY <1>2, <2>1, WriteStdoutRenders
  <1>3. QED
    BY <1>1, <1>2

\* A command that does not take the option has no budget.
LEMMA Unbudgeted ==
  ASSUME args \in Arguments, args.cmd \notin Budgeted, NEW len
  PROVE  ~Exceeds(len)
  BY DEF Arguments, Exceeds

LEMMA DocumentRenders ==
  ASSUME args \in Arguments, stdout = <<>>,
         NEW o, NEW size, RenderDocument(o, size)
  PROVE  Rendered
  <1>1. CASE args.cmd = "check"
    <2>1. \A len : ~Exceeds(len)
      BY <1>1, Unbudgeted DEF Budgeted
    <2>2. PICK names, len : \E good \in {"clean", "violations"} :
            WriteStdout("document", names, len, "json", ObserveEmbedded(o), good)
      BY <1>1 DEF RenderDocument, Clean
    <2>3. QED
      BY <2>1, <2>2, WriteStdoutRenders
  <1>2. CASE args.cmd # "check"
    <2>1. PICK names, len :
            PrintWithin("document", names, len, "json", TRUE, ObserveEmbedded(o))
      BY <1>2 DEF RenderDocument
    <2>2. QED
      BY <2>1, PrintWithinRenders
  <1>3. QED
    BY <1>1, <1>2

LEMMA BareRenders ==
  ASSUME stdout = <<>>, NEW o, NEW size, RenderBare(o, size)
  PROVE  Rendered
  BY PrintWithinRenders DEF RenderBare

LEMMA TextRenders ==
  ASSUME args \in Arguments, stdout = <<>>,
         NEW o, NEW size, RenderText(o, size)
  PROVE  Rendered
  <1>1. CASE args.cmd \in {"check", "lock"}
    <2>1. ~Exceeds(size)
      BY <1>1, Unbudgeted DEF Budgeted
    <2>2. PICK good \in {"clean", "violations"} :
            WriteStdout("text", {}, size, "text", o, good)
      BY <1>1 DEF RenderText, Clean
    <2>3. QED
      BY <2>1, <2>2, WriteStdoutRenders
  <1>2. CASE args.cmd \notin {"check", "lock"}
    BY <1>2, PrintWithinRenders DEF RenderText
  <1>3. QED
    BY <1>1, <1>2

LEMMA OtherRenders ==
  ASSUME args \in Arguments, stdout = <<>>,
         NEW o, NEW size, RenderOther(o, size)
  PROVE  Rendered
  <1>1. ~Exceeds(size)
    BY Unbudgeted DEF RenderOther, Budgeted, Covered
  <1>2. CASE args.cmd = "init"
    BY <1>2 DEF RenderOther, Rendered, IsSequence
  <1>3. CASE args.cmd # "init"
    BY <1>1, <1>3, WriteStdoutRenders DEF RenderOther
  <1>4. QED
    BY <1>2, <1>3

LEMMA BudgetStep == BudgetInvariant /\ [Next]_vars => BudgetInvariant'
  <1> SUFFICES ASSUME BudgetInvariant, [Next]_vars PROVE BudgetInvariant'
    OBVIOUS
  <1> USE DEF Refusal
  <1>1. CASE Load
    BY <1>1 DEF Load, BudgetInvariant, Streams, Quiet, WithinBudget,
                RefusedFirst, NoErrorYet, OneError, ExitTells
  <1>2. CASE Evaluate
    BY <1>2 DEF Evaluate, BudgetInvariant, Streams, Quiet, WithinBudget,
                RefusedFirst, NoErrorYet, OneError, ExitTells
  <1>3. CASE Render
    <2>1. args \in Arguments /\ stdout = <<>>
      BY <1>3 DEF Render, BudgetInvariant, Quiet
    <2>2. Rendered
      BY <1>3, <2>1, DocumentRenders, BareRenders, TextRenders, OtherRenders
      DEF Render
    <2>3. pc = "render" /\ pc' = "route" /\ UNCHANGED <<args, stderr>>
      BY <1>3 DEF Render
    <2>4. QED
      BY <2>2, <2>3
      DEF Rendered, BudgetInvariant, Streams, Quiet, WithinBudget,
          RefusedFirst, NoErrorYet, OneError, ExitTells
  <1>4. CASE RouteEnvelope
    BY <1>4, StderrKept DEF RouteEnvelope, ErrorKinds
  <1>5. CASE RouteLine
    BY <1>5, StderrKept DEF RouteLine, ErrorKinds
  <1>6. CASE RouteNothing
    BY <1>6 DEF RouteNothing, BudgetInvariant, Streams, Quiet, WithinBudget,
                RefusedFirst, NoErrorYet, OneError, ExitTells
  <1>7. CASE ReportError
    BY <1>7, StderrKept DEF ReportError, ErrorKinds
  <1>8. CASE ReportNothing
    BY <1>8 DEF ReportNothing, Ok, BudgetInvariant, Streams, Quiet,
                WithinBudget, RefusedFirst, NoErrorYet, OneError, ExitTells
  <1>9. CASE Finish
    BY <1>9 DEF Finish, ExitCode, BudgetInvariant, Streams, Quiet,
                WithinBudget, RefusedFirst, NoErrorYet, OneError, ExitTells
  <1>10. CASE UNCHANGED vars
    BY <1>10 DEF vars, BudgetInvariant, Streams, Quiet, WithinBudget,
                 RefusedFirst, NoErrorYet, OneError, ExitTells
  <1>11. CASE ScanPanics
    BY <1>11 DEF ScanPanics, Panic, Refusal, BudgetInvariant, Streams, Quiet,
                 WithinBudget, RefusedFirst, NoErrorYet, OneError, ExitTells
  <1>12. QED
    BY <1>1, <1>2, <1>3, <1>4, <1>5, <1>6, <1>7, <1>8, <1>9, <1>10, <1>11
    DEF Next

\* enforce_output_budget (main.rs): whatever the commands, budgets and sizes,
\* nothing on stdout exceeds --max-bytes, and a refusal precedes the first
\* byte, exits with 2 and is explained by one record on stderr.
THEOREM BudgetKept == Spec => []BudgetIsAtomic
  <1>1. BudgetInvariant => BudgetIsAtomic
    BY DEF BudgetInvariant, WithinBudget, RefusedFirst, OneError, ExitTells,
           ErrorKinds, BudgetIsAtomic
  <1>2. QED
    BY <1>1, BudgetInit, BudgetStep, PTL DEF Spec

-----------------------------------------------------------------------------
(* Hints.  Each is raised once; the document of a command that succeeded   *)
(* has them all; the rest of the invocation depends on whether it has.     *)

\* One line for each of the first n hints.
Lines(texts, n) ==
  /\ Len(texts) = n
  /\ \A i \in 1 .. n : /\ texts[i].kind = "hint" /\ texts[i].ok
                       /\ texts[i].hints = {hints[i]}

\* One text, for all of them.
Envelope(texts, kind) ==
  /\ Len(texts) = 1
  /\ texts[1].kind = kind /\ texts[1].ok /\ texts[1].hints = Range(hints)

Raised ==
  /\ IsSequence(hints)
  /\ \A i, j \in DOMAIN hints : hints[i] = hints[j] => i = j
  /\ pc = "load" => hints = <<>>
  /\ pc = "evaluate" => \A i \in DOMAIN hints : hints[i] = "config"
  /\ pc = "render" => \A i \in DOMAIN hints : hints[i] # "large"

Before ==
  pc \in {"load", "evaluate", "render"} =>
    ~delivered /\ told = 0 /\ stdout = <<>> /\ stderr = <<>> /\ result = "none"

InTheResult ==
  /\ pc = "route" => result # "none"
  /\ delivered => args.json
  /\ IF delivered /\ Ok THEN Envelope(stdout, "document")
     ELSE \A i \in DOMAIN stdout : ~stdout[i].ok \/ stdout[i].hints = {}

\* What RouteHints leaves on stderr.
OnTheSide ==
  IF HintsOnTheirOwn THEN Envelope(stderr, "hint_envelope")
  ELSE IF HintsAsText THEN Lines(stderr, Len(hints))
  ELSE stderr = <<>>

OnStderr ==
  /\ pc = "route" =>
       /\ told \in 0 .. Len(hints) /\ Lines(stderr, told)
       /\ told > 0 => HintsAsText
  /\ pc = "report" => OnTheSide
  /\ pc \in {"finish", "done"} =>
       IF Ok \/ result = "closed" THEN OnTheSide
       ELSE IF HintsAsText
       THEN /\ Len(stderr) = Len(hints) + 1
            /\ \A i \in 1 .. Len(hints) : stderr[i].kind = "hint" /\ stderr[i].ok
                                          /\ stderr[i].hints = {hints[i]}
            /\ stderr[Len(stderr)].kind = "error" /\ stderr[Len(stderr)].hints = {}
       ELSE \/ Envelope(stderr, "error_envelope")
            \/ Len(stderr) = 1 /\ hints = <<>> /\ stderr[1].hints = {}

HintInvariant ==
  /\ args \in Arguments /\ IsSequence(stdout) /\ IsSequence(stderr)
  /\ Raised /\ Before /\ InTheResult /\ OnStderr

LEMMA HintInit == Init => HintInvariant
  <1> SUFFICES ASSUME Init PROVE HintInvariant
    OBVIOUS
  <1>1. IsSequence(<<>>) /\ DOMAIN <<>> = {}
    BY DEF IsSequence
  <1>2. QED
    BY <1>1 DEF Init, HintInvariant, Raised, Before, InTheResult, OnStderr

LEMMA EmptyText ==
  ASSUME NEW s, IsSequence(s), Len(s) = 0 PROVE s = <<>>
  BY DEF IsSequence

\* Another hint is raised.
LEMMA RaisedOnce ==
  ASSUME Raised, NEW h, \A i \in DOMAIN hints : hints[i] # h
  PROVE  /\ IsSequence(Append(hints, h))
         /\ \A i, j \in DOMAIN Append(hints, h) :
              Append(hints, h)[i] = Append(hints, h)[j] => i = j
         /\ \A i \in DOMAIN Append(hints, h) :
              \/ Append(hints, h)[i] = h
              \/ i \in DOMAIN hints /\ Append(hints, h)[i] = hints[i]
  <1> DEFINE hs == Append(hints, h)
             n == Len(hints)
  <1>1. /\ IsSequence(hs) /\ n \in Nat
        /\ DOMAIN hints = 1 .. n /\ DOMAIN hs = 1 .. n + 1
        /\ \A i \in 1 .. n : hs[i] = hints[i]
        /\ hs[n + 1] = h
    BY AppendedOne DEF Raised
  <1>2. \A i, j \in DOMAIN hints : hints[i] = hints[j] => i = j
    BY DEF Raised
  <1> HIDE DEF hs, n
  <1>3. \A i \in 1 .. n + 1 : i \in 1 .. n \/ i = n + 1
    BY <1>1
  <1>4. \A i, j \in DOMAIN hs : hs[i] = hs[j] => i = j
    BY <1>1, <1>2, <1>3
  <1>5. \A i \in DOMAIN hs : hs[i] = h \/ (i \in DOMAIN hints /\ hs[i] = hints[i])
    BY <1>1, <1>3
  <1>6. QED
    BY <1>1, <1>4, <1>5 DEF hs

LEMMA HintLoad == ASSUME HintInvariant, Load PROVE HintInvariant'
  <1>1. /\ pc = "load" /\ hints = <<>> /\ ~delivered /\ told = 0
        /\ stdout = <<>> /\ stderr = <<>>
        /\ UNCHANGED <<args, delivered, stdout, stderr, told>>
    BY DEF Load, HintInvariant, Raised, Before
  <1>2. IsSequence(<<>>) /\ DOMAIN <<>> = {} /\ Len(<<>>) = 0
    BY DEF IsSequence
  <1>3. IsSequence(<<"config">>) /\ DOMAIN <<"config">> = {1} /\ <<"config">>[1] = "config"
    <2>1. <<"config">> \in Seq({"config"}) /\ 1 .. 1 = {1}
      OBVIOUS
    <2>2. Len(<<"config">>) = 1 /\ <<"config">>[1] = "config"
      OBVIOUS
    <2>3. DOMAIN <<"config">> = {1}
      BY <2>1, <2>2
    <2>4. QED
      BY <2>1, <2>2, <2>3 DEF IsSequence
  <1>4. CASE pc' = "report"
    <2>1. hints' = <<>> /\ result' = "failed"
      BY <1>1, <1>4 DEF Load
    <2>2. OnTheSide'
      BY <1>1, <1>2, <2>1 DEF OnTheSide, HintsOnTheirOwn, HintsAsText, Undelivered
    <2>3. QED
      BY <1>1, <1>2, <1>4, <2>1, <2>2
      DEF HintInvariant, Raised, Before, InTheResult, OnStderr, Ok
  <1>5. CASE pc' = "evaluate"
    <2>1. hints' \in {<<>>, <<"config">>} /\ result' = "none"
      BY <1>1, <1>5 DEF Load, HintInvariant, Before
    <2>2. Raised'
      BY <1>2, <1>3, <1>5, <2>1 DEF Raised
    <2>3. QED
      BY <1>1, <1>2, <1>5, <2>1, <2>2
      DEF HintInvariant, Before, InTheResult, OnStderr, Ok
  <1>6. QED
    BY <1>4, <1>5 DEF Load

LEMMA HintEvaluate == ASSUME HintInvariant, Evaluate PROVE HintInvariant'
  <1>1. /\ pc = "evaluate" /\ ~delivered /\ told = 0
        /\ stdout = <<>> /\ stderr = <<>> /\ result = "none"
        /\ UNCHANGED <<args, delivered, stdout, stderr, told>>
    BY DEF Evaluate, HintInvariant, Before
  <1>2. \/ pc' = "route" /\ result' = "failed"
        \/ pc' = "render" /\ result' = "none"
    <2>1. \/ pc' = "route" /\ result' = "failed"
          \/ pc' = "render" /\ result' = result
      BY DEF Evaluate
    <2>2. QED
      BY <1>1, <2>1
  <1>3. hints' \in {hints, Append(hints, "run")}
    BY DEF Evaluate
  <1>4. Raised /\ \A i \in DOMAIN hints : hints[i] = "config"
    BY <1>1 DEF HintInvariant, Raised
  <1>5. Raised'
    <2>1. /\ IsSequence(hints')
          /\ \A i, j \in DOMAIN hints' : hints'[i] = hints'[j] => i = j
          /\ \A i \in DOMAIN hints' : hints'[i] # "large"
      <3>1. CASE hints' = hints
        BY <1>4, <3>1 DEF Raised
      <3>2. CASE hints' = Append(hints, "run")
        BY <1>4, <3>2, RaisedOnce
      <3>3. QED
        BY <1>3, <3>1, <3>2
    <2>2. QED
      BY <1>2, <2>1 DEF Raised
  <1>6. IsSequence(<<>>) /\ DOMAIN <<>> = {} /\ Len(<<>>) = 0
    BY DEF IsSequence
  <1>7. Len(hints') \in Nat
    BY <1>5, AppendedOne DEF Raised
  <1>8. QED
    BY <1>1, <1>2, <1>5, <1>6, <1>7
    DEF HintInvariant, Before, InTheResult, OnStderr, Lines, Ok

\* What the command's result leaves behind: the document that succeeded has
\* all hints, any other text none.
Concluded ==
  IsSequence(stdout') /\ Raised' /\ result' # "none" /\ InTheResult'

\* What a command leaves on stdout, of one kind and with some hints.
Shown(kind, names, ok) ==
  /\ IsSequence(stdout') /\ Len(stdout') = 1 /\ DOMAIN stdout' = {1}
  /\ stdout'[1].kind = kind /\ stdout'[1].hints = names /\ stdout'[1].ok = ok

Leaves(kind, names) ==
  \/ stdout' = <<>> /\ result' \in {"refused_json", "refused_text"}
  \/ Shown(kind, names, TRUE) /\ result' \in {"clean", "violations"}
  \/ Shown(kind, names, FALSE) /\ result' \in {"closed", "stdout_failed"}

LEMMA WriteLeaves ==
  ASSUME NEW kind, NEW names, NEW len, NEW mode, NEW o,
         NEW good \in {"clean", "violations"}, stdout = <<>>,
         WriteStdout(kind, names, len, mode, o, good)
  PROVE  Leaves(kind, names)
  <1>1. PICK outcome \in {"written", "closed", "stdout_failed"} :
          /\ stdout' = Append(stdout, [kind |-> kind, hints |-> names,
                                      len |-> len, ok |-> outcome = "written"])
          /\ result' = IF outcome = "written" THEN good ELSE outcome
    BY DEF WriteStdout
  <1>2. \A e : stdout' = Append(stdout, e) =>
          IsSequence(stdout') /\ Len(stdout') = 1 /\ DOMAIN stdout' = {1} /\ stdout'[1] = e
    <2> SUFFICES ASSUME NEW e, stdout' = Append(stdout, e)
        PROVE  IsSequence(stdout') /\ Len(stdout') = 1 /\ DOMAIN stdout' = {1} /\ stdout'[1] = e
      OBVIOUS
    <2>1. IsSequence(stdout) /\ Len(stdout) = 0
      BY DEF IsSequence
    <2>2. /\ IsSequence(stdout') /\ Len(stdout') = Len(stdout) + 1
          /\ DOMAIN stdout' = 1 .. Len(stdout) + 1
          /\ stdout'[Len(stdout) + 1] = e
      BY <2>1, AppendedOne
    <2>3. 1 .. 1 = {1}
      OBVIOUS
    <2>4. QED
      BY <2>1, <2>2, <2>3
  <1>3. CASE outcome = "written"
    <2>1. stdout' = Append(stdout, [kind |-> kind, hints |-> names, len |-> len, ok |-> TRUE])
      BY <1>1, <1>3
    <2>2. /\ IsSequence(stdout') /\ Len(stdout') = 1 /\ DOMAIN stdout' = {1}
          /\ stdout'[1] = [kind |-> kind, hints |-> names, len |-> len, ok |-> TRUE]
      BY <1>2, <2>1
    <2>3. Shown(kind, names, TRUE)
      BY <2>2 DEF Shown
    <2>4. QED
      BY <1>1, <1>3, <2>3 DEF Leaves
  <1>4. CASE outcome # "written"
    <2>1. stdout' = Append(stdout, [kind |-> kind, hints |-> names, len |-> len, ok |-> FALSE])
      BY <1>1, <1>4
    <2>2. /\ IsSequence(stdout') /\ Len(stdout') = 1 /\ DOMAIN stdout' = {1}
          /\ stdout'[1] = [kind |-> kind, hints |-> names, len |-> len, ok |-> FALSE]
      BY <1>2, <2>1
    <2>3. Shown(kind, names, FALSE)
      BY <2>2 DEF Shown
    <2>4. QED
      BY <1>1, <1>4, <2>3 DEF Leaves
  <1>5. QED
    BY <1>3, <1>4

LEMMA PrintLeaves ==
  ASSUME NEW kind, NEW names, NEW len, NEW mode, NEW json, NEW o, stdout = <<>>,
         PrintWithin(kind, names, len, mode, json, o)
  PROVE  Leaves(kind, names)
  <1>1. CASE Exceeds(len)
    BY <1>1 DEF PrintWithin, Leaves
  <1>2. CASE ~Exceeds(len)
    <2>1. WriteStdout(kind, names, len, mode, o, "clean")
      BY <1>2 DEF PrintWithin
    <2>2. QED
      BY <2>1, WriteLeaves
  <1>3. QED
    BY <1>1, <1>2

LEMMA PlainLeaves ==
  ASSUME NEW kind, Leaves(kind, {}), ~delivered', Raised', pc' = "route"
  PROVE  Concluded
  <1>1. IsSequence(<<>>) /\ DOMAIN <<>> = {}
    BY DEF IsSequence
  <1>2. IsSequence(stdout') /\ result' # "none"
    BY <1>1 DEF Leaves, Shown
  <1>3. \A i \in DOMAIN stdout' : ~stdout'[i].ok \/ stdout'[i].hints = {}
    BY <1>1 DEF Leaves, Shown
  <1>4. QED
    BY <1>2, <1>3 DEF Concluded, InTheResult

LEMMA LargeRaised ==
  ASSUME Raised, pc = "render", pc' = "route", NEW len, hints' = WithLargeHint(len)
  PROVE  Raised'
  <1>1. \A i \in DOMAIN hints : hints[i] # "large"
    BY DEF Raised
  <1>2. CASE hints' = hints
    BY <1>2 DEF Raised
  <1>3. CASE hints' = Append(hints, "large")
    BY <1>1, <1>3, RaisedOnce DEF Raised
  <1>4. QED
    BY <1>2, <1>3 DEF WithLargeHint

LEMMA HintDocument ==
  ASSUME HintInvariant, pc = "render", pc' = "route", args' = args,
         NEW o, NEW size, RenderDocument(o, size)
  PROVE  Concluded
  <1>1. stdout = <<>> /\ Raised /\ args.json /\ delivered'
    BY DEF HintInvariant, Before, RenderDocument, Embeds
  <1>2. Raised'
    <2>1. \/ hints' = hints
          \/ \E len : hints' = WithLargeHint(len)
      BY DEF RenderDocument
    <2>2. QED
      BY <1>1, <2>1, LargeRaised DEF Raised
  <1>3. Leaves("document", Range(hints'))
    <2> DEFINE names == Range(hints')
    <2>1. \/ \E len : \E good \in Clean :
               WriteStdout("document", names, len, "json", ObserveEmbedded(o), good)
          \/ \E len : PrintWithin("document", names, len, "json", TRUE, ObserveEmbedded(o))
      BY DEF RenderDocument
    <2>2. Clean \subseteq {"clean", "violations"}
      BY DEF Clean
    <2> HIDE DEF names
    <2>3. QED
      BY <1>1, <2>1, <2>2, WriteLeaves, PrintLeaves DEF names
  <1>4. IsSequence(<<>>) /\ DOMAIN <<>> = {}
    BY DEF IsSequence
  <1>5. InTheResult'
    <2>1. CASE stdout' = <<>> /\ result' \in {"refused_json", "refused_text"}
      BY <1>1, <1>4, <2>1 DEF InTheResult, Ok
    <2>2. CASE Shown("document", Range(hints'), TRUE) /\ result' \in {"clean", "violations"}
      <3>1. Envelope(stdout, "document")'
        BY <2>2 DEF Shown, Envelope
      <3>2. Ok' /\ result' # "none"
        BY <2>2 DEF Ok
      <3>3. QED
        BY <1>1, <3>1, <3>2 DEF InTheResult
    <2>3. CASE Shown("document", Range(hints'), FALSE) /\ result' \in {"closed", "stdout_failed"}
      <3>1. ~Ok' /\ result' # "none"
        BY <2>3 DEF Ok
      <3>2. \A i \in DOMAIN stdout' : ~stdout'[i].ok
        BY <2>3 DEF Shown
      <3>3. QED
        BY <1>1, <3>1, <3>2 DEF InTheResult
    <2>4. QED
      BY <1>3, <2>1, <2>2, <2>3 DEF Leaves
  <1>6. QED
    BY <1>1, <1>2, <1>3, <1>4, <1>5 DEF Leaves, Shown, Concluded

LEMMA HintRender == ASSUME HintInvariant, Render PROVE HintInvariant'
  <1>1. /\ pc = "render" /\ pc' = "route" /\ ~delivered /\ told = 0
        /\ stdout = <<>> /\ stderr = <<>> /\ Raised
        /\ UNCHANGED <<args, stderr, told>>
    BY DEF Render, HintInvariant, Before
  <1>2. ASSUME NEW o, NEW size, RenderBare(o, size) PROVE Concluded
    <2>1. ~delivered' /\ hints' = WithLargeHint(size)
      BY <1>1, <1>2 DEF RenderBare
    <2>2. \E kind : Leaves(kind, {})
      BY <1>1, <1>2, PrintLeaves DEF RenderBare
    <2>3. QED
      BY <1>1, <2>1, <2>2, LargeRaised, PlainLeaves
  <1>3. ASSUME NEW o, NEW size, RenderText(o, size) PROVE Concluded
    <2>1. ~delivered' /\ (hints' = hints \/ hints' = WithLargeHint(size))
      BY <1>1, <1>3 DEF RenderText
    <2>2. Leaves("text", {})
      BY <1>1, <1>3, PrintLeaves, WriteLeaves DEF RenderText, Clean
    <2>3. Raised'
      BY <1>1, <2>1, LargeRaised DEF Raised
    <2>4. QED
      BY <1>1, <2>1, <2>2, <2>3, PlainLeaves
  <1>4. ASSUME NEW o, NEW size, RenderOther(o, size) PROVE Concluded
    <2>1. ~delivered' /\ hints' = hints
      BY <1>1, <1>4 DEF RenderOther
    <2>2. Raised'
      BY <1>1, <2>1 DEF Raised
    <2>3. CASE args.cmd = "init"
      <3>1. result' = "clean" /\ stdout' = <<>>
        BY <1>1, <1>4, <2>3 DEF RenderOther
      <3>2. IsSequence(<<>>) /\ DOMAIN <<>> = {}
        BY DEF IsSequence
      <3>3. QED
        BY <2>1, <2>2, <3>1, <3>2 DEF Concluded, InTheResult
    <2>4. CASE args.cmd # "init"
      <3>1. Leaves("text", {})
        BY <1>1, <1>4, <2>4, WriteLeaves DEF RenderOther
      <3>2. QED
        BY <1>1, <2>1, <2>2, <3>1, PlainLeaves
    <2>5. QED
      BY <2>3, <2>4
  <1>5. Concluded
    BY <1>1, <1>2, <1>3, <1>4, HintDocument DEF Render
  <1>6. OnStderr'
    <2>1. Len(hints') \in Nat /\ Len(<<>>) = 0
      BY <1>5, AppendedOne DEF Concluded, Raised
    <2>2. QED
      BY <1>1, <2>1 DEF OnStderr, Lines
  <1>7. QED
    BY <1>1, <1>5, <1>6 DEF HintInvariant, Concluded, Before

\* A line of stderr is the next one, unless it ends the process.
LEMMA StderrLine ==
  ASSUME HintInvariant,
         NEW kind, NEW names, NEW len, NEW o, NEW n, NEW next,
         WriteStderr(kind, names, len, o, n, next),
         pc \in {"route", "report"}, next # "dead"
  PROVE  /\ UNCHANGED <<args, hints, delivered, result, stdout>>
         /\ IsSequence(stderr')
         /\ pc' = "dead" => HintInvariant'
         /\ pc' # "dead" =>
              /\ pc' = next /\ told' = n
              /\ Len(stderr) \in Nat /\ Len(stderr') = Len(stderr) + 1
              /\ \A i \in 1 .. Len(stderr) : stderr'[i] = stderr[i]
              /\ stderr'[Len(stderr) + 1].kind = kind
              /\ stderr'[Len(stderr) + 1].ok
              /\ stderr'[Len(stderr) + 1].hints = names
  <1> DEFINE Line(ok) == [kind |-> kind, hints |-> names, len |-> len, ok |-> ok]
  <1>1. /\ UNCHANGED <<args, hints, delivered, result, stdout>>
        /\ \/ stderr' = Append(stderr, Line(TRUE)) /\ pc' = next /\ told' = n
           \/ stderr' = Append(stderr, Line(FALSE)) /\ pc' = "dead"
    BY DEF WriteStderr, Panic
  <1>2. Line(TRUE).kind = kind /\ Line(TRUE).ok /\ Line(TRUE).hints = names
    OBVIOUS
  <1> HIDE DEF Line
  <1>7. \A e : /\ IsSequence(Append(stderr, e))
              /\ Len(Append(stderr, e)) = Len(stderr) + 1 /\ Len(stderr) \in Nat
              /\ \A i \in 1 .. Len(stderr) : Append(stderr, e)[i] = stderr[i]
              /\ Append(stderr, e)[Len(stderr) + 1] = e
    BY AppendedOne DEF HintInvariant
  <1>3. IsSequence(stderr')
    BY <1>1, <1>7
  <1>4. ASSUME pc' = "dead" PROVE HintInvariant'
    BY <1>1, <1>3, <1>4
    DEF HintInvariant, Raised, Before, InTheResult, OnStderr, Envelope, Ok
  <1>5. ASSUME pc' # "dead"
        PROVE  /\ pc' = next /\ told' = n
               /\ Len(stderr) \in Nat /\ Len(stderr') = Len(stderr) + 1
               /\ \A i \in 1 .. Len(stderr) : stderr'[i] = stderr[i]
               /\ stderr'[Len(stderr) + 1] = Line(TRUE)
    <2>1. stderr' = Append(stderr, Line(TRUE)) /\ pc' = next /\ told' = n
      BY <1>1, <1>5
    <2>2. \A e : stderr' = Append(stderr, e) =>
            /\ Len(stderr) \in Nat /\ Len(stderr') = Len(stderr) + 1
            /\ \A i \in 1 .. Len(stderr) : stderr'[i] = stderr[i]
            /\ stderr'[Len(stderr) + 1] = e
      BY <1>7
    <2>3. QED
      BY <2>1, <2>2
  <1>6. QED
    BY <1>1, <1>2, <1>3, <1>4, <1>5

\* The rest of the invariant outlives the streams' last words.
LEMMA HintsStay ==
  ASSUME HintInvariant, UNCHANGED <<args, hints, delivered, result, stdout>>,
         pc \in {"route", "report", "finish"}, pc' \in {"route", "report", "finish", "done"},
         pc' = "route" => pc = "route", IsSequence(stderr'), OnStderr'
  PROVE  HintInvariant'
  BY DEF HintInvariant, Raised, Before, InTheResult, Envelope, Ok

LEMMA HintRouteEnvelope == ASSUME HintInvariant, RouteEnvelope PROVE HintInvariant'
  <1>1. /\ pc = "route" /\ HintsOnTheirOwn /\ ~HintsAsText
        /\ WriteStderr("hint_envelope", Range(hints), LenOf(hints) + 1,
                 ObserveStderrAttempt(obs, "stderr_json"), told, "report")
    BY DEF RouteEnvelope, HintsOnTheirOwn, HintsAsText
  <1>2. /\ UNCHANGED <<args, hints, delivered, result, stdout>>
        /\ IsSequence(stderr')
        /\ pc' = "dead" => HintInvariant'
        /\ pc' # "dead" =>
             /\ pc' = "report" /\ Len(stderr') = Len(stderr) + 1
             /\ stderr'[Len(stderr) + 1].kind = "hint_envelope"
             /\ stderr'[Len(stderr) + 1].ok
             /\ stderr'[Len(stderr) + 1].hints = Range(hints)
    BY <1>1, StderrLine
  <1>3. Len(stderr) = 0
    BY <1>1, AppendedOne DEF HintInvariant, OnStderr, Lines, Raised
  <1>4. ASSUME pc' # "dead" PROVE HintInvariant'
    <2>1. Envelope(stderr, "hint_envelope")'
      BY <1>2, <1>3, <1>4 DEF Envelope
    <2>2. OnTheSide'
      BY <1>1, <1>2, <2>1 DEF OnTheSide, HintsOnTheirOwn, Undelivered, Ok
    <2>3. OnStderr'
      BY <1>2, <1>4, <2>2 DEF OnStderr
    <2>4. QED
      BY <1>1, <1>2, <1>4, <2>3, HintsStay
  <1>5. QED
    BY <1>2, <1>4

LEMMA HintRouteLine == ASSUME HintInvariant, RouteLine PROVE HintInvariant'
  <1>1. /\ pc = "route" /\ HintsAsText /\ told < Len(hints)
        /\ WriteStderr("hint", {hints[told + 1]}, HintLen[hints[told + 1]] + 1,
                 ObserveStderrAttempt(obs, "stderr_text"), told + 1, "route")
    BY DEF RouteLine
  <1>2. /\ UNCHANGED <<args, hints, delivered, result, stdout>>
        /\ IsSequence(stderr')
        /\ pc' = "dead" => HintInvariant'
        /\ pc' # "dead" =>
             /\ pc' = "route" /\ told' = told + 1
             /\ Len(stderr') = Len(stderr) + 1
             /\ \A i \in 1 .. Len(stderr) : stderr'[i] = stderr[i]
             /\ stderr'[Len(stderr) + 1].kind = "hint"
             /\ stderr'[Len(stderr) + 1].ok
             /\ stderr'[Len(stderr) + 1].hints = {hints[told + 1]}
    BY <1>1, StderrLine
  <1>3. told \in 0 .. Len(hints) /\ Len(hints) \in Nat /\ Lines(stderr, told)
    BY <1>1, AppendedOne DEF HintInvariant, OnStderr, Raised
  <1>4. ASSUME pc' # "dead" PROVE HintInvariant'
    <2>1. Len(stderr) = told /\ \A i \in 1 .. told + 1 : i \in 1 .. told \/ i = told + 1
      BY <1>3 DEF Lines
    <2>2. Lines(stderr, told)'
      BY <1>2, <1>3, <1>4, <2>1 DEF Lines
    <2>3. told' \in 0 .. Len(hints')
      BY <1>1, <1>2, <1>3, <1>4
    <2>4. HintsAsText'
      BY <1>1, <1>2 DEF HintsAsText, Undelivered
    <2>5. OnStderr'
      BY <1>2, <1>4, <2>2, <2>3, <2>4 DEF OnStderr, Lines
    <2>6. QED
      BY <1>1, <1>2, <1>4, <2>5, HintsStay
  <1>5. QED
    BY <1>2, <1>4

LEMMA HintRouteNothing == ASSUME HintInvariant, RouteNothing PROVE HintInvariant'
  <1>1. /\ pc = "route" /\ pc' = "report" /\ ~HintsOnTheirOwn
        /\ HintsAsText => told = Len(hints)
        /\ UNCHANGED <<args, hints, delivered, result, stdout, stderr>>
    BY DEF RouteNothing
  <1>2. Lines(stderr, told) /\ told \in 0 .. Len(hints) /\ Len(hints) \in Nat
    BY <1>1, AppendedOne DEF HintInvariant, OnStderr, Raised
  <1>3. ~HintsAsText => stderr = <<>>
    <2>1. ~HintsAsText => Len(stderr) = 0
      BY <1>1, <1>2 DEF HintInvariant, OnStderr, Lines
    <2>2. QED
      BY <2>1, EmptyText DEF HintInvariant
  <1>4. OnTheSide
    BY <1>1, <1>2, <1>3 DEF OnTheSide
  <1>5. OnTheSide'
    BY <1>1, <1>4 DEF OnTheSide, HintsOnTheirOwn, HintsAsText, Undelivered, Ok,
                      Envelope, Lines
  <1>6. OnStderr' /\ IsSequence(stderr')
    BY <1>1, <1>5 DEF OnStderr, HintInvariant
  <1>7. QED
    BY <1>1, <1>6, HintsStay

\* The error line comes last; an error that took the hints along is alone.
LEMMA HintReportError ==
  ASSUME HintInvariant, ReportError, OperandsLookLikeFlags = FALSE
  PROVE  HintInvariant'
  <1>1. /\ pc = "report" /\ ~Ok /\ result # "closed" /\ ~HintsOnTheirOwn
        /\ args.scan # "panics" /\ OnTheSide
    BY DEF ReportError, HintInvariant, OnStderr, HintsOnTheirOwn
  <1>2. /\ args.json \in BOOLEAN /\ (args.json => args.scan # "other")
        /\ (args.scan = "json" /\ ~args.json => FALSE)
        /\ args.scan \in {"json", "other", "panics"}
    BY DEF HintInvariant, Arguments
  <1>3. \E kind, names, len, o :
          /\ kind \in {"error", "error_envelope"}
          /\ WriteStderr(kind, names, len, o, told, "finish")
          /\ IF ErrorAsJson THEN kind = "error_envelope" /\ names = Range(hints)
                            ELSE kind = "error" /\ names = {}
    BY <1>1 DEF ReportError
  <1>4. PICK kind, names, len, o :
          /\ kind \in {"error", "error_envelope"}
          /\ WriteStderr(kind, names, len, o, told, "finish")
          /\ IF ErrorAsJson THEN kind = "error_envelope" /\ names = Range(hints)
                            ELSE kind = "error" /\ names = {}
    BY <1>3
  <1>5. /\ UNCHANGED <<args, hints, delivered, result, stdout>>
        /\ IsSequence(stderr')
        /\ pc' = "dead" => HintInvariant'
        /\ pc' # "dead" =>
             /\ pc' = "finish"
             /\ Len(stderr) \in Nat /\ Len(stderr') = Len(stderr) + 1
             /\ \A i \in 1 .. Len(stderr) : stderr'[i] = stderr[i]
             /\ stderr'[Len(stderr) + 1].kind = kind
             /\ stderr'[Len(stderr) + 1].ok
             /\ stderr'[Len(stderr) + 1].hints = names
    BY <1>1, <1>4, StderrLine
  <1>6. ASSUME pc' # "dead" PROVE OnStderr'
    <2>1. ~Ok' /\ result' # "closed" /\ (HintsAsText <=> HintsAsText')
      BY <1>1, <1>5 DEF Ok, HintsAsText, Undelivered
    <2>2. CASE HintsAsText
      <3>1. Lines(stderr, Len(hints)) /\ Len(hints) \in Nat
        BY <1>1, <2>2, AppendedOne DEF OnTheSide, HintInvariant, Raised
      <3>2. kind = "error" /\ names = {}
        BY <1>2, <1>4, <2>2 DEF HintsAsText, ErrorAsJson
      <3>3. /\ Len(stderr') = Len(hints) + 1
            /\ \A i \in 1 .. Len(hints) : stderr'[i].kind = "hint" /\ stderr'[i].ok
                                          /\ stderr'[i].hints = {hints[i]}
            /\ stderr'[Len(stderr')].kind = "error" /\ stderr'[Len(stderr')].hints = {}
        BY <1>5, <1>6, <3>1, <3>2 DEF Lines
      <3>4. QED
        BY <1>5, <1>6, <2>1, <2>2, <3>3 DEF OnStderr
    <2>3. CASE ~HintsAsText
      <3>1. stderr = <<>> /\ Len(stderr) = 0
        BY <1>1, <2>3 DEF OnTheSide
      <3>2. CASE ErrorAsJson
        <4>1. Envelope(stderr, "error_envelope")'
          BY <1>4, <1>5, <1>6, <3>1, <3>2 DEF Envelope
        <4>2. QED
          BY <1>5, <1>6, <2>1, <2>3, <4>1 DEF OnStderr
      <3>3. CASE ~ErrorAsJson
        <4>1. ~args.json /\ result # "refused_json"
          BY <1>1, <1>2, <3>3 DEF ErrorAsJson
        <4>2. hints = <<>>
          BY <1>1, <2>3, <4>1 DEF HintsAsText, Undelivered, HintInvariant, InTheResult
        <4>3. Len(stderr') = 1 /\ hints' = <<>> /\ stderr'[1].hints = {}
          BY <1>4, <1>5, <1>6, <3>1, <3>3, <4>2
        <4>4. QED
          BY <1>5, <1>6, <2>1, <2>3, <4>3 DEF OnStderr
      <3>4. QED
        BY <3>2, <3>3
    <2>4. QED
      BY <2>2, <2>3
  <1>7. QED
    BY <1>1, <1>5, <1>6, HintsStay

LEMMA HintReportNothing == ASSUME HintInvariant, ReportNothing PROVE HintInvariant'
  <1>1. /\ pc = "report" /\ pc' = "finish" /\ (Ok \/ result = "closed")
        /\ UNCHANGED <<args, hints, delivered, result, stdout, stderr>>
    BY DEF ReportNothing
  <1>2. OnTheSide
    BY <1>1 DEF HintInvariant, OnStderr
  <1>3. OnTheSide' /\ (Ok' \/ result' = "closed")
    BY <1>1, <1>2 DEF OnTheSide, HintsOnTheirOwn, HintsAsText, Undelivered, Ok,
                      Envelope, Lines
  <1>4. OnStderr' /\ IsSequence(stderr')
    BY <1>1, <1>3 DEF OnStderr, HintInvariant
  <1>5. QED
    BY <1>1, <1>4, HintsStay

LEMMA HintStep ==
  ASSUME OperandsLookLikeFlags = FALSE
  PROVE  HintInvariant /\ [Next]_vars => HintInvariant'
  <1> SUFFICES ASSUME HintInvariant, [Next]_vars PROVE HintInvariant'
    OBVIOUS
  <1>1. CASE ScanPanics
    BY <1>1 DEF ScanPanics, Panic, HintInvariant, Raised, Before, InTheResult,
                OnStderr, Envelope, Ok
  <1>2. CASE Finish
    BY <1>2 DEF Finish, HintInvariant, Raised, Before, InTheResult, OnStderr,
                OnTheSide, HintsOnTheirOwn, HintsAsText, Undelivered, Envelope,
                Lines, Ok
  <1>3. CASE UNCHANGED vars
    BY <1>3 DEF vars, HintInvariant, Raised, Before, InTheResult, OnStderr,
                OnTheSide, HintsOnTheirOwn, HintsAsText, Undelivered, Envelope,
                Lines, Ok
  <1>4. QED
    BY <1>1, <1>2, <1>3, HintLoad, HintEvaluate, HintRender, HintRouteEnvelope,
       HintRouteLine, HintRouteNothing, HintReportError, HintReportNothing
    DEF Next

\* How often one position makes.
LEMMA OnePlace ==
  \A k : /\ Cardinality({k}) + Cardinality({}) = 1
         /\ Cardinality({}) + Cardinality({k}) = 1
  <1>1. Cardinality({}) = 0 /\ \A k : Cardinality({k}) = 1
    BY FS_EmptySet, FS_Singleton
  <1>2. QED
    BY <1>1

LEMMA HintsDelivered == HintInvariant => HintsReachTheReaderOnce
  <1> SUFFICES ASSUME HintInvariant, pc = "done" PROVE HintsReachTheReaderOnce
    BY DEF HintsReachTheReaderOnce
  <1>1. /\ DOMAIN hints = 1 .. Len(hints) /\ Len(hints) \in Nat
        /\ DOMAIN stderr = 1 .. Len(stderr) /\ Len(stderr) \in Nat
        /\ DOMAIN stdout = 1 .. Len(stdout) /\ Len(stdout) \in Nat
        /\ \A i, j \in DOMAIN hints : hints[i] = hints[j] => i = j
    BY AppendedOne DEF HintInvariant, Raised
  <1>2. 1 .. 1 = {1} /\ 1 .. 0 = {} /\ Len(<<>>) = 0
    OBVIOUS
  <1> DEFINE InOrder == \A i, j \in DOMAIN stderr :
               stderr[i].kind = "error" /\ stderr[j].kind = "hint" => j < i
             Once == \A h \in Range(hints) :
               Cardinality(CarriedBy(stdout, h)) + Cardinality(CarriedBy(stderr, h)) = 1
  <1>3. \A h \in Range(hints) : \E k \in 1 .. Len(hints) : h = hints[k]
    BY <1>1 DEF Range
  <1>4. ASSUME ~(delivered /\ Ok), NEW h PROVE CarriedBy(stdout, h) = {}
    BY <1>4 DEF CarriedBy, HintInvariant, InTheResult
  <1>5. ASSUME NEW texts, Len(texts) = 1, DOMAIN texts = 1 .. 1, texts[1].ok,
               texts[1].hints = Range(hints), NEW h \in Range(hints)
        PROVE  CarriedBy(texts, h) = {1}
    BY <1>2, <1>5 DEF CarriedBy
  <1>6. ASSUME NEW k \in 1 .. Len(hints), Len(stderr) >= Len(hints),
               \A i \in 1 .. Len(hints) : stderr[i].ok /\ stderr[i].hints = {hints[i]},
               \A i \in 1 .. Len(stderr) : i > Len(hints) => stderr[i].hints = {}
        PROVE  CarriedBy(stderr, hints[k]) = {k}
    <2>1. k \in CarriedBy(stderr, hints[k])
      BY <1>1, <1>6 DEF CarriedBy
    <2>2. ASSUME NEW i \in CarriedBy(stderr, hints[k]) PROVE i = k
      <3>1. i \in 1 .. Len(stderr) /\ hints[k] \in stderr[i].hints
        BY <1>1, <2>2 DEF CarriedBy
      <3>2. i \in 1 .. Len(hints)
        BY <1>1, <1>6, <3>1
      <3>3. hints[i] = hints[k]
        BY <1>6, <3>1, <3>2
      <3>4. QED
        BY <1>1, <3>2, <3>3
    <2>3. QED
      BY <2>1, <2>2
  <1>7. ASSUME NEW h PROVE CarriedBy(<<>>, h) = {}
    BY DEF CarriedBy
  <1>14. ASSUME \A h \in Range(hints) : \E k :
                 \/ CarriedBy(stdout, h) = {} /\ CarriedBy(stderr, h) = {k}
                 \/ CarriedBy(stdout, h) = {k} /\ CarriedBy(stderr, h) = {}
         PROVE  Once
    BY <1>14, OnePlace
  <1> HIDE DEF Once, InOrder
  <1>8. CASE result = "closed"
    <2>1. stderr = <<>>
      BY <1>8 DEF HintInvariant, OnStderr, OnTheSide, HintsOnTheirOwn, HintsAsText, Ok
    <2>2. QED
      BY <1>8, <2>1 DEF HintsReachTheReaderOnce
  <1>9. CASE result # "closed" /\ Ok /\ delivered
    <2>1. stderr = <<>> /\ Envelope(stdout, "document")
      BY <1>9 DEF HintInvariant, OnStderr, OnTheSide, HintsOnTheirOwn,
                  HintsAsText, Undelivered, InTheResult
    <2>2. Once
      BY <1>1, <1>5, <1>7, <1>14, <2>1 DEF Envelope
    <2>3. InOrder
      BY <2>1 DEF InOrder
    <2>4. QED
      BY <1>9, <2>2, <2>3 DEF HintsReachTheReaderOnce, Once, InOrder
  <1>10. CASE result # "closed" /\ Ok /\ ~delivered
    <2>1. OnTheSide
      BY <1>10 DEF HintInvariant, OnStderr
    <2>2. CASE hints = <<>>
      <3>1. stderr = <<>>
        BY <2>1, <2>2 DEF OnTheSide, HintsOnTheirOwn, HintsAsText, Undelivered
      <3>2. Range(hints) = {}
        BY <2>2 DEF Range
      <3>3. QED
        BY <1>10, <3>1, <3>2 DEF HintsReachTheReaderOnce
    <2>3. CASE hints # <<>> /\ args.json
      <3>1. Envelope(stderr, "hint_envelope")
        BY <1>10, <2>1, <2>3 DEF OnTheSide, HintsOnTheirOwn, Undelivered
      <3>2. Once
        BY <1>1, <1>4, <1>5, <1>10, <1>14, <3>1 DEF Envelope
      <3>3. InOrder
        BY <1>1, <1>2, <3>1 DEF InOrder, Envelope
      <3>4. QED
        BY <1>10, <3>2, <3>3 DEF HintsReachTheReaderOnce, Once, InOrder
    <2>4. CASE hints # <<>> /\ ~args.json
      <3>1. Lines(stderr, Len(hints))
        BY <1>10, <2>1, <2>4 DEF OnTheSide, HintsOnTheirOwn, HintsAsText, Undelivered, Ok
      <3>2. \A k \in 1 .. Len(hints) : CarriedBy(stderr, hints[k]) = {k}
        BY <1>1, <1>6, <3>1 DEF Lines
      <3>3. Once
        BY <1>3, <1>4, <1>10, <1>14, <3>2
      <3>4. InOrder
        BY <1>1, <3>1 DEF InOrder, Lines
      <3>5. QED
        BY <1>10, <3>3, <3>4 DEF HintsReachTheReaderOnce, Once, InOrder
    <2>5. QED
      BY <2>2, <2>3, <2>4
  <1>11. CASE result # "closed" /\ ~Ok /\ HintsAsText
    <2>1. /\ Len(stderr) = Len(hints) + 1
          /\ \A i \in 1 .. Len(hints) : stderr[i].kind = "hint" /\ stderr[i].ok
                                        /\ stderr[i].hints = {hints[i]}
          /\ stderr[Len(stderr)].kind = "error" /\ stderr[Len(stderr)].hints = {}
      BY <1>11 DEF HintInvariant, OnStderr
    <2>2. \A k \in 1 .. Len(hints) : CarriedBy(stderr, hints[k]) = {k}
      BY <1>1, <1>6, <2>1
    <2>3. Once
      BY <1>3, <1>4, <1>11, <1>14, <2>2
    <2>4. InOrder
      BY <1>1, <2>1 DEF InOrder
    <2>5. QED
      BY <1>11, <2>3, <2>4 DEF HintsReachTheReaderOnce, Once, InOrder
  <1>12. CASE result # "closed" /\ ~Ok /\ ~HintsAsText
    <2>1. \/ Envelope(stderr, "error_envelope")
          \/ Len(stderr) = 1 /\ hints = <<>> /\ stderr[1].hints = {}
      BY <1>12 DEF HintInvariant, OnStderr
    <2>2. InOrder
      BY <1>1, <2>1 DEF InOrder, Envelope
    <2>3. Once
      <3>1. CASE Envelope(stderr, "error_envelope")
        BY <1>1, <1>4, <1>5, <1>12, <1>14, <3>1 DEF Envelope
      <3>2. CASE hints = <<>>
        BY <3>2 DEF Once, Range
      <3>3. QED
        BY <2>1, <3>1, <3>2
    <2>4. QED
      BY <1>12, <2>2, <2>3 DEF HintsReachTheReaderOnce, Once, InOrder
  <1>13. QED
    BY <1>8, <1>9, <1>10, <1>11, <1>12

\* Hints and their routing (main.rs): if no operand reads --format json,
\* whoever still reads what the invocation writes is told each hint exactly
\* once, and in text before the error.  Without the assumption this is the
\* reported divergence: the arguments are scanned for the flag, not parsed.
THEOREM HintsToldOnce ==
  ASSUME OperandsLookLikeFlags = FALSE
  PROVE  Spec => []HintsReachTheReaderOnce
  <1>1. HintInvariant /\ [Next]_vars => HintInvariant'
    BY HintStep
  <1>2. QED
    BY <1>1, HintInit, HintsDelivered, PTL DEF Spec

-----------------------------------------------------------------------------
(* Numbers: the least and the greatest of a set, and induction.            *)

LEMMA LeastNumber ==
  ASSUME NEW T \in SUBSET Nat, T # {}
  PROVE  \E x \in T : \A y \in T : x <= y
  <1>1. {ss \in Nat \X Nat : ss[1] < ss[2]} = OpToRel(<, Nat)
    BY DEF OpToRel
  <1>2. IsWellFoundedOn({ss \in Nat \X Nat : ss[1] < ss[2]}, Nat)
    BY <1>1, NatLessThanWellFounded
  <1>3. PICK x \in T : \A y \in T : <<y, x>> \notin {ss \in Nat \X Nat : ss[1] < ss[2]}
    BY <1>2, WFMin
  <1>4. ASSUME NEW y \in T, y < x PROVE FALSE
    <2>1. <<y, x>> \in {ss \in Nat \X Nat : ss[1] < ss[2]}
      BY <1>4
    <2>2. QED
      BY <1>3, <2>1
  <1>5. QED
    BY <1>4

LEMMA Induction ==
  ASSUME NEW A \in SUBSET Nat, 0 \in A, \A n \in A : n + 1 \in A
  PROVE  \A n \in Nat : n \in A
  <1> SUFFICES ASSUME Nat \ A # {} PROVE FALSE
    OBVIOUS
  <1>1. PICK x \in Nat \ A : \A y \in Nat \ A : x <= y
    BY LeastNumber
  <1>2. x - 1 \in A
    BY <1>1
  <1>3. QED
    BY <1>1, <1>2

\* Max of a set of numbers that is bounded and not empty.
LEMMA Greatest ==
  ASSUME NEW N \in Nat, NEW S \in SUBSET (0 .. N), S # {}
  PROVE  Max(S) \in S /\ \A x \in S : x <= Max(S)
  <1>1. {N - x : x \in S} \in SUBSET Nat /\ {N - x : x \in S} # {}
    <2>1. \A x \in S : N - x \in Nat
      OBVIOUS
    <2>2. QED
      BY <2>1
  <1>2. PICK y \in {N - x : x \in S} : \A z \in {N - x : x \in S} : y <= z
    BY <1>1, LeastNumber
  <1>3. PICK m \in S : y = N - m
    OBVIOUS
  <1>4. ASSUME NEW x \in S PROVE m >= x
    <2>1. y <= N - x
      BY <1>2
    <2>2. QED
      BY <1>3, <2>1
  <1>5. \E m1 \in S : \A x \in S : m1 >= x
    BY <1>4
  <1>6. Max(S) \in S /\ \A x \in S : Max(S) >= x
    BY <1>5 DEF Max
  <1>7. QED
    BY <1>6

-----------------------------------------------------------------------------
(* The length of a sequence of texts is the sum of theirs.                 *)

Sums(f, w, N) == f = [n \in 0 .. N |-> IF n = 0 THEN 0 ELSE f[n - 1] + w[n].len]

LEMMA SumExists ==
  ASSUME NEW w, NEW N \in Nat PROVE \E f : Sums(f, w, N)
  <1> DEFINE A == {n \in Nat : \E f : Sums(f, w, n)}
  <1>1. 0 \in A
    <2>1. Sums([n \in 0 .. 0 |-> 0], w, 0)
      BY DEF Sums
    <2>2. QED
      BY <2>1
  <1>2. ASSUME NEW n \in A PROVE n + 1 \in A
    <2>1. PICK f : Sums(f, w, n)
      OBVIOUS
    <2> DEFINE g == [k \in 0 .. n + 1 |-> IF k = 0 THEN 0 ELSE f[k - 1] + w[k].len]
    <2>2. ASSUME NEW k \in 0 .. n PROVE g[k] = f[k]
      BY <2>1, <2>2 DEF Sums
    <2>3. \A k \in 0 .. n + 1 : g[k] = IF k = 0 THEN 0 ELSE g[k - 1] + w[k].len
      <3> SUFFICES ASSUME NEW k \in 0 .. n + 1, k # 0
                   PROVE  g[k] = g[k - 1] + w[k].len
        OBVIOUS
      <3>1. k - 1 \in 0 .. n
        OBVIOUS
      <3>2. QED
        BY <2>2, <3>1
    <2>4. Sums(g, w, n + 1)
      BY <2>3 DEF Sums
    <2>5. QED
      BY <2>4
  <1>3. A \in SUBSET Nat
    OBVIOUS
  <1> HIDE DEF A
  <1>4. N \in A
    BY <1>1, <1>2, <1>3, Induction
  <1>5. QED
    BY <1>4 DEF A

LEMMA TotalIs ==
  ASSUME NEW w, Len(w) \in Nat
  PROVE  \E f : Sums(f, w, Len(w)) /\ TotalLen(w) = f[Len(w)]
  <1> DEFINE f == CHOOSE g : Sums(g, w, Len(w))
  <1>1. Sums(f, w, Len(w))
    BY SumExists
  <1>2. TotalLen(w) = f[Len(w)]
    BY DEF TotalLen, Sums
  <1>3. QED
    BY <1>1, <1>2

SameLenUpTo(v, w, n) == \A i \in 1 .. n : v[i].len = w[i].len

\* Two sequences whose first lengths agree have the same sum of these.
LEMMA SumAgrees ==
  ASSUME NEW f, NEW g, NEW v, NEW w, NEW N \in Nat, NEW M \in Nat,
         Sums(f, v, N), Sums(g, w, M), N <= M, SameLenUpTo(v, w, N)
  PROVE  f[N] = g[N]
  <1> DEFINE A == {n \in Nat : n <= N => f[n] = g[n]}
  <1>1. /\ \A n \in 0 .. N : f[n] = IF n = 0 THEN 0 ELSE f[n - 1] + v[n].len
        /\ \A n \in 0 .. M : g[n] = IF n = 0 THEN 0 ELSE g[n - 1] + w[n].len
    BY DEF Sums
  <1>2. 0 \in A
    BY <1>1
  <1>3. ASSUME NEW n \in A PROVE n + 1 \in A
    BY <1>1 DEF SameLenUpTo
  <1>4. A \in SUBSET Nat
    OBVIOUS
  <1> HIDE DEF A
  <1>5. N \in A
    BY <1>2, <1>3, <1>4, Induction
  <1>6. QED
    BY <1>5 DEF A

LEMMA SumIsNat ==
  ASSUME NEW f, NEW w, NEW N \in Nat, Sums(f, w, N),
         \A i \in 1 .. N : w[i].len \in Nat
  PROVE  f[N] \in Nat
  <1> DEFINE A == {n \in Nat : n <= N => f[n] \in Nat}
  <1>1. \A n \in 0 .. N : f[n] = IF n = 0 THEN 0 ELSE f[n - 1] + w[n].len
    BY DEF Sums
  <1>2. 0 \in A
    BY <1>1
  <1>3. ASSUME NEW n \in A PROVE n + 1 \in A
    BY <1>1
  <1>4. A \in SUBSET Nat
    OBVIOUS
  <1> HIDE DEF A
  <1>5. N \in A
    BY <1>2, <1>3, <1>4, Induction
  <1>6. QED
    BY <1>5 DEF A

\* A sequence of things that have a length.
Measured(s) == IsSequence(s) /\ \A i \in 1 .. Len(s) : s[i].len \in Nat

LEMMA MeasuredLen == ASSUME NEW s, Measured(s) PROVE Len(s) \in Nat /\ DOMAIN s = 1 .. Len(s)
  BY AppendedOne DEF Measured

LEMMA TotalIsNat == ASSUME NEW s, Measured(s) PROVE TotalLen(s) \in Nat
  BY TotalIs, SumIsNat, MeasuredLen DEF Measured

LEMMA TotalOfNothing == TotalLen(<<>>) = 0 /\ Measured(<<>>)
  <1>1. Len(<<>>) = 0 /\ IsSequence(<<>>)
    BY DEF IsSequence
  <1>2. PICK f : Sums(f, <<>>, 0) /\ TotalLen(<<>>) = f[0]
    BY <1>1, TotalIs
  <1>3. QED
    BY <1>1, <1>2 DEF Sums, Measured

LEMMA TotalOfOneMore ==
  ASSUME NEW s, Measured(s), NEW e, e.len \in Nat
  PROVE  Measured(Append(s, e)) /\ TotalLen(Append(s, e)) = TotalLen(s) + e.len
  <1> DEFINE t == Append(s, e)
             n == Len(s)
  <1>1. /\ IsSequence(t) /\ Len(t) = n + 1 /\ n \in Nat
        /\ \A i \in 1 .. n : t[i] = s[i]
        /\ t[n + 1] = e
    BY AppendedOne DEF Measured
  <1> HIDE DEF t, n
  <1>2. Measured(t)
    <2>1. \A i \in 1 .. n : s[i].len \in Nat
      BY DEF Measured, n
    <2>2. \A i \in 1 .. n + 1 : i \in 1 .. n \/ i = n + 1
      BY <1>1
    <2>3. QED
      BY <1>1, <2>1, <2>2 DEF Measured
  <1>3. PICK f : Sums(f, s, n) /\ TotalLen(s) = f[n]
    BY <1>1, TotalIs DEF n
  <1>4. PICK g : Sums(g, t, n + 1) /\ TotalLen(t) = g[n + 1]
    BY <1>1, TotalIs
  <1>5. f[n] = g[n]
    <2>1. SameLenUpTo(s, t, n)
      BY <1>1 DEF SameLenUpTo
    <2>2. n \in Nat /\ n + 1 \in Nat /\ n <= n + 1
      BY <1>1
    <2>3. Sums(f, s, n) /\ Sums(g, t, n + 1)
      BY <1>3, <1>4
    <2>4. QED
      BY <2>1, <2>2, <2>3, SumAgrees
  <1>6. g[n + 1] = g[n] + e.len
    BY <1>1, <1>4 DEF Sums
  <1>7. QED
    BY <1>2, <1>3, <1>4, <1>5, <1>6 DEF t

LEMMA MeasuredPrefix ==
  ASSUME NEW s, Measured(s), NEW n \in 0 .. Len(s)
  PROVE  Measured(SubSeq(s, 1, n)) /\ Len(SubSeq(s, 1, n)) = n
  <1>1. PICK S : s \in Seq(S)
    BY DEF Measured, IsSequence
  <1>2. /\ SubSeq(s, 1, n) \in Seq(S) /\ Len(SubSeq(s, 1, n)) = n
        /\ \A i \in 1 .. n : SubSeq(s, 1, n)[i] = s[i]
    BY <1>1
  <1>3. \A i \in 1 .. n : s[i].len \in Nat
    BY <1>1 DEF Measured
  <1>4. QED
    BY <1>2, <1>3 DEF Measured, IsSequence

-----------------------------------------------------------------------------
(* A capture knows of a stream how much was written and how it began.      *)

Capturing(limit) ==
  [prefix : Seq(Nat), limit : {limit}, observed : ByteCount,
   attempted : BOOLEAN, failed : BOOLEAN, unfinished : BOOLEAN,
   pending : BOOLEAN, truncated : BOOLEAN]

CountOf(total) == IF total <= CountMax THEN Exact(total) ELSE Overflow

Knows(c, limit, total) ==
  /\ c \in Capturing(limit)
  /\ ~c.pending /\ ~c.unfinished
  /\ c.observed = CountOf(total)
  /\ c.truncated <=> total > limit
  /\ Len(c.prefix) = Least(limit, total)
  /\ \A i \in 1 .. Len(c.prefix) : c.prefix[i] = i

Failed(texts) == \E i \in DOMAIN texts : ~texts[i].ok

Captured(c, limit, texts) ==
  /\ Knows(c, limit, TotalLen(texts))
  /\ c.attempted <=> texts # <<>>
  /\ c.failed <=> Failed(texts)

LEMMA CountAdds ==
  ASSUME NEW t \in Nat, NEW n \in Nat
  PROVE  /\ CountOf(t) \in ByteCount
         /\ AddBytes(CountOf(t), n) = CountOf(t + n)
  <1>1. CountMax \in Nat /\ "exact" # "overflow"
    BY CountMaxAssumption
  <1>2. CASE t <= CountMax
    <2>1. CountOf(t) = Exact(t) /\ Exact(t).status = "exact" /\ Exact(t).bytes = t
      BY <1>2 DEF CountOf, Exact
    <2>2. Exact(t) \in ByteCount
      BY <1>1, <1>2 DEF ByteCount, Exact
    <2>3. QED
      BY <2>1, <2>2 DEF AddBytes, CountOf
  <1>3. CASE ~(t <= CountMax)
    <2>1. CountOf(t) = Overflow /\ Overflow.status = "overflow"
      BY <1>3 DEF CountOf, Overflow
    <2>2. ~(t + n <= CountMax)
      BY <1>1, <1>3
    <2>3. QED
      BY <1>1, <2>1, <2>2 DEF AddBytes, CountOf, ByteCount
  <1>4. QED
    BY <1>2, <1>3

LEMMA KnowsNew ==
  ASSUME NEW limit \in Nat PROVE Captured(NewCapture(limit), limit, <<>>)
  <1>1. TotalLen(<<>>) = 0 /\ DOMAIN <<>> = {} /\ Len(<<>>) = 0 /\ <<>> \in Seq(Nat)
    BY TotalOfNothing
  <1>2. CountOf(0) = Exact(0) /\ Exact(0) \in ByteCount
    BY CountMaxAssumption DEF CountOf, ByteCount, Exact
  <1>3. NewCapture(limit) \in Capturing(limit)
    BY <1>1, <1>2 DEF NewCapture, Capturing
  <1>4. Knows(NewCapture(limit), limit, 0)
    BY <1>1, <1>2, <1>3 DEF Knows, NewCapture, Least
  <1>5. QED
    BY <1>1, <1>4 DEF Captured, NewCapture, Failed

\* It was attempted, and has failed if it had or this write did.
Wrote(c, d, ok) == d.attempted /\ (d.failed <=> (c.failed \/ ~ok))

\* How much of n more bytes is kept.
LEMMA Keeping ==
  ASSUME NEW limit \in Nat, NEW total \in Nat, NEW n \in Nat, NEW k,
         k = Least(n, limit - Least(limit, total))
  PROVE  /\ k \in Nat /\ k <= n
         /\ Least(limit, total) \in Nat
         /\ Least(limit, total) + k = Least(limit, total + n)
         /\ (total > limit \/ k < n) <=> total + n > limit
         /\ k > 0 => Least(limit, total) = total
  BY DEF Least

LEMMA Joined ==
  ASSUME NEW p \in Seq(Nat), NEW q \in Seq(Nat)
  PROVE  /\ p \o q \in Seq(Nat) /\ Len(p \o q) = Len(p) + Len(q)
         /\ \A i \in 1 .. Len(p) : (p \o q)[i] = p[i]
         /\ \A i \in Len(p) + 1 .. Len(p) + Len(q) : (p \o q)[i] = q[i - Len(p)]
         /\ Len(p) \in Nat /\ Len(q) \in Nat
  OBVIOUS

\* One write: what went before, and its own bytes.
LEMMA KnowsWrite ==
  ASSUME NEW limit \in Nat, NEW total \in Nat, NEW c, Knows(c, limit, total),
         NEW bytes \in Seq(Nat), \A i \in 1 .. Len(bytes) : bytes[i] = total + i,
         NEW ok \in BOOLEAN
  PROVE  /\ Knows(FinishWrite(BeginWrite(c, bytes), ok), limit, total + Len(bytes))
         /\ Wrote(c, FinishWrite(BeginWrite(c, bytes), ok), ok)
  <1> DEFINE n == Retain(c, bytes)
             more == SubSeq(bytes, 1, n)
             b == BeginWrite(c, bytes)
             d == FinishWrite(b, ok)
  <1> HIDE DEF n, more, b, d
  <1>1. /\ c \in Capturing(limit) /\ c.limit = limit /\ c.prefix \in Seq(Nat)
        /\ Len(c.prefix) = Least(limit, total)
        /\ \A i \in 1 .. Len(c.prefix) : c.prefix[i] = i
        /\ c.observed = CountOf(total)
        /\ c.truncated \in BOOLEAN /\ c.failed \in BOOLEAN /\ c.unfinished \in BOOLEAN
        /\ c.truncated <=> total > limit
    BY DEF Knows, Capturing
  <1>2. Len(bytes) \in Nat
    OBVIOUS
  <1>3. n = Least(Len(bytes), limit - Least(limit, total))
    BY <1>1 DEF Retain, Least, n
  <1>4. /\ n \in Nat /\ n <= Len(bytes)
        /\ Least(limit, total) \in Nat
        /\ Least(limit, total) + n = Least(limit, total + Len(bytes))
        /\ (total > limit \/ n < Len(bytes)) <=> total + Len(bytes) > limit
        /\ n > 0 => Least(limit, total) = total
    <2> DEFINE m == Len(bytes)
    <2>1. m \in Nat /\ n = Least(m, limit - Least(limit, total))
      BY <1>2, <1>3
    <2> HIDE DEF m, n
    <2>2. /\ n \in Nat /\ n <= m
          /\ Least(limit, total) \in Nat
          /\ Least(limit, total) + n = Least(limit, total + m)
          /\ (total > limit \/ n < m) <=> total + m > limit
          /\ n > 0 => Least(limit, total) = total
      BY <2>1 DEF Least
    <2>3. QED
      BY <2>2 DEF m
  <1>5. more \in Seq(Nat) /\ Len(more) = n /\ \A i \in 1 .. n : more[i] = total + i
    <2> HIDE DEF n
    <2>1. /\ more \in Seq(Nat) /\ Len(more) = n
          /\ \A i \in 1 .. n : i \in 1 .. Len(bytes) /\ more[i] = bytes[i]
      BY <1>2, <1>4 DEF more
    <2> HIDE DEF more
    <2>2. QED
      BY <2>1
  <1>6. /\ c.prefix \o more \in Seq(Nat)
        /\ Len(c.prefix \o more) = Least(limit, total) + n
        /\ \A i \in 1 .. Len(c.prefix) : (c.prefix \o more)[i] = c.prefix[i]
        /\ \A i \in Len(c.prefix) + 1 .. Len(c.prefix) + n :
              (c.prefix \o more)[i] = more[i - Len(c.prefix)]
    BY <1>1, <1>5, Joined
  <1>7. /\ CountOf(total + Len(bytes)) \in ByteCount
        /\ AddBytes(CountOf(total), Len(bytes)) = CountOf(total + Len(bytes))
    <2>1. total + Len(bytes) \in Nat
      BY <1>2
    <2>2. \A t \in Nat : CountOf(t) \in ByteCount
      BY CountAdds
    <2>3. QED
      BY <1>2, <2>1, <2>2, CountAdds
  <1>8. /\ b \in Capturing(limit)
        /\ b.attempted /\ b.pending /\ b.failed = c.failed
        /\ b.unfinished = (c.unfinished \/ c.pending)
        /\ b.observed = CountOf(total + Len(bytes))
        /\ b.prefix = c.prefix \o more
        /\ b.truncated = (c.truncated \/ n < Len(bytes))
    <2>1. b = [c EXCEPT !.unfinished = c.unfinished \/ c.pending,
                        !.pending = TRUE, !.attempted = TRUE,
                        !.observed = CountOf(total + Len(bytes)),
                        !.prefix = c.prefix \o more,
                        !.truncated = c.truncated \/ n < Len(bytes)]
      BY <1>1, <1>7 DEF BeginWrite, n, more, b
    <2>2. QED
      BY <1>1, <1>6, <1>7, <2>1 DEF Capturing
  <1>9. /\ d \in Capturing(limit)
        /\ d.attempted /\ ~d.pending /\ (d.failed <=> (c.failed \/ ~ok))
        /\ d.unfinished = b.unfinished /\ d.observed = b.observed
        /\ d.prefix = b.prefix /\ d.truncated = b.truncated
    BY <1>8 DEF FinishWrite, Capturing, d
  <1>10. ~d.unfinished
    BY <1>8, <1>9 DEF Knows
  <1>11. d.truncated <=> total + Len(bytes) > limit
    BY <1>1, <1>4, <1>8, <1>9
  <1>12. d.prefix = c.prefix \o more
    BY <1>8, <1>9
  <1>13. Len(d.prefix) = Least(limit, total + Len(bytes))
    BY <1>4, <1>6, <1>12
  <1>14. \A i \in 1 .. Least(limit, total) + n : (c.prefix \o more)[i] = i
    <2> SUFFICES ASSUME NEW i \in 1 .. Least(limit, total) + n
        PROVE  (c.prefix \o more)[i] = i
      OBVIOUS
    <2>1. CASE i <= Least(limit, total)
      BY <1>1, <1>4, <1>6, <2>1
    <2>2. CASE i > Least(limit, total)
      <3>1. /\ i - Least(limit, total) \in 1 .. n
            /\ i \in Least(limit, total) + 1 .. Least(limit, total) + n
            /\ Least(limit, total) = total
        BY <1>4, <2>2
      <3>2. (c.prefix \o more)[i] = more[i - Least(limit, total)]
        BY <1>1, <1>6, <3>1
      <3>3. QED
        BY <1>5, <3>1, <3>2
    <2>3. Least(limit, total) \in Nat
      BY <1>4
    <2>4. i <= Least(limit, total) \/ i > Least(limit, total)
      BY <2>3
    <2>5. QED
      BY <2>1, <2>2, <2>4
  <1>15. \A i \in 1 .. Len(d.prefix) : d.prefix[i] = i
    BY <1>6, <1>12, <1>14
  <1>16. Knows(d, limit, total + Len(bytes))
    BY <1>8, <1>9, <1>10, <1>11, <1>13, <1>15 DEF Knows
  <1>17. QED
    BY <1>9, <1>16 DEF d, b, Wrote

\* A text that follows others, written at once.
LEMMA CapturedText ==
  ASSUME NEW limit \in Nat, NEW c, NEW texts, Measured(texts),
         Captured(c, limit, texts), NEW e, e.len \in Nat, e.ok \in BOOLEAN
  PROVE  Captured(FinishWrite(BeginWrite(c, BytesAfter(texts, e.len)), e.ok),
                  limit, Append(texts, e))
  <1> DEFINE t == TotalLen(texts)
             bytes == BytesAfter(texts, e.len)
             d == FinishWrite(BeginWrite(c, bytes), e.ok)
  <1>1. t \in Nat /\ TotalLen(Append(texts, e)) = t + e.len
    BY TotalIsNat, TotalOfOneMore
  <1>2. bytes \in Seq(Nat) /\ Len(bytes) = e.len /\ \A i \in 1 .. e.len : bytes[i] = t + i
    <2> HIDE DEF t
    <2>1. bytes = [i \in 1 .. e.len |-> t + i]
      BY DEF BytesAfter, t
    <2> HIDE DEF bytes
    <2>2. QED
      BY <1>1, <2>1
  <1>3. Knows(c, limit, t) /\ (c.failed <=> Failed(texts))
    BY DEF Captured
  <1> HIDE DEF t, bytes
  <1>4. Knows(d, limit, t + e.len) /\ Wrote(c, d, e.ok)
    <2>1. \A i \in 1 .. Len(bytes) : bytes[i] = t + i
      BY <1>2
    <2>2. Knows(d, limit, t + Len(bytes)) /\ Wrote(c, d, e.ok)
      BY <1>1, <1>2, <1>3, <2>1, KnowsWrite
    <2>3. QED
      BY <1>2, <2>2
  <1> HIDE DEF d
  <1>5. Append(texts, e) # <<>> /\ (Failed(Append(texts, e)) <=> (Failed(texts) \/ ~e.ok))
    <2>1. /\ Len(texts) \in Nat /\ DOMAIN texts = 1 .. Len(texts)
          /\ Len(Append(texts, e)) = Len(texts) + 1
          /\ DOMAIN Append(texts, e) = 1 .. Len(texts) + 1
          /\ \A i \in 1 .. Len(texts) : Append(texts, e)[i] = texts[i]
          /\ Append(texts, e)[Len(texts) + 1] = e
      BY AppendedOne DEF Measured
    <2>2. \A i \in 1 .. Len(texts) + 1 : i \in 1 .. Len(texts) \/ i = Len(texts) + 1
      BY <2>1
    <2>3. Len(<<>>) = 0 /\ Len(texts) + 1 \in 1 .. Len(texts) + 1
      BY <2>1
    <2>4. QED
      BY <2>1, <2>2, <2>3 DEF Failed
  <1>6. QED
    BY <1>1, <1>3, <1>4, <1>5 DEF Captured, Wrote, d, bytes

\* A line that follows others reaches its stream as a text and a newline.
LEMMA CapturedLine ==
  ASSUME NEW limit \in Nat, NEW c, NEW texts, Measured(texts),
         Captured(c, limit, texts), NEW e, e.len \in Nat \ {0}, e.ok = TRUE,
         NEW bytes, bytes = BytesAfter(texts, e.len)
  PROVE  Captured(FinishWrite(BeginWrite(
                    FinishWrite(BeginWrite(c, SubSeq(bytes, 1, Len(bytes) - 1)), TRUE),
                    <<bytes[Len(bytes)]>>), TRUE), limit, Append(texts, e))
  <1> DEFINE t == TotalLen(texts)
             line == SubSeq(bytes, 1, Len(bytes) - 1)
             newline == <<bytes[Len(bytes)]>>
             b == FinishWrite(BeginWrite(c, line), TRUE)
             d == FinishWrite(BeginWrite(b, newline), TRUE)
  <1>1. t \in Nat /\ TotalLen(Append(texts, e)) = t + e.len
    BY TotalIsNat, TotalOfOneMore
  <1>2. bytes \in Seq(Nat) /\ Len(bytes) = e.len /\ \A i \in 1 .. e.len : bytes[i] = t + i
    <2> HIDE DEF t
    <2>1. bytes = [i \in 1 .. e.len |-> t + i]
      BY DEF BytesAfter, t
    <2>2. QED
      BY <1>1, <2>1
  <1>3. Knows(c, limit, t) /\ (c.failed <=> Failed(texts))
    BY DEF Captured
  <1> HIDE DEF t
  <1>4. line \in Seq(Nat) /\ Len(line) = e.len - 1 /\ \A i \in 1 .. e.len - 1 : line[i] = t + i
    BY <1>2
  <1>5. /\ newline \in Seq(Nat) /\ Len(newline) = 1
        /\ \A i \in 1 .. 1 : newline[i] = t + (e.len - 1) + i
    <2>1. bytes[e.len] = t + e.len /\ t + e.len \in Nat
      BY <1>1, <1>2
    <2>2. newline = <<t + e.len>>
      BY <1>2, <2>1
    <2>3. QED
      BY <1>1, <2>1, <2>2
  <1> HIDE DEF line, newline
  <1> HIDE DEF b, d
  <1> DEFINE u == t + (e.len - 1)
  <1>6. u \in Nat /\ u + 1 = t + e.len /\ t + Len(line) = u
    BY <1>1, <1>4
  <1>7. /\ \A i \in 1 .. Len(line) : line[i] = t + i
        /\ \A i \in 1 .. Len(newline) : newline[i] = u + i
    BY <1>4, <1>5
  <1> HIDE DEF u
  <1>8. Knows(b, limit, u) /\ Wrote(c, b, TRUE)
    <2>1. t \in Nat /\ Knows(c, limit, t) /\ line \in Seq(Nat)
      BY <1>1, <1>3, <1>4
    <2>2. \A i \in 1 .. Len(line) : line[i] = t + i
      BY <1>7
    <2>3. \A bs \in Seq(Nat) : (\A i \in 1 .. Len(bs) : bs[i] = t + i) =>
            Knows(FinishWrite(BeginWrite(c, bs), TRUE), limit, t + Len(bs))
      BY <2>1, KnowsWrite
    <2>4. \A bs \in Seq(Nat) : (\A i \in 1 .. Len(bs) : bs[i] = t + i) =>
            Wrote(c, FinishWrite(BeginWrite(c, bs), TRUE), TRUE)
      BY <2>1, KnowsWrite
    <2>5. Knows(FinishWrite(BeginWrite(c, line), TRUE), limit, t + Len(line))
      BY <2>1, <2>2, <2>3
    <2>6. Wrote(c, FinishWrite(BeginWrite(c, line), TRUE), TRUE)
      BY <2>1, <2>2, <2>4
    <2>7. QED
      BY <1>6, <2>5, <2>6 DEF b
  <1>9. Knows(d, limit, t + e.len) /\ Wrote(b, d, TRUE)
    <2>1. u \in Nat /\ Knows(b, limit, u) /\ newline \in Seq(Nat)
      BY <1>5, <1>6, <1>8
    <2>2. \A i \in 1 .. Len(newline) : newline[i] = u + i
      BY <1>7
    <2>3. \A bs \in Seq(Nat) : (\A i \in 1 .. Len(bs) : bs[i] = u + i) =>
            Knows(FinishWrite(BeginWrite(b, bs), TRUE), limit, u + Len(bs))
      BY <2>1, KnowsWrite
    <2>4. \A bs \in Seq(Nat) : (\A i \in 1 .. Len(bs) : bs[i] = u + i) =>
            Wrote(b, FinishWrite(BeginWrite(b, bs), TRUE), TRUE)
      BY <2>1, KnowsWrite
    <2>5. Knows(FinishWrite(BeginWrite(b, newline), TRUE), limit, u + Len(newline))
      BY <2>1, <2>2, <2>3
    <2>6. Wrote(b, FinishWrite(BeginWrite(b, newline), TRUE), TRUE)
      BY <2>1, <2>2, <2>4
    <2>7. u + Len(newline) = t + e.len
      BY <1>5, <1>6
    <2>8. QED
      BY <2>5, <2>6, <2>7 DEF d
  <1>10. d.attempted /\ (d.failed <=> c.failed)
    BY <1>8, <1>9 DEF Wrote
  <1>11. Append(texts, e) # <<>> /\ (Failed(Append(texts, e)) <=> Failed(texts))
    <2>1. /\ Len(texts) \in Nat /\ DOMAIN texts = 1 .. Len(texts)
          /\ Len(Append(texts, e)) = Len(texts) + 1
          /\ DOMAIN Append(texts, e) = 1 .. Len(texts) + 1
          /\ \A i \in 1 .. Len(texts) : Append(texts, e)[i] = texts[i]
          /\ Append(texts, e)[Len(texts) + 1] = e
      BY AppendedOne DEF Measured
    <2>2. \A i \in 1 .. Len(texts) + 1 : i \in 1 .. Len(texts) \/ i = Len(texts) + 1
      BY <2>1
    <2>3. Len(<<>>) = 0 /\ Len(texts) + 1 \in 1 .. Len(texts) + 1
      BY <2>1
    <2>4. QED
      BY <2>1, <2>2, <2>3 DEF Failed
  <1>12. QED
    BY <1>1, <1>3, <1>9, <1>10, <1>11 DEF Captured, d, b, line, newline

-----------------------------------------------------------------------------
(* What the recorder knows of the invocation.                              *)

RetainedFindings ==
  {NothingRetained} \cup
  {f \in [coverage : {"construction", "full", "selected"}, total : Nat,
           records : Seq([kind : {"finding"}, len : Nat])] :
     Len(f.records) <= f.total /\ Len(f.records) <= StructuredLimit}

Routing ==
  [embedding : {"not_embedded", "result_document"},
   route : {"none", "stdout_document", "stderr_text", "stderr_json"},
   suppression : {"none", "budget_refusal", "earlier_write_failure"},
   attempt : {"not_attempted", "attempted"}]

Observations ==
  [active : BOOLEAN, stdout : Capturing(StdoutLimit),
   stderr : Capturing(StderrLimit), findings : RetainedFindings, hint : Routing,
   refused : BOOLEAN,
   mode : {"text", "json", "bare_jgf", "raw_graph_set", "no_document"}]

Texts(texts) ==
  Measured(texts) /\ \A i \in 1 .. Len(texts) : texts[i].ok \in BOOLEAN

Typed ==
  /\ args \in Arguments
  /\ hints \in Seq(HintNames) /\ told \in Nat
  /\ Texts(stdout) /\ Texts(stderr)
  /\ chain \in ErrorChains \cup {<<>>}
  /\ result \in {"none", "clean", "violations", "failed", "closed",
                 "stdout_failed", "refused_json", "refused_text"}
  /\ obs \in Observations

Unwritten ==
  pc \in {"load", "evaluate", "render"} =>
    /\ stdout = <<>> /\ stderr = <<>> /\ result = "none"
    /\ obs.hint = InitialHint
    /\ pc = "load" => obs = NotRecording

\* The result is what became of stdout.
Concluding ==
  /\ pc \in {"route", "report", "finish", "done"} => result # "none"
  /\ Failed(stdout) <=> result \in {"closed", "stdout_failed"}

\* The captures follow the streams, and the hints' fate what was written.
Observing ==
  obs.active /\ pc # "dead" =>
    /\ Captured(obs.stdout, StdoutLimit, stdout)
    /\ Captured(obs.stderr, StderrLimit, stderr)
    /\ obs.hint.attempt = "attempted" <=> Attempted(stdout) \/ Attempted(stderr)
    /\ obs.hint.route \in {"stderr_text", "stderr_json"} <=> Attempted(stderr)
    /\ obs.hint.suppression # "none" => Refusal \/ Failed(stdout)

Ended ==
  /\ pc = "done" =>
       /\ exit = ExitCode
       /\ event = IF obs.active THEN FinishEvent(FinishInput) ELSE NoEvent
  /\ event # NoEvent => pc = "done"

RecordInvariant == Typed /\ Unwritten /\ Concluding /\ Observing /\ Ended

LEMMA Elements ==
  ASSUME NEW S, NEW s \in Seq(S)
  PROVE  /\ Len(s) \in Nat /\ DOMAIN s = 1 .. Len(s)
         /\ \A i \in 1 .. Len(s) : s[i] \in S
         /\ \A n \in 0 .. Len(s) :
              /\ SubSeq(s, 1, n) \in Seq(S) /\ Len(SubSeq(s, 1, n)) = n
              /\ \A i \in 1 .. n : SubSeq(s, 1, n)[i] = s[i]
  OBVIOUS

LEMMA Listed ==
  ASSUME NEW S, NEW n \in Nat, NEW s \in [1 .. n -> S]
  PROVE  s \in Seq(S) /\ Len(s) = n
  OBVIOUS

LEMMA Streaming ==
  /\ StdoutLimit \in Nat /\ StderrLimit \in Nat /\ CountMax \in Nat
  /\ StdoutLimit < CountMax /\ StderrLimit < CountMax
  /\ HintLen \in [HintNames -> Nat \ {0}]
  BY EventAssumption, CountMaxAssumption, ReportAssumption

LEMMA RetainedIsFindings ==
  ASSUME NEW coverage \in {"construction", "full", "selected"},
         NEW records \in FindingLists
  PROVE  Retained(coverage, records) \in RetainedFindings
  <1> DEFINE F == [kind : {"finding"}, len : Nat]
             fits(i) == 2 + ArrayLen(SubSeq(records, 1, i)) <= StructuredLimit
             S == {i \in 0 .. Len(records) : i = 0 \/ fits(i)}
             n == Max(S)
             kept == SubSeq(records, 1, n)
  <1>1. records \in Seq(F)
    BY ReportAssumption
  <1>2. \A i \in 1 .. Len(records) : records[i].len \in Nat
    <2> HIDE DEF F
    <2>1. \A i \in 1 .. Len(records) : records[i] \in F
      BY <1>1, Elements
    <2>2. QED
      BY <2>1 DEF F
  <1> HIDE DEF F
  <1>3. Measured(records) /\ Len(records) \in Nat
    BY <1>1, <1>2, Elements DEF Measured, IsSequence
  <1>4. n \in S
    <2> HIDE DEF fits
    <2>1. S \in SUBSET (0 .. Len(records)) /\ 0 \in S
      BY <1>3
    <2> HIDE DEF S
    <2>2. QED
      BY <1>3, <2>1, Greatest
  <1>5. n \in 0 .. Len(records) /\ (n = 0 \/ fits(n))
    BY <1>4
  <1>6. Retained(coverage, records) =
          [coverage |-> coverage, total |-> Len(records), records |-> kept]
    BY DEF Retained
  <1> HIDE DEF n
  <1>7. kept \in Seq(F) /\ Len(kept) = n /\ Measured(kept) /\ n <= Len(records)
    BY <1>1, <1>3, <1>5, Elements, MeasuredPrefix
  <1>8. n <= StructuredLimit
    <2>1. TotalLen(kept) \in Nat
      BY <1>7, TotalIsNat
    <2>2. StructuredLimit \in Nat
      BY EventAssumption
    <2>3. fits(n) => 2 + TotalLen(kept) + Minus(n, 1) <= StructuredLimit
      <3>1. fits(n) => 2 + ArrayLen(kept) <= StructuredLimit
        OBVIOUS
      <3>2. ArrayLen(kept) = TotalLen(kept) + Minus(n, 1)
        BY <1>7 DEF ArrayLen
      <3> HIDE DEF kept, fits
      <3>3. Minus(n, 1) \in Nat
        BY <1>3, <1>5 DEF Minus
      <3>4. QED
        BY <2>1, <2>2, <3>1, <3>2, <3>3
    <2> HIDE DEF fits, kept
    <2>4. QED
      BY <1>3, <1>5, <2>1, <2>2, <2>3 DEF Minus
  <1> DEFINE r == Retained(coverage, records)
  <1> HIDE DEF kept
  <1>9. /\ r \in [coverage : {"construction", "full", "selected"}, total : Nat,
                  records : Seq(F)]
        /\ Len(r.records) <= r.total /\ Len(r.records) <= StructuredLimit
    BY <1>3, <1>6, <1>7, <1>8
  <1> HIDE DEF r
  <1>10. QED
    BY <1>9 DEF RetainedFindings, F, r

LEMMA HintsMeasured ==
  ASSUME NEW hs \in Seq(HintNames)
  PROVE  /\ Measured(HintRecords(hs)) /\ Len(HintRecords(hs)) = Len(hs)
         /\ \A i \in 1 .. Len(hs) : HintRecords(hs)[i].kind = "hint"
         /\ LenOf(hs) \in Nat
  <1> DEFINE H == [kind : {"hint"}, len : Nat]
             r == HintRecords(hs)
  <1>1. Len(hs) \in Nat /\ DOMAIN hs = 1 .. Len(hs) /\ \A i \in 1 .. Len(hs) : hs[i] \in HintNames
    OBVIOUS
  <1>2. \A i \in 1 .. Len(hs) : [kind |-> "hint", len |-> HintLen[hs[i]]] \in H
    BY <1>1, Streaming
  <1>3. r = [i \in 1 .. Len(hs) |-> [kind |-> "hint", len |-> HintLen[hs[i]]]]
    BY <1>1 DEF HintRecords
  <1>4. r \in [1 .. Len(hs) -> H]
    BY <1>2, <1>3
  <1> HIDE DEF r, H
  <1>5. r \in Seq(H) /\ Len(r) = Len(hs)
    BY <1>1, <1>4, Listed
  <1>6. \A i \in 1 .. Len(hs) : r[i].kind = "hint" /\ r[i].len \in Nat
    BY <1>4 DEF H
  <1>7. Measured(r)
    BY <1>5, <1>6 DEF Measured, IsSequence
  <1>8. TotalLen(r) \in Nat
    BY <1>7, TotalIsNat
  <1>9. QED
    BY <1>5, <1>6, <1>7, <1>8 DEF LenOf, r

LEMMA ChainsMeasured ==
  ASSUME NEW c \in ErrorChains \cup {<<>>}
  PROVE  /\ Measured(c) /\ TotalLen(c) \in Nat
         /\ \A i \in 1 .. Len(c) : c[i].raw \in Nat /\ c[i].len # 0
  <1> DEFINE L == [raw : Nat, len : Nat \ {0}]
  <1>1. c \in Seq(L)
    <2>1. ErrorChains \subseteq Seq(L)
      BY ReportAssumption
    <2> HIDE DEF L
    <2>2. <<>> \in Seq(L)
      OBVIOUS
    <2>3. QED
      BY <2>1, <2>2
  <1>2. \A i \in 1 .. Len(c) : c[i].raw \in Nat /\ c[i].len \in Nat /\ c[i].len # 0
    <2> HIDE DEF L
    <2>1. \A i \in 1 .. Len(c) : c[i] \in L
      BY <1>1, Elements
    <2>2. QED
      BY <2>1 DEF L
  <1>3. Measured(c) /\ \A i \in 1 .. Len(c) : c[i].raw \in Nat /\ c[i].len # 0
    BY <1>1, <1>2 DEF Measured, IsSequence
  <1>4. QED
    BY <1>3, TotalIsNat

LEMMA SomeHints == ASSUME NEW hs \in Seq(HintNames) PROVE hs # <<>> <=> Range(hs) # {}
  <1>1. Len(hs) \in Nat /\ DOMAIN hs = 1 .. Len(hs) /\ (hs = <<>> <=> Len(hs) = 0)
    OBVIOUS
  <1>2. Len(hs) # 0 => 1 \in DOMAIN hs
    BY <1>1
  <1>3. Len(hs) = 0 => DOMAIN hs = {}
    BY <1>1
  <1>4. QED
    BY <1>1, <1>2, <1>3 DEF Range

LEMMA AppendedText ==
  ASSUME NEW texts, Texts(texts), NEW e, e.len \in Nat, e.ok \in BOOLEAN
  PROVE  /\ Texts(Append(texts, e))
         /\ Failed(Append(texts, e)) <=> (Failed(texts) \/ ~e.ok)
         /\ Attempted(Append(texts, e))
              <=> (Attempted(texts) \/ e.kind = "document" \/ e.hints # {})
  <1> DEFINE t == Append(texts, e)
             n == Len(texts)
  <1>1. /\ n \in Nat /\ DOMAIN texts = 1 .. n
        /\ Len(t) = n + 1 /\ DOMAIN t = 1 .. n + 1
        /\ \A i \in 1 .. n : t[i] = texts[i]
        /\ t[n + 1] = e
    BY AppendedOne DEF Texts, Measured
  <1>2. Measured(t)
    BY TotalOfOneMore DEF Texts
  <1>3. \A i \in 1 .. n : texts[i].ok \in BOOLEAN
    BY DEF Texts
  <1> HIDE DEF t, n
  <1>4. (\A i \in 1 .. n + 1 : i \in 1 .. n \/ i = n + 1) /\ n + 1 \in 1 .. n + 1
        /\ \A i \in 1 .. n : i \in 1 .. n + 1
    BY <1>1
  <1>5. Texts(t)
    BY <1>1, <1>2, <1>3, <1>4 DEF Texts
  <1>6. Failed(t) <=> (Failed(texts) \/ ~e.ok)
    BY <1>1, <1>4 DEF Failed
  <1>7. Attempted(t) <=> (Attempted(texts) \/ e.kind = "document" \/ e.hints # {})
    BY <1>1, <1>4 DEF Attempted
  <1>8. QED
    BY <1>5, <1>6, <1>7 DEF t

LEMMA NothingWritten == Texts(<<>>) /\ ~Failed(<<>>) /\ ~Attempted(<<>>)
  <1>1. Len(<<>>) = 0 /\ DOMAIN <<>> = {} /\ 1 .. 0 = {}
    OBVIOUS
  <1>2. QED
    BY <1>1, TotalOfNothing DEF Texts, Failed, Attempted

LEMMA NotRecordingTyped ==
  /\ NotRecording \in Observations
  /\ Captured(NotRecording.stdout, StdoutLimit, <<>>)
  /\ Captured(NotRecording.stderr, StderrLimit, <<>>)
  /\ NotRecording.hint = InitialHint
  <1>1. /\ Captured(NewCapture(StdoutLimit), StdoutLimit, <<>>)
        /\ Captured(NewCapture(StderrLimit), StderrLimit, <<>>)
    BY KnowsNew, Streaming
  <1>2. /\ NewCapture(StdoutLimit) \in Capturing(StdoutLimit)
        /\ NewCapture(StderrLimit) \in Capturing(StderrLimit)
    BY <1>1 DEF Captured, Knows
  <1>3. InitialHint \in Routing
    BY DEF InitialHint, Routing
  <1>4. NothingRetained \in RetainedFindings
    BY DEF RetainedFindings
  <1>5. QED
    BY <1>1, <1>2, <1>3, <1>4 DEF NotRecording, Observations

\* Before a result is written: the captures are new, and the hints' routing
\* says whether a document is about to carry them.
Prepared(o, embeds) ==
  /\ o \in Observations
  /\ o.active =>
       /\ Captured(o.stdout, StdoutLimit, <<>>)
       /\ Captured(o.stderr, StderrLimit, <<>>)
       /\ o.hint.attempt = "not_attempted" /\ o.hint.suppression = "none"
       /\ o.hint.route \notin {"stderr_text", "stderr_json"}
       /\ o.hint.embedding = "result_document" <=> embeds
       /\ o.hint.route = "stdout_document" <=> embeds

LEMMA RecordingRefusal ==
  ASSUME NEW o, Prepared(o, TRUE) \/ Prepared(o, FALSE)
  PROVE  LET p == ObserveRefusal(o)
         IN  /\ p \in Observations
             /\ p.active = o.active
             /\ p.active =>
                  /\ p.stdout = o.stdout /\ p.stderr = o.stderr
                  /\ p.hint.attempt = "not_attempted"
                  /\ p.hint.route \notin {"stderr_text", "stderr_json"}
  <1> DEFINE p == ObserveRefusal(o)
  <1>1. o \in Observations /\ o.hint \in Routing
    BY DEF Prepared, Observations
  <1>2. CASE ~o.active
    <2>1. p = o
      BY <1>2 DEF ObserveRefusal, Recording
    <2>2. QED
      BY <1>1, <1>2, <2>1
  <1>3. CASE o.active
    <2>1. p = [o EXCEPT !.hint = [o.hint EXCEPT !.suppression = "budget_refusal"],
                        !.refused = TRUE]
      BY <1>1, <1>3 DEF ObserveRefusal, Recording, Observations, Routing
    <2>2. [o.hint EXCEPT !.suppression = "budget_refusal"] \in Routing
      BY <1>1 DEF Routing
    <2>3. [o.hint EXCEPT !.suppression = "budget_refusal"].attempt = o.hint.attempt
          /\ [o.hint EXCEPT !.suppression = "budget_refusal"].route = o.hint.route
      BY <1>1 DEF Routing
    <2>4. p \in Observations /\ p.active = o.active /\ p.stdout = o.stdout
          /\ p.stderr = o.stderr
          /\ p.hint = [o.hint EXCEPT !.suppression = "budget_refusal"]
      BY <1>1, <2>1, <2>2 DEF Observations
    <2>5. QED
      BY <1>3, <2>3, <2>4 DEF Prepared
  <1>4. QED
    BY <1>2, <1>3

\* The stdout observation of a text: its capture, and whether hints were
\* part of it.
LEMMA RecordingStdout ==
  ASSUME NEW embeds \in BOOLEAN, NEW o, Prepared(o, embeds), NEW len \in Nat,
         NEW mode \in {"text", "json", "bare_jgf", "raw_graph_set"},
         NEW ok \in BOOLEAN, NEW e, e.len = len, e.ok = ok
  PROVE  LET p == ObserveStdout(o, mode, BytesAfter(<<>>, len), ok)
         IN  /\ p \in Observations
             /\ p.active = o.active
             /\ p.active =>
                  /\ Captured(p.stdout, StdoutLimit, Append(<<>>, e))
                  /\ p.stderr = o.stderr
                  /\ p.hint.attempt = "attempted" <=> embeds
                  /\ p.hint.route \notin {"stderr_text", "stderr_json"}
                  /\ p.hint.suppression # "none" => ~ok
  <1> DEFINE p == ObserveStdout(o, mode, BytesAfter(<<>>, len), ok)
             s == FinishWrite(BeginWrite(o.stdout, BytesAfter(<<>>, len)), ok)
             a == IF o.hint.embedding = "result_document" THEN "attempted"
                  ELSE o.hint.attempt
             w == IF ~ok /\ o.hint.route = "stdout_document"
                  THEN "earlier_write_failure" ELSE o.hint.suppression
             h == [o.hint EXCEPT !.attempt = a, !.suppression = w]
  <1>1. o \in Observations /\ o.hint \in Routing
    BY DEF Prepared, Observations
  <1>2. CASE ~o.active
    <2>1. p = o
      BY <1>2 DEF ObserveStdout, Recording
    <2>2. QED
      BY <1>1, <1>2, <2>1
  <1>3. CASE o.active
    <2>1. p = [o EXCEPT !.mode = mode, !.hint = h, !.stdout = s]
      BY <1>1, <1>3 DEF ObserveStdout, Recording, Observations, Routing
    <2>2. Captured(s, StdoutLimit, Append(<<>>, e))
      BY <1>3, Streaming, TotalOfNothing, CapturedText DEF Prepared
    <2> HIDE DEF s
    <2>3. s \in Capturing(StdoutLimit)
      BY <2>2 DEF Captured, Knows
    <2>4. /\ a \in {"not_attempted", "attempted"} /\ (a = "attempted" <=> embeds)
          /\ w \in {"none", "earlier_write_failure"} /\ (w # "none" => ~ok)
      BY <1>3 DEF Prepared
    <2> HIDE DEF a, w
    <2>5. h \in Routing /\ h.attempt = a /\ h.suppression = w /\ h.route = o.hint.route
      BY <1>1, <2>4 DEF Routing
    <2> HIDE DEF h
    <2>6. p \in Observations /\ p.active = o.active /\ p.stdout = s
          /\ p.stderr = o.stderr /\ p.hint = h
      BY <1>1, <2>1, <2>3, <2>5 DEF Observations
    <2>7. o.hint.route \notin {"stderr_text", "stderr_json"}
      BY <1>3 DEF Prepared
    <2> HIDE DEF p
    <2>8. QED
      BY <2>2, <2>4, <2>5, <2>6, <2>7 DEF p
  <1>4. QED
    BY <1>2, <1>3

\* What a result leaves behind, for the recorder.
Recorded ==
  /\ Texts(stdout') /\ chain' \in ErrorChains \cup {<<>>}
  /\ result' \in {"clean", "violations", "closed", "stdout_failed",
                  "refused_json", "refused_text"}
  /\ Failed(stdout') <=> result' \in {"closed", "stdout_failed"}
  /\ obs' \in Observations
  /\ obs'.active =>
       /\ Captured(obs'.stdout, StdoutLimit, stdout')
       /\ Captured(obs'.stderr, StderrLimit, <<>>)
       /\ obs'.hint.attempt = "attempted" <=> Attempted(stdout')
       /\ obs'.hint.route \notin {"stderr_text", "stderr_json"}
       /\ obs'.hint.suppression # "none" =>
            result' \in {"refused_json", "refused_text"} \/ Failed(stdout')

LEMMA WriteRecorded ==
  ASSUME NEW kind, NEW names, NEW len \in Nat,
         NEW mode \in {"text", "json", "bare_jgf", "raw_graph_set"}, NEW o,
         NEW good \in {"clean", "violations"}, stdout = <<>>,
         NEW embeds \in BOOLEAN, Prepared(o, embeds),
         embeds <=> (kind = "document" \/ names # {}),
         WriteStdout(kind, names, len, mode, o, good)
  PROVE  Recorded
  <1> DEFINE Line(ok) == [kind |-> kind, hints |-> names, len |-> len, ok |-> ok]
  <1>1. \A ok \in BOOLEAN :
          /\ Line(ok).len = len /\ Line(ok).ok = ok
          /\ Line(ok).kind = kind /\ Line(ok).hints = names
    OBVIOUS
  <1>2. PICK ok \in BOOLEAN :
          /\ stdout' = Append(<<>>, Line(ok))
          /\ obs' = ObserveStdout(o, mode, BytesAfter(<<>>, len), ok)
          /\ result' \in IF ok THEN {good} ELSE {"closed", "stdout_failed"}
          /\ chain' \in ErrorChains \cup {<<>>}
    <2>1. PICK outcome \in {"written", "closed", "stdout_failed"} :
            /\ stdout' = Append(stdout, [kind |-> kind, hints |-> names,
                                        len |-> len, ok |-> outcome = "written"])
            /\ obs' = ObserveStdout(o, mode, BytesAfter(stdout, len),
                                    outcome = "written")
            /\ result' = IF outcome = "written" THEN good ELSE outcome
            /\ chain' \in IF outcome = "written" THEN {<<>>} ELSE PlainErrors
      BY DEF WriteStdout
    <2>2. (outcome = "written") \in BOOLEAN
      OBVIOUS
    <2>3. chain' \in ErrorChains \cup {<<>>}
      BY <2>1 DEF PlainErrors
    <2>4. stdout' = Append(<<>>, Line(outcome = "written"))
      BY <2>1
    <2>5. obs' = ObserveStdout(o, mode, BytesAfter(<<>>, len), outcome = "written")
      BY <2>1
    <2>6. result' \in IF outcome = "written" THEN {good} ELSE {"closed", "stdout_failed"}
      BY <2>1
    <2> HIDE DEF Line
    <2>7. QED
      BY <2>2, <2>3, <2>4, <2>5, <2>6, Zenon
  <1> DEFINE e == Line(ok)
             p == ObserveStdout(o, mode, BytesAfter(<<>>, len), ok)
  <1>3. e.len = len /\ e.ok = ok /\ e.kind = kind /\ e.hints = names
    BY <1>1
  <1> HIDE DEF Line, e, p
  <1>4. /\ p \in Observations
        /\ p.active = o.active
        /\ p.active =>
             /\ Captured(p.stdout, StdoutLimit, Append(<<>>, e))
             /\ p.stderr = o.stderr
             /\ p.hint.attempt = "attempted" <=> embeds
             /\ p.hint.route \notin {"stderr_text", "stderr_json"}
             /\ p.hint.suppression # "none" => ~ok
    BY <1>3, RecordingStdout DEF p
  <1>5. /\ Texts(Append(<<>>, e)) /\ (Failed(Append(<<>>, e)) <=> ~ok)
        /\ Attempted(Append(<<>>, e)) <=> embeds
    <2>1. Texts(<<>>) /\ ~Failed(<<>>) /\ ~Attempted(<<>>)
      BY NothingWritten
    <2>2. e.len \in Nat /\ e.ok \in BOOLEAN
      BY <1>3
    <2>3. /\ Texts(Append(<<>>, e))
          /\ Failed(Append(<<>>, e)) <=> (Failed(<<>>) \/ ~e.ok)
          /\ Attempted(Append(<<>>, e))
               <=> (Attempted(<<>>) \/ e.kind = "document" \/ e.hints # {})
      BY <2>1, <2>2, AppendedText
    <2>4. QED
      BY <1>3, <2>1, <2>3
  <1>6. stdout' = Append(<<>>, e) /\ obs' = p
    BY <1>2 DEF e, p
  <1>7. p.active => Captured(p.stderr, StderrLimit, <<>>)
    BY <1>4 DEF Prepared
  <1>8. /\ result' \in {"clean", "violations", "closed", "stdout_failed"}
        /\ result' \in {"closed", "stdout_failed"} <=> ~ok
    BY <1>2
  <1>9. QED
    BY <1>2, <1>4, <1>5, <1>6, <1>7, <1>8 DEF Recorded

LEMMA PrintRecorded ==
  ASSUME NEW kind, NEW names, NEW len \in Nat,
         NEW mode \in {"text", "json", "bare_jgf", "raw_graph_set"}, NEW json, NEW o,
         stdout = <<>>, NEW embeds \in BOOLEAN, Prepared(o, embeds),
         embeds <=> (kind = "document" \/ names # {}),
         PrintWithin(kind, names, len, mode, json, o)
  PROVE  Recorded
  <1>1. CASE Exceeds(len)
    <2>1. /\ stdout' = <<>> /\ obs' = ObserveRefusal(o)
          /\ result' \in {"refused_json", "refused_text"}
          /\ chain' \in ErrorChains \cup {<<>>}
      BY <1>1 DEF PrintWithin, PlainErrors
    <2> DEFINE p == ObserveRefusal(o)
    <2>2. Prepared(o, TRUE) \/ Prepared(o, FALSE)
      <3>1. embeds = TRUE \/ embeds = FALSE
        OBVIOUS
      <3>2. QED
        BY <3>1
    <2>3. /\ p \in Observations /\ p.active = o.active
          /\ p.active =>
               /\ p.stdout = o.stdout /\ p.stderr = o.stderr
               /\ p.hint.attempt = "not_attempted"
               /\ p.hint.route \notin {"stderr_text", "stderr_json"}
      BY <2>2, RecordingRefusal
    <2> HIDE DEF p
    <2>4. p.active => /\ Captured(p.stdout, StdoutLimit, <<>>)
                      /\ Captured(p.stderr, StderrLimit, <<>>)
      BY <2>3 DEF Prepared
    <2>5. obs' = p
      BY <2>1 DEF p
    <2>6. QED
      BY <2>1, <2>3, <2>4, <2>5, NothingWritten DEF Recorded
  <1>2. CASE ~Exceeds(len)
    <2>1. WriteStdout(kind, names, len, mode, o, "clean")
      BY <1>2 DEF PrintWithin
    <2>2. QED
      BY <2>1, WriteRecorded
  <1>3. QED
    BY <1>1, <1>2

LEMMA PreparedAt ==
  ASSUME RecordInvariant, pc = "render", NEW o \in Judged(obs)
  PROVE  Prepared(o, FALSE)
  <1>1. /\ obs \in Observations /\ obs.hint = InitialHint
        /\ stdout = <<>> /\ stderr = <<>>
        /\ obs.active => Captured(obs.stdout, StdoutLimit, <<>>)
                         /\ Captured(obs.stderr, StderrLimit, <<>>)
    BY DEF RecordInvariant, Typed, Unwritten, Observing
  <1>2. /\ o \in Observations /\ o.active = obs.active /\ o.hint = obs.hint
        /\ o.stdout = obs.stdout /\ o.stderr = obs.stderr
    <2>1. CASE o = obs
      BY <1>1, <2>1
    <2>2. CASE \E coverage \in {"construction", "full", "selected"}, records \in FindingLists :
                 o = ObserveFindings(obs, coverage, records)
      <3>1. PICK coverage \in {"construction", "full", "selected"}, records \in FindingLists :
                 o = ObserveFindings(obs, coverage, records)
        BY <2>2
      <3>2. Retained(coverage, records) \in RetainedFindings
        BY RetainedIsFindings
      <3>3. o = obs \/ o = [obs EXCEPT !.findings = Retained(coverage, records)]
        BY <3>1 DEF ObserveFindings, Recording
      <3>4. QED
        BY <1>1, <3>2, <3>3 DEF Observations
    <2>3. QED
      BY <2>1, <2>2 DEF Judged
  <1>3. QED
    BY <1>1, <1>2 DEF Prepared, InitialHint

LEMMA PreparedDocument ==
  ASSUME NEW o, Prepared(o, FALSE) PROVE Prepared(ObserveEmbedded(o), TRUE)
  <1> DEFINE p == ObserveEmbedded(o)
             h == [o.hint EXCEPT !.embedding = "result_document",
                                 !.route = "stdout_document"]
  <1>1. o \in Observations /\ o.hint \in Routing
    BY DEF Prepared, Observations
  <1>2. CASE ~o.active
    BY <1>1, <1>2 DEF ObserveEmbedded, Recording, Prepared
  <1>3. CASE o.active
    <2>1. p = [o EXCEPT !.hint = h]
      BY <1>1, <1>3 DEF ObserveEmbedded, Recording, Observations, Routing
    <2>2. /\ h \in Routing /\ h.embedding = "result_document" /\ h.route = "stdout_document"
          /\ h.attempt = o.hint.attempt /\ h.suppression = o.hint.suppression
      BY <1>1 DEF Routing
    <2> HIDE DEF h
    <2>3. p \in Observations /\ p.active = o.active /\ p.stdout = o.stdout
          /\ p.stderr = o.stderr /\ p.hint = h
      BY <1>1, <2>1, <2>2 DEF Observations
    <2> HIDE DEF p
    <2>4. Prepared(p, TRUE)
      BY <1>3, <2>2, <2>3 DEF Prepared
    <2>5. QED
      BY <2>4 DEF p
  <1>4. QED
    BY <1>2, <1>3

LEMMA LargeHintTyped ==
  ASSUME hints \in Seq(HintNames), NEW len PROVE WithLargeHint(len) \in Seq(HintNames)
  <1>1. "large" \in HintNames
    BY DEF HintNames
  <1>2. Append(hints, "large") \in Seq(HintNames)
    BY <1>1
  <1>3. QED
    BY <1>2 DEF WithLargeHint

LEMMA DocumentRecorded ==
  ASSUME RecordInvariant, stdout = <<>>, NEW o, Prepared(o, FALSE),
         NEW size \in Sizes, RenderDocument(o, size)
  PROVE  Recorded /\ hints' \in Seq(HintNames)
  <1>1. hints \in Seq(HintNames) /\ size \in Nat
    BY ReportAssumption DEF RecordInvariant, Typed
  <1>2. hints' \in Seq(HintNames)
    BY <1>1, LargeHintTyped DEF RenderDocument
  <1> DEFINE len == size + LenOf(hints') + 1
             names == Range(hints')
  <1>3. len \in Nat
    BY <1>1, <1>2, HintsMeasured
  <1>4. \/ \E good \in Clean :
             WriteStdout("document", names, len, "json", ObserveEmbedded(o), good)
        \/ PrintWithin("document", names, len, "json", TRUE, ObserveEmbedded(o))
    BY DEF RenderDocument
  <1>5. Prepared(ObserveEmbedded(o), TRUE)
    BY PreparedDocument
  <1>6. Clean \subseteq {"clean", "violations"}
    BY DEF Clean
  <1> HIDE DEF len, names
  <1>7. TRUE \in BOOLEAN /\ (TRUE <=> ("document" = "document" \/ names # {}))
    OBVIOUS
  <1>8. ASSUME NEW good \in Clean,
               WriteStdout("document", names, len, "json", ObserveEmbedded(o), good)
        PROVE  Recorded
    BY <1>3, <1>5, <1>6, <1>7, <1>8, WriteRecorded
  <1>9. ASSUME PrintWithin("document", names, len, "json", TRUE, ObserveEmbedded(o))
        PROVE  Recorded
    BY <1>3, <1>5, <1>7, <1>9, PrintRecorded
  <1>10. QED
    BY <1>2, <1>4, <1>8, <1>9

\* A text that carries no hints.
LEMMA PlainRecorded ==
  ASSUME NEW kind, kind # "document", stdout = <<>>, NEW o, Prepared(o, FALSE),
         NEW len \in Nat, NEW mode \in {"text", "json", "bare_jgf", "raw_graph_set"},
         NEW json,
         \/ \E good \in {"clean", "violations"} :
              WriteStdout(kind, {}, len, mode, o, good)
         \/ PrintWithin(kind, {}, len, mode, json, o)
  PROVE  Recorded
  <1>1. FALSE \in BOOLEAN /\ (FALSE <=> (kind = "document" \/ {} # {}))
    OBVIOUS
  <1>2. QED
    BY <1>1, WriteRecorded, PrintRecorded

LEMMA BareRecorded ==
  ASSUME RecordInvariant, stdout = <<>>, NEW o, Prepared(o, FALSE),
         NEW size \in Sizes, RenderBare(o, size)
  PROVE  Recorded /\ hints' \in Seq(HintNames)
  <1>1. hints \in Seq(HintNames) /\ size + 1 \in Nat
    BY ReportAssumption DEF RecordInvariant, Typed
  <1>2. hints' \in Seq(HintNames)
    BY <1>1, LargeHintTyped DEF RenderBare
  <1>3. QED
    BY <1>1, <1>2, PlainRecorded DEF RenderBare

LEMMA TextRecorded ==
  ASSUME RecordInvariant, stdout = <<>>, NEW o, Prepared(o, FALSE),
         NEW size \in Sizes, RenderText(o, size)
  PROVE  Recorded /\ hints' \in Seq(HintNames)
  <1>1. hints \in Seq(HintNames) /\ size \in Nat
    BY ReportAssumption DEF RecordInvariant, Typed
  <1>2. hints' \in Seq(HintNames)
    BY <1>1, LargeHintTyped DEF RenderText
  <1>3. QED
    BY <1>1, <1>2, PlainRecorded DEF RenderText, Clean

LEMMA OtherRecorded ==
  ASSUME RecordInvariant, stdout = <<>>, stderr = <<>>, NEW o, Prepared(o, FALSE),
         NEW size \in Sizes, RenderOther(o, size)
  PROVE  Recorded /\ hints' \in Seq(HintNames)
  <1>1. hints \in Seq(HintNames) /\ size \in Nat /\ chain \in ErrorChains \cup {<<>>}
    BY ReportAssumption DEF RecordInvariant, Typed
  <1>2. hints' = hints
    BY DEF RenderOther
  <1>3. CASE args.cmd = "init"
    <2>1. stdout' = <<>> /\ result' = "clean" /\ chain' = chain /\ obs' = o
      BY <1>3 DEF RenderOther
    <2>2. QED
      BY <1>1, <1>2, <2>1, NothingWritten DEF Recorded, Prepared
  <1>4. CASE args.cmd # "init"
    BY <1>1, <1>2, <1>4, PlainRecorded DEF RenderOther
  <1>5. QED
    BY <1>3, <1>4

LEMMA RecordRender == ASSUME RecordInvariant, Render PROVE RecordInvariant'
  <1>1. /\ pc = "render" /\ pc' = "route" /\ stdout = <<>> /\ stderr = <<>>
        /\ args \in Arguments /\ UNCHANGED <<args, stderr, told, exit, event>>
        /\ event = NoEvent /\ told \in Nat
    BY DEF Render, RecordInvariant, Typed, Unwritten, Ended
  <1>2. PICK o \in Judged(obs), size \in Sizes :
          \/ RenderDocument(o, size) \/ RenderBare(o, size)
          \/ RenderText(o, size) \/ RenderOther(o, size)
    BY DEF Render
  <1>3. Prepared(o, FALSE)
    BY <1>1, PreparedAt
  <1>4. Recorded /\ hints' \in Seq(HintNames)
    BY <1>1, <1>2, <1>3, DocumentRecorded, BareRecorded, TextRecorded, OtherRecorded
  <1>5. Typed'
    BY <1>1, <1>4, NothingWritten DEF Typed, Recorded
  <1>6. Unwritten' /\ Concluding'
    BY <1>1, <1>4 DEF Unwritten, Concluding, Recorded
  <1>7. Observing'
    <2>1. stderr' = <<>> /\ ~Attempted(<<>>)
      BY <1>1, NothingWritten
    <2>2. QED
      BY <1>4, <2>1 DEF Observing, Recorded, Refusal
  <1>8. Ended'
    BY <1>1 DEF Ended
  <1>9. QED
    BY <1>5, <1>6, <1>7, <1>8 DEF RecordInvariant

LEMMA RecordInit == Init => RecordInvariant
  <1> SUFFICES ASSUME Init PROVE RecordInvariant
    OBVIOUS
  <1>1. /\ args \in Arguments /\ pc = "load" /\ hints = <<>> /\ told = 0 /\ result = "none"
        /\ chain = <<>> /\ stdout = <<>> /\ stderr = <<>> /\ obs = NotRecording
        /\ event = NoEvent
    BY DEF Init
  <1>2. <<>> \in Seq(HintNames)
    OBVIOUS
  <1>3. Typed
    BY <1>1, <1>2, NothingWritten, NotRecordingTyped DEF Typed
  <1>4. Unwritten /\ Concluding /\ Ended
    BY <1>1, NothingWritten, NotRecordingTyped DEF Unwritten, Concluding, Ended
  <1>5. Observing
    BY <1>1, NotActive DEF Observing
  <1>6. QED
    BY <1>3, <1>4, <1>5 DEF RecordInvariant

LEMMA RecordLoad == ASSUME RecordInvariant, Load PROVE RecordInvariant'
  <1>1. /\ pc = "load" /\ stdout = <<>> /\ stderr = <<>> /\ result = "none"
        /\ obs = NotRecording /\ event = NoEvent /\ Typed
        /\ UNCHANGED <<args, stdout, stderr, told, exit, event>>
    BY DEF Load, RecordInvariant, Unwritten, Ended
  <1>2. \/ /\ result' = "failed" /\ chain' \in ErrorChains /\ pc' = "report"
           /\ UNCHANGED <<hints, obs>>
        \/ /\ pc' = "evaluate" /\ hints' \in {<<>>, <<"config">>}
           /\ \E recording \in BOOLEAN : obs' = [obs EXCEPT !.active = recording]
           /\ UNCHANGED <<result, chain>>
    <2>1. CASE pc' = "report"
      BY <2>1 DEF Load
    <2>2. CASE pc' = "evaluate"
      <3>1. PICK published \in BOOLEAN, len \in StartLens :
              obs' = [obs EXCEPT !.active = /\ args.cmd \in Covered
                                            /\ FitsIn(len, EventLimit)
                                            /\ published]
        BY <2>2 DEF Load
      <3>2. (/\ args.cmd \in Covered /\ FitsIn(len, EventLimit) /\ published) \in BOOLEAN
        OBVIOUS
      <3>3. \E recording \in BOOLEAN : obs' = [obs EXCEPT !.active = recording]
        BY <3>1, <3>2, Zenon
      <3>4. QED
        BY <2>2, <3>3 DEF Load
    <2>3. QED
      BY <2>1, <2>2 DEF Load
  <1>3. CASE pc' = "report"
    <2>1. result' = "failed" /\ chain' \in ErrorChains /\ UNCHANGED <<hints, obs>>
      BY <1>2, <1>3
    <2>2. Typed'
      BY <1>1, <2>1 DEF Typed
    <2>3. Unwritten' /\ Concluding' /\ Ended'
      BY <1>1, <1>3, <2>1, NothingWritten DEF Unwritten, Concluding, Ended
    <2>4. Observing'
      BY <1>1, <2>1, NotActive DEF Observing
    <2>5. QED
      BY <2>2, <2>3, <2>4 DEF RecordInvariant
  <1>4. CASE pc' = "evaluate"
    <2>1. PICK recording \in BOOLEAN : obs' = [NotRecording EXCEPT !.active = recording]
      BY <1>1, <1>2, <1>4
    <2>2. /\ obs' \in Observations /\ obs'.hint = InitialHint
          /\ obs'.stdout = NotRecording.stdout /\ obs'.stderr = NotRecording.stderr
      BY <2>1, NotRecordingTyped DEF Observations
    <2>3. hints' \in Seq(HintNames)
      <3>1. "config" \in HintNames
        BY DEF HintNames
      <3>2. <<>> \in Seq(HintNames) /\ <<"config">> \in Seq(HintNames)
        BY <3>1
      <3>3. QED
        BY <1>2, <1>4, <3>2
    <2>4. result' = "none" /\ chain' = chain
      BY <1>1, <1>2, <1>4
    <2>5. Typed'
      BY <1>1, <2>2, <2>3, <2>4 DEF Typed
    <2>6. Unwritten' /\ Concluding' /\ Ended'
      BY <1>1, <1>4, <2>2, <2>4, NothingWritten DEF Unwritten, Concluding, Ended
    <2>7. Observing'
      BY <1>1, <2>2, NotRecordingTyped, NothingWritten DEF Observing, InitialHint
    <2>8. QED
      BY <2>5, <2>6, <2>7 DEF RecordInvariant
  <1>5. QED
    BY <1>2, <1>3, <1>4

LEMMA RecordEvaluate == ASSUME RecordInvariant, Evaluate PROVE RecordInvariant'
  <1>1. /\ pc = "evaluate" /\ stdout = <<>> /\ stderr = <<>> /\ result = "none"
        /\ obs.hint = InitialHint /\ event = NoEvent /\ Typed /\ Observing
        /\ UNCHANGED <<args, stdout, stderr, told, exit, event>>
    BY DEF Evaluate, RecordInvariant, Unwritten, Ended
  <1>2. /\ obs' \in Observations /\ obs'.active = obs.active /\ obs'.hint = obs.hint
        /\ obs'.stdout = obs.stdout /\ obs'.stderr = obs.stderr
    <2>1. obs' = obs \/ \E records \in FindingLists :
                          obs' = ObserveFindings(obs, "construction", records)
      BY DEF Evaluate
    <2>2. CASE obs' = obs
      BY <1>1, <2>2 DEF Typed
    <2>3. CASE obs' # obs
      <3>1. PICK records \in FindingLists :
              obs' = ObserveFindings(obs, "construction", records)
        BY <2>1, <2>3
      <3>2. Retained("construction", records) \in RetainedFindings
        BY RetainedIsFindings
      <3>3. obs' = [obs EXCEPT !.findings = Retained("construction", records)]
        BY <2>3, <3>1 DEF ObserveFindings, Recording
      <3>4. QED
        BY <1>1, <3>2, <3>3 DEF Observations, Typed
    <2>4. QED
      BY <2>2, <2>3
  <1>3. hints' \in Seq(HintNames)
    <2>1. "run" \in HintNames /\ hints \in Seq(HintNames)
      BY <1>1 DEF HintNames, Typed
    <2>2. Append(hints, "run") \in Seq(HintNames)
      BY <2>1
    <2>3. QED
      BY <2>1, <2>2 DEF Evaluate
  <1>4. \/ result' = "failed" /\ chain' \in ErrorChains /\ pc' = "route"
        \/ pc' = "render" /\ result' = "none" /\ chain' = chain
    <2>1. \/ result' = "failed" /\ chain' \in ErrorChains /\ pc' = "route"
          \/ pc' = "render" /\ result' = result /\ chain' = chain
      BY DEF Evaluate
    <2>2. QED
      BY <1>1, <2>1
  <1>5. Typed'
    BY <1>1, <1>2, <1>3, <1>4 DEF Typed
  <1>6. Unwritten' /\ Concluding' /\ Ended'
    BY <1>1, <1>2, <1>4, NothingWritten DEF Unwritten, Concluding, Ended
  <1>7. Observing'
    BY <1>1, <1>2, NothingWritten DEF Observing, InitialHint
  <1>8. QED
    BY <1>5, <1>6, <1>7 DEF RecordInvariant

\* Hints about to be written to stderr, or nothing that carries any.
Announced(o, names) ==
  \/ names = {} /\ o = obs
  \/ names # {} /\ \E route \in {"stderr_text", "stderr_json"} :
                     o = ObserveStderrAttempt(obs, route)

LEMMA RecordStderr ==
  ASSUME RecordInvariant, pc \in {"route", "report"},
         NEW kind, kind # "document", NEW names, NEW len \in Nat \ {0}, NEW o,
         Announced(o, names), NEW n \in Nat, NEW next \in {"route", "report", "finish"},
         WriteStderr(kind, names, len, o, n, next)
  PROVE  RecordInvariant'
  <1> DEFINE Line(ok) == [kind |-> kind, hints |-> names, len |-> len, ok |-> ok]
  <1>1. \A ok \in BOOLEAN : /\ Line(ok).len = len /\ Line(ok).ok = ok
                            /\ Line(ok).kind = kind /\ Line(ok).hints = names
    OBVIOUS
  <1>2. /\ UNCHANGED <<args, hints, result, chain, stdout>> /\ told' \in {n, told}
        /\ \/ /\ stderr' = Append(stderr, Line(TRUE)) /\ pc' = next
              /\ obs' = ObserveStderr(o, BytesAfter(stderr, len))
              /\ event' = event
           \/ /\ stderr' = Append(stderr, Line(FALSE)) /\ pc' = "dead"
              /\ obs' = o /\ event' = NoEvent
    BY DEF WriteStderr, Panic
  <1> HIDE DEF Line
  <1>3. Typed /\ Concluding /\ event = NoEvent /\ (obs.active => Observing)
    BY DEF RecordInvariant, Ended
  <1>4. /\ o \in Observations /\ o.active = obs.active
        /\ o.stdout = obs.stdout /\ o.stderr = obs.stderr
        /\ o.active =>
             /\ o.hint.suppression = obs.hint.suppression
             /\ names = {} => o.hint = obs.hint
             /\ names # {} => /\ o.hint.attempt = "attempted"
                              /\ o.hint.route \in {"stderr_text", "stderr_json"}
    <2>1. obs \in Observations /\ obs.hint \in Routing
      BY <1>3 DEF Typed, Observations
    <2>2. CASE o = obs /\ (names = {} \/ ~obs.active)
      BY <2>1, <2>2
    <2>3. CASE names # {} /\ obs.active
      <3>1. PICK route \in {"stderr_text", "stderr_json"} :
              o = ObserveStderrAttempt(obs, route)
        BY <2>3 DEF Announced
      <3> DEFINE h == [obs.hint EXCEPT !.route = route, !.attempt = "attempted"]
      <3>2. o = [obs EXCEPT !.hint = h]
        BY <2>1, <2>3, <3>1 DEF ObserveStderrAttempt, Recording, Observations, Routing
      <3>3. /\ h \in Routing /\ h.route = route /\ h.attempt = "attempted"
            /\ h.suppression = obs.hint.suppression
        BY <2>1 DEF Routing
      <3> HIDE DEF h
      <3>4. o \in Observations /\ o.active = obs.active /\ o.stdout = obs.stdout
            /\ o.stderr = obs.stderr /\ o.hint = h
        BY <2>1, <3>2, <3>3 DEF Observations
      <3>5. QED
        BY <2>3, <3>3, <3>4
    <2>4. ~obs.active => o = obs
      BY DEF Announced, ObserveStderrAttempt, Recording
    <2>5. QED
      BY <2>2, <2>3, <2>4 DEF Announced
  <1>5. /\ Texts(stderr)
        /\ \A ok \in BOOLEAN :
             /\ Texts(Append(stderr, Line(ok)))
             /\ Attempted(Append(stderr, Line(ok))) <=> (Attempted(stderr) \/ names # {})
    <2>1. Texts(stderr)
      BY <1>3 DEF Typed
    <2> SUFFICES ASSUME NEW ok \in BOOLEAN
        PROVE  /\ Texts(Append(stderr, Line(ok)))
               /\ Attempted(Append(stderr, Line(ok))) <=> (Attempted(stderr) \/ names # {})
      BY <2>1
    <2> DEFINE e == Line(ok)
    <2>2. e.len \in Nat /\ e.ok \in BOOLEAN /\ e.kind = kind /\ e.hints = names
      BY <1>1
    <2> HIDE DEF e
    <2>3. /\ Texts(Append(stderr, e))
          /\ Attempted(Append(stderr, e))
               <=> (Attempted(stderr) \/ e.kind = "document" \/ e.hints # {})
      BY <2>1, <2>2, AppendedText
    <2>4. QED
      BY <2>2, <2>3 DEF e
  <1>6. CASE pc' = "dead"
    <2>1. stderr' = Append(stderr, Line(FALSE)) /\ obs' = o /\ event' = NoEvent
      BY <1>2, <1>6
    <2>2. Texts(stderr')
      BY <1>5, <2>1
    <2>3. Typed'
      BY <1>2, <1>3, <1>4, <2>1, <2>2 DEF Typed
    <2>4. Concluding' /\ Unwritten' /\ Ended' /\ Observing'
      BY <1>2, <1>3, <1>6, <2>1 DEF Concluding, Unwritten, Ended, Observing
    <2>5. QED
      BY <2>3, <2>4 DEF RecordInvariant
  <1>7. CASE pc' # "dead"
    <2> DEFINE bytes == BytesAfter(stderr, len)
               c == FinishWrite(BeginWrite(
                      FinishWrite(BeginWrite(o.stderr, SubSeq(bytes, 1, Len(bytes) - 1)), TRUE),
                      <<bytes[Len(bytes)]>>), TRUE)
    <2>1. /\ stderr' = Append(stderr, Line(TRUE)) /\ pc' = next
          /\ obs' = ObserveStderr(o, bytes) /\ event' = NoEvent
      BY <1>2, <1>3, <1>7
    <2>2. Texts(stderr') /\ (Attempted(stderr') <=> (Attempted(stderr) \/ names # {}))
      BY <1>5, <2>1
    <2>3. o.active => Captured(c, StderrLimit, stderr')
      <3> SUFFICES ASSUME o.active PROVE Captured(c, StderrLimit, stderr')
        OBVIOUS
      <3> DEFINE e == Line(TRUE)
      <3>1. e.len = len /\ e.ok = TRUE
        BY <1>1
      <3>2. Measured(stderr) /\ Captured(o.stderr, StderrLimit, stderr)
        BY <1>3, <1>4, <1>5 DEF Observing, Texts
      <3>3. bytes = BytesAfter(stderr, e.len)
        BY <3>1
      <3> HIDE DEF e, bytes
      <3>4. Captured(c, StderrLimit, Append(stderr, e))
        BY <3>1, <3>2, <3>3, Streaming, CapturedLine
      <3>5. QED
        BY <2>1, <3>4 DEF e
    <2>4. obs' = IF o.active THEN [o EXCEPT !.stderr = c] ELSE o
      BY <2>1 DEF ObserveStderr, Recording
    <2> HIDE DEF c, bytes
    <2>5. o.active => c \in Capturing(StderrLimit)
      BY <2>3 DEF Captured, Knows
    <2>6. /\ obs' \in Observations /\ obs'.active = o.active /\ obs'.hint = o.hint
          /\ obs'.stdout = o.stdout
          /\ o.active => obs'.stderr = c
      <3>1. CASE o.active
        <4>1. obs' = [o EXCEPT !.stderr = c]
          BY <2>4, <3>1
        <4>2. QED
          BY <1>4, <2>5, <3>1, <4>1 DEF Observations
      <3>2. CASE ~o.active
        BY <1>4, <2>4, <3>2
      <3>3. QED
        BY <3>1, <3>2
    <2>7. Typed'
      BY <1>2, <1>3, <2>2, <2>6 DEF Typed
    <2>8. Concluding' /\ Unwritten' /\ Ended'
      BY <1>2, <1>3, <2>1 DEF Concluding, Unwritten, Ended
    <2>9. Observing'
      <3> SUFFICES ASSUME obs'.active
          PROVE  /\ Captured(obs'.stdout, StdoutLimit, stdout')
                 /\ Captured(obs'.stderr, StderrLimit, stderr')
                 /\ obs'.hint.attempt = "attempted" <=> Attempted(stdout') \/ Attempted(stderr')
                 /\ obs'.hint.route \in {"stderr_text", "stderr_json"} <=> Attempted(stderr')
                 /\ obs'.hint.suppression # "none" => Refusal' \/ Failed(stdout')
        BY DEF Observing
      <3>1. obs.active /\ o.active
        BY <1>4, <2>6
      <3>2. /\ Captured(obs.stdout, StdoutLimit, stdout)
            /\ obs.hint.attempt = "attempted" <=> Attempted(stdout) \/ Attempted(stderr)
            /\ obs.hint.route \in {"stderr_text", "stderr_json"} <=> Attempted(stderr)
            /\ obs.hint.suppression # "none" => Refusal \/ Failed(stdout)
        BY <1>3, <3>1 DEF Observing
      <3>3. stdout' = stdout /\ (Refusal' <=> Refusal)
        BY <1>2 DEF Refusal
      <3>4. CASE names = {}
        BY <1>4, <2>2, <2>3, <2>6, <3>1, <3>2, <3>3, <3>4
      <3>5. CASE names # {}
        BY <1>4, <2>2, <2>3, <2>6, <3>1, <3>2, <3>3, <3>5
      <3>6. QED
        BY <3>4, <3>5
    <2>10. QED
      BY <2>7, <2>8, <2>9 DEF RecordInvariant
  <1>8. QED
    BY <1>6, <1>7

LEMMA RecordRouteEnvelope ==
  ASSUME RecordInvariant, RouteEnvelope PROVE RecordInvariant'
  <1>1. /\ pc = "route" /\ hints # <<>> /\ hints \in Seq(HintNames) /\ told \in Nat
        /\ WriteStderr("hint_envelope", Range(hints), LenOf(hints) + 1,
                 ObserveStderrAttempt(obs, "stderr_json"), told, "report")
    BY DEF RouteEnvelope, HintsOnTheirOwn, Undelivered, RecordInvariant, Typed
  <1>2. LenOf(hints) + 1 \in Nat \ {0}
    BY <1>1, HintsMeasured
  <1>3. Announced(ObserveStderrAttempt(obs, "stderr_json"), Range(hints))
    BY <1>1, SomeHints DEF Announced
  <1>4. QED
    BY <1>1, <1>2, <1>3, RecordStderr

LEMMA RecordRouteLine == ASSUME RecordInvariant, RouteLine PROVE RecordInvariant'
  <1> DEFINE h == hints[told + 1]
  <1>1. /\ pc = "route" /\ hints \in Seq(HintNames) /\ told \in Nat /\ told < Len(hints)
        /\ WriteStderr("hint", {h}, HintLen[h] + 1,
                 ObserveStderrAttempt(obs, "stderr_text"), told + 1, "route")
    BY DEF RouteLine, RecordInvariant, Typed
  <1>2. h \in HintNames
    <2>1. told + 1 \in 1 .. Len(hints)
      BY <1>1
    <2>2. QED
      BY <1>1, <2>1
  <1>3. HintLen[h] + 1 \in Nat \ {0} /\ told + 1 \in Nat
    BY <1>1, <1>2, Streaming
  <1> HIDE DEF h
  <1>4. Announced(ObserveStderrAttempt(obs, "stderr_text"), {h})
    BY DEF Announced
  <1>5. QED
    BY <1>1, <1>3, <1>4, RecordStderr

LEMMA RecordReportError == ASSUME RecordInvariant, ReportError PROVE RecordInvariant'
  <1>1. /\ pc = "report" /\ hints \in Seq(HintNames) /\ told \in Nat
        /\ chain \in ErrorChains \cup {<<>>}
    BY DEF ReportError, RecordInvariant, Typed
  <1>2. LenOf(hints) \in Nat /\ TotalLen(chain) \in Nat
    BY <1>1, HintsMeasured, ChainsMeasured
  <1>3. CASE ErrorAsJson
    <2> DEFINE o == IF hints # <<>> THEN ObserveStderrAttempt(obs, "stderr_json") ELSE obs
               len == TotalLen(chain) + LenOf(hints) + 1
    <2>1. WriteStderr("error_envelope", Range(hints), len, o, told, "finish")
      BY <1>3 DEF ReportError
    <2>2. Announced(o, Range(hints))
      <3>1. hints # <<>> <=> Range(hints) # {}
        BY <1>1, SomeHints
      <3>2. QED
        BY <3>1 DEF Announced
    <2>3. len \in Nat \ {0}
      BY <1>2
    <2> HIDE DEF o, len
    <2>4. QED
      BY <1>1, <2>1, <2>2, <2>3, RecordStderr
  <1>4. CASE ~ErrorAsJson
    <2>1. WriteStderr("error", {}, TotalLen(chain) + 1, obs, told, "finish")
      BY <1>4 DEF ReportError
    <2>2. TotalLen(chain) + 1 \in Nat \ {0} /\ Announced(obs, {})
      BY <1>2 DEF Announced
    <2>3. QED
      BY <1>1, <2>1, <2>2, RecordStderr
  <1>5. QED
    BY <1>3, <1>4

LEMMA RecordRouteNothing == ASSUME RecordInvariant, RouteNothing PROVE RecordInvariant'
  <1>1. /\ pc = "route" /\ pc' = "report" /\ event = NoEvent /\ Typed /\ Concluding
        /\ UNCHANGED <<args, hints, result, chain, stdout, stderr, told, exit, event>>
        /\ \/ obs' = obs
           \/ StdoutWriteFailed(obs) /\ obs' = ObserveSuppression(obs, "earlier_write_failure")
    BY DEF RouteNothing, RecordInvariant, Ended
  <1>2. Concluding' /\ Unwritten' /\ Ended'
    BY <1>1 DEF Concluding, Unwritten, Ended
  <1>3. CASE obs' = obs
    <2>1. Typed' /\ Observing'
      BY <1>1, <1>3 DEF RecordInvariant, Typed, Observing, Refusal
    <2>2. QED
      BY <1>2, <2>1 DEF RecordInvariant
  <1>4. CASE StdoutWriteFailed(obs) /\ obs' = ObserveSuppression(obs, "earlier_write_failure")
    <2> DEFINE w == IF obs.hint.suppression = "none" THEN "earlier_write_failure"
                    ELSE obs.hint.suppression
               h == [obs.hint EXCEPT !.suppression = w]
    <2>1. obs.active /\ obs.stdout.failed
      BY <1>4 DEF StdoutWriteFailed
    <2>2. obs \in Observations /\ obs.hint \in Routing
      BY <1>1 DEF Typed, Observations
    <2>3. obs' = [obs EXCEPT !.hint = h]
      BY <1>4, <2>1, <2>2 DEF ObserveSuppression, Recording, Observations, Routing
    <2>4. w \in {"none", "budget_refusal", "earlier_write_failure"}
      BY <2>2 DEF Routing
    <2> HIDE DEF w
    <2>5. h \in Routing /\ h.attempt = obs.hint.attempt /\ h.route = obs.hint.route
      BY <2>2, <2>4 DEF Routing
    <2> HIDE DEF h
    <2>6. obs' \in Observations /\ obs'.active /\ obs'.hint = h
          /\ obs'.stdout = obs.stdout /\ obs'.stderr = obs.stderr
      BY <2>1, <2>2, <2>3, <2>5 DEF Observations
    <2>7. Failed(stdout)
      BY <1>1, <2>1 DEF RecordInvariant, Observing, Captured
    <2>8. Typed'
      BY <1>1, <2>6 DEF Typed
    <2>9. Observing'
      BY <1>1, <2>1, <2>5, <2>6, <2>7 DEF RecordInvariant, Observing
    <2>10. QED
      BY <1>2, <2>8, <2>9 DEF RecordInvariant
  <1>5. QED
    BY <1>1, <1>3, <1>4

LEMMA RecordFinish == ASSUME RecordInvariant, Finish PROVE RecordInvariant'
  <1>1. /\ pc = "finish" /\ pc' = "done" /\ exit' = ExitCode
        /\ event' = IF obs.active THEN FinishEvent(FinishInput) ELSE NoEvent
        /\ UNCHANGED <<args, hints, delivered, result, chain, stdout, stderr, told, obs>>
    BY DEF Finish
  <1>2. Typed' /\ Unwritten' /\ Concluding' /\ Observing'
    BY <1>1 DEF RecordInvariant, Typed, Unwritten, Concluding, Observing, Refusal
  <1>3. ExitCode' = ExitCode /\ FinishInput' = FinishInput
    BY <1>1 DEF FinishInput, ExitCode, Completion, Ok, Refusal, StdoutWriteFailed
  <1>4. FinishEvent(FinishInput)' = FinishEvent(FinishInput)
    BY <1>3
  <1>5. NoEvent' = NoEvent
    BY DEF NoEvent
  <1>6. Ended'
    BY <1>1, <1>3, <1>4, <1>5 DEF Ended
  <1>7. QED
    BY <1>2, <1>6 DEF RecordInvariant

LEMMA RecordStep == RecordInvariant /\ [Next]_vars => RecordInvariant'
  <1> SUFFICES ASSUME RecordInvariant, [Next]_vars PROVE RecordInvariant'
    OBVIOUS
  <1>1. CASE ScanPanics
    <2>1. /\ pc' = "dead" /\ event' = NoEvent
          /\ UNCHANGED <<args, hints, result, chain, stdout, stderr, told, obs>>
      BY <1>1 DEF ScanPanics, Panic
    <2>2. NoEvent' = NoEvent
      BY DEF NoEvent
    <2>3. QED
      BY <2>1, <2>2 DEF RecordInvariant, Typed, Unwritten, Concluding, Observing, Ended
  <1>2. CASE ReportNothing
    BY <1>2 DEF ReportNothing, RecordInvariant, Typed, Unwritten, Concluding,
                Observing, Ended, Refusal
  <1>3. CASE UNCHANGED vars
    <2>1. /\ UNCHANGED <<args, pc, hints, result, chain, stdout, stderr, told, obs, exit, event>>
      BY <1>3 DEF vars
    <2>2. ExitCode' = ExitCode /\ FinishInput' = FinishInput /\ NoEvent' = NoEvent
      BY <2>1 DEF FinishInput, ExitCode, Completion, Ok, Refusal, StdoutWriteFailed, NoEvent
    <2>3. FinishEvent(FinishInput)' = FinishEvent(FinishInput)
      BY <2>2
    <2>4. Ended'
      BY <2>1, <2>2, <2>3 DEF RecordInvariant, Ended
    <2>5. Typed' /\ Unwritten' /\ Concluding' /\ Observing'
      BY <2>1 DEF RecordInvariant, Typed, Unwritten, Concluding, Observing, Refusal
    <2>6. QED
      BY <2>4, <2>5 DEF RecordInvariant
  <1>4. QED
    BY <1>1, <1>2, <1>3, RecordLoad, RecordEvaluate, RecordRender,
       RecordRouteEnvelope, RecordRouteLine, RecordRouteNothing,
       RecordReportError, RecordFinish
    DEF Next

-----------------------------------------------------------------------------
(* The lengths of a finish are numbers: so is what is left of its limits.  *)

Digits(f, n) == IF n < Radix THEN 1 ELSE 1 + f[n \div Radix]

CountsDigits(f, N) == \A n \in 0 .. N : f[n] = Digits(f, n)

LEMMA FewerDigits ==
  ASSUME NEW n \in Nat, n >= Radix
  PROVE  n \div Radix \in Nat /\ n \div Radix < n
  <1>1. Radix \in Nat /\ Radix >= 2
    BY EventAssumption
  <1>2. QED
    BY <1>1

LEMMA DigitsAgree ==
  ASSUME NEW f, NEW g, NEW N \in Nat, NEW M \in Nat, N <= M,
         CountsDigits(f, N), CountsDigits(g, M)
  PROVE  f[N] = g[N]
  <1> DEFINE A == {k \in Nat : k <= N => \A n \in 0 .. k : f[n] = g[n]}
  <1>1. Radix \in Nat /\ Radix >= 2
    BY EventAssumption
  <1>2. 0 \in A
    <2>1. f[0] = g[0]
      BY <1>1 DEF CountsDigits, Digits
    <2>2. QED
      BY <2>1
  <1>3. ASSUME NEW k \in A PROVE k + 1 \in A
    <2> SUFFICES ASSUME k + 1 <= N, NEW n \in 0 .. k + 1 PROVE f[n] = g[n]
      OBVIOUS
    <2>1. \A m \in 0 .. k : f[m] = g[m]
      BY <1>3
    <2>2. f[n] = Digits(f, n) /\ g[n] = Digits(g, n)
      BY DEF CountsDigits
    <2>3. CASE n < Radix
      BY <2>2, <2>3 DEF Digits
    <2>4. CASE n >= Radix
      <3>1. n \div Radix \in 0 .. k
        BY <2>4, FewerDigits
      <3>2. f[n \div Radix] = g[n \div Radix]
        BY <2>1, <3>1
      <3>3. QED
        BY <1>1, <2>2, <2>4, <3>2 DEF Digits
    <2>5. QED
      BY <1>1, <2>3, <2>4
  <1>4. A \in SUBSET Nat
    OBVIOUS
  <1> HIDE DEF A
  <1>5. N \in A
    BY <1>2, <1>3, <1>4, Induction
  <1>6. QED
    BY <1>5 DEF A

LEMMA DigitsExist == ASSUME NEW N \in Nat PROVE \E f : CountsDigits(f, N)
  <1> DEFINE A == {n \in Nat : \E f : CountsDigits(f, n)}
  <1>1. Radix \in Nat /\ Radix >= 2
    BY EventAssumption
  <1>2. 0 \in A
    <2>1. CountsDigits([n \in Nat |-> 1], 0)
      BY <1>1 DEF CountsDigits, Digits
    <2>2. QED
      BY <2>1
  <1>3. ASSUME NEW N1 \in A PROVE N1 + 1 \in A
    <2>1. PICK f : CountsDigits(f, N1)
      OBVIOUS
    <2> DEFINE g == [n \in Nat |-> Digits(f, n)]
    <2>2. \A n \in 0 .. N1 : g[n] = f[n]
      BY <2>1 DEF CountsDigits
    <2>3. ASSUME NEW n \in 0 .. N1 + 1 PROVE Digits(g, n) = Digits(f, n)
      <3>1. CASE n < Radix
        BY <3>1 DEF Digits
      <3>2. CASE n >= Radix
        <4>1. n \div Radix \in 0 .. N1
          BY <3>2, FewerDigits
        <4>2. g[n \div Radix] = f[n \div Radix]
          BY <2>2, <4>1
        <4> HIDE DEF g
        <4>3. QED
          BY <1>1, <3>2, <4>2 DEF Digits
      <3>3. QED
        BY <1>1, <3>1, <3>2
    <2>4. CountsDigits(g, N1 + 1)
      BY <2>3 DEF CountsDigits
    <2>5. QED
      BY <2>4
  <1>4. A \in SUBSET Nat
    OBVIOUS
  <1> HIDE DEF A
  <1>5. N \in A
    BY <1>2, <1>3, <1>4, Induction
  <1>6. QED
    BY <1>5 DEF A

LEMMA WidthIs == \A n \in Nat : Width[n] = Digits(Width, n)
  <1> DEFINE F(n) == CHOOSE f : CountsDigits(f, n)
             w == [n \in Nat |-> F(n)[n]]
  <1>1. Radix \in Nat /\ Radix >= 2
    BY EventAssumption
  <1>2. \A n \in Nat : CountsDigits(F(n), n)
    BY DigitsExist
  <1> HIDE DEF F
  <1>3. ASSUME NEW n \in Nat PROVE w[n] = Digits(w, n)
    <2>1. F(n)[n] = Digits(F(n), n)
      BY <1>2 DEF CountsDigits
    <2>2. CASE n < Radix
      BY <2>1, <2>2 DEF Digits
    <2>3. CASE n >= Radix
      <3> DEFINE m == n \div Radix
      <3>1. m \in Nat /\ m <= n
        BY <2>3, FewerDigits
      <3>2. F(m)[m] = F(n)[m]
        BY <1>2, <3>1, DigitsAgree
      <3>3. w[m] = F(n)[m]
        BY <3>1, <3>2
      <3>4. F(n)[n] = 1 + F(n)[m]
        BY <1>1, <2>1, <2>3 DEF Digits
      <3>5. w[n] = 1 + w[m]
        BY <3>3, <3>4
      <3> HIDE DEF w
      <3>6. QED
        BY <1>1, <2>3, <3>5 DEF Digits
    <2>4. QED
      BY <1>1, <2>2, <2>3
  <1>4. w = [n \in Nat |-> IF n < Radix THEN 1 ELSE 1 + w[n \div Radix]]
    <2>1. \A n \in Nat : w[n] = IF n < Radix THEN 1 ELSE 1 + w[n \div Radix]
      <3> HIDE DEF w
      <3>1. QED
        BY <1>3 DEF Digits
    <2>2. QED
      BY <2>1
  <1> HIDE DEF w
  <1>5. Width = [n \in Nat |-> IF n < Radix THEN 1 ELSE 1 + Width[n \div Radix]]
    BY <1>4 DEF Width
  <1>6. QED
    BY <1>5 DEF Digits

LEMMA WidthIsNat == \A n \in Nat : Width[n] \in Nat
  <1> DEFINE A == {k \in Nat : \A n \in 0 .. k : Width[n] \in Nat}
  <1>1. Radix \in Nat /\ Radix >= 2
    BY EventAssumption
  <1>2. 0 \in A
    <2>1. Width[0] = 1
      BY <1>1, WidthIs DEF Digits
    <2>2. QED
      BY <2>1
  <1>3. ASSUME NEW k \in A PROVE k + 1 \in A
    <2> SUFFICES ASSUME NEW n \in 0 .. k + 1 PROVE Width[n] \in Nat
      OBVIOUS
    <2>1. Width[n] = Digits(Width, n)
      BY WidthIs
    <2>2. CASE n < Radix
      BY <2>1, <2>2 DEF Digits
    <2>3. CASE n >= Radix
      <3>1. n \div Radix \in 0 .. k
        BY <2>3, FewerDigits
      <3>2. Width[n \div Radix] \in Nat
        BY <1>3, <3>1
      <3>3. QED
        BY <1>1, <2>1, <2>3, <3>2 DEF Digits
    <2>4. QED
      BY <1>1, <2>2, <2>3
  <1>4. A \in SUBSET Nat
    OBVIOUS
  <1> HIDE DEF A
  <1>5. \A n \in Nat : n \in A
    BY <1>2, <1>3, <1>4, Induction
  <1>6. QED
    BY <1>5 DEF A

Countable(a) == IsAvailable(a) => a.value \in Nat

Prefixed(p) ==
  /\ Countable(p.total) /\ Countable(p.omitted) /\ p.included \in Nat
  /\ Measured(p.records)

LEMMA AvailabilityLenIsNat ==
  ASSUME NEW a, Countable(a) PROVE AvailabilityLen(a) \in Nat
  <1>1. Width[CountMax] \in Nat
    BY WidthIsNat, CountMaxAssumption
  <1>2. QED
    BY <1>1, WidthIsNat DEF Countable, AvailabilityLen

LEMMA PrefixLenIsNat == ASSUME NEW p, Prefixed(p) PROVE PrefixLen(p) \in Nat
  <1>1. AvailabilityLen(p.total) \in Nat /\ AvailabilityLen(p.omitted) \in Nat
    BY AvailabilityLenIsNat DEF Prefixed
  <1>2. Width[p.included] \in Nat
    BY WidthIsNat DEF Prefixed
  <1>3. TotalLen(p.records) \in Nat /\ Len(p.records) \in Nat
    BY TotalIsNat, MeasuredLen DEF Prefixed
  <1>4. ArrayLen(p.records) \in Nat
    BY <1>3 DEF ArrayLen, Minus
  <1>5. QED
    BY <1>1, <1>2, <1>4 DEF PrefixLen

LEMMA CostIsNat ==
  ASSUME NEW s, Measured(s) PROVE Cost(s) \in Nat
  <1>1. TotalLen(s) \in Nat /\ Len(s) \in Nat
    BY TotalIsNat, MeasuredLen
  <1>2. QED
    BY <1>1 DEF Cost

\* What is admitted fits, and is a prefix of what there was.
LEMMA AdmittedFits ==
  ASSUME NEW records, Measured(records), NEW room \in Nat
  PROVE  /\ Measured(Admitted(records, room))
         /\ Len(Admitted(records, room)) <= Len(records)
         /\ Cost(Admitted(records, room)) \in Nat
         /\ Cost(Admitted(records, room)) <= room
         /\ \A i \in 1 .. Len(Admitted(records, room)) :
              Admitted(records, room)[i] = records[i]
  <1> DEFINE Fits(k) == Cost(SubSeq(records, 1, k)) <= room
             S == {k \in 0 .. Len(records) : Fits(k)}
             n == Max(S)
  <1>1. Len(records) \in Nat
    BY MeasuredLen
  <1>2. Fits(0)
    <2>1. 0 \in 0 .. Len(records)
      BY <1>1
    <2>2. Measured(SubSeq(records, 1, 0)) /\ Len(SubSeq(records, 1, 0)) = 0
      BY <2>1, MeasuredPrefix
    <2>3. SubSeq(records, 1, 0) = <<>>
      BY <2>2, EmptyText DEF Measured
    <2>4. Cost(<<>>) = 0
      BY TotalOfNothing DEF Cost
    <2>5. Cost(SubSeq(records, 1, 0)) = 0
      BY <2>3, <2>4
    <2>6. QED
      BY <2>5
  <1> HIDE DEF Fits
  <1>3. S \in SUBSET (0 .. Len(records)) /\ S # {}
    BY <1>1, <1>2
  <1>4. n \in S
    <2> HIDE DEF S
    <2>1. QED
      BY <1>1, <1>3, Greatest
  <1>5. n \in 0 .. Len(records) /\ Fits(n)
    BY <1>4
  <1>6. Admitted(records, room) = SubSeq(records, 1, n)
    BY DEF Admitted, Fits
  <1> HIDE DEF n
  <1> DEFINE a == SubSeq(records, 1, n)
  <1>7. Measured(a) /\ Len(a) = n
    BY <1>5, MeasuredPrefix
  <1>8. \A i \in 1 .. n : a[i] = records[i]
    <2>1. PICK S1 : records \in Seq(S1)
      BY DEF Measured, IsSequence
    <2>2. QED
      BY <1>5, <2>1, Elements
  <1>9. Cost(a) <= room
    BY <1>5 DEF Fits
  <1> HIDE DEF a
  <1>10. Cost(a) \in Nat
    BY <1>7, CostIsNat
  <1>11. Admitted(records, room) = a
    BY <1>6 DEF a
  <1>12. QED
    BY <1>5, <1>7, <1>8, <1>9, <1>10, <1>11

LEMMA NothingCosts == ArrayLen(<<>>) = 0 /\ Cost(<<>>) = 0 /\ Len(<<>>) = 0
  <1>1. TotalLen(<<>>) = 0 /\ Len(<<>>) = 0
    BY TotalOfNothing
  <1>2. QED
    BY <1>1 DEF ArrayLen, Cost, Minus

LEMMA PrefixCosts ==
  ASSUME NEW s, Measured(s), NEW k \in 1 .. Len(s)
  PROVE  /\ Cost(SubSeq(s, 1, k - 1)) \in Nat
         /\ Cost(SubSeq(s, 1, k)) = Cost(SubSeq(s, 1, k - 1)) + s[k].len + 1
  <1> DEFINE u == SubSeq(s, 1, k - 1)
             v == SubSeq(s, 1, k)
  <1>1. PICK S : s \in Seq(S)
    BY DEF Measured, IsSequence
  <1>2. Len(s) \in Nat /\ k - 1 \in 0 .. Len(s) /\ k \in 0 .. Len(s)
    BY MeasuredLen
  <1>3. /\ u \in Seq(S) /\ v \in Seq(S) /\ Len(u) = k - 1 /\ Len(v) = k
        /\ \A i \in 1 .. k - 1 : u[i] = s[i]
        /\ \A i \in 1 .. k : v[i] = s[i]
    BY <1>1, <1>2, Elements
  <1>4. Measured(u) /\ s[k].len \in Nat
    BY <1>2, MeasuredPrefix DEF Measured
  <1>5. v = Append(u, s[k])
    <2>1. s[k] \in S
      BY <1>1
    <2> HIDE DEF u, v
    <2>2. QED
      BY <1>2, <1>3, <2>1
  <1> HIDE DEF u, v
  <1>6. TotalLen(v) = TotalLen(u) + s[k].len /\ TotalLen(u) \in Nat
    BY <1>4, <1>5, TotalOfOneMore, TotalIsNat
  <1>7. Cost(u) \in Nat /\ Cost(v) = Cost(u) + s[k].len + 1
    BY <1>2, <1>3, <1>4, <1>6 DEF Cost
  <1>8. QED
    BY <1>7 DEF u, v

\* Whatever was told of a chain fits the room there was for it.
LEMMA ToldCosts ==
  ASSUME NEW c, Measured(c), \A i \in 1 .. Len(c) : c[i].len # 0,
         NEW room \in Nat, NEW n \in 0 .. Len(c),
         \A i \in 1 .. n :
           c[i].len <= Minus(Minus(room, Cost(SubSeq(c, 1, i - 1))), 1)
  PROVE  Cost(SubSeq(c, 1, n)) <= room
  <1> DEFINE A == {k \in Nat : k <= n => Cost(SubSeq(c, 1, k)) <= room}
  <1>1. Len(c) \in Nat
    BY MeasuredLen
  <1>2. 0 \in A
    <2>1. Measured(SubSeq(c, 1, 0)) /\ Len(SubSeq(c, 1, 0)) = 0
      BY <1>1, MeasuredPrefix
    <2>2. SubSeq(c, 1, 0) = <<>>
      BY <2>1, EmptyText DEF Measured
    <2>3. Cost(<<>>) = 0
      BY NothingCosts
    <2>4. Cost(SubSeq(c, 1, 0)) = 0
      BY <2>2, <2>3
    <2>5. QED
      BY <2>4
  <1>3. ASSUME NEW k \in A PROVE k + 1 \in A
    <2> SUFFICES ASSUME k + 1 <= n PROVE Cost(SubSeq(c, 1, k + 1)) <= room
      OBVIOUS
    <2> DEFINE b == Cost(SubSeq(c, 1, k))
               l == c[k + 1].len
    <2>1. b <= room /\ k + 1 \in 1 .. n /\ k + 1 \in 1 .. Len(c) /\ (k + 1) - 1 = k
      BY <1>1
    <2>2. b \in Nat /\ Cost(SubSeq(c, 1, k + 1)) = b + l + 1
      BY <2>1, PrefixCosts
    <2>3. l \in Nat /\ l # 0
      BY <2>1 DEF Measured
    <2>4. l <= Minus(Minus(room, b), 1)
      BY <2>1
    <2> HIDE DEF b, l
    <2>5. QED
      BY <2>1, <2>2, <2>3, <2>4 DEF Minus
  <1>4. A \in SUBSET Nat
    OBVIOUS
  <1> HIDE DEF A
  <1>5. n \in Nat
    BY <1>1
  <1>6. n \in A
    BY <1>2, <1>3, <1>4, <1>5, Induction
  <1>7. QED
    BY <1>6 DEF A

LEMMA SameLens ==
  ASSUME NEW u, Measured(u), NEW v, Measured(v), Len(u) = Len(v),
         \A i \in 1 .. Len(u) : u[i].len = v[i].len
  PROVE  Cost(u) = Cost(v)
  <1>1. Len(u) \in Nat
    BY MeasuredLen
  <1>2. PICK f : Sums(f, u, Len(u)) /\ TotalLen(u) = f[Len(u)]
    BY <1>1, TotalIs
  <1>3. PICK g : Sums(g, v, Len(u)) /\ TotalLen(v) = g[Len(u)]
    BY <1>1, TotalIs
  <1>4. f[Len(u)] = g[Len(u)]
    BY <1>1, <1>2, <1>3, SumAgrees DEF SameLenUpTo
  <1>5. QED
    BY <1>2, <1>3, <1>4 DEF Cost

\* A told chain is complete only below the depth at which telling stops.
LEMMA ToldParts ==
  ASSUME NEW c \in ErrorChains, NEW room \in Nat
  PROVE  LET t == Told(c, room)
         IN  /\ Measured(t.records) /\ Len(t.records) <= DepthLimit
             /\ Cost(t.records) <= room
             /\ \A i \in 1 .. Len(t.records) : t.records[i].kind = "text"
             /\ \/ t.traversal = "complete" /\ Len(t.records) \in 1 .. DepthLimit - 1
                \/ t.traversal = "depth_stopped" /\ Len(t.records) = DepthLimit
                \/ t.traversal = "budget_stopped" /\ Len(t.records) < DepthLimit
  <1> DEFINE before(i) == Minus(room, Cost(SubSeq(c, 1, i - 1)))
             fits(i) == /\ c[i].raw <= Minus(before(i), 3)
                        /\ c[i].len <= Minus(before(i), 1)
             Fits(k) == \A i \in 1 .. k : fits(i)
             S == {k \in 0 .. Least(Len(c), DepthLimit) : Fits(k)}
             n == Max(S)
             rs == [i \in 1 .. n |-> [kind |-> "text", len |-> c[i].len]]
  <1>1. Measured(c) /\ Len(c) \in Nat /\ Len(c) # 0
    <2>1. Measured(c) /\ c # <<>>
      BY ChainsMeasured, ReportAssumption
    <2>2. QED
      BY <2>1, MeasuredLen, EmptyText DEF Measured
  <1>2. DepthLimit \in Nat \ {0}
    BY EventAssumption
  <1>3. Least(Len(c), DepthLimit) \in Nat /\ Least(Len(c), DepthLimit) <= Len(c)
        /\ Least(Len(c), DepthLimit) <= DepthLimit
    BY <1>1, <1>2 DEF Least
  <1>4. Fits(0)
    <2>1. 1 .. 0 = {}
      OBVIOUS
    <2>2. QED
      BY <2>1
  <1>5. Told(c, room) = [records |-> rs,
          traversal |-> IF n = DepthLimit THEN "depth_stopped"
                        ELSE IF n = Len(c) THEN "complete" ELSE "budget_stopped"]
    BY DEF Told
  <1> HIDE DEF Fits
  <1>6. S \in SUBSET (0 .. Least(Len(c), DepthLimit)) /\ S # {}
    BY <1>3, <1>4
  <1>7. n \in 0 .. Least(Len(c), DepthLimit) /\ Fits(n)
    <2>1. n \in S
      <3> HIDE DEF S
      <3>1. QED
        BY <1>3, <1>6, Greatest
    <2>2. QED
      BY <2>1
  <1> HIDE DEF n
  <1> DEFINE m == Least(Len(c), DepthLimit)
  <1> HIDE DEF m
  <1>8. n \in Nat /\ n <= Len(c) /\ n <= DepthLimit
    <2>1. n \in 0 .. m /\ m \in Nat /\ m <= Len(c) /\ m <= DepthLimit
      BY <1>3, <1>7 DEF m
    <2>2. QED
      BY <1>1, <1>2, <2>1
  <1>9. \A i \in 1 .. Len(c) : c[i].len \in Nat
    BY <1>1 DEF Measured
  <1> DEFINE K == [kind : {"text"}, len : Nat]
  <1>10. rs \in [1 .. n -> K]
    BY <1>8, <1>9
  <1> HIDE DEF K, rs
  <1>11. rs \in Seq(K) /\ Len(rs) = n
    BY <1>8, <1>10, Listed
  <1>12. \A i \in 1 .. n : rs[i].kind = "text" /\ rs[i].len \in Nat
    BY <1>10 DEF K
  <1>13. Measured(rs)
    BY <1>11, <1>12 DEF Measured, IsSequence
  <1> DEFINE t == Told(c, room)
  <1>14. Cost(rs) <= room
    <2> DEFINE u == SubSeq(c, 1, n)
    <2>1. n \in 0 .. Len(c)
      BY <1>1, <1>8
    <2>2. \A i \in 1 .. n : c[i].len <= Minus(Minus(room, Cost(SubSeq(c, 1, i - 1))), 1)
      BY <1>7 DEF Fits
    <2>3. Cost(u) <= room
      <3>1. \A i \in 1 .. Len(c) : c[i].len # 0
        BY ChainsMeasured
      <3>2. QED
        BY <1>1, <2>1, <2>2, <3>1, ToldCosts
    <2>4. Measured(u) /\ Len(u) = n /\ \A i \in 1 .. n : u[i] = c[i]
      <3>1. PICK S1 : c \in Seq(S1)
        BY <1>1 DEF Measured, IsSequence
      <3>2. QED
        BY <1>1, <2>1, <3>1, Elements, MeasuredPrefix
    <2>5. \A i \in 1 .. n : rs[i].len = u[i].len
      BY <2>4 DEF rs
    <2> HIDE DEF u
    <2>6. Cost(rs) = Cost(u)
      BY <1>11, <1>13, <2>4, <2>5, SameLens
    <2>7. QED
      BY <2>3, <2>6
  <1>15. /\ t.records = rs
         /\ n = DepthLimit => t.traversal = "depth_stopped"
         /\ n # DepthLimit /\ n = Len(c) => t.traversal = "complete"
         /\ n # DepthLimit /\ n # Len(c) => t.traversal = "budget_stopped"
    BY <1>5
  <1> HIDE DEF t
  <1>16. n # DepthLimit => n < DepthLimit
    BY <1>2, <1>8
  <1>17. n = Len(c) /\ n < DepthLimit => n \in 1 .. DepthLimit - 1
    BY <1>1, <1>2, <1>8
  <1>18. QED
    BY <1>8, <1>11, <1>12, <1>13, <1>15, <1>16, <1>17, <1>14 DEF t

\* What a snapshot of a capture says of its stream, and that the reader has
\* nothing to object to.
LEMMA SnapshotTells ==
  ASSUME NEW limit \in Nat, limit < CountMax, NEW texts, Measured(texts),
         NEW c, Captured(c, limit, texts), NEW r \in Nat
  PROVE  LET s == Snapshot(c, r)
         IN  /\ AccountsFor(s, texts) /\ StreamOk(s, limit)
             /\ Len(s.prefix) \in Nat /\ Len(s.prefix) <= r
             /\ StreamLen(s) \in Nat
  <1> DEFINE t == TotalLen(texts)
             m == Len(c.prefix)
             kept == IF r <= m THEN r ELSE m
             p == SubSeq(c.prefix, 1, kept)
             cut == c.truncated \/ kept < m
             s == Snapshot(c, r)
  <1>1. t \in Nat /\ CountMax \in Nat
    BY TotalIsNat, CountMaxAssumption
  <1>2. /\ c \in Capturing(limit) /\ c.prefix \in Seq(Nat)
        /\ ~c.pending /\ ~c.unfinished
        /\ c.observed = CountOf(t) /\ (c.truncated <=> t > limit)
        /\ m = Least(limit, t) /\ \A i \in 1 .. m : c.prefix[i] = i
        /\ c.attempted \in BOOLEAN /\ c.failed \in BOOLEAN
        /\ (c.attempted <=> texts # <<>>) /\ (c.failed <=> Failed(texts))
    BY DEF Captured, Knows, Capturing
  <1>3. m \in Nat /\ m <= limit /\ m <= t /\ (t <= limit => m = t)
    BY <1>1, <1>2 DEF Least
  <1> HIDE DEF t, m
  <1>4. kept \in Nat /\ kept <= m /\ kept <= r
    BY <1>3
  <1> HIDE DEF kept
  <1>5. p \in Seq(Nat) /\ Len(p) = kept /\ \A i \in 1 .. kept : p[i] = i
    <2>1. kept \in 0 .. Len(c.prefix)
      BY <1>3, <1>4 DEF m
    <2>2. p \in Seq(Nat) /\ Len(p) = kept /\ \A i \in 1 .. kept : p[i] = c.prefix[i]
      BY <1>2, <2>1, Elements
    <2>3. \A i \in 1 .. kept : i \in 1 .. m
      BY <1>3, <1>4
    <2> HIDE DEF p
    <2>4. QED
      BY <1>2, <2>2, <2>3
  <1> HIDE DEF p
  <1>6. s = [prefix |-> p, observed |-> c.observed, truncated |-> cut,
             outcome |-> WriteOutcome(c), accepted |-> AcceptedBytes(c)]
    BY DEF Snapshot, p, kept, m
  <1>7. s.prefix = p /\ s.observed = CountOf(t) /\ s.outcome = WriteOutcome(c)
        /\ s.accepted = AcceptedBytes(c)
    BY <1>2, <1>6
  <1>8. s.truncated <=> (t > limit \/ kept < m)
    <2>1. cut <=> (t > limit \/ kept < m)
      BY <1>2
    <2> HIDE DEF cut
    <2>2. s.truncated = cut
      BY <1>6
    <2> HIDE DEF s
    <2>3. QED
      BY <2>1, <2>2
  <1>9. \/ /\ texts = <<>> /\ WriteOutcome(c).status = "not_attempted"
           /\ AcceptedBytes(c).status = "not_attempted"
        \/ /\ texts # <<>> /\ ~Failed(texts) /\ WriteOutcome(c).status = "all_succeeded"
           /\ AcceptedBytes(c) = [status |-> "known", bytes |-> c.observed]
        \/ /\ texts # <<>> /\ Failed(texts)
           /\ WriteOutcome(c).status = "unknown_acceptance" /\ WriteOutcome(c).failed
           /\ AcceptedBytes(c).status = "unknown"
    BY <1>2 DEF WriteOutcome, AcceptedBytes
  <1> HIDE DEF s, cut
  <1>10. /\ CountOf(t) = IF t <= CountMax THEN Exact(t) ELSE Overflow
         /\ Exact(t).status = "exact" /\ Exact(t).bytes = t
         /\ Overflow.status = "overflow"
    BY DEF CountOf, Exact, Overflow
  <1>11. p = [i \in 1 .. Len(p) |-> i]
    BY <1>4, <1>5
  <1>12. AccountsFor(s, texts)
    <2>1. (\A i \in DOMAIN texts : texts[i].ok) <=> ~Failed(texts)
      BY DEF Failed
    <2>2. s.prefix = [i \in 1 .. Len(s.prefix) |-> i]
      BY <1>7, <1>11
    <2>3. s.observed = IF t <= CountMax THEN Exact(t) ELSE Overflow
      BY <1>7, <1>10
    <2>4. s.outcome.status = IF texts = <<>> THEN "not_attempted"
            ELSE IF \A i \in DOMAIN texts : texts[i].ok THEN "all_succeeded"
            ELSE "unknown_acceptance"
      BY <1>7, <1>9, <2>1
    <2>5. QED
      BY <2>2, <2>3, <2>4 DEF AccountsFor, t
  <1>13. StreamOk(s, limit)
    <2>1. Len(s.prefix) = kept /\ kept <= limit
      BY <1>3, <1>4, <1>5, <1>7
    <2>2. IF s.observed.status = "exact"
          THEN /\ s.observed.bytes >= kept
               /\ s.truncated <=> s.observed.bytes > kept
          ELSE s.truncated
      <3>1. CASE t <= CountMax
        <4>1. s.observed.status = "exact" /\ s.observed.bytes = t
          BY <1>7, <1>10, <3>1
        <4>2. t >= kept /\ ((t > limit \/ kept < m) <=> t > kept)
          BY <1>1, <1>3, <1>4
        <4>3. QED
          BY <1>8, <4>1, <4>2
      <3>2. CASE ~(t <= CountMax)
        <4>1. s.observed.status # "exact" /\ t > limit
          BY <1>1, <1>7, <1>10, <3>2
        <4>2. QED
          BY <1>8, <4>1
      <3>3. QED
        BY <3>1, <3>2
    <2>3. (CASE s.outcome.status = "not_attempted" ->
                 /\ s.accepted.status = "not_attempted"
                 /\ s.observed = Exact(0)
            [] s.outcome.status = "all_succeeded" ->
                 s.accepted = [status |-> "known", bytes |-> s.observed]
            [] OTHER -> /\ s.outcome.failed \/ s.outcome.unfinished
                        /\ s.accepted.status = "unknown")
      <3>1. texts = <<>> => CountOf(t) = Exact(0)
        BY <1>1, <1>10, TotalOfNothing DEF t
      <3>2. QED
        BY <1>2, <1>7, <1>9, <3>1
    <2>4. QED
      BY <2>1, <2>2, <2>3 DEF StreamOk
  <1>14. StreamLen(s) \in Nat
    <2>1. Base64(kept) \in Nat
      <3>1. (kept + 2) \div 3 \in Nat
        BY <1>4
      <3>2. QED
        BY <3>1 DEF Base64
    <2>2. Width[kept] \in Nat
      BY <1>4, WidthIsNat
    <2>3. ByteCountLen(s.observed) \in Nat
      BY <1>1, <1>7, <1>10, WidthIsNat DEF ByteCountLen
    <2>4. QED
      BY <1>5, <1>7, <2>1, <2>2, <2>3 DEF StreamLen
  <1>15. QED
    BY <1>4, <1>5, <1>7, <1>12, <1>13, <1>14 DEF s

\* What a finish may be made from.
InputOk(input, out, err) ==
  /\ input.exit \in {"clean", "violations", "usage_error"}
  /\ input.completion \in {"returned", "command_error", "output_budget_refused",
                           "stdout_write_failed"}
  /\ input.mode \in {"text", "json", "bare_jgf", "raw_graph_set", "no_document"}
  /\ input.hint \in Routing
  /\ input.findings \in RetainedFindings
  /\ Measured(input.hints) /\ Len(input.hints) <= 3
  /\ \A i \in 1 .. Len(input.hints) : input.hints[i].kind = "hint"
  /\ input.chain \in ErrorChains \cup {<<>>}
  /\ Measured(out) /\ Captured(input.stdout, StdoutLimit, out)
  /\ Measured(err) /\ Captured(input.stderr, StderrLimit, err)

LEMMA FindingsMeasured ==
  ASSUME NEW f \in RetainedFindings
  PROVE  /\ f.total \in Nat /\ Len(f.records) \in Nat /\ Len(f.records) <= f.total
         /\ Len(f.records) <= StructuredLimit
         /\ Measured(f.records)
         /\ \A i \in 1 .. Len(f.records) : f.records[i].kind = "finding"
         /\ f # NothingRetained => f.coverage \in {"construction", "full", "selected"}
         /\ f = NothingRetained => f.records = <<>> /\ Len(f.records) = 0
  <1> DEFINE F == [kind : {"finding"}, len : Nat]
  <1>1. CASE f = NothingRetained
    <2>1. f.total = 0 /\ f.records = <<>> /\ Len(<<>>) = 0 /\ 1 .. 0 = {}
          /\ StructuredLimit \in Nat
      BY <1>1, EventAssumption DEF NothingRetained
    <2>2. QED
      BY <1>1, <2>1, TotalOfNothing
  <1>2. CASE f # NothingRetained
    <2>1. /\ f.total \in Nat /\ f.records \in Seq(F) /\ Len(f.records) <= f.total
          /\ Len(f.records) <= StructuredLimit
          /\ f.coverage \in {"construction", "full", "selected"}
      BY <1>2 DEF RetainedFindings
    <2> HIDE DEF F
    <2>2. Len(f.records) \in Nat /\ \A i \in 1 .. Len(f.records) : f.records[i] \in F
      BY <2>1, Elements
    <2>3. \A i \in 1 .. Len(f.records) : f.records[i].kind = "finding" /\ f.records[i].len \in Nat
      BY <2>2 DEF F
    <2>4. Measured(f.records)
      BY <2>1, <2>3 DEF Measured, IsSequence
    <2>5. QED
      BY <1>2, <2>1, <2>2, <2>3, <2>4
  <1>3. QED
    BY <1>1, <1>2

\* Records admitted below a known total.
LEMMA PushedCounts ==
  ASSUME NEW total \in Nat, NEW rs, Measured(rs), Len(rs) <= total
  PROVE  LET p == Pushed(EmptyPrefix(Available(total)), rs)
         IN  /\ p.total = Available(total) /\ p.included = Len(rs) /\ p.records = rs
             /\ p.omitted = Available(total - Len(rs))
             /\ Prefixed(p)
  <1> DEFINE q == EmptyPrefix(Available(total))
             p == Pushed(q, rs)
  <1>1. q = [total |-> Available(total), included |-> 0,
             omitted |-> Available(total), records |-> <<>>]
    BY DEF EmptyPrefix
  <1>2. IsAvailable(q.total) /\ q.total.value = total
    BY <1>1 DEF IsAvailable, Available
  <1>3. p = [q EXCEPT !.included = Len(rs), !.omitted = Available(total - Len(rs)),
                      !.records = rs]
    BY <1>1, <1>2 DEF Pushed
  <1> HIDE DEF p
  <1>4. p.total = Available(total) /\ p.included = Len(rs) /\ p.records = rs
        /\ p.omitted = Available(total - Len(rs))
    BY <1>1, <1>3
  <1>5. Len(rs) \in Nat /\ total - Len(rs) \in Nat
    BY MeasuredLen
  <1>6. Countable(p.total) /\ Countable(p.omitted)
    BY <1>4, <1>5 DEF Countable, Available
  <1>7. QED
    BY <1>4, <1>5, <1>6 DEF Prefixed, p

LEMMA PushedUncounted ==
  ASSUME NEW why, NEW rs, Measured(rs)
  PROVE  LET p == Pushed(EmptyPrefix(Unavailable(why)), rs)
         IN  /\ p.total = Unavailable(why) /\ p.included = Len(rs) /\ p.records = rs
             /\ p.omitted = Unavailable(why)
             /\ Prefixed(p)
  <1> DEFINE q == EmptyPrefix(Unavailable(why))
             p == Pushed(q, rs)
  <1>1. q = [total |-> Unavailable(why), included |-> 0,
             omitted |-> Unavailable(why), records |-> <<>>]
    BY DEF EmptyPrefix
  <1>2. ~IsAvailable(q.total)
    BY <1>1 DEF IsAvailable, Unavailable
  <1>3. p = [q EXCEPT !.included = Len(rs), !.omitted = q.total, !.records = rs]
    BY <1>1, <1>2 DEF Pushed
  <1> HIDE DEF p
  <1>4. p.total = Unavailable(why) /\ p.included = Len(rs) /\ p.records = rs
        /\ p.omitted = Unavailable(why)
    BY <1>1, <1>3
  <1>5. Len(rs) \in Nat
    BY MeasuredLen
  <1>6. Countable(p.total) /\ Countable(p.omitted)
    BY <1>4 DEF Countable, Unavailable, IsAvailable
  <1>7. QED
    BY <1>4, <1>5, <1>6 DEF Prefixed, p

FindingsOf(f) ==
  IF f = NothingRetained
  THEN [coverage |-> Unavailable("not_observed"),
        prefix |-> EmptyPrefix(Unavailable("not_observed"))]
  ELSE [coverage |-> Available(f.coverage),
        prefix |-> EmptyPrefix(Available(f.total))]

\* Without records every part of a finish has a length.
LEMMA EmptyPrefixed ==
  ASSUME NEW a, Countable(a) PROVE Prefixed(EmptyPrefix(a))
  BY TotalOfNothing DEF EmptyPrefix, Prefixed

LEMMA FindingsTold ==
  ASSUME NEW f \in RetainedFindings, NEW rs, Measured(rs),
         Len(rs) <= Len(f.records), \A i \in 1 .. Len(rs) : rs[i].kind = "finding",
         NEW g, g = [FindingsOf(f) EXCEPT !.prefix = Pushed(@, rs)]
  PROVE  FindingsOk(g) /\ Prefixed(g.prefix)
  <1>1. Len(rs) \in Nat /\ DOMAIN rs = 1 .. Len(rs)
    BY MeasuredLen
  <1>2. CASE f = NothingRetained
    <2> DEFINE q == EmptyPrefix(Unavailable("not_observed"))
    <2>1. Len(rs) = 0
      BY <1>1, <1>2, FindingsMeasured
    <2> HIDE DEF q
    <2>2. g.coverage = Unavailable("not_observed") /\ g.prefix = Pushed(q, rs)
      BY <1>2 DEF FindingsOf, q
    <2>3. /\ g.prefix.total = Unavailable("not_observed")
          /\ g.prefix.omitted = Unavailable("not_observed")
          /\ g.prefix.included = Len(rs) /\ g.prefix.records = rs
          /\ Prefixed(g.prefix)
      BY <2>2, PushedUncounted DEF q
    <2>4. ~IsAvailable(Unavailable("not_observed"))
      BY DEF IsAvailable, Unavailable
    <2>5. PrefixOk(g.prefix, "finding", FALSE)
      BY <1>1, <2>1, <2>3, <2>4 DEF PrefixOk
    <2>6. QED
      BY <2>2, <2>3, <2>4, <2>5 DEF FindingsOk
  <1>3. CASE f # NothingRetained
    <2> DEFINE q == EmptyPrefix(Available(f.total))
    <2>1. f.total \in Nat /\ Len(rs) <= f.total
          /\ f.coverage \in {"construction", "full", "selected"}
      BY <1>1, <1>3, FindingsMeasured
    <2> HIDE DEF q
    <2>2. g.coverage = Available(f.coverage) /\ g.prefix = Pushed(q, rs)
      BY <1>3 DEF FindingsOf, q
    <2>3. /\ g.prefix.total = Available(f.total)
          /\ g.prefix.omitted = Available(f.total - Len(rs))
          /\ g.prefix.included = Len(rs) /\ g.prefix.records = rs
          /\ Prefixed(g.prefix)
      BY <2>1, <2>2, PushedCounts DEF q
    <2>4. \A v : IsAvailable(Available(v)) /\ Available(v).value = v
      BY DEF IsAvailable, Available
    <2>5. Len(rs) + (f.total - Len(rs)) = f.total
      BY <1>1, <2>1
    <2>6. PrefixOk(g.prefix, "finding", FALSE)
      BY <1>1, <2>3, <2>4, <2>5 DEF PrefixOk
    <2>7. QED
      BY <2>1, <2>2, <2>3, <2>4, <2>6 DEF FindingsOk
  <1>4. QED
    BY <1>2, <1>3

LEMMA HintsTold ==
  ASSUME NEW total \in Nat, NEW rs, Measured(rs), Len(rs) <= total,
         \A i \in 1 .. Len(rs) : rs[i].kind = "hint",
         NEW p, p = Pushed(EmptyPrefix(Available(total)), rs)
  PROVE  PrefixOk(p, "hint", FALSE) /\ Prefixed(p) /\ p.total = Available(total)
  <1>1. Len(rs) \in Nat /\ DOMAIN rs = 1 .. Len(rs)
    BY MeasuredLen
  <1>2. /\ p.total = Available(total) /\ p.omitted = Available(total - Len(rs))
        /\ p.included = Len(rs) /\ p.records = rs /\ Prefixed(p)
    BY PushedCounts
  <1>3. \A v : IsAvailable(Available(v)) /\ Available(v).value = v
    BY DEF IsAvailable, Available
  <1>4. Len(rs) + (total - Len(rs)) = total
    BY <1>1
  <1>5. QED
    BY <1>1, <1>2, <1>3, <1>4 DEF PrefixOk

\* The payload of an error, as far as its chain was told.
ErrorTold(t) ==
  [ErrorPayload(TRUE) EXCEPT
     !.traversal = t.traversal,
     !.prefix = IF t.traversal = "complete"
                THEN Pushed(EmptyPrefix(Available(Len(t.records))), t.records)
                ELSE Pushed(@, t.records)]

LEMMA NoErrorOk ==
  /\ ErrorOk(ErrorPayload(FALSE)) /\ Prefixed(ErrorPayload(FALSE).prefix)
  /\ ErrorPayload(FALSE).traversal \in Traversals
  /\ Prefixed(ErrorPayload(TRUE).prefix) /\ ErrorPayload(TRUE).traversal \in Traversals
  <1>1. Countable(Available(0)) /\ Countable(Unavailable("traversal_stopped"))
    BY DEF Countable, Available, Unavailable, IsAvailable
  <1>3. Len(<<>>) = 0 /\ DOMAIN <<>> = {}
    OBVIOUS
  <1>4. PrefixOk(EmptyPrefix(Available(0)), "text", TRUE)
        /\ EmptyPrefix(Available(0)).total = Available(0)
    BY <1>3 DEF PrefixOk, EmptyPrefix, Available, IsAvailable
  <1> DEFINE none == EmptyPrefix(Available(0))
             open == EmptyPrefix(Unavailable("traversal_stopped"))
  <1>5. Prefixed(none) /\ Prefixed(open)
    BY <1>1, EmptyPrefixed
  <1> HIDE DEF none, open
  <1>6. /\ ~ErrorPayload(FALSE).present /\ ErrorPayload(FALSE).traversal = "complete"
        /\ ErrorPayload(FALSE).prefix = none
        /\ ErrorPayload(TRUE).traversal = "not_started" /\ ErrorPayload(TRUE).prefix = open
    BY DEF ErrorPayload, none, open
  <1>7. PrefixOk(none, "text", TRUE) /\ none.total = Available(0)
    BY <1>4 DEF none
  <1>8. ErrorOk(ErrorPayload(FALSE))
    BY <1>6, <1>7 DEF ErrorOk
  <1>9. QED
    BY <1>5, <1>6, <1>8 DEF Traversals

LEMMA ErrorToldOk ==
  ASSUME NEW c \in ErrorChains, NEW room \in Nat, NEW e, e = ErrorTold(Told(c, room))
  PROVE  ErrorOk(e) /\ Prefixed(e.prefix) /\ e.traversal \in Traversals
  <1> DEFINE t == Told(c, room)
             rs == t.records
  <1>1. /\ Measured(rs) /\ Len(rs) <= DepthLimit
        /\ \A i \in 1 .. Len(rs) : rs[i].kind = "text"
        /\ \/ t.traversal = "complete" /\ Len(rs) \in 1 .. DepthLimit - 1
           \/ t.traversal = "depth_stopped" /\ Len(rs) = DepthLimit
           \/ t.traversal = "budget_stopped" /\ Len(rs) < DepthLimit
    BY ToldParts
  <1> HIDE DEF t
  <1>2. Len(rs) \in Nat /\ DOMAIN rs = 1 .. Len(rs)
    BY <1>1, MeasuredLen
  <1> DEFINE counted == EmptyPrefix(Available(Len(rs)))
             open == EmptyPrefix(Unavailable("traversal_stopped"))
  <1> HIDE DEF counted, open
  <1>4. /\ e.present = TRUE /\ e.traversal = t.traversal
        /\ t.traversal = "complete" => e.prefix = Pushed(counted, rs)
        /\ t.traversal # "complete" => e.prefix = Pushed(open, rs)
    <2> DEFINE whole == Pushed(counted, rs)
               stopped == Pushed(open, rs)
    <2>1. e = [present |-> TRUE, traversal |-> t.traversal,
               prefix |-> IF t.traversal = "complete" THEN whole ELSE stopped]
      BY DEF ErrorTold, ErrorPayload, counted, open, t
    <2> HIDE DEF whole, stopped
    <2>2. QED
      BY <2>1 DEF whole, stopped
  <1> HIDE DEF rs
  <1>5. \A v : IsAvailable(Available(v)) /\ Available(v).value = v
    BY DEF IsAvailable, Available
  <1>6. CASE t.traversal = "complete"
    <2>1. Len(rs) \in 1 .. DepthLimit - 1
      BY <1>1, <1>6
    <2>2. Len(rs) - Len(rs) = 0
      BY <1>2
    <2>3. /\ e.prefix.total = Available(Len(rs)) /\ e.prefix.omitted = Available(0)
          /\ e.prefix.included = Len(rs) /\ e.prefix.records = rs /\ Prefixed(e.prefix)
      <3> DEFINE p == Pushed(counted, rs)
      <3>1. /\ p.total = Available(Len(rs)) /\ p.omitted = Available(Len(rs) - Len(rs))
            /\ p.included = Len(rs) /\ p.records = rs /\ Prefixed(p)
        BY <1>1, <1>2, PushedCounts DEF counted
      <3> HIDE DEF p
      <3>2. e.prefix = p
        BY <1>4, <1>6 DEF p
      <3>3. QED
        BY <2>2, <3>1, <3>2
    <2>4. Len(rs) + 0 = Len(rs)
      BY <1>2
    <2>5. PrefixOk(e.prefix, "text", TRUE)
      BY <1>1, <1>2, <1>5, <2>3, <2>4 DEF PrefixOk
    <2>6. QED
      BY <1>4, <1>5, <1>6, <2>1, <2>3, <2>5 DEF ErrorOk, Traversals
  <1>7. CASE t.traversal # "complete"
    <2>1. /\ e.prefix.total = Unavailable("traversal_stopped")
          /\ e.prefix.omitted = Unavailable("traversal_stopped")
          /\ e.prefix.included = Len(rs) /\ e.prefix.records = rs /\ Prefixed(e.prefix)
      <3> DEFINE p == Pushed(open, rs)
      <3>1. /\ p.total = Unavailable("traversal_stopped")
            /\ p.omitted = Unavailable("traversal_stopped")
            /\ p.included = Len(rs) /\ p.records = rs /\ Prefixed(p)
        BY <1>1, PushedUncounted DEF open
      <3> HIDE DEF p
      <3>2. e.prefix = p
        BY <1>4, <1>7 DEF p
      <3>3. QED
        BY <3>1, <3>2
    <2>2. ~IsAvailable(Unavailable("traversal_stopped"))
      BY DEF IsAvailable, Unavailable
    <2>3. PrefixOk(e.prefix, "text", TRUE)
      BY <1>1, <1>2, <2>1, <2>2 DEF PrefixOk
    <2>4. \/ t.traversal = "depth_stopped" /\ Len(rs) = DepthLimit
          \/ t.traversal = "budget_stopped" /\ Len(rs) < DepthLimit
      BY <1>1, <1>7
    <2>5. QED
      BY <1>4, <2>1, <2>3, <2>4 DEF ErrorOk, Traversals
  <1>8. QED
    BY <1>6, <1>7

\* An event whose parts have lengths has one.
Lengthy(e) ==
  /\ Prefixed(e.structured.findings.prefix) /\ Prefixed(e.structured.hints)
  /\ Prefixed(e.structured.error.prefix) /\ e.structured.error.traversal \in Traversals
  /\ StreamLen(e.stdout) \in Nat /\ StreamLen(e.stderr) \in Nat

LEMMA EventLenIsNat ==
  ASSUME NEW e, Lengthy(e)
  PROVE  StructuredLen(e.structured) \in Nat /\ EventLen(e) \in Nat
  <1>1. /\ PrefixLen(e.structured.findings.prefix) \in Nat
        /\ PrefixLen(e.structured.hints) \in Nat
        /\ PrefixLen(e.structured.error.prefix) \in Nat
    BY PrefixLenIsNat DEF Lengthy
  <1>2. TraversalLen[e.structured.error.traversal] \in Nat
    BY EventAssumption DEF Lengthy
  <1>3. StructuredSkeleton \in Nat /\ Skeleton \in Nat /\ StructuredSkeleton <= Skeleton
    BY EventAssumption
  <1>4. StructuredLen(e.structured) \in Nat
    BY <1>1, <1>2, <1>3 DEF StructuredLen
  <1>5. StreamLen(e.stdout) \in Nat /\ StreamLen(e.stderr) \in Nat
    BY DEF Lengthy
  <1>6. EventLen(e) \in Nat
    BY <1>3, <1>4, <1>5 DEF EventLen
  <1>7. QED
    BY <1>4, <1>6

LEMMA SnapshotsTell ==
  ASSUME NEW input, NEW out, NEW err, InputOk(input, out, err), NEW r \in Nat
  PROVE  /\ AccountsFor(Snapshot(input.stdout, r), out)
         /\ StreamOk(Snapshot(input.stdout, r), StdoutLimit)
         /\ Len(Snapshot(input.stdout, r).prefix) \in Nat
         /\ Len(Snapshot(input.stdout, r).prefix) <= r
         /\ StreamLen(Snapshot(input.stdout, r)) \in Nat
         /\ AccountsFor(Snapshot(input.stderr, r), err)
         /\ StreamOk(Snapshot(input.stderr, r), StderrLimit)
         /\ StreamLen(Snapshot(input.stderr, r)) \in Nat
  <1>1. /\ StdoutLimit \in Nat /\ StdoutLimit < CountMax
        /\ StderrLimit \in Nat /\ StderrLimit < CountMax
    BY Streaming
  <1>2. /\ Measured(out) /\ Captured(input.stdout, StdoutLimit, out)
        /\ Measured(err) /\ Captured(input.stderr, StderrLimit, err)
    BY DEF InputOk
  <1>3. QED
    BY <1>1, <1>2, SnapshotTells

\* The blank event.
LEMMA BlankParts ==
  ASSUME NEW input
  PROVE  Blank(input) =
                 [kind |-> "finish", exit |-> input.exit, completion |-> input.completion,
                  mode |-> input.mode, hint |-> input.hint, refusal |-> input.refusal,
                  structured |-> [findings |-> FindingsOf(input.findings),
                                  hints |-> EmptyPrefix(Available(Len(input.hints))),
                                  error |-> ErrorPayload(input.chain # <<>>)],
                  stdout |-> Snapshot(input.stdout, 0),
                  stderr |-> Snapshot(input.stderr, 0)]
  BY DEF Blank, FindingsOf

LEMMA FindingsOfPrefixed ==
  ASSUME NEW f \in RetainedFindings PROVE Prefixed(FindingsOf(f).prefix)
  <1> DEFINE none == EmptyPrefix(Unavailable("not_observed"))
             some == EmptyPrefix(Available(f.total))
  <1>1. Prefixed(none)
    BY EmptyPrefixed DEF Countable, IsAvailable, Unavailable
  <1>2. f.total \in Nat
    BY FindingsMeasured
  <1>3. Prefixed(some)
    BY <1>2, EmptyPrefixed DEF Countable, IsAvailable, Available
  <1> HIDE DEF none, some
  <1>4. FindingsOf(f).prefix = none \/ FindingsOf(f).prefix = some
    BY DEF FindingsOf, none, some
  <1>5. QED
    BY <1>1, <1>3, <1>4

LEMMA BlankLengthy ==
  ASSUME NEW input, NEW out, NEW err, InputOk(input, out, err)
  PROVE  Lengthy(Blank(input))
  <1> DEFINE b == Blank(input)
             hs == EmptyPrefix(Available(Len(input.hints)))
             so == Snapshot(input.stdout, 0)
             se == Snapshot(input.stderr, 0)
             fs == FindingsOf(input.findings)
             er == ErrorPayload(input.chain # <<>>)
  <1>1. StreamLen(so) \in Nat /\ StreamLen(se) \in Nat
    BY SnapshotsTell
  <1>2. Prefixed(fs.prefix)
    BY FindingsOfPrefixed DEF InputOk
  <1>3. Prefixed(hs)
    <2>1. Len(input.hints) \in Nat
      BY MeasuredLen DEF InputOk
    <2>2. QED
      BY <2>1, EmptyPrefixed DEF Countable, IsAvailable, Available
  <1>4. Prefixed(er.prefix) /\ er.traversal \in Traversals
    <2>1. CASE input.chain # <<>>
      BY <2>1, NoErrorOk DEF ErrorPayload
    <2>2. CASE ~(input.chain # <<>>)
      BY <2>2, NoErrorOk DEF ErrorPayload
    <2>3. QED
      BY <2>1, <2>2
  <1> HIDE DEF so, se, fs, er, hs
  <1>5. /\ b.structured.findings = fs /\ b.structured.hints = hs
        /\ b.structured.error = er /\ b.stdout = so /\ b.stderr = se
    BY BlankParts DEF so, se, fs, er, hs
  <1> HIDE DEF b
  <1>6. Lengthy(b)
    BY <1>1, <1>2, <1>3, <1>4, <1>5 DEF Lengthy
  <1>7. QED
    BY <1>6 DEF b

LEMMA RoomIsNat ==
  ASSUME NEW b, Lengthy(b), FitsBlank(b)
  PROVE  RecordRoom(b) \in Nat
  <1>1. StructuredLen(b.structured) \in Nat /\ EventLen(b) \in Nat
    BY EventLenIsNat
  <1>2. Headroom \in Nat /\ EventLimit \in Nat /\ StructuredLimit \in Nat
    BY EventAssumption
  <1>3. QED
    BY <1>1, <1>2 DEF RecordRoom, FitsBlank, FitsIn, Least

LEMMA StreamRoomIsNat ==
  ASSUME NEW e, Lengthy(e), FitsIn(EventLen(e), EventLimit)
  PROVE  StreamRoom(e) \in Nat
  <1>1. EventLen(e) \in Nat
    BY EventLenIsNat
  <1>2. Headroom \in Nat /\ EventLimit \in Nat
    BY EventAssumption
  <1>3. QED
    BY <1>1, <1>2 DEF StreamRoom, FitsIn, Minus

LEMMA Base64Fits ==
  ASSUME NEW room \in Nat, NEW n \in Nat, n <= (room \div 4) * 3
  PROVE  Base64(n) \in Nat /\ Base64(n) <= room
  <1>1. PICK q \in Nat, k \in 0 .. 3 : room = 4 * q + k /\ room \div 4 = q
    <2>1. room \div 4 \in Nat /\ room % 4 \in 0 .. 3 /\ room = 4 * (room \div 4) + (room % 4)
      OBVIOUS
    <2>2. QED
      BY <2>1
  <1>2. n <= 3 * q
    BY <1>1
  <1>3. (n + 2) \div 3 \in Nat /\ (n + 2) \div 3 <= q
    BY <1>2
  <1>4. QED
    BY <1>1, <1>3 DEF Base64

-----------------------------------------------------------------------------
(* Counters grow by less than the headroom.                                *)

\* More to count takes no fewer digits.
LEMMA DivGrows ==
  ASSUME NEW m \in Nat, NEW n \in Nat, m <= n
  PROVE  m \div Radix <= n \div Radix
  <1>1. Radix \in Nat /\ Radix >= 2
    BY EventAssumption
  <1> DEFINE a == m \div Radix
             b == n \div Radix
  <1>2. /\ a \in Nat /\ b \in Nat /\ Radix * a <= m /\ n < Radix * b + Radix
    BY <1>1
  <1> HIDE DEF a, b
  <1>3. ASSUME b + 1 <= a PROVE FALSE
    <2>1. Radix * (b + 1) <= Radix * a
      BY <1>1, <1>2, <1>3
    <2>2. Radix * (b + 1) = Radix * b + Radix
      BY <1>1, <1>2
    <2>3. QED
      BY <1>1, <1>2, <2>1, <2>2
  <1>4. QED
    BY <1>2, <1>3 DEF a, b

LEMMA WidthGrows ==
  ASSUME NEW m \in Nat, NEW n \in Nat, m <= n
  PROVE  Width[m] <= Width[n] /\ 1 <= Width[m] /\ Width[0] = 1
  <1> DEFINE A == {k \in Nat : \A b \in 0 .. k : \A a \in 0 .. b : Width[a] <= Width[b]}
  <1>1. Radix \in Nat /\ Radix >= 2
    BY EventAssumption
  <1>2. /\ \A k \in Nat : k < Radix => Width[k] = 1
        /\ \A k \in Nat : k >= Radix => Width[k] = 1 + Width[k \div Radix]
        /\ \A k \in Nat : Width[k] \in Nat
        /\ \A k \in Nat : k >= Radix => k \div Radix \in Nat /\ k \div Radix < k
    <2>1. \A k \in Nat : k < Radix => Width[k] = 1
      BY <1>1, WidthIs DEF Digits
    <2>2. \A k \in Nat : k >= Radix => Width[k] = 1 + Width[k \div Radix]
      BY <1>1, WidthIs DEF Digits
    <2>3. \A k \in Nat : k >= Radix => k \div Radix \in Nat /\ k \div Radix < k
      BY <1>1, FewerDigits
    <2>4. QED
      BY <2>1, <2>2, <2>3, WidthIsNat
  <1>3. 0 \in A
    <2>1. \A b \in 0 .. 0 : \A a \in 0 .. b : a = 0 /\ b = 0
      OBVIOUS
    <2>2. Width[0] = 1
      BY <1>1, <1>2
    <2>3. QED
      BY <2>1, <2>2
  <1>4. ASSUME NEW k \in A PROVE k + 1 \in A
    <2> SUFFICES ASSUME NEW b \in 0 .. k + 1, NEW a \in 0 .. b
                 PROVE  Width[a] <= Width[b]
      OBVIOUS
    <2>1. a \in Nat /\ b \in Nat /\ a <= b /\ k \in Nat
      OBVIOUS
    <2>2. CASE a < Radix
      <3>1. Width[a] = 1
        BY <1>2, <2>1, <2>2
      <3>2. Width[b] >= 1
        <4>1. CASE b < Radix
          BY <1>2, <2>1, <4>1
        <4>2. CASE b >= Radix
          BY <1>2, <2>1, <4>2
        <4>3. QED
          BY <1>1, <2>1, <4>1, <4>2
      <3>3. QED
        BY <1>2, <2>1, <3>1, <3>2
    <2>3. CASE a >= Radix
      <3>1. b >= Radix
        BY <1>1, <2>1, <2>3
      <3>2. /\ Width[a] = 1 + Width[a \div Radix] /\ Width[b] = 1 + Width[b \div Radix]
            /\ a \div Radix \in Nat /\ b \div Radix \in Nat /\ b \div Radix < b
        BY <1>2, <2>1, <2>3, <3>1
      <3>3. a \div Radix <= b \div Radix
        BY <2>1, DivGrows
      <3>4. b \div Radix \in 0 .. k /\ a \div Radix \in 0 .. (b \div Radix)
        BY <2>1, <3>2, <3>3
      <3>5. Width[a \div Radix] <= Width[b \div Radix]
        BY <3>4
      <3>6. Width[a \div Radix] \in Nat /\ Width[b \div Radix] \in Nat
        BY <1>2, <3>2
      <3>7. QED
        BY <3>2, <3>5, <3>6
    <2>4. QED
      BY <1>1, <2>1, <2>2, <2>3
  <1>5. A \in SUBSET Nat
    OBVIOUS
  <1> HIDE DEF A
  <1>6. n \in A
    BY <1>3, <1>4, <1>5, Induction
  <1>7. Width[m] <= Width[n]
    BY <1>6 DEF A
  <1>8. 1 <= Width[m] /\ Width[0] = 1
    <2>1. CASE m < Radix
      BY <1>1, <1>2, <2>1
    <2>2. CASE m >= Radix
      BY <1>1, <1>2, <2>2
    <2>3. QED
      BY <1>1, <2>1, <2>2
  <1>9. QED
    BY <1>7, <1>8

LEMMA ArrayCosts ==
  ASSUME NEW rs, Measured(rs)
  PROVE  /\ ArrayLen(rs) \in Nat /\ Cost(rs) \in Nat /\ ArrayLen(rs) <= Cost(rs)
         /\ Len(rs) \in Nat
  <1>1. TotalLen(rs) \in Nat /\ Len(rs) \in Nat
    BY TotalIsNat, MeasuredLen
  <1>2. QED
    BY <1>1 DEF ArrayLen, Cost, Minus

\* Records of which at most most are added to an empty prefix.
LEMMA CountedGrows ==
  ASSUME NEW total \in Nat, NEW rs, Measured(rs), Len(rs) <= total,
         NEW most \in Nat, Len(rs) <= most
  PROVE  LET q == EmptyPrefix(Available(total))
         IN  /\ PrefixLen(Pushed(q, rs)) \in Nat /\ PrefixLen(q) \in Nat
             /\ PrefixLen(Pushed(q, rs)) + 1 <= PrefixLen(q) + Width[most] + Cost(rs)
  <1> DEFINE q == EmptyPrefix(Available(total))
             p == Pushed(q, rs)
             w == Width[total]
             v == Width[total - Len(rs)]
             u == Width[Len(rs)]
  <1>1. /\ ArrayLen(rs) \in Nat /\ Cost(rs) \in Nat /\ ArrayLen(rs) <= Cost(rs)
        /\ Len(rs) \in Nat
    BY ArrayCosts
  <1>2. /\ p.total = Available(total) /\ p.included = Len(rs) /\ p.records = rs
        /\ p.omitted = Available(total - Len(rs))
    BY PushedCounts
  <1>3. /\ q.total = Available(total) /\ q.included = 0 /\ q.records = <<>>
        /\ q.omitted = Available(total)
    BY DEF EmptyPrefix
  <1>4. \A n : AvailabilityLen(Available(n)) = Width[n]
    BY DEF AvailabilityLen, Available, IsAvailable
  <1>5. total - Len(rs) \in Nat /\ total - Len(rs) <= total
    BY <1>1
  <1>6. w \in Nat /\ v \in Nat /\ u \in Nat /\ Width[most] \in Nat
    BY <1>1, <1>5, WidthIsNat
  <1>7. v <= w /\ u <= Width[most] /\ Width[0] = 1
    BY <1>1, <1>5, WidthGrows
  <1>8. PrefixLen(q) = w + 1 + w + 0
    BY <1>3, <1>4, <1>7, NothingCosts DEF PrefixLen
  <1>9. PrefixLen(p) = w + u + v + ArrayLen(rs)
    BY <1>2, <1>4 DEF PrefixLen
  <1> HIDE DEF p, q, w, v, u
  <1>10. QED
    BY <1>1, <1>6, <1>7, <1>8, <1>9 DEF p, q

LEMMA UncountedGrows ==
  ASSUME NEW why, NEW rs, Measured(rs), NEW most \in Nat, Len(rs) <= most
  PROVE  LET q == EmptyPrefix(Unavailable(why))
         IN  /\ PrefixLen(Pushed(q, rs)) \in Nat /\ PrefixLen(q) \in Nat
             /\ PrefixLen(q) = 3 + Width[CountMax] + Width[CountMax]
             /\ PrefixLen(Pushed(q, rs)) + 1 <= PrefixLen(q) + Width[most] + Cost(rs)
  <1> DEFINE q == EmptyPrefix(Unavailable(why))
             p == Pushed(q, rs)
             w == 1 + Width[CountMax]
             u == Width[Len(rs)]
  <1>1. /\ ArrayLen(rs) \in Nat /\ Cost(rs) \in Nat /\ ArrayLen(rs) <= Cost(rs)
        /\ Len(rs) \in Nat
    BY ArrayCosts
  <1>2. /\ p.total = Unavailable(why) /\ p.included = Len(rs) /\ p.records = rs
        /\ p.omitted = Unavailable(why)
    BY PushedUncounted
  <1>3. /\ q.total = Unavailable(why) /\ q.included = 0 /\ q.records = <<>>
        /\ q.omitted = Unavailable(why)
    BY DEF EmptyPrefix
  <1>4. AvailabilityLen(Unavailable(why)) = w
    BY DEF AvailabilityLen, Unavailable, IsAvailable
  <1>5. Width[CountMax] \in Nat /\ u \in Nat /\ Width[most] \in Nat
    BY <1>1, WidthIsNat, CountMaxAssumption
  <1>6. u <= Width[most] /\ Width[0] = 1
    BY <1>1, WidthGrows
  <1>7. PrefixLen(q) = w + 1 + w + 0
    BY <1>3, <1>4, <1>6, NothingCosts DEF PrefixLen
  <1>8. PrefixLen(p) = w + u + w + ArrayLen(rs)
    BY <1>2, <1>4 DEF PrefixLen
  <1> HIDE DEF p, q, u
  <1> DEFINE wc == Width[CountMax]
             wm == Width[most]
             len == ArrayLen(rs)
             cost == Cost(rs)
  <1>a. /\ w = 1 + wc /\ wc \in Nat /\ wm \in Nat /\ u \in Nat /\ u <= wm
        /\ len \in Nat /\ cost \in Nat /\ len <= cost
    BY <1>1, <1>5, <1>6
  <1> HIDE DEF w, wc, wm, len, cost
  <1>b. PrefixLen(q) = w + 1 + w + 0 /\ PrefixLen(p) = w + u + w + len
    BY <1>7, <1>8 DEF len
  <1>9. /\ PrefixLen(q) = 3 + Width[CountMax] + Width[CountMax]
        /\ PrefixLen(q) \in Nat /\ PrefixLen(p) \in Nat
    <2>1. /\ PrefixLen(q) = 3 + wc + wc
          /\ PrefixLen(q) \in Nat /\ PrefixLen(p) \in Nat
      BY <1>a, <1>b
    <2>2. QED
      BY <2>1 DEF wc
  <1>10. PrefixLen(p) + 1 <= PrefixLen(q) + Width[most] + Cost(rs)
    <2>1. PrefixLen(p) + 1 <= PrefixLen(q) + wm + cost
      BY <1>a, <1>b
    <2>2. QED
      BY <2>1 DEF wm, cost
  <1>11. QED
    BY <1>9, <1>10 DEF p, q

LEMMA FindingsGrow ==
  ASSUME NEW f \in RetainedFindings, NEW rs, Measured(rs), Len(rs) <= Len(f.records),
         NEW g, g = [FindingsOf(f) EXCEPT !.prefix = Pushed(@, rs)]
  PROVE  /\ PrefixLen(g.prefix) \in Nat /\ PrefixLen(FindingsOf(f).prefix) \in Nat
         /\ PrefixLen(g.prefix) + 1
              <= PrefixLen(FindingsOf(f).prefix) + Width[StructuredLimit] + Cost(rs)
  <1>1. /\ f.total \in Nat /\ Len(f.records) \in Nat /\ Len(f.records) <= f.total
        /\ Len(f.records) <= StructuredLimit /\ StructuredLimit \in Nat
        /\ Len(rs) \in Nat
    BY FindingsMeasured, MeasuredLen, EventAssumption
  <1>2. Len(rs) <= f.total /\ Len(rs) <= StructuredLimit
    BY <1>1
  <1>3. CASE f = NothingRetained
    <2> DEFINE q == EmptyPrefix(Unavailable("not_observed"))
               p == Pushed(q, rs)
    <2>1. /\ PrefixLen(p) \in Nat /\ PrefixLen(q) \in Nat
          /\ PrefixLen(p) + 1 <= PrefixLen(q) + Width[StructuredLimit] + Cost(rs)
      BY <1>1, <1>2, UncountedGrows
    <2> HIDE DEF q
    <2>2. FindingsOf(f).prefix = q /\ g.prefix = p
      BY <1>3 DEF FindingsOf, q
    <2> HIDE DEF p
    <2>3. QED
      BY <2>1, <2>2
  <1>4. CASE f # NothingRetained
    <2> DEFINE q == EmptyPrefix(Available(f.total))
               p == Pushed(q, rs)
    <2>1. /\ PrefixLen(p) \in Nat /\ PrefixLen(q) \in Nat
          /\ PrefixLen(p) + 1 <= PrefixLen(q) + Width[StructuredLimit] + Cost(rs)
      BY <1>1, <1>2, CountedGrows
    <2> HIDE DEF q
    <2>2. FindingsOf(f).prefix = q /\ g.prefix = p
      BY <1>4 DEF FindingsOf, q
    <2> HIDE DEF p
    <2>3. QED
      BY <2>1, <2>2
  <1>5. QED
    BY <1>3, <1>4

LEMMA ErrorGrows ==
  ASSUME NEW c \in ErrorChains, NEW room \in Nat, NEW e, e = ErrorTold(Told(c, room))
  PROVE  /\ PrefixLen(e.prefix) \in Nat /\ PrefixLen(ErrorPayload(TRUE).prefix) \in Nat
         /\ PrefixLen(e.prefix) + 1
              <= PrefixLen(ErrorPayload(TRUE).prefix) + Width[DepthLimit]
                   + Cost(Told(c, room).records)
         /\ ErrorPayload(TRUE).traversal = "not_started"
  <1> DEFINE t == Told(c, room)
             rs == t.records
             n == Len(rs)
             counted == EmptyPrefix(Available(n))
             open == EmptyPrefix(Unavailable("traversal_stopped"))
  <1>1. Measured(rs) /\ n <= DepthLimit
    BY ToldParts
  <1>2. n \in Nat /\ DepthLimit \in Nat /\ CountMax \in Nat /\ DepthLimit <= CountMax
    BY <1>1, MeasuredLen, EventAssumption, CountMaxAssumption, HeadroomAssumption
  <1> HIDE DEF t
  <1>3. /\ PrefixLen(Pushed(open, rs)) \in Nat /\ PrefixLen(open) \in Nat
        /\ PrefixLen(open) = 3 + Width[CountMax] + Width[CountMax]
        /\ PrefixLen(Pushed(open, rs)) + 1 <= PrefixLen(open) + Width[DepthLimit] + Cost(rs)
    BY <1>1, <1>2, UncountedGrows
  <1>4. /\ PrefixLen(Pushed(counted, rs)) \in Nat
        /\ PrefixLen(Pushed(counted, rs)) + 1
             <= PrefixLen(counted) + Width[DepthLimit] + Cost(rs)
    BY <1>1, <1>2, CountedGrows
  <1>5. PrefixLen(counted) \in Nat /\ PrefixLen(counted) <= PrefixLen(open)
    <2>1. PrefixLen(counted) = Width[n] + Width[0] + Width[n] + ArrayLen(<<>>)
      BY DEF PrefixLen, EmptyPrefix, AvailabilityLen, Available, IsAvailable
    <2>2. Width[n] <= Width[CountMax] /\ Width[0] = 1 /\ ArrayLen(<<>>) = 0
      <3>1. n <= CountMax
        BY <1>1, <1>2
      <3>2. QED
        BY <1>2, <3>1, WidthGrows, NothingCosts
    <2>3. Width[n] \in Nat /\ Width[CountMax] \in Nat
      BY <1>2, WidthIsNat
    <2> HIDE DEF counted, open, n
    <2>4. QED
      BY <1>3, <2>1, <2>2, <2>3
  <1>6. Cost(rs) \in Nat /\ Width[DepthLimit] \in Nat
    BY <1>1, <1>2, CostIsNat, WidthIsNat
  <1> DEFINE a == Pushed(counted, rs)
             b == Pushed(open, rs)
  <1>7. /\ e = [present |-> TRUE, traversal |-> t.traversal,
                prefix |-> IF t.traversal = "complete" THEN a ELSE b]
        /\ ErrorPayload(TRUE).prefix = open /\ ErrorPayload(TRUE).traversal = "not_started"
    BY DEF ErrorTold, ErrorPayload, t
  <1> HIDE DEF a, b, open, counted, rs
  <1>8. e.prefix = a \/ e.prefix = b
    BY <1>7
  <1>9. /\ PrefixLen(a) \in Nat /\ PrefixLen(b) \in Nat
        /\ PrefixLen(a) + 1 <= PrefixLen(open) + Width[DepthLimit] + Cost(rs)
        /\ PrefixLen(b) + 1 <= PrefixLen(open) + Width[DepthLimit] + Cost(rs)
    BY <1>3, <1>4, <1>5, <1>6 DEF a, b
  <1>10. QED
    BY <1>3, <1>7, <1>8, <1>9 DEF rs, t

LEMMA StreamGrows ==
  ASSUME NEW limit \in Nat, limit < CountMax, NEW texts, Measured(texts),
         NEW c, Captured(c, limit, texts), NEW r \in Nat
  PROVE  /\ StreamLen(Snapshot(c, r)) \in Nat /\ StreamLen(Snapshot(c, 0)) \in Nat
         /\ Base64(Len(Snapshot(c, r).prefix)) \in Nat
         /\ Len(Snapshot(c, 0).prefix) = 0
         /\ StreamLen(Snapshot(c, r))
              <= StreamLen(Snapshot(c, 0)) + Base64(Len(Snapshot(c, r).prefix)) + Width[limit]
  <1> DEFINE s == Snapshot(c, r)
             z == Snapshot(c, 0)
             n == Len(s.prefix)
  <1>1. /\ StreamOk(s, limit) /\ n \in Nat /\ StreamLen(s) \in Nat
    BY SnapshotTells
  <1>2. /\ Len(z.prefix) \in Nat /\ Len(z.prefix) <= 0 /\ StreamLen(z) \in Nat
    BY SnapshotTells
  <1>3. s.observed = c.observed /\ z.observed = c.observed
    BY DEF Snapshot
  <1> HIDE DEF s, z, n
  <1>4. n <= limit
    BY <1>1 DEF StreamOk, n
  <1>5. Base64(n) \in Nat /\ Base64(0) = 0
    <2>1. (n + 2) \div 3 \in Nat /\ (0 + 2) \div 3 = 0
      BY <1>1
    <2>2. QED
      BY <2>1 DEF Base64
  <1>6. Width[n] <= Width[limit] /\ Width[0] = 1 /\ Width[n] \in Nat /\ Width[limit] \in Nat
    BY <1>1, <1>4, WidthGrows, WidthIsNat
  <1> DEFINE l == ByteCountLen(c.observed)
             x == IF s.truncated THEN 0 ELSE 1
             y == IF z.truncated THEN 0 ELSE 1
  <1>7. StreamLen(s) = Base64(n) + Width[n] + l + x
    BY <1>3 DEF StreamLen, n
  <1>8. Len(z.prefix) = 0
    BY <1>2
  <1>9. StreamLen(z) = Base64(0) + Width[0] + l + y
    BY <1>3, <1>8 DEF StreamLen
  <1>10. x \in 0 .. 1 /\ y \in 0 .. 1
    OBVIOUS
  <1>11. l \in Nat
    <2>1. CountMax \in Nat /\ TotalLen(texts) \in Nat
      BY CountMaxAssumption, TotalIsNat
    <2>2. c.observed = CountOf(TotalLen(texts))
      BY DEF Captured, Knows
    <2>3. c.observed.status = "exact" => c.observed.bytes \in Nat
      BY <2>1, <2>2 DEF CountOf, Exact, Overflow
    <2>4. QED
      BY <2>3, WidthIsNat DEF ByteCountLen
  <1> HIDE DEF l, x, y
  <1>12. StreamLen(s) <= StreamLen(z) + Base64(n) + Width[limit]
    BY <1>5, <1>6, <1>7, <1>9, <1>10, <1>11
  <1>13. QED
    BY <1>1, <1>2, <1>5, <1>8, <1>12 DEF s, z, n

\* A full event and the event without its streams.
FilledIn(e, g, input, x, y) ==
  /\ FindingsOk(e.structured.findings)
  /\ PrefixOk(e.structured.hints, "hint", FALSE)
  /\ ErrorOk(e.structured.error)
  /\ e.structured.hints.total = Available(Len(input.hints))
  /\ Lengthy(e)
  /\ StructuredLen(e.structured)
       <= StructuredLen(Blank(input).structured) + RecordRoom(Blank(input)) + Headroom
  /\ EventLen(e) <= EventLen(Blank(input)) + RecordRoom(Blank(input)) + Headroom
  /\ e.stdout = Snapshot(input.stdout, 0) /\ e.stderr = Snapshot(input.stderr, 0)
  /\ g.kind = "finish"
  /\ g.exit = input.exit /\ g.completion = input.completion
  /\ g.mode = input.mode /\ g.hint = input.hint
  /\ g.structured = e.structured /\ g.stdout = x /\ g.stderr = y

\* The records are added to it: as many findings, hints and texts as fit.
LEMMA RecordedParts ==
  ASSUME NEW input, NEW out, NEW err, InputOk(input, out, err), FitsBlank(Blank(input))
  PROVE  \A x, y : FilledIn(WithRecords(input, Blank(input)),
                           [WithRecords(input, Blank(input)) EXCEPT !.stdout = x,
                                                                  !.stderr = y],
                           input, x, y)
  <1> SUFFICES ASSUME NEW x, NEW y, NEW g,
                      g = [WithRecords(input, Blank(input)) EXCEPT !.stdout = x, !.stderr = y]
               PROVE  FilledIn(WithRecords(input, Blank(input)), g, input, x, y)
    OBVIOUS
  <1> DEFINE b == Blank(input)
             room == RecordRoom(b)
             fs == Admitted(input.findings.records, room)
             roomForHints == room - Cost(fs)
             hs == Admitted(input.hints, roomForHints)
             roomForError == roomForHints - Cost(hs)
             t == Told(input.chain, roomForError)
             so == Snapshot(input.stdout, 0)
             se == Snapshot(input.stderr, 0)
             findings == [FindingsOf(input.findings) EXCEPT !.prefix = Pushed(@, fs)]
             toldHints == Pushed(EmptyPrefix(Available(Len(input.hints))), hs)
             none == ErrorPayload(input.chain # <<>>)
             error == IF input.chain = <<>> THEN none
                      ELSE [none EXCEPT
                             !.traversal = t.traversal,
                             !.prefix = IF t.traversal = "complete"
                                        THEN Pushed(EmptyPrefix(
                                               Available(Len(t.records))), t.records)
                                        ELSE Pushed(@, t.records)]
             e == WithRecords(input, b)
  <1>1. b = [kind |-> "finish", exit |-> input.exit, completion |-> input.completion,
             mode |-> input.mode, hint |-> input.hint, refusal |-> input.refusal,
             structured |-> [findings |-> FindingsOf(input.findings),
                             hints |-> EmptyPrefix(Available(Len(input.hints))),
                             error |-> none],
             stdout |-> so, stderr |-> se]
    BY BlankParts
  <1>2. /\ input.findings \in RetainedFindings /\ Measured(input.hints)
        /\ Len(input.hints) <= 3
        /\ \A i \in 1 .. Len(input.hints) : input.hints[i].kind = "hint"
        /\ input.chain \in ErrorChains \cup {<<>>}
    BY DEF InputOk
  <1>3. Lengthy(b)
    BY BlankLengthy
  <1>4. room \in Nat
    BY <1>3, RoomIsNat
  <1>5. StreamLen(so) \in Nat /\ StreamLen(se) \in Nat
    BY SnapshotsTell
  <1>6. e = [b EXCEPT !.structured.findings.prefix = Pushed(@, fs),
                      !.structured.hints = Pushed(@, hs),
                      !.structured.error =
                        IF input.chain = <<>> THEN @
                        ELSE [b.structured.error EXCEPT
                             !.traversal = t.traversal,
                             !.prefix = IF t.traversal = "complete"
                                        THEN Pushed(EmptyPrefix(
                                               Available(Len(t.records))), t.records)
                                        ELSE Pushed(@, t.records)]]
    BY DEF WithRecords
  <1> HIDE DEF b, room, fs, hs, t, e, so, se, none
  <1> DEFINE counted == EmptyPrefix(Available(Len(input.hints)))
             found == FindingsOf(input.findings)
             records == Pushed(found.prefix, fs)
  <1>7. b.structured.findings = found /\ b.structured.hints = counted
        /\ b.structured.error = none
    BY <1>1
  <1> HIDE DEF counted, found
  <1>8. e = [b EXCEPT !.structured.findings.prefix = records,
                      !.structured.hints = toldHints, !.structured.error = error]
    BY <1>6, <1>7 DEF counted, found
  <1> HIDE DEF records, toldHints, error
  <1>9. /\ e.structured.findings = findings /\ e.structured.hints = toldHints
        /\ e.structured.error = error /\ e.stdout = so /\ e.stderr = se
        /\ g.kind = "finish"
        /\ g.exit = input.exit /\ g.completion = input.completion
        /\ g.mode = input.mode /\ g.hint = input.hint
        /\ g.structured = e.structured /\ g.stdout = x /\ g.stderr = y
    <2>1. b = [kind |-> "finish", exit |-> input.exit, completion |-> input.completion,
               mode |-> input.mode, hint |-> input.hint, refusal |-> input.refusal,
               structured |-> [findings |-> found, hints |-> counted, error |-> none],
               stdout |-> so, stderr |-> se]
      BY <1>1 DEF found, counted
    <2>2. g = [e EXCEPT !.stdout = x, !.stderr = y]
      BY DEF e, b
    <2>3. findings = [found EXCEPT !.prefix = records]
      BY DEF found, records
    <2> HIDE DEF findings
    <2>4. e.structured.findings = [found EXCEPT !.prefix = records]
      BY <1>8, <2>1
    <2>5. /\ e.structured.hints = toldHints /\ e.structured.error = error
          /\ e.stdout = so /\ e.stderr = se
      BY <1>8, <2>1
    <2>6. /\ g.kind = "finish" /\ g.exit = input.exit /\ g.completion = input.completion
          /\ g.mode = input.mode /\ g.hint = input.hint
          /\ g.structured = e.structured /\ g.stdout = x /\ g.stderr = y
      <3> DEFINE sections == e.structured
      <3>1. e = [kind |-> "finish", exit |-> input.exit, completion |-> input.completion,
                 mode |-> input.mode, hint |-> input.hint, refusal |-> input.refusal,
                 structured |-> sections, stdout |-> so, stderr |-> se]
        BY <1>8, <2>1
      <3> HIDE DEF sections
      <3>2. /\ g.kind = "finish" /\ g.exit = input.exit /\ g.completion = input.completion
            /\ g.mode = input.mode /\ g.hint = input.hint
            /\ g.structured = sections /\ g.stdout = x /\ g.stderr = y
        BY <2>2, <3>1
      <3>3. QED
        BY <3>2 DEF sections
    <2>7. QED
      BY <2>3, <2>4, <2>5, <2>6
  <1> HIDE DEF findings
  <1>10. FindingsOk(findings) /\ Prefixed(findings.prefix)
         /\ roomForHints \in Nat /\ Cost(fs) \in Nat /\ roomForHints = room - Cost(fs)
         /\ PrefixLen(findings.prefix) \in Nat /\ PrefixLen(found.prefix) \in Nat
         /\ PrefixLen(findings.prefix) + 1
              <= PrefixLen(found.prefix) + Width[StructuredLimit] + Cost(fs)
    <2>1. /\ Measured(input.findings.records)
          /\ \A i \in 1 .. Len(input.findings.records) :
               input.findings.records[i].kind = "finding"
      BY <1>2, FindingsMeasured
    <2>2. /\ Measured(fs) /\ Len(fs) <= Len(input.findings.records)
          /\ Cost(fs) \in Nat /\ Cost(fs) <= room
          /\ \A i \in 1 .. Len(fs) : fs[i] = input.findings.records[i]
      BY <1>4, <2>1, AdmittedFits DEF fs
    <2>3. Len(fs) \in Nat /\ Len(input.findings.records) \in Nat
      BY <2>1, <2>2, MeasuredLen
    <2>4. \A i \in 1 .. Len(fs) : fs[i].kind = "finding"
      BY <2>1, <2>2, <2>3
    <2>5. roomForHints \in Nat
      BY <1>4, <2>2
    <2>6. FindingsOk(findings) /\ Prefixed(findings.prefix)
      BY <1>2, <2>2, <2>4, FindingsTold DEF findings
    <2>7. /\ PrefixLen(findings.prefix) \in Nat /\ PrefixLen(found.prefix) \in Nat
          /\ PrefixLen(findings.prefix) + 1
               <= PrefixLen(found.prefix) + Width[StructuredLimit] + Cost(fs)
      BY <1>2, <2>2, FindingsGrow DEF findings, found
    <2>8. QED
      BY <2>2, <2>5, <2>6, <2>7
  <1> HIDE DEF roomForHints
  <1>11. PrefixOk(toldHints, "hint", FALSE) /\ Prefixed(toldHints)
         /\ toldHints.total = Available(Len(input.hints))
         /\ roomForError \in Nat /\ Cost(hs) \in Nat /\ roomForError = roomForHints - Cost(hs)
         /\ PrefixLen(toldHints) \in Nat /\ PrefixLen(counted) \in Nat
         /\ PrefixLen(toldHints) + 1 <= PrefixLen(counted) + Width[3] + Cost(hs)
    <2>1. /\ Measured(hs) /\ Len(hs) <= Len(input.hints)
          /\ Cost(hs) \in Nat /\ Cost(hs) <= roomForHints
          /\ \A i \in 1 .. Len(hs) : hs[i] = input.hints[i]
      BY <1>2, <1>10, AdmittedFits DEF hs
    <2>2. Len(hs) \in Nat /\ Len(input.hints) \in Nat
      BY <1>2, <2>1, MeasuredLen
    <2>3. \A i \in 1 .. Len(hs) : hs[i].kind = "hint"
      BY <1>2, <2>1, <2>2
    <2>4. /\ PrefixOk(toldHints, "hint", FALSE) /\ Prefixed(toldHints)
          /\ toldHints.total = Available(Len(input.hints))
      BY <2>1, <2>2, <2>3, HintsTold DEF toldHints
    <2>5. roomForError \in Nat
      BY <1>10, <2>1
    <2>6. Len(hs) <= 3 /\ 3 \in Nat
      BY <1>2, <2>1, <2>2
    <2>7. /\ PrefixLen(toldHints) \in Nat /\ PrefixLen(counted) \in Nat
          /\ PrefixLen(toldHints) + 1 <= PrefixLen(counted) + Width[3] + Cost(hs)
      BY <2>1, <2>2, <2>6, CountedGrows DEF toldHints, counted
    <2>8. QED
      BY <2>1, <2>4, <2>5, <2>7
  <1> HIDE DEF roomForError
  <1>12. /\ ErrorOk(error) /\ Prefixed(error.prefix) /\ error.traversal \in Traversals
         /\ PrefixLen(error.prefix) \in Nat /\ PrefixLen(none.prefix) \in Nat
         /\ PrefixLen(error.prefix) + TraversalLen[error.traversal]
                + Width[StructuredLimit] + Width[3]
              <= PrefixLen(none.prefix) + TraversalLen[none.traversal] + 2
                   + Headroom + roomForError
         /\ none.traversal \in Traversals
    <2> DEFINE wf == Width[StructuredLimit]
               wh == Width[3]
    <2>4. /\ wf \in Nat /\ wh \in Nat /\ Width[DepthLimit] \in Nat /\ 1 <= Width[DepthLimit]
          /\ Headroom \in Nat
          /\ \A u \in Traversals : TraversalLen[u] \in Nat
      <3>1. StructuredLimit \in Nat /\ 3 \in Nat /\ DepthLimit \in Nat /\ Headroom \in Nat
        BY EventAssumption
      <3>2. QED
        BY <3>1, EventAssumption, WidthIsNat, WidthGrows
    <2>5. \A u \in Traversals :
            wf + wh + Width[DepthLimit] + TraversalLen[u]
              <= Headroom + 3 + TraversalLen["not_started"]
      BY HeadroomAssumption
    <2>1. CASE input.chain = <<>>
      <3>1. error = ErrorPayload(FALSE)
        BY <2>1 DEF error, none, ErrorPayload
      <3>2. none = error /\ none.traversal = "complete"
        BY <2>1 DEF error, none, ErrorPayload
      <3>3. ErrorOk(error) /\ Prefixed(error.prefix) /\ error.traversal \in Traversals
        BY <3>1, NoErrorOk DEF ErrorPayload
      <3>4. PrefixLen(error.prefix) \in Nat
        BY <3>3, PrefixLenIsNat
      <3>5. wf + wh <= 2 + Headroom
        <4>1. wf + wh + Width[DepthLimit] + TraversalLen["not_started"]
                <= Headroom + 3 + TraversalLen["not_started"]
              /\ TraversalLen["not_started"] \in Nat
          BY <2>4, <2>5 DEF Traversals
        <4> HIDE DEF wf, wh
        <4>2. QED
          BY <2>4, <4>1
      <3> DEFINE tl == TraversalLen[error.traversal]
                 pl == PrefixLen(error.prefix)
      <3>6. tl \in Nat /\ pl \in Nat
        BY <2>4, <3>3, <3>4
      <3> HIDE DEF tl, pl, wf, wh
      <3>7. pl + tl + wf + wh <= pl + tl + 2 + Headroom + roomForError
        <4>1. roomForError \in Nat
          BY <1>11
        <4>2. wf \in Nat /\ wh \in Nat /\ Headroom \in Nat
          BY <2>4
        <4>3. QED
          BY <3>5, <3>6, <4>1, <4>2
      <3>8. /\ PrefixLen(none.prefix) = pl /\ TraversalLen[none.traversal] = tl
            /\ none.traversal \in Traversals
        BY <3>2, <3>3 DEF pl, tl
      <3>9. QED
        BY <3>3, <3>6, <3>7, <3>8 DEF tl, pl, wf, wh
    <2>2. CASE input.chain # <<>>
      <3>1. input.chain \in ErrorChains
        BY <1>2, <2>2
      <3>2. error = ErrorTold(t)
        BY <2>2 DEF error, none, ErrorPayload, ErrorTold
      <3>3. /\ ErrorOk(error) /\ Prefixed(error.prefix) /\ error.traversal \in Traversals
        BY <1>11, <3>1, <3>2, ErrorToldOk DEF t
      <3> DEFINE cost == Cost(t.records)
                 old == ErrorPayload(TRUE)
      <3>4. cost \in Nat /\ cost <= roomForError
        BY <1>11, <3>1, ToldParts, CostIsNat DEF t
      <3>5. /\ PrefixLen(error.prefix) \in Nat /\ PrefixLen(old.prefix) \in Nat
            /\ PrefixLen(error.prefix) + 1 <= PrefixLen(old.prefix) + Width[DepthLimit] + cost
            /\ old.traversal = "not_started"
        BY <1>11, <3>1, <3>2, ErrorGrows DEF t
      <3>6. none.prefix = old.prefix /\ none.traversal = "not_started"
        BY <2>2 DEF none, ErrorPayload
      <3>7. wf + wh + Width[DepthLimit] + TraversalLen[error.traversal]
              <= Headroom + 3 + TraversalLen["not_started"]
        BY <2>5, <3>3
      <3> DEFINE tl == TraversalLen[error.traversal]
                 pl == PrefixLen(error.prefix)
                 ol == PrefixLen(old.prefix)
                 ns == TraversalLen["not_started"]
      <3>8. tl \in Nat /\ ns \in Nat
        BY <2>4, <3>3 DEF Traversals
      <3> HIDE DEF cost, old, wf, wh
      <3>9. /\ pl \in Nat /\ ol \in Nat /\ pl + 1 <= ol + Width[DepthLimit] + cost
            /\ wf + wh + Width[DepthLimit] + tl <= Headroom + 3 + ns
        BY <3>5, <3>7
      <3> HIDE DEF tl, pl, ol, ns
      <3>10. pl + tl + wf + wh <= ol + ns + 2 + Headroom + roomForError
        <4> DEFINE wd == Width[DepthLimit]
                   r == roomForError
        <4> HIDE DEF wd, r
        <4>1. /\ pl + 1 <= ol + wd + cost /\ wf + wh + wd + tl <= Headroom + 3 + ns
              /\ cost <= r
          BY <3>4, <3>9 DEF wd, r
        <4>2. /\ pl \in Nat /\ ol \in Nat /\ tl \in Nat /\ ns \in Nat /\ wf \in Nat
              /\ wh \in Nat /\ wd \in Nat /\ cost \in Nat /\ r \in Nat /\ Headroom \in Nat
          BY <1>11, <2>4, <3>4, <3>8, <3>9 DEF wd, r
        <4>3. pl + tl + wf + wh <= ol + ns + 2 + Headroom + r
          BY <4>1, <4>2
        <4>4. QED
          BY <4>3 DEF r
      <3>11. /\ PrefixLen(none.prefix) = ol /\ TraversalLen[none.traversal] = ns
             /\ none.traversal \in Traversals
        BY <3>6 DEF ol, ns, Traversals
      <3>12. QED
        BY <3>3, <3>9, <3>10, <3>11 DEF tl, pl, wf, wh
    <2>3. QED
      BY <2>1, <2>2
  <1>13. Lengthy(e)
    BY <1>5, <1>9, <1>10, <1>11, <1>12 DEF Lengthy
  <1>14. /\ StructuredLen(e.structured) <= StructuredLen(b.structured) + room + Headroom
         /\ EventLen(e) <= EventLen(b) + room + Headroom
    <2> DEFINE pf == PrefixLen(findings.prefix)
               ph == PrefixLen(toldHints)
               pe == PrefixLen(error.prefix)
               te == TraversalLen[error.traversal]
               qf == PrefixLen(found.prefix)
               qh == PrefixLen(counted)
               qe == PrefixLen(none.prefix)
               tn == TraversalLen[none.traversal]
               wf == Width[StructuredLimit]
               wh == Width[3]
    <2>1. StructuredLen(e.structured) = StructuredSkeleton + pf + ph + te + pe
      BY <1>9 DEF StructuredLen
    <2>2. StructuredLen(b.structured) = StructuredSkeleton + qf + qh + tn + qe
      BY <1>7 DEF StructuredLen
    <2>3. te \in Nat /\ tn \in Nat /\ StructuredSkeleton \in Nat
          /\ Skeleton \in Nat /\ Headroom \in Nat
      BY <1>12, EventAssumption
    <2>4. wf \in Nat /\ wh \in Nat
      <3>1. StructuredLimit \in Nat /\ 3 \in Nat
        BY EventAssumption
      <3>2. QED
        BY <3>1, WidthIsNat
    <2> HIDE DEF pf, ph, pe, te, qf, qh, qe, tn, wf, wh
    <2>5. /\ pf \in Nat /\ ph \in Nat /\ pe \in Nat /\ qf \in Nat /\ qh \in Nat
          /\ qe \in Nat
          /\ pf + 1 <= qf + wf + Cost(fs) /\ ph + 1 <= qh + wh + Cost(hs)
          /\ pe + te + wf + wh <= qe + tn + 2 + Headroom + roomForError
      BY <1>10, <1>11, <1>12 DEF pf, ph, pe, te, qf, qh, qe, tn, wf, wh
    <2>6. /\ Cost(fs) \in Nat /\ Cost(hs) \in Nat /\ roomForError \in Nat
          /\ roomForHints \in Nat
          /\ roomForHints = room - Cost(fs) /\ roomForError = roomForHints - Cost(hs)
      BY <1>10, <1>11
    <2> DEFINE cf == Cost(fs)
               ch == Cost(hs)
    <2> HIDE DEF cf, ch
    <2>7. /\ cf \in Nat /\ ch \in Nat /\ roomForError = (room - cf) - ch
          /\ pf + 1 <= qf + wf + cf /\ ph + 1 <= qh + wh + ch
      BY <2>5, <2>6 DEF cf, ch
    <2>8. pf + ph + te + pe <= qf + qh + tn + qe + room + Headroom
      BY <1>4, <2>3, <2>4, <2>5, <2>6, <2>7
    <2>9. StructuredLen(e.structured) <= StructuredLen(b.structured) + room + Headroom
      BY <1>4, <2>1, <2>2, <2>3, <2>5, <2>8
    <2>10. e.stdout = so /\ e.stderr = se /\ b.stdout = so /\ b.stderr = se
      BY <1>1, <1>9
    <2>11. /\ EventLen(e) = Skeleton - StructuredSkeleton + StructuredLen(e.structured)
                             + StreamLen(so) + StreamLen(se)
           /\ EventLen(b) = Skeleton - StructuredSkeleton + StructuredLen(b.structured)
                             + StreamLen(so) + StreamLen(se)
      BY <2>10 DEF EventLen
    <2>12. StructuredLen(e.structured) \in Nat /\ StructuredLen(b.structured) \in Nat
      BY <1>3, <1>13, EventLenIsNat
    <2>13. EventLen(e) <= EventLen(b) + room + Headroom
      BY <1>4, <1>5, <2>3, <2>9, <2>11, <2>12
    <2>14. QED
      BY <2>9, <2>13
  <1>15. QED
    <2>1. FilledIn(e, g, input, x, y)
      BY <1>9, <1>10, <1>11, <1>12, <1>13, <1>14 DEF FilledIn, so, se, b, room
    <2>2. QED
      BY <2>1 DEF e, b

\* What an event says that was not refused.
LEMMA EventTells ==
  ASSUME NEW input, NEW out, NEW err, InputOk(input, out, err),
         NEW e, e = FinishEvent(input), e # NoEvent
  PROVE  /\ SupportedFinish(e)
         /\ e.exit = input.exit /\ e.completion = input.completion
         /\ e.hint = input.hint
         /\ e.structured.hints.total = Available(Len(input.hints))
         /\ AccountsFor(e.stdout, out) /\ AccountsFor(e.stderr, err)
  <1> DEFINE r == WithRecords(input, Blank(input))
             full == WithStreams(input, r)
             so == Snapshot(input.stdout, (StreamRoom(r) \div 4) * 3)
             left == StreamRoom(r) - Base64(Len(so.prefix))
             se == Snapshot(input.stderr, (left \div 4) * 3)
  <1>1. /\ FitsBlank(Blank(input))
        /\ FitsIn(StructuredLen(r.structured), StructuredLimit)
        /\ FitsIn(EventLen(r), EventLimit) /\ FitsIn(EventLen(full), EventLimit)
        /\ e = full
    BY DEF FinishEvent
  <1>2. full = [r EXCEPT !.stdout = so, !.stderr = se]
    BY DEF WithStreams
  <1>3. /\ FindingsOk(r.structured.findings)
        /\ PrefixOk(r.structured.hints, "hint", FALSE)
        /\ ErrorOk(r.structured.error)
        /\ r.structured.hints.total = Available(Len(input.hints))
        /\ Lengthy(r)
        /\ full.exit = input.exit /\ full.completion = input.completion
        /\ full.mode = input.mode /\ full.hint = input.hint
        /\ full.structured = r.structured /\ full.stdout = so /\ full.stderr = se
    <2> HIDE DEF so, se, full
    <2>1. \A x, y : FilledIn(r, [r EXCEPT !.stdout = x, !.stderr = y], input, x, y)
      BY <1>1, RecordedParts
    <2> HIDE DEF r
    <2>2. FilledIn(r, full, input, so, se)
      BY <1>2, <2>1
    <2>3. QED
      BY <2>2 DEF FilledIn
  <1> HIDE DEF r, full
  <1>4. StreamRoom(r) \in Nat
    BY <1>1, <1>3, StreamRoomIsNat
  <1> DEFINE room == StreamRoom(r)
             half == (room \div 4) * 3
  <1>5. room \in Nat /\ half \in Nat
    BY <1>4
  <1>6. /\ AccountsFor(so, out) /\ StreamOk(so, StdoutLimit)
        /\ Len(so.prefix) \in Nat /\ Len(so.prefix) <= half
    BY <1>5, SnapshotsTell
  <1> HIDE DEF so
  <1>7. left \in Nat
    <2> HIDE DEF room
    <2>1. Base64(Len(so.prefix)) \in Nat /\ Base64(Len(so.prefix)) <= room
      BY <1>5, <1>6, Base64Fits
    <2>2. left = room - Base64(Len(so.prefix))
      BY DEF room
    <2> HIDE DEF left
    <2>3. QED
      BY <1>5, <2>1, <2>2
  <1> HIDE DEF left
  <1>8. (left \div 4) * 3 \in Nat
    BY <1>7
  <1>9. AccountsFor(se, err) /\ StreamOk(se, StderrLimit)
    BY <1>8, SnapshotsTell
  <1> HIDE DEF se, room, half
  <1>12. StructuredOk(e.structured)
    BY <1>1, <1>3 DEF StructuredOk, FitsIn
  <1>13. HintOk(e.hint)
    <2>1. e.hint \in Routing
      BY <1>1, <1>3 DEF InputOk
    <2>2. QED
      BY <2>1 DEF Routing, HintOk
  <1>14. EventLen(e) <= EventLimit
    BY <1>1 DEF FitsIn
  <1>15. SupportedFinish(e)
    BY <1>1, <1>3, <1>6, <1>9, <1>12, <1>13, <1>14 DEF SupportedFinish, InputOk
  <1>16. QED
    BY <1>1, <1>3, <1>6, <1>9, <1>15

\* An event that is possible without its optional parts is possible with
\* them.
LEMMA OptionalParts ==
  ASSUME NEW input, NEW out, NEW err, InputOk(input, out, err), FitsBlank(Blank(input))
  PROVE  FinishEvent(input) # NoEvent
  <1> DEFINE b == Blank(input)
             r == WithRecords(input, b)
             full == WithStreams(input, r)
             room == StreamRoom(r)
             so == Snapshot(input.stdout, (room \div 4) * 3)
             left == room - Base64(Len(so.prefix))
             se == Snapshot(input.stderr, (left \div 4) * 3)
             so0 == Snapshot(input.stdout, 0)
             se0 == Snapshot(input.stderr, 0)
  <1>1. full = [r EXCEPT !.stdout = so, !.stderr = se]
    BY DEF WithStreams
  <1>2. /\ Lengthy(r) /\ r.stdout = so0 /\ r.stderr = se0
        /\ StructuredLen(r.structured) <= StructuredLen(b.structured) + RecordRoom(b) + Headroom
        /\ EventLen(r) <= EventLen(b) + RecordRoom(b) + Headroom
        /\ full.kind = "finish" /\ full.structured = r.structured
        /\ full.stdout = so /\ full.stderr = se
    <2> HIDE DEF so, se, full
    <2>1. \A x, y : FilledIn(r, [r EXCEPT !.stdout = x, !.stderr = y], input, x, y)
      BY RecordedParts
    <2> HIDE DEF r
    <2>2. FilledIn(r, full, input, so, se)
      BY <1>1, <2>1
    <2>3. QED
      BY <2>2 DEF FilledIn
  <1>3. Lengthy(b) /\ FitsBlank(b)
    BY BlankLengthy
  <1> HIDE DEF b, r, full
  <1>4. /\ EventLimit \in Nat /\ StructuredLimit \in Nat /\ Headroom \in Nat
        /\ StdoutLimit \in Nat /\ StderrLimit \in Nat
        /\ Skeleton \in Nat /\ StructuredSkeleton \in Nat
    BY EventAssumption
  <1>5. /\ StructuredLen(b.structured) \in Nat /\ EventLen(b) \in Nat
        /\ StructuredLen(r.structured) \in Nat /\ EventLen(r) \in Nat
    BY <1>2, <1>3, EventLenIsNat
  <1>6. /\ StructuredLen(r.structured) <= StructuredLimit
        /\ EventLen(r) <= EventLimit
    BY <1>2, <1>3, <1>4, <1>5 DEF RecordRoom, Least, FitsBlank, FitsIn
  <1>7. room \in Nat
    BY <1>2, <1>6, StreamRoomIsNat DEF FitsIn
  <1>8. (room \div 4) * 3 \in Nat
    BY <1>7
  <1> DEFINE bo == Base64(Len(so.prefix))
             be == Base64(Len(se.prefix))
             wo == Width[StdoutLimit]
             we == Width[StderrLimit]
  <1>9. wo \in Nat /\ we \in Nat /\ wo + we <= Headroom
    BY <1>4, WidthIsNat, HeadroomAssumption
  <1>10. /\ Measured(out) /\ Captured(input.stdout, StdoutLimit, out)
         /\ Measured(err) /\ Captured(input.stderr, StderrLimit, err)
         /\ StdoutLimit < CountMax /\ StderrLimit < CountMax
    BY EventAssumption DEF InputOk
  <1>11. /\ StreamLen(so) \in Nat /\ StreamLen(so0) \in Nat /\ bo \in Nat
         /\ StreamLen(so) <= StreamLen(so0) + bo + wo
    BY <1>4, <1>8, <1>10, StreamGrows
  <1>12. bo <= room
    <2>1. Len(so.prefix) \in Nat /\ Len(so.prefix) <= (room \div 4) * 3
      BY <1>8, SnapshotsTell
    <2> HIDE DEF room, so
    <2>2. QED
      BY <1>7, <2>1, Base64Fits
  <1>13. left \in Nat
    <2> HIDE DEF room, so
    <2>1. left = room - bo
      OBVIOUS
    <2> HIDE DEF left, bo
    <2>2. QED
      BY <1>7, <1>11, <1>12, <2>1 DEF bo
  <1> DEFINE half == (left \div 4) * 3
  <1> HIDE DEF left
  <1>14. half \in Nat
    BY <1>13
  <1>15. /\ StreamLen(se) \in Nat /\ StreamLen(se0) \in Nat /\ be \in Nat
         /\ StreamLen(se) <= StreamLen(se0) + be + we
    BY <1>4, <1>10, <1>14, StreamGrows
  <1>16. be <= left
    <2>1. Len(se.prefix) <= half
      <3>1. Captured(input.stderr, StderrLimit, err) /\ Measured(err)
        BY <1>10
      <3>2. QED
        BY <1>4, <1>10, <1>14, SnapshotTells
    <2>2. Len(se.prefix) \in Nat
      BY <1>4, <1>10, <1>14, SnapshotTells
    <2> HIDE DEF se
    <2>3. QED
      BY <1>13, <2>1, <2>2, Base64Fits
  <1>17. bo + be <= room
    <2> HIDE DEF room, be, bo
    <2>1. left = room - bo
      BY DEF left, bo
    <2>2. QED
      BY <1>7, <1>11, <1>15, <1>16, <2>1
  <1>18. EventLen(full) <= EventLimit
    <2> DEFINE fixed == Skeleton - StructuredSkeleton + StructuredLen(r.structured)
    <2>1. /\ EventLen(full) = fixed + StreamLen(so) + StreamLen(se)
          /\ EventLen(r) = fixed + StreamLen(so0) + StreamLen(se0)
      <3> HIDE DEF so, se, so0, se0
      <3>1. QED
        BY <1>2 DEF EventLen
    <2>2. fixed \in Int
      BY <1>4, <1>5
    <2>3. CASE EventLimit - EventLen(r) >= Headroom
      <3>1. room = (EventLimit - EventLen(r)) - Headroom
        BY <2>3 DEF StreamRoom, Minus
      <3> HIDE DEF room, so, se, so0, se0, bo, be, wo, we, fixed
      <3>2. EventLen(full) <= EventLen(r) + room + Headroom
        BY <1>4, <1>5, <1>7, <1>9, <1>11, <1>15, <1>17, <2>1, <2>2
      <3>3. QED
        BY <1>4, <1>5, <1>7, <2>1, <2>2, <1>11, <1>15, <3>1, <3>2
    <2>4. CASE ~(EventLimit - EventLen(r) >= Headroom)
      <3>1. room = 0
        BY <2>4 DEF StreamRoom, Minus
      <3>2. (room \div 4) * 3 = 0
        <4> HIDE DEF room
        <4>1. QED
          BY <3>1
      <3>3. so = so0
        BY <3>2
      <3>4. left = 0
        <4>1. left = room - bo
          BY DEF left
        <4> HIDE DEF room, bo
        <4>2. QED
          BY <1>11, <1>12, <3>1, <4>1
      <3>5. se = se0
        BY <3>4
      <3> HIDE DEF so, se, so0, se0, fixed
      <3>6. EventLen(full) = EventLen(r)
        BY <2>1, <3>3, <3>5
      <3>7. QED
        BY <1>6, <3>6
    <2>5. QED
      BY <2>3, <2>4
  <1>19. full # NoEvent
    <2>1. NoEvent.kind = "none"
      BY DEF NoEvent
    <2>2. QED
      BY <1>2, <2>1
  <1>20. FinishEvent(input) = full
    BY <1>3, <1>6, <1>18 DEF FinishEvent, FitsIn, b, r, full
  <1>21. QED
    BY <1>19, <1>20

-----------------------------------------------------------------------------
(* A hint is raised once: there are never more than three.                 *)

FewHints ==
  /\ hints \in Seq(HintNames) /\ Len(hints) <= 3
  /\ pc = "load" => hints = <<>>
  /\ pc = "evaluate" => Len(hints) <= 1
  /\ pc = "render" => Len(hints) <= 2

LEMMA OneMoreHint ==
  ASSUME hints \in Seq(HintNames), NEW h \in HintNames
  PROVE  Append(hints, h) \in Seq(HintNames) /\ Len(Append(hints, h)) = Len(hints) + 1
         /\ Len(hints) \in Nat
  OBVIOUS

LEMMA FewAtFirst == Init => FewHints
  <1>1. <<>> \in Seq(HintNames) /\ Len(<<>>) = 0
    OBVIOUS
  <1>2. QED
    BY <1>1 DEF Init, FewHints

LEMMA HintsStayFew == FewHints /\ [Next]_vars => FewHints'
  <1> SUFFICES ASSUME FewHints, [Next]_vars PROVE FewHints'
    OBVIOUS
  <1>1. /\ hints \in Seq(HintNames) /\ Len(hints) \in Nat
        /\ "config" \in HintNames /\ "run" \in HintNames /\ "large" \in HintNames
        /\ <<>> \in Seq(HintNames) /\ Len(<<>>) = 0
    BY DEF FewHints, HintNames
  <1>2. CASE Load
    <2>1. pc' \in {"report", "evaluate"} /\ hints = <<>>
          /\ (hints' = hints \/ hints' = <<>> \/ hints' = <<"config">>)
      BY <1>2 DEF Load, FewHints
    <2>2. <<"config">> \in Seq(HintNames) /\ Len(<<"config">>) = 1
      BY <1>1
    <2>3. hints' \in Seq(HintNames) /\ Len(hints') <= 1
      <3>1. CASE hints' = <<>> \/ hints' = hints
        <4>1. hints' = <<>>
          BY <2>1, <3>1
        <4>2. <<>> \in Seq(HintNames) /\ Len(<<>>) <= 1
          BY <1>1
        <4>3. QED
          BY <4>1, <4>2
      <3>2. CASE hints' = <<"config">>
        BY <2>2, <3>2
      <3>3. QED
        BY <2>1, <3>1, <3>2
    <2>4. QED
      BY <2>1, <2>3 DEF FewHints
  <1>3. CASE Evaluate
    <2>1. pc' \in {"route", "render"} /\ Len(hints) <= 1
          /\ (hints' = hints \/ hints' = Append(hints, "run"))
      BY <1>3 DEF Evaluate, FewHints
    <2>2. QED
      BY <1>1, <2>1, OneMoreHint DEF FewHints
  <1>4. CASE Render
    <2>1. pc' = "route" /\ Len(hints) <= 2
          /\ (hints' = hints \/ \E len : hints' = WithLargeHint(len))
      BY <1>4 DEF Render, RenderDocument, RenderBare, RenderText, RenderOther, FewHints
    <2>2. hints' = hints \/ hints' = Append(hints, "large")
      BY <2>1 DEF WithLargeHint
    <2>3. QED
      BY <1>1, <2>1, <2>2, OneMoreHint DEF FewHints
  <1>5. CASE UNCHANGED hints /\ pc' \notin {"load", "evaluate", "render"}
    BY <1>5 DEF FewHints
  <1>6. CASE UNCHANGED vars
    BY <1>6 DEF vars, FewHints
  <1>7. ASSUME RouteEnvelope \/ RouteLine \/ RouteNothing \/ ScanPanics \/ ReportError
               \/ ReportNothing \/ Finish
        PROVE  UNCHANGED hints /\ pc' \notin {"load", "evaluate", "render"}
    BY <1>7 DEF RouteEnvelope, RouteLine, RouteNothing, ScanPanics, ReportError,
                ReportNothing, Finish, WriteStderr, Panic
  <1>8. QED
    BY <1>2, <1>3, <1>4, <1>5, <1>6, <1>7 DEF Next

\* How the invocation ended, when it is recorded.
LEMMA CompletionTells ==
  ASSUME RecordInvariant, pc = "done", obs.active = TRUE
  PROVE  /\ Completion = "output_budget_refused" <=> Refusal
         /\ Completion = "stdout_write_failed" <=> Failed(stdout)
         /\ Completion = "returned" <=> Ok
         /\ Completion \in {"returned", "command_error", "output_budget_refused",
                            "stdout_write_failed"}
         /\ exit = "2" <=> FinishInput.exit = "usage_error"
         /\ FinishInput.exit \in {"clean", "violations", "usage_error"}
  <1>1. /\ result \in {"clean", "violations", "failed", "closed", "stdout_failed",
                       "refused_json", "refused_text"}
        /\ Failed(stdout) <=> result \in {"closed", "stdout_failed"}
        /\ exit = ExitCode
        /\ Captured(obs.stdout, StdoutLimit, stdout)
    BY DEF RecordInvariant, Typed, Concluding, Observing, Ended
  <1>2. obs.active /\ (obs.stdout.failed <=> Failed(stdout))
    BY <1>1 DEF Captured
  <1>3. StdoutWriteFailed(obs) <=> Failed(stdout)
    BY <1>2 DEF StdoutWriteFailed
  <1> HIDE DEF StdoutWriteFailed
  <1>4. /\ Ok <=> result \in {"clean", "violations"}
        /\ Refusal <=> result \in {"refused_json", "refused_text"}
    BY DEF Ok, Refusal
  <1>5. /\ Ok => Completion = "returned"
        /\ Refusal => Completion = "output_budget_refused"
        /\ Failed(stdout) => Completion = "stdout_write_failed"
        /\ ~Ok /\ ~Refusal /\ ~Failed(stdout) => Completion = "command_error"
    BY <1>1, <1>3, <1>4 DEF Completion
  <1>6. /\ ~(Ok /\ Refusal) /\ ~(Ok /\ Failed(stdout)) /\ ~(Refusal /\ Failed(stdout))
    BY <1>1, <1>4
  <1>7. FinishInput.exit = CASE ExitCode = "0" -> "clean"
                             [] ExitCode = "1" -> "violations"
                             [] OTHER -> "usage_error"
    BY DEF FinishInput
  <1>8. ExitCode \in {"0", "1", "2"}
    BY DEF ExitCode
  <1>9. QED
    BY <1>1, <1>5, <1>6, <1>7, <1>8

LEMMA FinishInputOk ==
  ASSUME RecordInvariant, FewHints, pc = "done", obs.active = TRUE
  PROVE  InputOk(FinishInput, stdout, stderr)
  <1>1. /\ obs \in Observations /\ Measured(stdout) /\ Measured(stderr)
        /\ hints \in Seq(HintNames) /\ chain \in ErrorChains \cup {<<>>}
    BY DEF RecordInvariant, Typed, Texts
  <1>2. /\ Captured(obs.stdout, StdoutLimit, stdout)
        /\ Captured(obs.stderr, StderrLimit, stderr)
    BY DEF RecordInvariant, Observing
  <1>3. /\ FinishInput.completion = Completion /\ FinishInput.mode = obs.mode
        /\ FinishInput.hint = obs.hint /\ FinishInput.findings = obs.findings
        /\ FinishInput.hints = HintRecords(hints) /\ FinishInput.chain = chain
        /\ FinishInput.stdout = obs.stdout /\ FinishInput.stderr = obs.stderr
    BY DEF FinishInput
  <1>4. /\ obs.hint \in Routing /\ obs.findings \in RetainedFindings
        /\ obs.mode \in {"text", "json", "bare_jgf", "raw_graph_set", "no_document"}
    BY <1>1 DEF Observations
  <1>5. /\ Measured(HintRecords(hints))
        /\ Len(HintRecords(hints)) <= 3
        /\ \A i \in 1 .. Len(HintRecords(hints)) : HintRecords(hints)[i].kind = "hint"
    BY <1>1, HintsMeasured DEF FewHints
  <1>6. /\ Completion \in {"returned", "command_error", "output_budget_refused",
                           "stdout_write_failed"}
        /\ FinishInput.exit \in {"clean", "violations", "usage_error"}
    BY CompletionTells
  <1>7. QED
    BY <1>1, <1>2, <1>3, <1>4, <1>5, <1>6 DEF InputOk

LEMMA RecordedFinish ==
  ASSUME RecordInvariant, FewHints, event # NoEvent
  PROVE  FinishTellsWhatHappened /\ ReaderAcceptsTheFinish
  <1>1. pc = "done" /\ obs.active = TRUE /\ event = FinishEvent(FinishInput)
    <2>1. pc = "done" /\ obs.active \in BOOLEAN
          /\ event = IF obs.active THEN FinishEvent(FinishInput) ELSE NoEvent
      BY DEF RecordInvariant, Ended, Typed, Observations
    <2>2. obs.active
      BY <2>1
    <2>3. QED
      BY <2>1, <2>2
  <1>2. /\ SupportedFinish(event)
        /\ event.exit = FinishInput.exit /\ event.completion = FinishInput.completion
        /\ event.hint = FinishInput.hint
        /\ event.structured.hints.total = Available(Len(FinishInput.hints))
        /\ AccountsFor(event.stdout, stdout) /\ AccountsFor(event.stderr, stderr)
    BY <1>1, FinishInputOk, EventTells
  <1>3. /\ Completion = "output_budget_refused" <=> Refusal
        /\ Completion = "stdout_write_failed" <=> Failed(stdout)
        /\ Completion = "returned" <=> Ok
        /\ exit = "2" <=> FinishInput.exit = "usage_error"
    BY <1>1, CompletionTells
  <1>4. /\ FinishInput.completion = Completion /\ FinishInput.hint = obs.hint
        /\ FinishInput.hints = HintRecords(hints)
    BY DEF FinishInput
  <1>5. Len(HintRecords(hints)) = Len(hints)
    BY HintsMeasured DEF RecordInvariant, Typed
  <1>6. /\ obs.hint.attempt = "attempted" <=> Attempted(stdout) \/ Attempted(stderr)
        /\ obs.hint.route \in {"stderr_text", "stderr_json"} <=> Attempted(stderr)
        /\ obs.hint.suppression # "none" => Refusal \/ Failed(stdout)
    BY <1>1 DEF RecordInvariant, Observing
  <1>7. ReaderAcceptsTheFinish
    BY <1>2 DEF ReaderAcceptsTheFinish
  <1>8. /\ event.completion = Completion /\ event.hint = obs.hint
        /\ event.exit = FinishInput.exit
        /\ event.structured.hints.total = Available(Len(hints))
    BY <1>2, <1>4, <1>5
  <1>9. FinishTellsWhatHappened
    BY <1>2, <1>3, <1>6, <1>8 DEF FinishTellsWhatHappened, Failed
  <1>10. QED
    BY <1>7, <1>9

\* However a command ends, whatever it was asked and however long its output,
\* the finish that is published agrees with what really happened: completion
\* and exit status, the number of hints, where they went and why not, and the
\* captured prefix, count and outcome of both streams.
THEOREM FinishIsTrue == Spec => []FinishTellsWhatHappened
  <1>1. RecordInvariant /\ FewHints => FinishTellsWhatHappened
    BY RecordedFinish DEF FinishTellsWhatHappened
  <1>2. QED
    BY <1>1, RecordInit, RecordStep, FewAtFirst, HintsStayFew, PTL DEF Spec

\* However much had to be left out to stay within the limits, the reader of
\* the partition takes the finish that is published for a finish.
THEOREM FinishIsAccepted == Spec => []ReaderAcceptsTheFinish
  <1>1. RecordInvariant /\ FewHints => ReaderAcceptsTheFinish
    BY RecordedFinish DEF ReaderAcceptsTheFinish
  <1>2. QED
    BY <1>1, RecordInit, RecordStep, FewAtFirst, HintsStayFew, PTL DEF Spec

\* COUNTER_HEADROOM "reserves more than all possible usize count-width
\* increases and enum spelling changes from the empty skeleton"
\* (src/src/usage/event.rs:367), and that is enough: whatever the command
\* found, hinted, failed with and wrote, a finish whose blank form fits is
\* never refused for the parts that were added to it.
THEOREM OptionalPartsAreFree == Spec => []OptionalPartsNeverCostTheFinish
  <1>1. RecordInvariant /\ FewHints => OptionalPartsNeverCostTheFinish
    <2> SUFFICES ASSUME RecordInvariant, FewHints, pc = "done", obs.active,
                        FitsBlank(Blank(FinishInput))
                 PROVE  event # NoEvent
      BY DEF OptionalPartsNeverCostTheFinish
    <2>1. FinishEvent(FinishInput) # NoEvent
      BY FinishInputOk, OptionalParts
    <2>2. event = IF obs.active THEN FinishEvent(FinishInput) ELSE NoEvent
      BY DEF RecordInvariant, Ended
    <2>3. QED
      BY <2>1, <2>2
  <1>2. QED
    BY <1>1, RecordInit, RecordStep, FewAtFirst, HintsStayFew, PTL DEF Spec
=============================================================================
