-------------------------- MODULE ReportUnrecorded --------------------------
(***************************************************************************)
(* Collection is best effort and "never changes command output or status"  *)
(* (src/src/usage/lifecycle.rs:3): a recorded invocation implements one    *)
(* that nobody records.                                                    *)
(***************************************************************************)
EXTENDS Report

Plain == INSTANCE Report WITH obs <- NotRecording, event <- NoEvent

\* Recording an invocation changes nothing about it: forget the recorder and
\* its event, and every step of arguments, hints, streams and exit status is
\* one that an invocation nobody records can take.
UsageIsInvisible == Plain!Spec
=============================================================================
