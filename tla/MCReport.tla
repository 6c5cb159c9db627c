------------------------------ MODULE MCReport ------------------------------
(***************************************************************************)
(* Instances of Report for TLC.  Lengths are scaled down until every       *)
(* limit is met from both sides: results below, at and above the size that *)
(* is flagged and the budgets, findings and errors that fit and that do    *)
(* not, captures that overrun their prefix and their counter.              *)
(***************************************************************************)
EXTENDS ReportUnrecorded

MCHintLen == [h \in HintNames |-> CASE h = "config" -> 2
                                    [] h = "run" -> 3
                                    [] h = "large" -> 4]

\* As long as the names, in units of five letters.
MCTraversalLen == [t \in Traversals |-> CASE t = "complete" -> 0
                                          [] t = "not_started" -> 1
                                          [] OTHER -> 2]

Findings(lens) == [i \in DOMAIN lens |-> [kind |-> "finding", len |-> lens[i]]]

MCFindingLists == {<<>>, Findings(<<3>>), Findings(<<4, 9, 2>>), Findings(<<4, 60>>)}

Link(len) == [raw |-> len - 2, len |-> len]

MCErrorChains == {<<Link(3)>>, <<Link(4), Link(4)>>, <<Link(2), Link(2), Link(2)>>,
                  <<Link(2), Link(2), Link(3), Link(3)>>}

=============================================================================
