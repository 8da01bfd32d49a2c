----------------------------- MODULE MCScoring ------------------------------
(***************************************************************************)
(* A problem of 100 points whose package declares one group worth all of   *)
(* them and gives no points to its cases.  (Other manifests are checked in *)
(* MCStandings.)                                                           *)
(***************************************************************************)
EXTENDS Scoring

R(status, points, total) == [status |-> status, points |-> points, total |-> total]

\* What the Go worker reports.
WorkerReports == {R("AC", 2, 2), R("WA", 0, 2), R("IE", 0, 2)}

HundredPoints == 100 * 100 * Cent
OnlyOmitted == {Omitted}
OnlyHundred == {HundredPoints}
SumMode == {"sum"}

=============================================================================
