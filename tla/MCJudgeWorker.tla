--------------------------- MODULE MCJudgeWorker ----------------------------
(***************************************************************************)
(* Small instances of JudgeWorker for TLC: every judge speaks the language *)
(* of every job.                                                           *)
(***************************************************************************)
EXTENDS JudgeWorker, TLC

CONSTANTS j1, w1, w2

MCSpeaks == Judges \X Jobs
Symmetry == Permutations(Judges)

=============================================================================
