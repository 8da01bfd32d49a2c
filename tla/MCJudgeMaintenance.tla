------------------------- MODULE MCJudgeMaintenance -------------------------
(***************************************************************************)
(* Small instances of JudgeMaintenance for TLC.                            *)
(***************************************************************************)
EXTENDS JudgeMaintenance

CONSTANTS j1, w1, w2

MCSpeaks == Judges \X Jobs

=============================================================================
