---------------------------- MODULE MCJudgeLease ----------------------------
(***************************************************************************)
(* Small instance of JudgeLease for TLC: two judges, one scored submission *)
(* that both can judge and one custom run that only one of them can.       *)
(***************************************************************************)
EXTENDS JudgeLease

CONSTANTS j1, j2, w1, w2

MCSpeaks == {<<w1, j1>>, <<w2, j1>>, <<w2, j2>>}

=============================================================================
