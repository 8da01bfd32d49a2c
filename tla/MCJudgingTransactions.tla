------------------------ MODULE MCJudgingTransactions ------------------------
(***************************************************************************)
(* A small instance of JudgingTransactions for TLC.                        *)
(***************************************************************************)
EXTENDS JudgingTransactions, TLC

CONSTANTS s1, s2, b1, b2, b3

Symmetry == Permutations(Subs) \cup Permutations(Backends)

=============================================================================
