----------------------------- MODULE MCRatings ------------------------------
(***************************************************************************)
(* Small instances of Ratings for TLC: two contests and two users.         *)
(***************************************************************************)
EXTENDS Ratings, Sequences

CONSTANTS a, b, u, v

MCStart == [c \in Contests |-> 0]
MCEnd == [c \in Contests |-> IF c = a THEN 1 ELSE 2]
MCByEnd == <<a, b>>
MCLowest == [c \in Contests |-> 0]
MCHighest == [c \in Contests |-> IF c = a THEN Top ELSE 5]

\* u leads in the first contest; v may still enter the second.
MCPoints == {[c \in Contests |-> [w \in Users |-> IF w = u THEN IF c = a THEN 1 ELSE 0
                                               ELSE IF c = a THEN 0 ELSE Absent]]}

\* Two ranks up or down from the middle, and never below zero.
MCElo(before, twice) == IF before + 1 >= twice THEN before + 1 - twice ELSE 0

\* Up with a score, by more for the first, and down without.
MCSimpleElo(before, score, rank) == IF score > 0 THEN before + 2 \div rank ELSE before - 1

=============================================================================
