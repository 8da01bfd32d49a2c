----------------------------- MODULE Scoreboard -----------------------------
(***************************************************************************)
(* Participants of a contest submit and are judged; the standings are what *)
(* the formats make of it.  A submission may be judged, and judged again   *)
(* after a rejudge, at any time after its creation.                        *)
(***************************************************************************)
EXTENDS ContestFormats

CONSTANTS
  Participants,
  Verdicts,  \* what finish and fail write: [result, points, subtasks]
  Allowance, \* ContestProblem.max_submissions
  Duration,  \* minutes from start_time to end_time
  FreezeAt   \* minute of the freeze, scoreboard_frozen_after

ASSUME BoardAssumption == Duration \in Nat /\ FreezeAt \in Nat /\ \A out \in Verdicts : WellScored(out)

VARIABLES
  clock, \* minutes since the contest started
  board  \* the submissions of each participant, in the order of their creation

boardVars == <<clock, board>>

BoardInit ==
  /\ clock = 0
  /\ board = [u \in Participants |-> <<>>]

\* submit_to_contest
SubmitTo(u, p) ==
  /\ clock < Duration
  /\ Cardinality(DOMAIN Attempts(board[u], p)) < Allowance[p]
  /\ board' = [board EXCEPT ![u] = Append(@, [problem |-> p, at |-> clock, out |-> Pending])]
  /\ UNCHANGED clock

\* finish or fail
Judge(u, i, out) ==
  /\ board[u][i].out = Pending
  /\ board' = [board EXCEPT ![u][i].out = out]
  /\ UNCHANGED clock

Rejudge(u, i) ==
  /\ board' = [board EXCEPT ![u][i].out = Pending]
  /\ UNCHANGED clock

Pass ==
  /\ clock < Duration
  /\ clock' = clock + 1
  /\ UNCHANGED board

BoardNext ==
  \/ \E u \in Participants, p \in Problems : SubmitTo(u, p)
  \/ \E u \in Participants : \E i \in DOMAIN board[u], out \in Verdicts : Judge(u, i, out)
  \/ \E u \in Participants : \E i \in DOMAIN board[u] : Rejudge(u, i)
  \/ Pass

BoardSpec == BoardInit /\ [][BoardNext]_boardVars

\* A contest that is over is not frozen, and one that freezes at its start never is.
IsFrozen == FreezeAt > 0 /\ FreezeAt <= clock /\ clock < Duration

\* get_frozen_ranking: the standing of what was created before the freeze.
FrozenStanding(f, u) == Standing(f, RestrictValues(board[u], LAMBDA s : s.at <= FreezeAt))

-----------------------------------------------------------------------------
(* Properties *)

UpTo(q, k) == RestrictDomain(q, LAMBDA i : i <= k)

\* Once a problem is solved, what is submitted to it later changes neither the
\* points nor the tiebreaker where tries are penalised or limited, however late
\* that later work is judged.  (In the default format a second accepted
\* submission moves the tiebreaker, and in ioi there is no tiebreaker.)
SolvedIsSolved ==
  \A u \in Participants, p \in Problems, f \in {"icpc", "atcoder", "ecoo"} :
    LET q == Attempts(board[u], p)
    IN Solved(q) => ProblemResult(f, board[u], p) = ProblemResult(f, UpTo(q, FirstAccepted(q)), p)

\* The frozen board, which computes every standing anew, shows no participant
\* with more than the real board will, though results of what was submitted
\* before the freeze go on arriving during it.
FrozenNeverOverstates ==
  IsFrozen => \A u \in Participants, f \in Formats :
                FrozenStanding(f, u).score <= Standing(f, board[u]).score

=============================================================================
