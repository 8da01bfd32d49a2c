--------------------------- MODULE ContestFormats ---------------------------
(***************************************************************************)
(* The five contest formats: what the submissions of one participation     *)
(* are worth.  Each format reads one problem after the other               *)
(* (ProblemResult) and then combines the results (Combined).  Submissions  *)
(* are numbered in the order of their creation, and a queryset is the      *)
(* restriction to the numbers it selects.  Time is in minutes since the    *)
(* participation began.                                                    *)
(***************************************************************************)
EXTENDS Integers, FiniteSets, Sequences, FiniteSetsExt, SequencesExt, Functions

CONSTANTS
  ProblemList,    \* the problems of the contest, in order
  ProblemPoints,  \* ContestProblem.points
  Groups,         \* subtasks of a problem's package
  WrongPenalty,   \* minutes for a rejected attempt (icpc, atcoder)
  Tries           \* tries_per_problem (ecoo)

Formats == {"default", "icpc", "ioi", "atcoder", "ecoo"}
Problems == ToSet(ProblemList)

\* Problems are worth something, or nothing; ecoo allows at least one try.
ASSUME FormatsAssumption ==
  /\ ProblemList \in Seq(Problems)
  /\ ProblemPoints \in [Problems -> Nat]
  /\ IsFiniteSet(Groups)
  /\ Tries \in Nat \ {0}

\* A submission that is waiting or being judged has no result, points or subtasks.
Pending == [result |-> "none", points |-> 0, subtasks |-> <<>>]

\* What finish and fail write.  The points are the sum of the subtasks' points,
\* rounded; without subtasks there are none.
WellScored(out) ==
  /\ out.points \in Nat
  /\ out.subtasks # <<>> => out.subtasks \in [Groups -> Nat]
  /\ out.subtasks = <<>> => out.points = 0

Accepted(s) == s.out.result = "AC"

\* _submission_queryset
Attempts(submissions, p) == RestrictValues(submissions, LAMBDA s : s.problem = p)

\* icpc leaves out compilation and internal errors.
Counted(q) == RestrictValues(q, LAMBDA s : s.out.result \notin {"CE", "IE"})

Solved(q) == \E i \in DOMAIN q : Accepted(q[i])
FirstAccepted(q) == Min({i \in DOMAIN q : Accepted(q[i])})

\* Mutant: every rejected attempt counts, those after the first accepted one too.
WrongAtAnyTime(q) == Cardinality({i \in DOMAIN q : ~Accepted(q[i])})

\* Attempts before the first accepted one; one without a result counts as well.
Wrong(q) == Cardinality({i \in DOMAIN q : Solved(q) => i < FirstAccepted(q)})

FirstTries(q) == RestrictDomain(q, LAMBDA i : Cardinality({j \in DOMAIN q : j <= i}) <= Tries)

Graded(q) == {i \in DOMAIN q : q[i].out.subtasks # <<>>}

\* Mutant: the latest submission that has subtasks counts.
LatestSubtasks(q) == [g \in Groups |-> IF Graded(q) = {} THEN 0 ELSE q[Max(Graded(q))].out.subtasks[g]]

\* ioi: the best score of each subtask over all submissions.
BestSubtasks(q) == [g \in Groups |-> Max({q[i].out.subtasks[g] : i \in Graded(q)} \cup {0})]

BestPoints(q) == Max({q[i].out.points : i \in DOMAIN q} \cup {0})

\* What get_problem_result of each format makes of the submissions q to one
\* problem: points, the minute that counts for the tie (0 if none), and the
\* rejected attempts that count for it.
Solving(q, worth) ==
  IF Solved(q) THEN [points |-> worth, wrong |-> Wrong(q), minute |-> q[FirstAccepted(q)].at]
               ELSE [points |-> 0, wrong |-> 0, minute |-> 0]

DefaultResult(q) ==
  [points |-> BestPoints(q), wrong |-> 0,
   minute |-> Max({q[i].at : i \in {k \in DOMAIN q : Accepted(q[k])}} \cup {0})]

IcpcResult(q) == Solving(Counted(q), 1)

IoiResult(q) ==
  [points |-> IF Graded(q) = {} THEN BestPoints(q) ELSE SumFunction(BestSubtasks(q)),
   wrong |-> 0, minute |-> 0]

AtCoderResult(q, p) == Solving(q, ProblemPoints[p])

EcooResult(q) == Solving(FirstTries(q), 1)

ProblemResult(f, submissions, p) ==
  LET q == Attempts(submissions, p)
  IN CASE f = "default" -> DefaultResult(q)
       [] f = "icpc"    -> IcpcResult(q)
       [] f = "ioi"     -> IoiResult(q)
       [] f = "atcoder" -> AtCoderResult(q, p)
       [] f = "ecoo"    -> EcooResult(q)

\* calculate_participation of each format: r has the result of each problem.
TotalPoints(r) == SumFunction([p \in Problems |-> r[p].points])
TotalPenalty(r) == WrongPenalty * SumFunction([p \in Problems |-> r[p].wrong])
LastMinute(r) == Max({r[p].minute : p \in Problems} \cup {0})

DefaultScore(r) == [score |-> TotalPoints(r), tie |-> LastMinute(r)]
IcpcScore(r) == [score |-> TotalPoints(r),
                 tie |-> SumFunction([p \in Problems |-> r[p].minute]) + TotalPenalty(r)]
AtCoderScore(r) == [score |-> TotalPoints(r), tie |-> LastMinute(r) + TotalPenalty(r)]
UntiedScore(r) == [score |-> TotalPoints(r), tie |-> 0]

Combined(f, r) ==
  CASE f = "default" -> DefaultScore(r)
    [] f = "icpc"    -> IcpcScore(r)
    [] f = "atcoder" -> AtCoderScore(r)
    [] OTHER         -> UntiedScore(r)

Standing(f, submissions) == Combined(f, [p \in Problems |-> ProblemResult(f, submissions, p)])

=============================================================================
