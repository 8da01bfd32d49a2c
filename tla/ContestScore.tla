---------------------------- MODULE ContestScore ----------------------------
(***************************************************************************)
(* The score of one participation, which the control plane stores and      *)
(* computes anew in the transaction of every finish and fail, in a         *)
(* recalculation of the ranking and at the end of the contest.             *)
(*                                                                         *)
(* The database is at READ COMMITTED.  A transaction writes its submission *)
(* and then reads the submissions of one problem after the other, each     *)
(* time seeing what others have committed by then, and saves the score at  *)
(* its very end: saving and committing are one step here.  Two transactions *)
(* may not report on the same submission at once, because of the lock on   *)
(* the job row, and a verdict that counts for the statistics of the user   *)
(* locks the user until its commit.  There are no rejudges.                *)
(***************************************************************************)
EXTENDS ContestFormats

CONSTANTS
  Format,         \* the contest's format
  Outcomes,       \* what finish and fail write: [result, points, subtasks]
  MaxSubmissions, \* ContestProblem.max_submissions
  RefreshFails,   \* whether a refresh may fail after finish or fail wrote its result
  Nobody,         \* a refresh that belongs to no submission
  Unrated         \* no ratings yet

ASSUME ScoreAssumption ==
  /\ Format \in Formats
  /\ \A out \in Outcomes : WellScored(out)
  /\ RefreshFails \in BOOLEAN
  /\ Nobody \notin Nat

VARIABLES
  subs,    \* the submissions, in the order of their creation, as committed
  stored,  \* ContestParticipation.score and tiebreaker
  open,    \* open transactions: whose result they bring, and what they read
  over,    \* the end time has passed
  rated    \* the standing from which ratings were computed

scoreVars == <<subs, stored, open, over, rated>>

Zero == [score |-> 0, tie |-> 0]

ScoreInit ==
  /\ subs = <<>>
  /\ stored = Zero
  /\ open = {}
  /\ over = FALSE
  /\ rated = Unrated

\* The judge job of submission i is locked by an open transaction.
JobLocked(i) == \E t \in open : t.of = i

\* The signal of a completed submission has updated the user's statistics.
UserLocked(ts) == \E t \in ts : t.of # Nobody /\ t.out.result # "CE"

\* submit_to_contest; all submissions are made in the same minute.
Submit(p) ==
  /\ ~over
  /\ Cardinality(DOMAIN Attempts(subs, p)) < MaxSubmissions[p]
  /\ subs' = Append(subs, [problem |-> p, at |-> 1, out |-> Pending])
  /\ UNCHANGED <<stored, open, over, rated>>

Transaction(of, out, end) == [of |-> of, out |-> out, end |-> end, read |-> <<>>]

\* finish or fail writes the submission, finish updates the user's statistics,
\* and both go on to refresh the score.
BeginReport(i, out) ==
  /\ subs[i].out = Pending
  /\ ~JobLocked(i)
  /\ out.result # "CE" => ~UserLocked(open)
  /\ open' = open \cup {Transaction(i, out, FALSE)}
  /\ UNCHANGED <<subs, stored, over, rated>>

\* recalculate_rankings; at most one at a time.
BeginRecalculation ==
  /\ \A t \in open : t.of # Nobody \/ t.end
  /\ open' = open \cup {Transaction(Nobody, Pending, FALSE)}
  /\ UNCHANGED <<subs, stored, over, rated>>

\* end_contest, once, because of ended_at and the lock on the contest.
BeginLastRefresh ==
  /\ over
  /\ rated = Unrated
  /\ \A t \in open : ~t.end
  /\ open' = open \cup {Transaction(Nobody, Pending, TRUE)}
  /\ UNCHANGED <<subs, stored, over, rated>>

\* What a transaction sees: what is committed, and its own result.
Seen(t) == IF t.of = Nobody THEN subs ELSE [subs EXCEPT ![t.of].out = t.out]

\* get_problem_result for the next problem.
ReadProblem(t) ==
  /\ Len(t.read) < Len(ProblemList)
  /\ LET p == ProblemList[Len(t.read) + 1]
     IN open' = (open \ {t}) \cup
                  {[t EXCEPT !.read = Append(@, ProblemResult(Format, Seen(t), p))]}
  /\ UNCHANGED <<subs, stored, over, rated>>

Computed(t) == Combined(Format, [p \in Problems |-> t.read[CHOOSE k \in DOMAIN ProblemList :
                                                             ProblemList[k] = p]])

\* Mutant: the score outlives a transaction that is rolled back.
CommitScoreOnly(t) ==
  /\ Len(t.read) = Len(ProblemList)
  /\ t.end => ~UserLocked(open)
  /\ open' = open \ {t}
  /\ stored' = Computed(t)
  /\ rated' = IF t.end THEN Computed(t) ELSE rated
  /\ \/ subs' = Seen(t)
     \/ subs' = subs
  /\ UNCHANGED over

\* update_participation saves the score and the transaction commits; at the end
\* of the contest it computes the ratings from the scores just saved, which
\* updates the user.
Commit(t) ==
  /\ Len(t.read) = Len(ProblemList)
  /\ t.end => ~UserLocked(open)
  /\ open' = open \ {t}
  /\ subs' = Seen(t)
  /\ stored' = Computed(t)
  /\ rated' = IF t.end THEN Computed(t) ELSE rated
  /\ UNCHANGED over

\* The refresh fails, finish or fail logs that and commits all the same.
CommitResultOnly(t) ==
  /\ RefreshFails
  /\ t.of # Nobody
  /\ open' = open \ {t}
  /\ subs' = Seen(t)
  /\ UNCHANGED <<stored, over, rated>>

\* The database aborts a transaction that is part of a deadlock.
Abort(t) ==
  /\ open' = open \ {t}
  /\ UNCHANGED <<subs, stored, over, rated>>

\* expire_stale_jobs settles a submission and leaves the score alone.
GiveUp(i) ==
  /\ subs[i].out = Pending
  /\ ~JobLocked(i)
  /\ subs' = [subs EXCEPT ![i].out = [Pending EXCEPT !.result = "IE"]]
  /\ UNCHANGED <<stored, open, over, rated>>

EndTimePasses ==
  /\ ~over
  /\ over' = TRUE
  /\ UNCHANGED <<subs, stored, open, rated>>

ScoreNext ==
  \/ \E p \in Problems : Submit(p)
  \/ \E i \in DOMAIN subs, out \in Outcomes : BeginReport(i, out)
  \/ BeginRecalculation
  \/ BeginLastRefresh
  \/ \E t \in open : ReadProblem(t) \/ Commit(t) \/ CommitResultOnly(t) \/ Abort(t)
  \/ \E i \in DOMAIN subs : GiveUp(i)
  \/ EndTimePasses

ScoreSpec == ScoreInit /\ [][ScoreNext]_scoreVars

-----------------------------------------------------------------------------
(* Properties *)

\* Neither the stored score nor the one that was rated credits what is not on
\* record, in whatever order transactions read and commit, and whichever of them
\* are rolled back.
NeverOvercredited ==
  LET right == Standing(Format, subs).score
  IN stored.score <= right /\ (rated # Unrated => rated.score <= right)

=============================================================================
