-------------------------- MODULE JudgeWorkerProofs --------------------------
(***************************************************************************)
(* Proofs about JudgeLease and JudgeWorker for any number of jobs, judges  *)
(* and cases, any lease length and any attempt limit; upsets of workers    *)
(* and of their requests included.                                         *)
(*                                                                         *)
(* First the control plane.  IInv, the conjunction of the invariants that  *)
(* the runs check, is inductive, while most of them are not inductive      *)
(* alone: RowsFromOwner needs that a waiting job has no rows               *)
(* (SubmissionAgrees), VerdictMatchesRows needs that a settled job has no  *)
(* lease (LeaseShape), and AttemptsBounded needs that a claim counts up    *)
(* from a number and that a failed job is credited to a real judge.        *)
(*                                                                         *)
(* Then the workers.  WIInv is inductive: that a verdict comes from one    *)
(* execution needs that only the latest claim of a job is believed         *)
(* (LatestClaim), which needs that claims are numbered and never shared    *)
(* (PastClaims, OwnClaims), and that rows appear under the claim that goes *)
(* on to finish (RowsPosted, LateFinish, RowsOfClaim).  IInv comes with it.*)
(***************************************************************************)
EXTENDS JudgeWorker, WellFoundedInduction, TLAPS

IInv == /\ TypeOK
        /\ LeaseShape
        /\ SubmissionAgrees
        /\ AttemptsBounded
        /\ RowsFromOwner
        /\ VerdictMatchesRows

-----------------------------------------------------------------------------
(* Lemmas about rows and verdicts *)

\* A nonempty set of numbers between 1 and N has a greatest member (N minus a
\* least one of the distances to N).
LEMMA LastExists ==
  ASSUME NEW N \in Nat, NEW S, S \subseteq 1 .. N, S # {}
  PROVE  \E m \in S : \A d \in S : d <= m
<1> DEFINE T == {N - c : c \in S}
<1>1. T \subseteq Nat /\ T # {}
  <2>1. \A c \in S : N - c \in Nat
    OBVIOUS
  <2>2. T \subseteq Nat
    BY <2>1
  <2>3. PICK c \in S : TRUE
    OBVIOUS
  <2>4. N - c \in T
    OBVIOUS
  <2> QED BY <2>2, <2>4
<1>2. PICK x \in T : \A y \in T : ~ (<<y, x>> \in OpToRel(<, Nat))
  <2> HIDE DEF T
  <2> QED BY <1>1, NatLessThanWellFounded, WFMin
<1>3. \A y \in T : ~ (y < x)
  <2> HIDE DEF T
  <2> QED BY <1>1, <1>2 DEF OpToRel
<1>4. PICK m \in S : x = N - m
  OBVIOUS
<1>5. ASSUME NEW d \in S PROVE d <= m
  <2>1. N - d \in T
    OBVIOUS
  <2>2. ~ (N - d < N - m)
    BY <1>3, <1>4, <2>1
  <2>3. d \in Int /\ m \in Int
    OBVIOUS
  <2> HIDE DEF T
  <2> QED BY <2>2, <2>3
<1> QED
  <2> HIDE DEF T
  <2> QED BY <1>5

\* A batch gives a result code to some of the cases.
LEMMA BatchVerdicts ==
  ASSUME NEW batch \in Batches
  PROVE  \A c \in DOMAIN batch : batch[c] \in Results
<1>1. PICK S \in SUBSET Cases : batch \in [S -> CaseVerdicts]
  BY DEF Batches
<1> QED BY <1>1, LeaseAssumption

LEMMA NoRowIsNotARow == NoRow \notin Row
BY DEF NoRow, Row, Results

LEMMA NoRowsTyped == NoRows \in [Cases -> Row \cup {NoRow}]
BY DEF NoRows

\* The result of a run that reported anything is the verdict of its last row.
LEMMA RunResultTyped ==
  ASSUME NEW r \in [Cases -> Row \cup {NoRow}]
  PROVE  RunResult(r) \in Results
<1> DEFINE present == {c \in Cases : r[c] # NoRow}
<1> DEFINE last == CHOOSE c \in present : \A d \in present : d <= c
<1>1. CASE present = {}
  BY <1>1 DEF RunResult, Results
<1>2. CASE present # {}
  <2>1. present \subseteq 1 .. CaseCount
    BY DEF Cases
  <2>2. \E c \in present : \A d \in present : d <= c
    BY <1>2, <2>1, LastExists, LeaseAssumption
  <2>3. last \in present
    BY <2>2
  <2>4. r[last] \in Row
    BY <2>3
  <2>5. RunResult(r) = r[last].verdict
    BY <1>2 DEF RunResult
  <2> QED BY <2>4, <2>5 DEF Row
<1> QED BY <1>1, <1>2

\* Every finished job gets a result code, and a status that ends the judging.
LEMMA FinalResultTyped ==
  ASSUME NEW j \in Jobs, NEW r \in [Cases -> Row \cup {NoRow}]
  PROVE  /\ FinalResult(j, r) \in Results
         /\ FinalStatus(j, r) \in {"CM", "ER"}
<1>1. ScoredResult(j, r) \in Results
  BY DEF ScoredResult, Results
<1> QED BY <1>1, RunResultTyped DEF FinalResult, FinalStatus

-----------------------------------------------------------------------------
(* The inductive invariant *)

LEMMA InitIInv == Init => IInv
<1> SUFFICES ASSUME Init PROVE IInv
  OBVIOUS
<1> USE LeaseAssumption DEF Init
<1>1. TypeOK
  BY DEF TypeOK, Statuses, LeaseLeft, NoRows
<1>2. LeaseShape /\ SubmissionAgrees /\ AttemptsBounded
  BY DEF LeaseShape, SubmissionAgrees, AttemptsBounded, Active, Final
<1>3. RowsFromOwner /\ VerdictMatchesRows
  BY DEF RowsFromOwner, VerdictMatchesRows, NoRows
<1> QED BY <1>1, <1>2, <1>3 DEF IInv

\* create_submission preserves the invariant.
LEMMA CreateStep ==
  ASSUME IInv, NEW j \in Jobs, CreateSubmission(j)
  PROVE  IInv'
<1> USE LeaseAssumption DEF CreateSubmission, Statuses, Active, Final, jobVars, subVars
<1>1. TypeOK'
  BY DEF IInv, TypeOK, LeaseLeft, Results
<1>2. LeaseShape'
  BY DEF IInv, TypeOK, LeaseShape
<1>3. SubmissionAgrees'
  BY DEF IInv, TypeOK, SubmissionAgrees, LeaseShape, NoRows
<1>4. AttemptsBounded'
  BY DEF IInv, TypeOK, AttemptsBounded
<1>5. RowsFromOwner'
  BY DEF IInv, TypeOK, RowsFromOwner, SubmissionAgrees, NoRows
<1>6. VerdictMatchesRows'
  BY DEF IInv, TypeOK, VerdictMatchesRows
<1> QED BY <1>1, <1>2, <1>3, <1>4, <1>5, <1>6 DEF IInv

\* The expiry sweep: what it requeues has an attempt left, what it fails has none.
LEMMA ExpireStep ==
  ASSUME IInv, NEW S \in SUBSET StaleJobs, ExpireStaleJobs(S)
  PROVE  IInv'
<1> USE LeaseAssumption DEF ExpireStaleJobs, StaleJobs, Stale, OutOfAttempts, Statuses, Active, Final, jobVars, subVars
<1>1. TypeOK'
  <2>1. rows' \in [Jobs -> [Cases -> Row \cup {NoRow}]]
    BY NoRowsTyped DEF IInv, TypeOK
  <2>2. lease' \in [Jobs -> LeaseLeft]
    BY DEF IInv, TypeOK, LeaseLeft
  <2>3. status' \in [Jobs -> Statuses]
    BY DEF IInv, TypeOK
  <2>4. /\ claimedBy' \in [Jobs -> Judges \cup {Nobody}]
        /\ judgedOn' \in [Jobs -> Judges \cup {Nobody}]
    BY DEF IInv, TypeOK
  <2>5. /\ subStatus' \in [Jobs -> {"none", "Q", "JG", "CM", "ER"}]
        /\ result' \in [Jobs -> Results \cup {"none"}]
    BY DEF IInv, TypeOK, Results
  <2> QED BY <2>1, <2>2, <2>3, <2>4, <2>5 DEF IInv, TypeOK
<1>2. LeaseShape'
  BY DEF IInv, TypeOK, LeaseShape
<1>3. SubmissionAgrees'
  BY DEF IInv, TypeOK, SubmissionAgrees, LeaseShape, NoRows
<1>4. AttemptsBounded'
  <2> SUFFICES ASSUME NEW j \in Jobs
               PROVE  /\ attempts[j] <= MaxAttempts
                      /\ status'[j] \in {"absent", "queued"} => attempts[j] < MaxAttempts
                      /\ status'[j] = "failed" /\ judgedOn'[j] = Nobody =>
                           attempts[j] = MaxAttempts
    BY DEF AttemptsBounded
  <2>1. attempts[j] \in Nat /\ attempts[j] <= MaxAttempts
    BY DEF IInv, TypeOK, AttemptsBounded
  <2>2. CASE j \in S
    BY <2>1, <2>2
  <2>3. CASE j \notin S
    BY <2>1, <2>3 DEF IInv, AttemptsBounded
  <2> QED BY <2>2, <2>3
<1>5. RowsFromOwner'
  BY DEF IInv, TypeOK, RowsFromOwner, SubmissionAgrees, NoRows
<1>6. VerdictMatchesRows'
  BY DEF IInv, TypeOK, VerdictMatchesRows
<1> QED BY <1>1, <1>2, <1>3, <1>4, <1>5, <1>6 DEF IInv

\* A claim uses up an attempt that a queued job is known to have.
LEMMA ClaimJobStep ==
  ASSUME IInv, NEW w \in Judges, NEW j \in Jobs, ClaimJob(w, j)
  PROVE  IInv'
<1> USE LeaseAssumption DEF ClaimJob, Statuses, Active, Final, jobVars, subVars
<1>1. TypeOK'
  BY DEF IInv, TypeOK, LeaseLeft, Results
<1>2. LeaseShape'
  BY DEF IInv, TypeOK, LeaseShape
<1>3. SubmissionAgrees'
  BY DEF IInv, TypeOK, SubmissionAgrees, LeaseShape, NoRows
<1>4. AttemptsBounded'
  BY DEF IInv, TypeOK, AttemptsBounded
<1>5. RowsFromOwner'
  BY DEF IInv, TypeOK, RowsFromOwner, SubmissionAgrees, NoRows
<1>6. VerdictMatchesRows'
  BY DEF IInv, TypeOK, VerdictMatchesRows
<1> QED BY <1>1, <1>2, <1>3, <1>4, <1>5, <1>6 DEF IInv

\* start on a claimed job.
LEMMA StartJobStep ==
  ASSUME IInv, NEW w \in Judges, NEW j \in Jobs, StartJob(w, j)
  PROVE  IInv'
<1> USE LeaseAssumption DEF StartJob, Owns, Statuses, Active, Final, jobVars, subVars
<1>1. TypeOK'
  BY DEF IInv, TypeOK, LeaseLeft, Results
<1>2. LeaseShape'
  BY DEF IInv, TypeOK, LeaseShape
<1>3. SubmissionAgrees'
  BY DEF IInv, TypeOK, SubmissionAgrees, LeaseShape, NoRows
<1>4. AttemptsBounded'
  BY DEF IInv, TypeOK, AttemptsBounded
<1>5. RowsFromOwner'
  BY DEF IInv, TypeOK, RowsFromOwner, SubmissionAgrees, NoRows
<1>6. VerdictMatchesRows'
  BY DEF IInv, TypeOK, VerdictMatchesRows
<1> QED BY <1>1, <1>2, <1>3, <1>4, <1>5, <1>6 DEF IInv

\* start on a running job.
LEMMA RestartJobStep ==
  ASSUME IInv, NEW w \in Judges, NEW j \in Jobs, RestartJob(w, j)
  PROVE  IInv'
<1> USE LeaseAssumption DEF RestartJob, Statuses, Active, Final, jobVars, subVars
<1>1. TypeOK'
  BY DEF IInv, TypeOK, LeaseLeft, Results
<1>2. LeaseShape'
  BY DEF IInv, TypeOK, LeaseShape
<1>3. SubmissionAgrees'
  BY DEF IInv, TypeOK, SubmissionAgrees, LeaseShape, NoRows
<1>4. AttemptsBounded'
  BY DEF IInv, TypeOK, AttemptsBounded
<1>5. RowsFromOwner'
  BY DEF IInv, TypeOK, RowsFromOwner, SubmissionAgrees, NoRows
<1>6. VerdictMatchesRows'
  BY DEF IInv, TypeOK, VerdictMatchesRows
<1> QED BY <1>1, <1>2, <1>3, <1>4, <1>5, <1>6 DEF IInv

\* record_cases writes rows of the judge that holds the job.
LEMMA RecordCasesStep ==
  ASSUME IInv, NEW w \in Judges, NEW j \in Jobs, NEW batch \in Batches, RecordCases(w, j, batch)
  PROVE  IInv'
<1> USE LeaseAssumption DEF RecordCases, Upserted, Owns, Statuses, Active, Final, jobVars, subVars
<1>1. TypeOK'
  BY BatchVerdicts DEF IInv, TypeOK, LeaseLeft, Results, Row
<1>2. LeaseShape'
  BY DEF IInv, TypeOK, LeaseShape
<1>3. SubmissionAgrees'
  BY DEF IInv, TypeOK, SubmissionAgrees, LeaseShape, NoRows
<1>4. AttemptsBounded'
  BY DEF IInv, TypeOK, AttemptsBounded
<1>5. RowsFromOwner'
  BY DEF IInv, TypeOK, RowsFromOwner, SubmissionAgrees, NoRows
<1>6. VerdictMatchesRows'
  BY DEF IInv, TypeOK, VerdictMatchesRows
<1> QED BY <1>1, <1>2, <1>3, <1>4, <1>5, <1>6 DEF IInv

\* finish gives the job the verdict of its rows.
LEMMA FinishJobStep ==
  ASSUME IInv, NEW w \in Judges, NEW j \in Jobs, FinishJob(w, j)
  PROVE  IInv'
<1> USE LeaseAssumption DEF FinishJob, Owns, Statuses, Active, Final, jobVars, subVars
<1>1. TypeOK'
  BY FinalResultTyped DEF IInv, TypeOK, LeaseLeft, Results
<1>2. LeaseShape'
  BY DEF IInv, TypeOK, LeaseShape
<1>3. SubmissionAgrees'
  BY FinalResultTyped DEF IInv, TypeOK, SubmissionAgrees, LeaseShape, NoRows, Results
<1>4. AttemptsBounded'
  BY DEF IInv, TypeOK, AttemptsBounded
<1>5. RowsFromOwner'
  BY DEF IInv, TypeOK, RowsFromOwner, SubmissionAgrees, NoRows
<1>6. VerdictMatchesRows'
  BY DEF IInv, TypeOK, VerdictMatchesRows
<1> QED BY <1>1, <1>2, <1>3, <1>4, <1>5, <1>6 DEF IInv

\* fail credits the judge that holds the job.
LEMMA FailJobStep ==
  ASSUME IInv, NEW w \in Judges, NEW j \in Jobs, NEW code \in {"CE", "IE"}, FailJob(w, j, code)
  PROVE  IInv'
<1> USE LeaseAssumption DEF FailJob, Owns, Statuses, Active, Final, jobVars, subVars
<1>1. TypeOK'
  BY DEF IInv, TypeOK, LeaseLeft, Results
<1>2. LeaseShape'
  BY DEF IInv, TypeOK, LeaseShape
<1>3. SubmissionAgrees'
  BY DEF IInv, TypeOK, SubmissionAgrees, LeaseShape, NoRows
<1>4. AttemptsBounded'
  BY DEF IInv, TypeOK, AttemptsBounded
<1>5. RowsFromOwner'
  BY DEF IInv, TypeOK, RowsFromOwner, SubmissionAgrees, NoRows
<1>6. VerdictMatchesRows'
  BY DEF IInv, TypeOK, VerdictMatchesRows
<1> QED BY <1>1, <1>2, <1>3, <1>4, <1>5, <1>6 DEF IInv

\* A heartbeat gives leases only to jobs that have one.
LEMMA HeartbeatStep ==
  ASSUME IInv, NEW w \in Judges, Heartbeat(w)
  PROVE  IInv'
<1> USE LeaseAssumption DEF Heartbeat, Statuses, Active, Final, jobVars, subVars
<1>1. TypeOK'
  BY DEF IInv, TypeOK, LeaseLeft, Results
<1>2. LeaseShape'
  BY DEF IInv, TypeOK, LeaseShape
<1>3. SubmissionAgrees'
  BY DEF IInv, TypeOK, SubmissionAgrees, LeaseShape, NoRows
<1>4. AttemptsBounded'
  BY DEF IInv, TypeOK, AttemptsBounded
<1>5. RowsFromOwner'
  BY DEF IInv, TypeOK, RowsFromOwner, SubmissionAgrees, NoRows
<1>6. VerdictMatchesRows'
  BY DEF IInv, TypeOK, VerdictMatchesRows
<1> QED BY <1>1, <1>2, <1>3, <1>4, <1>5, <1>6 DEF IInv

\* A rejudge resets every column the invariant is about.
LEMMA RejudgeStep ==
  ASSUME IInv, NEW j \in Jobs, Rejudge(j)
  PROVE  IInv'
<1> USE LeaseAssumption DEF Rejudge, Statuses, Active, Final, jobVars, subVars
<1>1. TypeOK'
  BY NoRowsTyped DEF IInv, TypeOK, LeaseLeft, Results
<1>2. LeaseShape'
  BY DEF IInv, TypeOK, LeaseShape
<1>3. SubmissionAgrees'
  BY DEF IInv, TypeOK, SubmissionAgrees, LeaseShape, NoRows
<1>4. AttemptsBounded'
  BY DEF IInv, TypeOK, AttemptsBounded
<1>5. RowsFromOwner'
  BY DEF IInv, TypeOK, RowsFromOwner, SubmissionAgrees, NoRows
<1>6. VerdictMatchesRows'
  BY DEF IInv, TypeOK, VerdictMatchesRows
<1> QED BY <1>1, <1>2, <1>3, <1>4, <1>5, <1>6 DEF IInv

\* Time only shortens leases.
LEMMA TickStep ==
  ASSUME IInv, Tick
  PROVE  IInv'
<1> USE LeaseAssumption DEF Tick, Statuses, Active, Final, jobVars, subVars
<1>1. TypeOK'
  <2>1. ASSUME NEW j \in Jobs PROVE lease'[j] \in LeaseLeft
    <3>1. lease[j] \in LeaseLeft
      BY DEF IInv, TypeOK
    <3>2. CASE lease[j] = NoLease
      BY <3>2 DEF LeaseLeft
    <3>3. CASE lease[j] \in -1 .. LeaseTicks
      BY <3>3 DEF LeaseLeft
    <3> QED BY <3>1, <3>2, <3>3 DEF LeaseLeft
  <2>2. lease' \in [Jobs -> LeaseLeft]
    BY <2>1
  <2> QED BY <2>2 DEF IInv, TypeOK
<1>2. LeaseShape'
  <2>1. ASSUME NEW j \in Jobs PROVE lease'[j] # NoLease <=> lease[j] # NoLease
    <3>1. lease[j] = NoLease \/ lease[j] \in Int
      BY DEF IInv, TypeOK, LeaseLeft
    <3> QED BY <3>1
  <2> QED BY <2>1 DEF IInv, TypeOK, LeaseShape
<1>3. SubmissionAgrees'
  BY DEF IInv, TypeOK, SubmissionAgrees, LeaseShape, NoRows
<1>4. AttemptsBounded'
  BY DEF IInv, TypeOK, AttemptsBounded
<1>5. RowsFromOwner'
  BY DEF IInv, TypeOK, RowsFromOwner, SubmissionAgrees, NoRows
<1>6. VerdictMatchesRows'
  BY DEF IInv, TypeOK, VerdictMatchesRows
<1> QED BY <1>1, <1>2, <1>3, <1>4, <1>5, <1>6 DEF IInv

\* A stuttering step.
LEMMA StutterStep == ASSUME IInv, UNCHANGED vars PROVE IInv'
<1> USE DEF vars, jobVars, subVars
<1>1. TypeOK'
  BY DEF IInv, TypeOK
<1>2. LeaseShape' /\ SubmissionAgrees' /\ AttemptsBounded'
  BY DEF IInv, LeaseShape, SubmissionAgrees, AttemptsBounded
<1>3. RowsFromOwner' /\ VerdictMatchesRows'
  BY DEF IInv, RowsFromOwner, VerdictMatchesRows
<1> QED BY <1>1, <1>2, <1>3 DEF IInv

LEMMA NextIInv == IInv /\ [Next]_vars => IInv'
<1> SUFFICES ASSUME IInv, [Next]_vars PROVE IInv'
  OBVIOUS
<1>1. ASSUME NEW w \in Judges, NEW j \in Jobs, Callback(w, j) PROVE IInv'
  BY <1>1, StartJobStep, RestartJobStep, RecordCasesStep, FinishJobStep, FailJobStep
     DEF Callback
<1> QED
  BY <1>1, ExpireStep, ClaimJobStep, HeartbeatStep, CreateStep, RejudgeStep, TickStep, StutterStep DEF Next

\* All the invariants of JudgeLease hold in every reachable state, however the
\* judges' calls, the expiry sweeps, rejudges and the clock interleave.
THEOREM Invariance == Spec => []IInv
BY InitIInv, NextIInv, PTL DEF Spec

\* Every variable keeps its type.
THEOREM TypeCorrect == Spec => []TypeOK
<1>1. IInv => TypeOK
  BY DEF IInv
<1> QED BY <1>1, Invariance, PTL

\* Whatever judges call and when, the case rows of a job are all of the judge
\* that holds it: results of a judge that lost its lease never mix in.
THEOREM NoForeignRows == Spec => []RowsFromOwner
<1>1. IInv => RowsFromOwner
  BY DEF IInv
<1> QED BY <1>1, Invariance, PTL

\* No submission is handed out more often than its attempt limit allows, and the
\* server gives one up only after the last attempt.
THEOREM AttemptLimit == Spec => []AttemptsBounded
<1>1. IInv => AttemptsBounded
  BY DEF IInv
<1> QED BY <1>1, Invariance, PTL

\* The verdict of a finished job is the one its stored rows give.
THEOREM VerdictFollowsRows == Spec => []VerdictMatchesRows
<1>1. IInv => VerdictMatchesRows
  BY DEF IInv
<1> QED BY <1>1, Invariance, PTL

\* The job row and the submission row agree after every transaction.
THEOREM Agreement == Spec => [](SubmissionAgrees /\ LeaseShape)
<1>1. IInv => SubmissionAgrees /\ LeaseShape
  BY DEF IInv
<1> QED BY <1>1, Invariance, PTL

-----------------------------------------------------------------------------
(* Settled jobs, and the abstract lifecycle *)

\* A settled submission is only ever touched by a rejudge: every other operation
\* works on jobs that wait, or that a judge holds.
LEMMA SettledStep ==
  ASSUME IInv, [Next]_vars, NEW j \in Jobs, status[j] \in Final, status'[j] \in Final
  PROVE  /\ status'[j] = status[j]
         /\ subStatus'[j] = subStatus[j]
         /\ result'[j] = result[j]
         /\ judgedOn'[j] = judgedOn[j]
         /\ rows'[j] = rows[j]
<1> DEFINE Same == /\ status'[j] = status[j]
                   /\ subStatus'[j] = subStatus[j]
                   /\ result'[j] = result[j]
                   /\ judgedOn'[j] = judgedOn[j]
                   /\ rows'[j] = rows[j]
<1> USE DEF Final, Active, jobVars, subVars
<1>0. TypeOK
  BY DEF IInv
<1>1. ASSUME NEW S \in SUBSET StaleJobs, ExpireStaleJobs(S) PROVE Same
  <2>1. j \notin S
    BY DEF StaleJobs, Stale
  <2> QED BY <1>1, <2>1, <1>0 DEF ExpireStaleJobs, TypeOK
<1>8. ASSUME NEW w \in Judges, NEW i \in Jobs, ClaimJob(w, i) PROVE Same
  BY <1>8, <1>0 DEF ClaimJob, TypeOK
<1>2. ASSUME NEW w \in Judges, NEW i \in Jobs, Callback(w, i) PROVE Same
  <2>1. status[i] \in Active
    BY <1>2 DEF Callback, StartJob, RestartJob, RecordCases, FinishJob, FailJob, Owns
  <2>2. i # j
    BY <2>1
  <2>3. CASE StartJob(w, i) \/ RestartJob(w, i)
    BY <2>2, <2>3, <1>0 DEF StartJob, RestartJob, TypeOK
  <2>4. ASSUME NEW batch \in Batches, RecordCases(w, i, batch) PROVE Same
    BY <2>2, <2>4, <1>0 DEF RecordCases, TypeOK
  <2>5. CASE FinishJob(w, i)
    BY <2>2, <2>5, <1>0 DEF FinishJob, TypeOK
  <2>6. ASSUME NEW code \in {"CE", "IE"}, FailJob(w, i, code) PROVE Same
    BY <2>2, <2>6, <1>0 DEF FailJob, TypeOK
  <2> QED BY <1>2, <2>3, <2>4, <2>5, <2>6 DEF Callback
<1>3. ASSUME NEW w \in Judges, Heartbeat(w) PROVE Same
  BY <1>3 DEF Heartbeat
<1>4. ASSUME NEW i \in Jobs, CreateSubmission(i) PROVE Same
  BY <1>4, <1>0 DEF CreateSubmission, TypeOK
<1>5. ASSUME NEW i \in Jobs, Rejudge(i) PROVE Same
  BY <1>5, <1>0 DEF Rejudge, TypeOK
<1>6. CASE Tick
  BY <1>6 DEF Tick
<1>7. CASE UNCHANGED vars
  BY <1>7 DEF vars
<1> QED BY <1>1, <1>2, <1>3, <1>4, <1>5, <1>6, <1>7, <1>8 DEF Next

\* A settled submission keeps its verdict, status, judge and rows for as long as
\* its job is settled: a late or repeated callback never changes an outcome.
THEOREM SettledForGood == Spec => FinalStable
<1>1. IInv /\ [Next]_vars =>
        [\A j \in Jobs : status[j] \in Final /\ status'[j] \in Final =>
           /\ status'[j] = status[j]
           /\ subStatus'[j] = subStatus[j]
           /\ result'[j] = result[j]
           /\ judgedOn'[j] = judgedOn[j]
           /\ rows'[j] = rows[j]]_vars
  BY SettledStep
<1> QED BY <1>1, Invariance, PTL DEF Spec, FinalStable

\* Initially every job is absent from its lifecycle.
LEMMA LifecycleInit ==
  ASSUME Init, NEW j \in Jobs
  PROVE  Lifecycle(j)!Init
BY DEF Init, Lifecycle!Init, Phase

\* Every step takes each job one step of its lifecycle, or leaves it where it is.
LEMMA LifecycleStep ==
  ASSUME IInv, [Next]_vars, NEW j \in Jobs
  PROVE  Lifecycle(j)!Next \/ UNCHANGED Lifecycle(j)!vars
<1> DEFINE Step == Lifecycle(j)!Next \/ UNCHANGED Lifecycle(j)!vars
<1> USE LeaseAssumption DEF Final, Active, jobVars, subVars, Phase, Lifecycle!vars
<1>0. TypeOK
  BY DEF IInv
<1>1. ASSUME NEW S \in SUBSET StaleJobs, ExpireStaleJobs(S) PROVE Step
  <2>1. CASE j \notin S
    BY <1>1, <2>1, <1>0 DEF ExpireStaleJobs, TypeOK
  <2>2. CASE j \in S /\ OutOfAttempts(j)
    <3>1. attempts[j] = MaxAttempts
      <4>1. attempts[j] \in Nat /\ MaxAttempts \in Nat
        BY <1>0 DEF TypeOK
      <4>2. attempts[j] <= MaxAttempts
        BY DEF IInv, AttemptsBounded
      <4>3. attempts[j] >= MaxAttempts
        BY <2>2 DEF OutOfAttempts
      <4> QED BY <4>1, <4>2, <4>3
    <3>2. Lifecycle(j)!GiveUp
      BY <1>1, <2>2, <3>1, <1>0
         DEF ExpireStaleJobs, StaleJobs, Stale, TypeOK, Lifecycle!GiveUp
    <3> QED BY <3>2 DEF Lifecycle!Next
  <2>3. CASE j \in S /\ ~OutOfAttempts(j)
    <3>1. attempts[j] < MaxAttempts
      BY <2>3, <1>0 DEF OutOfAttempts, TypeOK
    <3>2. result[j] = "none"
      BY <2>3 DEF IInv, SubmissionAgrees, StaleJobs, Stale
    <3>3. Lifecycle(j)!Return
      BY <1>1, <2>3, <3>1, <3>2, <1>0
         DEF ExpireStaleJobs, StaleJobs, Stale, TypeOK, Lifecycle!Return
    <3> QED BY <3>3 DEF Lifecycle!Next
  <2> QED BY <2>1, <2>2, <2>3
<1>8. ASSUME NEW w \in Judges, NEW i \in Jobs, ClaimJob(w, i) PROVE Step
  <2>1. CASE i = j
    <3>1. attempts[j] < MaxAttempts
      BY <1>8, <2>1 DEF ClaimJob, IInv, AttemptsBounded
    <3>2. Lifecycle(j)!Take(w)
      BY <1>8, <2>1, <3>1, <1>0 DEF ClaimJob, TypeOK, Lifecycle!Take
    <3> QED BY <3>2 DEF Lifecycle!Next
  <2>2. CASE i # j
    BY <1>8, <2>2, <1>0 DEF ClaimJob, TypeOK
  <2> QED BY <2>1, <2>2
<1>2. ASSUME NEW w \in Judges, NEW i \in Jobs, Callback(w, i) PROVE Step
  <2>1. status[i] \in Active
    BY <1>2 DEF Callback, StartJob, RestartJob, RecordCases, FinishJob, FailJob, Owns
  <2>2. CASE StartJob(w, i) \/ RestartJob(w, i)
    BY <2>1, <2>2, <1>0 DEF StartJob, RestartJob, TypeOK
  <2>3. ASSUME NEW batch \in Batches, RecordCases(w, i, batch) PROVE Step
    BY <2>1, <2>3, <1>0 DEF RecordCases, TypeOK
  <2>4. CASE FinishJob(w, i)
    <3>1. CASE i = j
      <4>1. FinalResult(j, rows[j]) \in Results
        BY <1>0, FinalResultTyped DEF TypeOK
      <4>2. Lifecycle(j)!Settle(FinalResult(j, rows[j]))
        BY <2>1, <2>4, <3>1, <1>0 DEF FinishJob, TypeOK, Lifecycle!Settle
      <4> QED BY <4>1, <4>2 DEF Lifecycle!Next
    <3>2. CASE i # j
      BY <2>4, <3>2, <1>0 DEF FinishJob, TypeOK
    <3> QED BY <3>1, <3>2
  <2>5. ASSUME NEW code \in {"CE", "IE"}, FailJob(w, i, code) PROVE Step
    <3>1. CASE i = j
      <4>1. Lifecycle(j)!Settle(code)
        BY <2>1, <2>5, <3>1, <1>0 DEF FailJob, TypeOK, Lifecycle!Settle
      <4> QED BY <4>1 DEF Lifecycle!Next, Results
    <3>2. CASE i # j
      BY <2>5, <3>2, <1>0 DEF FailJob, TypeOK
    <3> QED BY <3>1, <3>2
  <2> QED BY <1>2, <2>2, <2>3, <2>4, <2>5 DEF Callback
<1>3. ASSUME NEW w \in Judges, Heartbeat(w) PROVE Step
  BY <1>3 DEF Heartbeat
<1>4. ASSUME NEW i \in Jobs, CreateSubmission(i) PROVE Step
  <2>1. CASE i = j
    <3>1. Lifecycle(j)!Submit
      BY <1>4, <2>1, <1>0 DEF CreateSubmission, TypeOK, Lifecycle!Submit
    <3> QED BY <3>1 DEF Lifecycle!Next
  <2>2. CASE i # j
    BY <1>4, <2>2, <1>0 DEF CreateSubmission, TypeOK
  <2> QED BY <2>1, <2>2
<1>5. ASSUME NEW i \in Jobs, Rejudge(i) PROVE Step
  <2>1. CASE i = j
    <3>1. Lifecycle(j)!Reopen
      BY <1>5, <2>1, <1>0 DEF Rejudge, TypeOK, Lifecycle!Reopen
    <3> QED BY <3>1 DEF Lifecycle!Next
  <2>2. CASE i # j
    BY <1>5, <2>2, <1>0 DEF Rejudge, TypeOK
  <2> QED BY <2>1, <2>2
<1>6. CASE Tick
  BY <1>6 DEF Tick
<1>7. CASE UNCHANGED vars
  BY <1>7 DEF vars
<1> QED BY <1>1, <1>2, <1>3, <1>4, <1>5, <1>6, <1>7, <1>8 DEF Next

\* JudgeLease implements the abstract lifecycle for each of its jobs.
THEOREM Implementation == Spec => ImplementsLifecycle
<1>1. Init => \A j \in Jobs : Lifecycle(j)!Init
  BY LifecycleInit
<1>2. IInv /\ [Next]_vars =>
        [\A j \in Jobs : Lifecycle(j)!Next \/ UNCHANGED Lifecycle(j)!vars]_vars
  BY LifecycleStep
<1> QED BY <1>1, <1>2, Invariance, PTL DEF Spec, ImplementsLifecycle

-----------------------------------------------------------------------------
(* The workers *)

\* The claim of w on j that the server knows of is not over.
Holds(w, j) == claimedBy[j] = w /\ status[j] \in Active

\* A worker has a job exactly while it is about to call or execute, and results
\* once it has executed; what it posts, or left on its way, are results.
LoopShape ==
  /\ \A w \in Judges :
       /\ pc[w] \in Calls \cup {"exec"} <=> job[w] # NoJob
       /\ pc[w] \in {"cases", "finish"} => report[w] \in Reports
  /\ \A m \in late : m.call = "cases" => m.report \in Reports

\* Nobody works under a claim that has not been made.
PastClaims ==
  /\ \A w \in Judges : job[w] # NoJob => under[w] <= epoch[job[w]]
  /\ \A m \in late : m.call # "claim" => m.under <= epoch[m.job]

\* A claim is one worker's, and what it left on its way it does not go on with.
OwnClaims ==
  \A w \in Judges : job[w] # NoJob =>
    /\ \A v \in Judges : v # w /\ job[v] = job[w] => under[v] # under[w]
    /\ \A m \in late : m.call # "claim" /\ m.job = job[w] => m.under # under[w]

\* Only the latest claim of a job is believed.
LatestClaim ==
  \A w \in Judges : job[w] \in Jobs \ overtaken /\ Holds(w, job[w]) => under[w] = epoch[job[w]]

\* Case rows appear when the holder posts them, all at once.
RowsPosted ==
  \A w \in Judges : job[w] \in Jobs \ overtaken /\ Holds(w, job[w]) =>
    /\ pc[w] \in {"start", "exec", "cases"} => rows[job[w]] = NoRows
    /\ pc[w] = "finish" => rows[job[w]] = Upserted(w, NoRows, report[w])

LateFinish ==
  \A m \in late :
    /\ m.call = "finish"
    /\ m.job \notin overtaken
    /\ m.under = epoch[m.job]
    /\ Holds(m.by, m.job)
    => rows[m.job] # NoRows

\* Rows are of the claim under which they are going to be, or were, finished.
RowsOfClaim ==
  \A j \in Jobs \ overtaken :
    /\ status[j] \in {"running", "succeeded"} /\ rows[j] # NoRows => rowsEpoch[j] = epoch[j]
    /\ status[j] = "succeeded" => rows[j] # NoRows

WIInv ==
  /\ IInv
  /\ WTypeOK
  /\ LoopShape
  /\ PastClaims
  /\ OwnClaims
  /\ LatestClaim
  /\ RowsPosted
  /\ LateFinish
  /\ RowsOfClaim

-----------------------------------------------------------------------------
(* Every step of the composition is a step of the control plane *)

\* A report is a batch of case results, and it is not empty.
LEMMA ReportIsBatch ==
  ASSUME NEW b \in Reports
  PROVE  /\ b \in Batches
         /\ \E c \in Cases : c \in DOMAIN b
<1>1. PICK n \in Cases : DOMAIN b = 1 .. n
  BY DEF Reports
<1>2. n \in 1 .. n
  BY LeaseAssumption DEF Cases
<1> QED BY <1>1, <1>2 DEF Reports

\* A call that the server accepts is a callback of JudgeLease.
LEMMA AcceptIsCallback ==
  ASSUME NEW m, m.by \in Judges, m.job \in Jobs, m.call = "cases" => m.report \in Reports,
         Accept(m)
  PROVE  Callback(m.by, m.job)
BY ReportIsBatch DEF Accept, Callback

\* A call in flight is typed like the calls on their way.
LEMMA InFlightTyped ==
  ASSUME WTypeOK, LoopShape, NEW w \in Judges, pc[w] \in Calls
  PROVE  /\ InFlight(w).call = pc[w] /\ InFlight(w).by = w
         /\ InFlight(w).job = job[w] /\ job[w] \in Jobs
         /\ InFlight(w).report = report[w] /\ InFlight(w).under = under[w]
         /\ InFlight(w).call = "cases" => InFlight(w).report \in Reports
BY DEF InFlight, WTypeOK, LoopShape

\* A late call that is not a claim is about a job.
LEMMA LateTyped ==
  ASSUME WTypeOK, LoopShape, NEW m \in late, m.call # "claim"
  PROVE  /\ m.by \in Judges /\ m.job \in Jobs /\ m.under \in Nat
         /\ m.call \in Calls
         /\ m.call = "cases" => m.report \in Reports
BY DEF WTypeOK, LoopShape

\* Whatever the workers and their calls do, the control plane takes a step of its own.
LEMMA WStepIsStep ==
  ASSUME WIInv, [WNext]_wvars
  PROVE  [Next]_vars
<1> USE DEF WIInv
<1>1. ASSUME NEW w \in Judges, LoopStep(w) PROVE [Next]_vars
  <2>1. CASE SendClaim(w)
    BY <2>1 DEF SendClaim, Next
  <2>2. CASE ReceiveJob(w)
    BY <2>2 DEF ReceiveJob, Eligible, Next
  <2>3. CASE ReceiveNothing(w) \/ Execute(w) \/ Refused(w)
    BY <2>3 DEF ReceiveNothing, Execute, Refused
  <2>4. CASE Answered(w)
    <3>1. pc[w] \in Calls /\ Accept(InFlight(w))
      BY <2>4 DEF Answered
    <3>2. Callback(w, job[w]) /\ job[w] \in Jobs
      BY <3>1, InFlightTyped, AcceptIsCallback
    <3> QED BY <3>2 DEF Next
  <2> QED BY <1>1, <2>1, <2>2, <2>3, <2>4 DEF LoopStep
<1>2. ASSUME NEW m \in late, Deliver(m) PROVE [Next]_vars
  <2>1. CASE m.call = "claim" /\ \E j \in Eligible(m.by) : ClaimJob(m.by, j)
    <3>1. m.by \in Judges
      BY DEF WTypeOK
    <3> QED BY <2>1, <3>1 DEF Eligible, Next
  <2>2. CASE m.call # "claim" /\ Accept(m)
    BY <2>2, LateTyped, AcceptIsCallback DEF Next
  <2>3. CASE UNCHANGED vars
    BY <2>3
  <2> QED BY <1>2, <2>1, <2>2, <2>3 DEF Deliver
<1>3. ASSUME NEW w \in Judges, Fault(w) \/ Crash(w) \/ Restart(w) PROVE [Next]_vars
  BY <1>3 DEF Fault, Crash, Restart
<1>4. ASSUME NEW w \in Judges, SendHeartbeat(w) PROVE [Next]_vars
  BY <1>4 DEF SendHeartbeat, Next
<1>5. ASSUME NEW j \in Jobs, Submit(j) \/ AskRejudge(j) PROVE [Next]_vars
  BY <1>5 DEF Submit, AskRejudge, Next
<1>6. CASE Clock
  BY <1>6 DEF Clock, Next
<1>7. CASE UNCHANGED wvars
  BY <1>7 DEF wvars
<1> QED BY <1>1, <1>2, <1>3, <1>4, <1>5, <1>6, <1>7 DEF WNext, QuietStep

\* Rows that a report was written to are not empty, and they never become so.
LEMMA UpsertedIsSome ==
  ASSUME NEW w \in Judges, NEW r, NEW b \in Batches, b \in Reports \/ r # NoRows,
         r \in [Cases -> Row \cup {NoRow}]
  PROVE  Upserted(w, r, b) # NoRows
<1>1. \A c \in DOMAIN b : b[c] # "none"
  BY BatchVerdicts DEF Results
<1>2. CASE b \in Reports
  <2>1. PICK c \in Cases : c \in DOMAIN b
    BY <1>2, ReportIsBatch
  <2>2. Upserted(w, r, b)[c].verdict = b[c]
    BY <2>1 DEF Upserted
  <2> QED BY <1>1, <2>1, <2>2 DEF NoRows, NoRow
<1>3. CASE r # NoRows
  <2>1. PICK c \in Cases : r[c] # NoRow
    BY <1>3 DEF NoRows
  <2>2. CASE c \in DOMAIN b
    <3>1. Upserted(w, r, b)[c].verdict = b[c]
      BY <2>2 DEF Upserted
    <3> QED BY <1>1, <2>2, <3>1 DEF NoRows, NoRow
  <2>3. CASE c \notin DOMAIN b
    BY <2>1, <2>3 DEF Upserted, NoRows
  <2> QED BY <2>2, <2>3
<1> QED BY <1>2, <1>3

-----------------------------------------------------------------------------
(* The invariant *)

\* Initially nobody has a job.
LEMMA WInitWIInv == WInit => WIInv
<1> SUFFICES ASSUME WInit PROVE WIInv
  OBVIOUS
<1> USE LeaseAssumption, WorkerAssumption
<1>1. IInv
  BY InitIInv DEF WInit
<1>2. WTypeOK
  BY <1>1 DEF WInit, WTypeOK, IInv, Loop
<1>3. LoopShape /\ PastClaims /\ OwnClaims /\ LatestClaim /\ RowsPosted /\ LateFinish
  BY DEF WInit, LoopShape, PastClaims, OwnClaims, LatestClaim, RowsPosted, LateFinish, Calls
<1>4. RowsOfClaim
  BY DEF WInit, Init, RowsOfClaim
<1> QED BY <1>1, <1>2, <1>3, <1>4 DEF WIInv

\* The parts of the invariant that relate workers to jobs.
WorkInv ==
  /\ LoopShape
  /\ PastClaims
  /\ OwnClaims
  /\ LatestClaim
  /\ RowsPosted
  /\ LateFinish
  /\ RowsOfClaim

\* Steps of the server that give no job away and write no rows for a holder:
\* sweeps, heartbeats, new submissions, rejudges and the clock.
LEMMA ServerAlone ==
  ASSUME WIInv,
         UNCHANGED <<job, report, under, late, history>>,
         \A w \in Judges : \/ pc'[w] = pc[w]
                           \/ {pc[w], pc'[w]} \cap (Calls \cup {"exec"}) = {},
         \A w \in Judges, j \in Jobs : Holds(w, j)' => Holds(w, j) /\ rows'[j] = rows[j],
         \A j \in Jobs : status'[j] \in {"running", "succeeded"} =>
                           status'[j] = status[j] /\ rows'[j] = rows[j]
  PROVE  WorkInv'
<1> USE DEF WIInv, WTypeOK, history
<1>1. LoopShape'
  BY DEF LoopShape, Calls
<1>2. PastClaims' /\ OwnClaims'
  BY DEF PastClaims, OwnClaims
<1>3. LatestClaim'
  BY DEF LatestClaim
<1>4. RowsPosted'
  BY DEF RowsPosted, Calls
<1>5. LateFinish'
  <2> SUFFICES ASSUME NEW m \in late, m.call = "finish", m.job \notin overtaken,
                      m.under = epoch[m.job], Holds(m.by, m.job)'
               PROVE  rows'[m.job] # NoRows
    BY DEF LateFinish
  <2>1. m.by \in Judges /\ m.job \in Jobs
    BY LateTyped
  <2> QED BY <2>1 DEF LateFinish
<1>6. RowsOfClaim'
  BY DEF RowsOfClaim
<1> QED BY <1>1, <1>2, <1>3, <1>4, <1>5, <1>6 DEF WorkInv

\* A claim call sweeps: a job that expires is nobody's.
LEMMA SweepStep ==
  ASSUME WIInv, IInv', NEW w \in Judges, SendClaim(w)
  PROVE  WIInv'
<1> USE LeaseAssumption DEF WIInv, SendClaim
<1>1. WTypeOK'
  BY DEF WTypeOK, IInv, history, Loop
<1>2. /\ \A v \in Judges, j \in Jobs : Holds(v, j)' => Holds(v, j) /\ rows'[j] = rows[j]
      /\ \A j \in Jobs : status'[j] \in {"running", "succeeded"} =>
                           status'[j] = status[j] /\ rows'[j] = rows[j]
  BY DEF ExpireStaleJobs, Holds, Active
<1>3. \A v \in Judges : \/ pc'[v] = pc[v]
                        \/ {pc[v], pc'[v]} \cap (Calls \cup {"exec"}) = {}
  BY DEF WTypeOK, Calls
<1>4. WorkInv'
  BY <1>2, <1>3, ServerAlone
<1> QED BY <1>1, <1>4 DEF WorkInv

\* A heartbeat changes leases only.
LEMMA WHeartbeatStep ==
  ASSUME WIInv, IInv', NEW w \in Judges, SendHeartbeat(w)
  PROVE  WIInv'
<1> USE LeaseAssumption DEF WIInv, SendHeartbeat, workerVars
<1>1. WTypeOK'
  BY DEF WTypeOK, IInv, history
<1>2. WorkInv'
  BY ServerAlone DEF Heartbeat, Holds
<1> QED BY <1>1, <1>2 DEF WorkInv

\* A new job is nobody's.
LEMMA SubmitStep ==
  ASSUME WIInv, IInv', NEW i \in Jobs, Submit(i)
  PROVE  WIInv'
<1> USE LeaseAssumption DEF WIInv, Submit, workerVars
<1>1. WTypeOK'
  BY DEF WTypeOK, IInv, history
<1>2. /\ \A v \in Judges, j \in Jobs : Holds(v, j)' => Holds(v, j) /\ rows'[j] = rows[j]
      /\ \A j \in Jobs : status'[j] \in {"running", "succeeded"} =>
                           status'[j] = status[j] /\ rows'[j] = rows[j]
  BY DEF CreateSubmission, Holds, Active, IInv, TypeOK
<1>3. WorkInv'
  BY <1>2, ServerAlone
<1> QED BY <1>1, <1>3 DEF WorkInv

\* A rejudge takes the job from whoever has it.
LEMMA AskRejudgeStep ==
  ASSUME WIInv, IInv', NEW i \in Jobs, AskRejudge(i)
  PROVE  WIInv'
<1> USE LeaseAssumption DEF WIInv, AskRejudge, workerVars
<1>1. WTypeOK'
  BY DEF WTypeOK, IInv, history
<1>2. /\ \A v \in Judges, j \in Jobs : Holds(v, j)' => Holds(v, j) /\ rows'[j] = rows[j]
      /\ \A j \in Jobs : status'[j] \in {"running", "succeeded"} =>
                           status'[j] = status[j] /\ rows'[j] = rows[j]
  BY DEF Rejudge, Holds, Active, IInv, TypeOK
<1>3. WorkInv'
  BY <1>2, ServerAlone
<1> QED BY <1>1, <1>3 DEF WorkInv

\* Time changes leases only.
LEMMA ClockStep ==
  ASSUME WIInv, IInv', Clock
  PROVE  WIInv'
<1> USE LeaseAssumption DEF WIInv, Clock, workerVars
<1>1. WTypeOK'
  BY DEF WTypeOK, IInv, history
<1>2. WorkInv'
  BY ServerAlone DEF Tick, Holds
<1> QED BY <1>1, <1>2 DEF WorkInv

\* A worker that drops its job, with its last call lost or left on its way.
LEMMA DropStep ==
  ASSUME WIInv, NEW w \in Judges, NEW next \in {"idle", "down"}, Forget(w, next), Abandon(w),
         UNCHANGED <<vars, history>>
  PROVE  WIInv'
<1> USE LeaseAssumption, WorkerAssumption DEF WIInv, Forget, history
<1>0. IInv'
  BY StutterStep
<1>1. pc[w] \in Calls => job[w] \in Jobs /\ job[w] # NoJob
  BY DEF LoopShape, WTypeOK
<1>2. pc[w] = "claim" => job[w] = NoJob
  BY DEF LoopShape, Calls
<1>3. WTypeOK'
  <2>1. ASSUME pc[w] \in Calls \cup {"claim"}
        PROVE  /\ InFlight(w) \in [call : Calls \cup {"claim"}, by : Judges,
                                   job : Jobs \cup {NoJob},
                                   report : Reports \cup {<<>>}, under : Nat]
               /\ InFlight(w).call = "claim" <=> InFlight(w).job = NoJob
    BY <1>1, <1>2, <2>1 DEF InFlight, WTypeOK, Calls
  <2>2. late' \subseteq {m \in [call : Calls \cup {"claim"}, by : Judges,
                            job : Jobs \cup {NoJob}, report : Reports \cup {<<>>},
                            under : Nat] : m.call = "claim" <=> m.job = NoJob}
    BY <2>1 DEF Abandon, WTypeOK
  <2> QED BY <1>0, <2>2 DEF WTypeOK, IInv, Loop
<1>4. LoopShape'
  BY <1>1 DEF LoopShape, Abandon, InFlight, WTypeOK, Calls
<1>5. PastClaims' /\ OwnClaims'
  BY <1>1, <1>2 DEF PastClaims, OwnClaims, Abandon, InFlight, WTypeOK
<1>6. LatestClaim' /\ RowsPosted'
  BY DEF LatestClaim, RowsPosted, Holds, vars, jobVars, WTypeOK
<1>7. LateFinish'
  <2> SUFFICES ASSUME NEW m \in late', m.call = "finish", m.job \notin overtaken,
                      m.under = epoch[m.job], Holds(m.by, m.job)
               PROVE  rows[m.job] # NoRows
    BY DEF LateFinish, Holds, vars, jobVars
  <2>1. CASE m \in late
    BY <2>1 DEF LateFinish
  <2>2. CASE m = InFlight(w) /\ pc[w] = "finish"
    <3>1. m.job = job[w] /\ m.by = w /\ job[w] \in Jobs /\ report[w] \in Reports
      BY <2>2, <1>1 DEF InFlight, LoopShape, Calls
    <3>2. rows[job[w]] = Upserted(w, NoRows, report[w])
      BY <2>2, <3>1 DEF RowsPosted
    <3> QED BY <3>1, <3>2, UpsertedIsSome, ReportIsBatch, NoRowsTyped
  <2> QED BY <2>1, <2>2 DEF Abandon, InFlight
<1>8. RowsOfClaim'
  BY DEF RowsOfClaim, vars, jobVars
<1> QED BY <1>0, <1>3, <1>4, <1>5, <1>6, <1>7, <1>8

\* A worker polls in vain, or a new process starts.
LEMMA IdleStep ==
  ASSUME WIInv, NEW w \in Judges, ReceiveNothing(w) \/ Restart(w)
  PROVE  WIInv'
<1> USE DEF WIInv, ReceiveNothing, Restart, history
<1>0. IInv'
  BY StutterStep
<1>1. WTypeOK'
  BY <1>0 DEF WTypeOK, IInv, Loop
<1>2. \A v \in Judges : \/ pc'[v] = pc[v]
                        \/ {pc[v], pc'[v]} \cap (Calls \cup {"exec"}) = {}
  BY DEF WTypeOK, Calls
<1>3. WorkInv'
  BY <1>2, ServerAlone DEF vars, jobVars, Holds
<1> QED BY <1>0, <1>1, <1>3 DEF WorkInv

\* A worker has results, or finds that it cannot have any.
LEMMA ExecuteStep ==
  ASSUME WIInv, NEW w \in Judges, Execute(w)
  PROVE  WIInv'
<1> USE DEF WIInv, Execute, history
<1>0. IInv'
  BY StutterStep
<1>1. WTypeOK'
  BY <1>0 DEF WTypeOK, IInv, Loop, Calls
<1>2. /\ \A v \in Judges \ {w} : pc'[v] = pc[v] /\ report'[v] = report[v]
      /\ \/ pc'[w] = "cases" /\ report'[w] \in Reports
         \/ pc'[w] = "fail" /\ report'[w] = report[w]
  <2>1. CASE (\E b \in Reports : report' = [report EXCEPT ![w] = b])
             /\ pc' = [pc EXCEPT ![w] = "cases"]
    <3>1. PICK b \in Reports : report' = [report EXCEPT ![w] = b]
      BY <2>1
    <3>2. DOMAIN pc = Judges /\ w \in DOMAIN report
      BY DEF WTypeOK
    <3> QED BY <2>1, <3>1, <3>2
  <2>2. CASE pc' = [pc EXCEPT ![w] = "fail"] /\ UNCHANGED report
    BY <2>2 DEF WTypeOK
  <2> QED BY <2>1, <2>2
<1>3. LoopShape'
  BY <1>2 DEF LoopShape, Calls
<1>4. PastClaims' /\ OwnClaims'
  BY DEF PastClaims, OwnClaims
<1>5. LatestClaim'
  BY DEF LatestClaim, Holds, vars, jobVars
<1>6. RowsPosted'
  BY <1>2 DEF RowsPosted, Holds, vars, jobVars
<1>7. LateFinish' /\ RowsOfClaim'
  BY DEF LateFinish, RowsOfClaim, Holds, vars, jobVars
<1> QED BY <1>0, <1>1, <1>3, <1>4, <1>5, <1>6, <1>7

\* What giving a job away changes.
LEMMA ClaimEffect ==
  ASSUME WIInv, NEW w \in Judges, NEW j \in Jobs, ClaimJob(w, j),
         epoch' = [epoch EXCEPT ![j] = @ + 1]
  PROVE  /\ rows[j] = NoRows /\ rows' = rows
         /\ epoch[j] \in Nat /\ epoch'[j] = epoch[j] + 1
         /\ epoch' \in [Jobs -> Nat]
         /\ status'[j] = "claimed" /\ claimedBy'[j] = w
         /\ \A i \in Jobs \ {j} : /\ epoch'[i] = epoch[i]
                                /\ status'[i] = status[i]
                                /\ claimedBy'[i] = claimedBy[i]
BY DEF WIInv, WTypeOK, IInv, TypeOK, SubmissionAgrees, ClaimJob

\* A worker gets a job: its claim is newer than every other on that job.
LEMMA ReceiveJobStep ==
  ASSUME WIInv, IInv', NEW w \in Judges, ReceiveJob(w)
  PROVE  WIInv'
<1> USE LeaseAssumption, WorkerAssumption DEF WIInv
<1>0. PICK j \in Jobs : /\ ClaimJob(w, j)
                        /\ epoch' = [epoch EXCEPT ![j] = @ + 1]
                        /\ under' = [under EXCEPT ![w] = epoch[j] + 1]
                        /\ job' = [job EXCEPT ![w] = j]
  BY DEF ReceiveJob, Eligible
<1>1. /\ pc' = [pc EXCEPT ![w] = "start"]
      /\ UNCHANGED <<report, late, rowsEpoch, overtaken>>
  BY DEF ReceiveJob
<1>2. /\ rows[j] = NoRows /\ rows' = rows
      /\ epoch[j] \in Nat /\ epoch'[j] = epoch[j] + 1
      /\ epoch' \in [Jobs -> Nat]
      /\ status'[j] = "claimed" /\ claimedBy'[j] = w
      /\ \A i \in Jobs \ {j} : /\ epoch'[i] = epoch[i]
                             /\ status'[i] = status[i]
                             /\ claimedBy'[i] = claimedBy[i]
  BY <1>0, ClaimEffect
<1>3. /\ job'[w] = j /\ under'[w] = epoch[j] + 1 /\ pc'[w] = "start"
      /\ \A v \in Judges \ {w} : job'[v] = job[v] /\ under'[v] = under[v] /\ pc'[v] = pc[v]
  BY <1>0, <1>1 DEF WTypeOK
<1>4. WTypeOK'
  BY <1>0, <1>1, <1>2 DEF WTypeOK, IInv, Loop, Calls
<1>5. LoopShape'
  BY <1>1, <1>3 DEF LoopShape, Calls
<1>6. PastClaims'
  <2>1. ASSUME NEW v \in Judges, job'[v] # NoJob PROVE under'[v] <= epoch'[job'[v]]
    <3>1. CASE v = w
      BY <3>1, <1>2, <1>3
    <3>2. CASE v # w
      <4>1. job[v] \in Jobs /\ under[v] <= epoch[job[v]] /\ epoch[job[v]] \in Nat
            /\ under[v] \in Nat
        BY <2>1, <3>2, <1>3 DEF PastClaims, WTypeOK
      <4> QED BY <3>2, <4>1, <1>2, <1>3
    <3> QED BY <3>1, <3>2
  <2>2. ASSUME NEW m \in late, m.call # "claim" PROVE m.under <= epoch'[m.job]
    <3>1. m.job \in Jobs /\ m.under <= epoch[m.job] /\ epoch[m.job] \in Nat
          /\ m.under \in Nat
      BY <2>2, LateTyped DEF PastClaims, WTypeOK
    <3> QED BY <3>1, <1>2
  <2> QED BY <2>1, <2>2, <1>1 DEF PastClaims
<1>7. OwnClaims'
  <2>1. \A v \in Judges \ {w} : job[v] = j => under[v] \in Nat /\ under[v] <= epoch[j]
    BY DEF PastClaims, WTypeOK
  <2>2. \A m \in late : m.call # "claim" /\ m.job = j => m.under \in Nat /\ m.under <= epoch[j]
    BY LateTyped DEF PastClaims
  <2>3. /\ \A v \in Judges \ {w} : job[v] = j => under[v] # epoch[j] + 1
        /\ \A m \in late : m.call # "claim" /\ m.job = j => m.under # epoch[j] + 1
    BY <2>1, <2>2, <1>2
  <2> QED BY <2>3, <1>1, <1>3 DEF OwnClaims
<1>8. LatestClaim' /\ RowsPosted'
  <2>1. \A v \in Judges \ {w}, i \in Jobs : Holds(v, i)' => i # j /\ Holds(v, i)
    BY <1>2 DEF Holds
  <2>2. LatestClaim'
    BY <1>1, <1>2, <1>3, <2>1 DEF LatestClaim
  <2>3. RowsPosted'
    <3> SUFFICES ASSUME NEW v \in Judges, job'[v] \in Jobs \ overtaken, Holds(v, job[v])'
                 PROVE  /\ pc'[v] \in {"start", "exec", "cases"} => rows[job'[v]] = NoRows
                        /\ pc'[v] = "finish" =>
                             rows[job'[v]] = Upserted(v, NoRows, report[v])
      BY <1>1, <1>2 DEF RowsPosted, Holds
    <3>1. CASE v = w
      BY <3>1, <1>2, <1>3
    <3>2. CASE v # w
      <4>1. job'[v] = job[v] /\ pc'[v] = pc[v] /\ Holds(v, job[v])
        BY <3>2, <1>3, <2>1 DEF Holds
      <4> QED BY <4>1 DEF RowsPosted
    <3> QED BY <3>1, <3>2
  <2> QED BY <2>2, <2>3
<1>9. LateFinish'
  <2> SUFFICES ASSUME NEW m \in late, m.call = "finish", m.job \notin overtaken,
                      m.under = epoch'[m.job], Holds(m.by, m.job)'
               PROVE  rows[m.job] # NoRows
    BY <1>1, <1>2 DEF LateFinish
  <2>1. m.job \in Jobs /\ m.under \in Nat /\ m.under <= epoch[m.job]
    BY LateTyped DEF PastClaims
  <2>2. m.job # j
    BY <2>1, <1>2
  <2> QED BY <2>1, <2>2, <1>2 DEF LateFinish, Holds
<1>10. RowsOfClaim'
  BY <1>1, <1>2 DEF RowsOfClaim
<1> QED BY <1>4, <1>5, <1>6, <1>7, <1>8, <1>9, <1>10

\* A claim that nobody waits for gives the job to its sender all the same.  The
\* sender does not know, and a sender that works on the job under an older claim
\* is what "overtaken" records.
LEMMA DeliverClaimStep ==
  ASSUME WIInv, IInv', NEW m \in late, m.call = "claim", NEW j \in Jobs,
         ClaimJob(m.by, j), epoch' = [epoch EXCEPT ![j] = @ + 1],
         overtaken' = IF Overtakes(m, j) THEN overtaken \cup {j} ELSE overtaken,
         late' = late \ {m}, UNCHANGED <<workerVars, rowsEpoch>>
  PROVE  WIInv'
<1> USE LeaseAssumption, WorkerAssumption DEF WIInv, workerVars
<1>1. m.by \in Judges
  BY DEF WTypeOK
<1>2. /\ rows[j] = NoRows /\ rows' = rows
      /\ epoch[j] \in Nat /\ epoch'[j] = epoch[j] + 1
      /\ epoch' \in [Jobs -> Nat]
      /\ status'[j] = "claimed" /\ claimedBy'[j] = m.by
      /\ \A i \in Jobs \ {j} : /\ epoch'[i] = epoch[i]
                             /\ status'[i] = status[i]
                             /\ claimedBy'[i] = claimedBy[i]
  BY <1>1, ClaimEffect
<1>3. overtaken' \in SUBSET Jobs /\ overtaken \subseteq overtaken'
      /\ (job[m.by] = j => j \in overtaken')
  BY DEF Overtakes, WTypeOK
<1>4. WTypeOK'
  BY <1>2, <1>3 DEF WTypeOK, IInv
<1>5. LoopShape'
  BY DEF LoopShape
<1>6. PastClaims'
  <2>1. ASSUME NEW i \in Jobs, NEW n \in Nat, n <= epoch[i] PROVE n <= epoch'[i]
    <3>1. epoch[i] \in Nat
      BY DEF WTypeOK
    <3> QED BY <2>1, <3>1, <1>2
  <2>2. \A v \in Judges : job[v] # NoJob => job[v] \in Jobs /\ under[v] \in Nat
    BY DEF WTypeOK
  <2> QED BY <2>1, <2>2, LateTyped DEF PastClaims
<1>7. OwnClaims'
  BY DEF OwnClaims
<1>8. \A v \in Judges, i \in Jobs \ overtaken' :
        Holds(v, i)' /\ job[v] = i => i # j /\ Holds(v, i)
  BY <1>2, <1>3 DEF Holds
<1>9. LatestClaim'
  BY <1>2, <1>3, <1>8 DEF LatestClaim
<1>10. RowsPosted'
  BY <1>2, <1>3, <1>8 DEF RowsPosted
<1>11. LateFinish'
  <2> SUFFICES ASSUME NEW n \in late, n.call = "finish", n.job \notin overtaken',
                      n.under = epoch'[n.job], Holds(n.by, n.job)'
               PROVE  rows[n.job] # NoRows
    BY <1>2 DEF LateFinish
  <2>1. n.job \in Jobs /\ n.under \in Nat /\ n.under <= epoch[n.job]
    BY LateTyped DEF PastClaims
  <2>2. n.job # j
    BY <2>1, <1>2
  <2> QED BY <2>1, <2>2, <1>2, <1>3 DEF LateFinish, Holds
<1>12. RowsOfClaim'
  BY <1>2, <1>3 DEF RowsOfClaim
<1> QED BY <1>4, <1>5, <1>6, <1>7, <1>9, <1>10, <1>11, <1>12

\* What an accepted call changes: only its own job, which its sender holds and
\* keeps until it finishes or fails, and rows only if it brings results.
AcceptedCall(m) ==
  /\ Holds(m.by, m.job)
  /\ UNCHANGED <<epoch, claimedBy>>
  /\ \A i \in Jobs \ {m.job} :
       status'[i] = status[i] /\ rows'[i] = rows[i] /\ rowsEpoch'[i] = rowsEpoch[i]
  /\ m.call = "cases" => /\ status'[m.job] = "running"
                         /\ rows'[m.job] = Upserted(m.by, rows[m.job], m.report)
                         /\ rowsEpoch'[m.job] = m.under
  /\ m.call # "cases" => rows'[m.job] = rows[m.job] /\ rowsEpoch'[m.job] = rowsEpoch[m.job]
  /\ m.call = "start" => /\ status'[m.job] = "running"
                         /\ status[m.job] = "running" \/ rows[m.job] = NoRows
  /\ m.call = "finish" => /\ status'[m.job] = "succeeded"
                          /\ status[m.job] = "running" \/ rows[m.job] = NoRows
  /\ m.call = "fail" => status'[m.job] = "failed"

\* An accepted call does what AcceptedCall says.
LEMMA AcceptEffect ==
  ASSUME WIInv, NEW m, m.by \in Judges, m.job \in Jobs, m.under \in Nat, Accept(m)
  PROVE  AcceptedCall(m) /\ rowsEpoch' \in [Jobs -> Nat]
<1> USE DEF WIInv
<1>1. status \in [Jobs -> Statuses] /\ rows \in [Jobs -> [Cases -> Row \cup {NoRow}]]
      /\ rowsEpoch \in [Jobs -> Nat]
  BY DEF WTypeOK, TypeOK
<1>2. /\ rowsEpoch' \in [Jobs -> Nat]
      /\ UNCHANGED epoch
      /\ \A i \in Jobs : rowsEpoch'[i] = IF m.call = "cases" /\ i = m.job THEN m.under
                                         ELSE rowsEpoch[i]
  BY <1>1 DEF Accept
<1>3. status[m.job] = "claimed" => rows[m.job] = NoRows
  BY DEF IInv, SubmissionAgrees
<1>4. CASE m.call = "start" /\ (StartJob(m.by, m.job) \/ RestartJob(m.by, m.job))
  BY <1>1, <1>2, <1>3, <1>4 DEF StartJob, RestartJob, AcceptedCall, Holds, Owns, Active
<1>5. CASE m.call = "cases" /\ RecordCases(m.by, m.job, m.report)
  BY <1>1, <1>2, <1>5 DEF RecordCases, AcceptedCall, Holds, Owns
<1>6. CASE m.call = "finish" /\ FinishJob(m.by, m.job)
  BY <1>1, <1>2, <1>3, <1>6 DEF FinishJob, AcceptedCall, Holds, Owns, Active
<1>7. CASE m.call = "fail" /\ \E code \in {"CE", "IE"} : FailJob(m.by, m.job, code)
  BY <1>1, <1>2, <1>7 DEF FailJob, AcceptedCall, Holds, Owns
<1> QED BY <1>2, <1>4, <1>5, <1>6, <1>7 DEF Accept

\* A worker that has its call accepted goes on under the claim it came from.
LEMMA AnsweredStep ==
  ASSUME WIInv, IInv', NEW w \in Judges, Answered(w)
  PROVE  WIInv'
<1> USE LeaseAssumption, WorkerAssumption DEF WIInv
<1> DEFINE j == job[w]
<1>1. pc[w] \in Calls /\ j \in Jobs /\ j # NoJob /\ Accept(InFlight(w)) /\ under[w] \in Nat
      /\ UNCHANGED <<late, overtaken>>
  BY InFlightTyped DEF Answered, WTypeOK
<1>2. AcceptedCall(InFlight(w)) /\ rowsEpoch' \in [Jobs -> Nat]
  BY <1>1, InFlightTyped, AcceptEffect
<1>3. /\ Holds(w, j) /\ UNCHANGED <<epoch, claimedBy>>
      /\ \A i \in Jobs \ {j} :
           status'[i] = status[i] /\ rows'[i] = rows[i] /\ rowsEpoch'[i] = rowsEpoch[i]
      /\ pc[w] = "cases" => /\ status'[j] = "running"
                            /\ rows'[j] = Upserted(w, rows[j], report[w])
                            /\ rowsEpoch'[j] = under[w]
      /\ pc[w] # "cases" => rows'[j] = rows[j] /\ rowsEpoch'[j] = rowsEpoch[j]
      /\ pc[w] = "start" => /\ status'[j] = "running"
                            /\ status[j] = "running" \/ rows[j] = NoRows
      /\ pc[w] = "finish" => /\ status'[j] = "succeeded"
                             /\ status[j] = "running" \/ rows[j] = NoRows
      /\ pc[w] = "fail" => status'[j] = "failed"
  BY <1>1, <1>2, InFlightTyped DEF AcceptedCall
<1>4. \/ /\ pc[w] \in {"start", "cases"}
         /\ UNCHANGED <<job, report, under>>
         /\ pc' = [pc EXCEPT ![w] = IF pc[w] = "start" THEN "exec" ELSE "finish"]
      \/ /\ pc[w] \in {"finish", "fail"}
         /\ Forget(w, "idle")
  BY DEF Answered
<1>5. /\ \A v \in Judges \ {w} : /\ pc'[v] = pc[v] /\ job'[v] = job[v]
                                /\ under'[v] = under[v] /\ report'[v] = report[v]
      /\ \/ /\ job'[w] = j /\ under'[w] = under[w] /\ report'[w] = report[w]
            /\ \/ pc[w] = "start" /\ pc'[w] = "exec"
               \/ pc[w] = "cases" /\ pc'[w] = "finish"
         \/ job'[w] = NoJob /\ pc'[w] = "idle"
  BY <1>4 DEF Forget, WTypeOK
<1>6. WTypeOK'
  <2>1. TypeOK' /\ epoch' \in [Jobs -> Nat] /\ rowsEpoch' \in [Jobs -> Nat]
        /\ overtaken' \subseteq Jobs /\ late' = late
    BY <1>1, <1>2, <1>3 DEF WTypeOK, IInv
  <2>2. CASE UNCHANGED <<job, report, under>>
             /\ pc' = [pc EXCEPT ![w] = IF pc[w] = "start" THEN "exec" ELSE "finish"]
    BY <2>1, <2>2 DEF WTypeOK, Loop, Calls
  <2>3. CASE Forget(w, "idle")
    BY <2>1, <2>3 DEF WTypeOK, Loop, Forget
  <2> QED BY <1>4, <2>2, <2>3
<1>7. LoopShape'
  BY <1>1, <1>5 DEF LoopShape, Calls
<1>8. PastClaims' /\ OwnClaims'
  BY <1>1, <1>3, <1>5 DEF PastClaims, OwnClaims
<1>9. \A v \in Judges, i \in Jobs : Holds(v, i)' => Holds(v, i) /\ (i = j => v = w)
  BY <1>3 DEF Holds
<1>10. LatestClaim'
  BY <1>1, <1>3, <1>5, <1>9 DEF LatestClaim
<1>11. RowsPosted'
  <2> SUFFICES ASSUME NEW v \in Judges, job'[v] \in Jobs \ overtaken, Holds(v, job[v])'
               PROVE  /\ pc'[v] \in {"start", "exec", "cases"} => rows'[job'[v]] = NoRows
                      /\ pc'[v] = "finish" =>
                           rows'[job'[v]] = Upserted(v, NoRows, report'[v])
    BY <1>1 DEF RowsPosted, Holds, Upserted
  <2>1. CASE v = w
    BY <2>1, <1>1, <1>3, <1>5 DEF RowsPosted
  <2>2. CASE v # w
    <3>1. job'[v] = job[v] /\ pc'[v] = pc[v] /\ report'[v] = report[v]
          /\ Holds(v, job[v]) /\ job[v] # j
      BY <2>2, <1>5, <1>9 DEF Holds
    <3> QED BY <3>1, <1>3 DEF RowsPosted
  <2> QED BY <2>1, <2>2
<1>12. LateFinish'
  <2> SUFFICES ASSUME NEW m \in late, m.call = "finish", m.job \notin overtaken,
                      m.under = epoch[m.job], Holds(m.by, m.job)'
               PROVE  rows'[m.job] # NoRows
    BY <1>1, <1>3 DEF LateFinish
  <2>1. m.job \in Jobs /\ m.by \in Judges
    BY LateTyped
  <2>2. CASE m.job = j
    BY <2>2, <1>1, <1>3 DEF OwnClaims, LatestClaim
  <2>3. CASE m.job # j
    BY <2>1, <2>3, <1>3, <1>9 DEF LateFinish
  <2> QED BY <2>2, <2>3
<1>13. RowsOfClaim'
  <2> SUFFICES ASSUME NEW i \in Jobs \ overtaken
               PROVE  /\ status'[i] \in {"running", "succeeded"} /\ rows'[i] # NoRows
                           => rowsEpoch'[i] = epoch[i]
                      /\ status'[i] = "succeeded" => rows'[i] # NoRows
    BY <1>1, <1>3 DEF RowsOfClaim
  <2>1. CASE i # j
    BY <2>1, <1>3 DEF RowsOfClaim
  <2>2. CASE i = j /\ pc[w] \in {"start", "cases"}
    BY <2>2, <1>1, <1>3 DEF RowsOfClaim, LatestClaim
  <2>3. CASE i = j /\ pc[w] = "finish"
    <3>1. rows[j] = Upserted(w, NoRows, report[w]) /\ report[w] \in Reports
      BY <2>3, <1>1, <1>3 DEF RowsPosted, LoopShape
    <3>2. rows[j] # NoRows
      BY <3>1, UpsertedIsSome, ReportIsBatch, NoRowsTyped
    <3> QED BY <2>3, <3>2, <1>3 DEF RowsOfClaim
  <2>4. CASE i = j /\ pc[w] = "fail"
    BY <2>4, <1>3
  <2> QED BY <2>1, <2>2, <2>3, <2>4, <1>1 DEF Calls
<1> QED BY <1>6, <1>7, <1>8, <1>10, <1>11, <1>12, <1>13

\* A call that nobody waits for: of the claim the job is under, it is the one
\* its sender would have made next; of any other, the job becomes "overtaken".
LEMMA DeliverCallStep ==
  ASSUME WIInv, IInv', NEW m \in late, m.call # "claim", Accept(m),
         overtaken' = IF Overtakes(m, m.job) THEN overtaken \cup {m.job} ELSE overtaken,
         late' = late \ {m}, UNCHANGED workerVars
  PROVE  WIInv'
<1> USE LeaseAssumption, WorkerAssumption DEF WIInv, workerVars
<1> DEFINE j == m.job
<1>1. /\ j \in Jobs /\ m.by \in Judges /\ m.under \in Nat /\ m.call \in Calls
      /\ m.call = "cases" => m.report \in Reports
  BY LateTyped
<1>2. AcceptedCall(m) /\ rowsEpoch' \in [Jobs -> Nat]
  BY <1>1, AcceptEffect
<1>3. /\ overtaken' \in SUBSET Jobs /\ overtaken \subseteq overtaken'
      /\ j \notin overtaken' => m.under = epoch[j]
  BY <1>1 DEF Overtakes, WTypeOK
<1>4. WTypeOK'
  BY <1>2, <1>3 DEF WTypeOK, IInv, AcceptedCall
<1>5. LoopShape' /\ OwnClaims'
  BY DEF LoopShape, OwnClaims
<1>6. PastClaims'
  BY <1>2 DEF PastClaims, AcceptedCall
<1>7. \A v \in Judges, i \in Jobs : Holds(v, i)' => Holds(v, i)
  BY <1>2 DEF Holds, AcceptedCall
<1>8. LatestClaim'
  BY <1>2, <1>3, <1>7 DEF LatestClaim, AcceptedCall
<1>9. RowsPosted'
  <2> SUFFICES ASSUME NEW v \in Judges, job[v] \in Jobs \ overtaken', Holds(v, job[v])'
               PROVE  /\ pc[v] \in {"start", "exec", "cases"} => rows'[job[v]] = NoRows
                      /\ pc[v] = "finish" => rows'[job[v]] = Upserted(v, NoRows, report[v])
    BY DEF RowsPosted, Holds, Upserted
  <2>1. Holds(v, job[v]) /\ job[v] \in Jobs \ overtaken /\ job[v] # NoJob
    BY <1>3, <1>7
  <2>2. job[v] # j
    BY <2>1, <1>3 DEF LatestClaim, OwnClaims
  <2> QED BY <2>1, <2>2, <1>2 DEF RowsPosted, AcceptedCall
<1>10. m.call = "cases" => Upserted(m.by, rows[j], m.report) # NoRows
  BY <1>1, UpsertedIsSome, ReportIsBatch DEF WTypeOK, TypeOK
<1>11. LateFinish'
  <2> SUFFICES ASSUME NEW n \in late, n.call = "finish", n.job \notin overtaken',
                      n.under = epoch[n.job], Holds(n.by, n.job)'
               PROVE  rows'[n.job] # NoRows
    BY <1>2 DEF LateFinish, AcceptedCall
  <2>1. n.job \in Jobs /\ n.by \in Judges
    BY LateTyped
  <2>2. rows[n.job] # NoRows
    BY <2>1, <1>3, <1>7 DEF LateFinish
  <2> QED BY <2>1, <2>2, <1>2, <1>3, <1>10 DEF AcceptedCall
<1>12. RowsOfClaim'
  <2> SUFFICES ASSUME NEW i \in Jobs \ overtaken'
               PROVE  /\ status'[i] \in {"running", "succeeded"} /\ rows'[i] # NoRows
                           => rowsEpoch'[i] = epoch[i]
                      /\ status'[i] = "succeeded" => rows'[i] # NoRows
    BY <1>2 DEF RowsOfClaim, AcceptedCall
  <2>1. CASE i # j
    BY <2>1, <1>2, <1>3 DEF RowsOfClaim, AcceptedCall
  <2>2. CASE i = j /\ m.call \in {"start", "cases"}
    BY <2>2, <1>2, <1>3 DEF RowsOfClaim, AcceptedCall
  <2>3. CASE i = j /\ m.call = "finish"
    <3>1. rows[j] # NoRows
      BY <2>3, <1>2, <1>3 DEF LateFinish, AcceptedCall
    <3> QED BY <2>3, <3>1, <1>2, <1>3 DEF RowsOfClaim, AcceptedCall
  <2>4. CASE i = j /\ m.call = "fail"
    BY <2>4, <1>2 DEF AcceptedCall
  <2> QED BY <2>1, <2>2, <2>3, <2>4, <1>1 DEF Calls
<1> QED BY <1>4, <1>5, <1>6, <1>8, <1>9, <1>11, <1>12

\* A call that nobody waits for and that the server refuses leaves no trace.
LEMMA LostCallStep ==
  ASSUME WIInv, NEW m \in late, late' = late \ {m}, UNCHANGED <<vars, workerVars, history>>
  PROVE  WIInv'
<1> USE DEF WIInv, workerVars, history
<1>0. IInv'
  BY StutterStep
<1>1. WTypeOK'
  BY <1>0 DEF WTypeOK, IInv
<1>2. LoopShape' /\ PastClaims' /\ OwnClaims'
  BY DEF LoopShape, PastClaims, OwnClaims, vars, jobVars
<1>3. LatestClaim' /\ LateFinish' /\ RowsOfClaim'
  BY DEF LatestClaim, LateFinish, RowsOfClaim, Holds, vars, jobVars
<1>4. RowsPosted'
  BY DEF RowsPosted, Holds, Upserted, vars, jobVars
<1> QED BY <1>0, <1>1, <1>2, <1>3, <1>4

\* A stuttering step of the composition.
LEMMA WStutterStep == ASSUME WIInv, UNCHANGED wvars PROVE WIInv'
<1> USE DEF WIInv, wvars, workerVars, history
<1>0. IInv'
  BY StutterStep
<1>1. WTypeOK'
  BY <1>0 DEF WTypeOK, IInv
<1>2. LoopShape' /\ PastClaims' /\ OwnClaims'
  BY DEF LoopShape, PastClaims, OwnClaims, vars, jobVars
<1>3. LatestClaim' /\ LateFinish' /\ RowsOfClaim'
  BY DEF LatestClaim, LateFinish, RowsOfClaim, Holds, vars, jobVars
<1>4. RowsPosted'
  BY DEF RowsPosted, Holds, Upserted, vars, jobVars
<1> QED BY <1>0, <1>1, <1>2, <1>3, <1>4

\* Every step of the composition preserves the invariant.
LEMMA WNextWIInv == WIInv /\ [WNext]_wvars => WIInv'
<1> SUFFICES ASSUME WIInv, [WNext]_wvars PROVE WIInv'
  OBVIOUS
<1>0. IInv'
  BY WStepIsStep, NextIInv DEF WIInv
<1>1. ASSUME NEW w \in Judges, LoopStep(w) PROVE WIInv'
  <2>1. CASE Refused(w)
    <3>1. Forget(w, "idle") /\ Abandon(w) /\ UNCHANGED <<vars, history>>
      BY <2>1 DEF Refused, Abandon
    <3> QED BY <3>1, DropStep
  <2> QED BY <1>0, <1>1, <2>1, SweepStep, ReceiveJobStep, IdleStep, ExecuteStep, AnsweredStep
          DEF LoopStep
<1>2. ASSUME NEW m \in late, Deliver(m) PROVE WIInv'
  <2>1. CASE m.call = "claim" /\ \E j \in Eligible(m.by) :
               /\ ClaimJob(m.by, j)
               /\ epoch' = [epoch EXCEPT ![j] = @ + 1]
               /\ overtaken' = IF Overtakes(m, j) THEN overtaken \cup {j} ELSE overtaken
               /\ UNCHANGED rowsEpoch
    BY <1>0, <1>2, <2>1, DeliverClaimStep DEF Deliver, Eligible
  <2>2. CASE m.call # "claim" /\ Accept(m)
               /\ overtaken' = IF Overtakes(m, m.job) THEN overtaken \cup {m.job}
                               ELSE overtaken
    BY <1>0, <1>2, <2>2, DeliverCallStep DEF Deliver
  <2>3. CASE UNCHANGED <<vars, history>>
    BY <1>2, <2>3, LostCallStep DEF Deliver
  <2> QED BY <1>2, <2>1, <2>2, <2>3 DEF Deliver
<1>3. ASSUME NEW w \in Judges, Fault(w) \/ Crash(w) PROVE WIInv'
  BY <1>3, DropStep DEF WIInv, Fault, Crash
<1>4. ASSUME NEW w \in Judges, Restart(w) \/ SendHeartbeat(w) PROVE WIInv'
  BY <1>0, <1>4, IdleStep, WHeartbeatStep
<1>5. ASSUME NEW j \in Jobs, Submit(j) \/ AskRejudge(j) PROVE WIInv'
  BY <1>0, <1>5, SubmitStep, AskRejudgeStep
<1>6. CASE Clock
  BY <1>0, <1>6, ClockStep
<1>7. CASE UNCHANGED wvars
  BY <1>7, WStutterStep
<1> QED BY <1>1, <1>2, <1>3, <1>4, <1>5, <1>6, <1>7 DEF WNext, QuietStep

-----------------------------------------------------------------------------
(* What the control plane and its workers guarantee together *)

\* Whatever workers and the network do, the control plane behaves as JudgeLease
\* says, so all that holds of JudgeLease (verdicts, attempts, rows) holds of the
\* composition; and the invariant that ties workers to jobs holds throughout.
THEOREM WorkersRefineLease == WSpec => Spec /\ []WIInv
<1>1. WInit => Init
  BY DEF WInit
<1>2. WSpec => []WIInv
  BY WInitWIInv, WNextWIInv, PTL DEF WSpec
<1> QED BY <1>1, <1>2, WStepIsStep, PTL DEF WSpec, Spec

\* Every variable keeps its type.
THEOREM WTypeCorrect == WSpec => []WTypeOK
<1>1. WIInv => WTypeOK
  BY DEF WIInv
<1> QED BY <1>1, WorkersRefineLease, PTL

\* The rows behind a verdict were computed under the claim that finished the job,
\* whatever workers crash, restart, lose calls or are asked to judge again,
\* unless a call of an earlier claim arrives under a later one of its worker.
THEOREM OneExecution == WSpec => []OneExecutionPerVerdict
<1>1. WIInv => OneExecutionPerVerdict
  BY DEF WIInv, RowsOfClaim, OneExecutionPerVerdict
<1> QED BY <1>1, WorkersRefineLease, PTL

\* Workers that work on one job do so under different claims, and the server
\* believes the latest.
THEOREM ExclusiveClaims == WSpec => []ClaimsAreExclusive
<1>1. WIInv => ClaimsAreExclusive
  BY DEF WIInv, OwnClaims, LatestClaim, Holds, Owns, ClaimsAreExclusive
<1> QED BY <1>1, WorkersRefineLease, PTL

\* What a worker reported is all there is when it calls finish: the verdict is
\* given on its own results, and on all of them.
THEOREM CompleteReports == WSpec => []ReportedBeforeFinish
<1>1. ASSUME WIInv, NEW w \in Judges, pc[w] = "finish", job[w] \notin overtaken,
             Owns(w, job[w]), NEW c \in Cases
      PROVE  rows[job[w]][c] = IF c \in DOMAIN report[w]
                               THEN [verdict |-> report[w][c], by |-> w] ELSE NoRow
  <2>1. job[w] \in Jobs /\ Holds(w, job[w])
    BY <1>1 DEF WIInv, WTypeOK, LoopShape, Calls, Owns, Holds
  <2>2. rows[job[w]] = Upserted(w, NoRows, report[w])
    BY <1>1, <2>1 DEF WIInv, RowsPosted
  <2> QED BY <2>2 DEF Upserted, NoRows
<1>2. WIInv => ReportedBeforeFinish
  BY <1>1 DEF ReportedBeforeFinish
<1> QED BY <1>2, WorkersRefineLease, PTL

=============================================================================
