----------------------------- MODULE JudgeLease -----------------------------
(***************************************************************************)
(* The control plane's side of the pull judge protocol: JudgeGatewayService*)
(* (claim, expiry), JudgeResultService (start, cases, finish, fail), the   *)
(* heartbeat endpoint, and the two operations of SubmissionService that    *)
(* write the same rows (create and rejudge).                               *)
(*                                                                         *)
(* A job and its submission are one-to-one, so both are indexed by a job.  *)
(* Every operation is one database transaction that locks the job row, and *)
(* is one action here; claim is the exception (two transactions, two       *)
(* actions, in any order with other calls).  A call that the code rejects  *)
(* with 403, 409 or 422, a repeated finish or fail, a claim that finds no  *)
(* job and a transaction that the database aborts (a deadlock between a    *)
(* rejudge, which locks the submission first, and a callback, which locks  *)
(* the job first) change nothing: they are stuttering steps.               *)
(*                                                                         *)
(* The environment is the most general one: any authenticated judge may    *)
(* call any endpoint about any job at any time.  That covers a worker that *)
(* crashes, a call delivered late or twice, and a call from a past attempt.*)
(***************************************************************************)
EXTENDS Integers

CONSTANTS
  Jobs,         \* judge jobs, one per submission
  Judges,       \* judge workers (rows of the Judge table)
  Nobody,       \* NULL in claimed_by and judged_on
  NoLease,      \* NULL in lease_expires_at
  Speaks,       \* <<w, j>>: judge w lists the language of job j when it claims
  RunJobs,      \* jobs of custom-input runs, which are not scored
  FullMarks,    \* jobs whose package adds up: accepting all cases earns all points
  CaseCount,    \* number of cases of the package manifest
  CaseVerdicts, \* the verdicts judges report for a case
  MaxAttempts,  \* JudgeJob.max_attempts
  LeaseTicks    \* LEASE_SECONDS, in ticks of the model's clock

\* Result codes.  "WA" stands for every rejected verdict (WA, TLE, MLE, RTE,
\* OLE, IR, PT); "CE" and "IE" turn the submission into an error.
Results == {"AC", "WA", "CE", "IE"}

ASSUME LeaseAssumption ==
  /\ Nobody \notin Judges
  /\ NoLease \notin Int
  /\ Speaks \subseteq Judges \X Jobs
  /\ RunJobs \subseteq Jobs
  /\ FullMarks \subseteq Jobs
  /\ CaseCount \in Nat
  /\ CaseVerdicts \subseteq Results
  /\ MaxAttempts \in Nat \ {0}
  /\ LeaseTicks \in Nat \ {0}

VARIABLES
  status,     \* JudgeJob.status; "absent" before the submission exists
  claimedBy,  \* JudgeJob.claimed_by
  attempts,   \* JudgeJob.attempts
  lease,      \* JudgeJob.lease_expires_at minus the present time, in ticks
  subStatus,  \* Submission.status
  result,     \* Submission.result
  judgedOn,   \* Submission.judged_on
  rows        \* SubmissionTestCase rows, with the judge that wrote each

jobVars == <<status, claimedBy, attempts, lease>>
subVars == <<subStatus, result, judgedOn>>
vars == <<jobVars, subVars, rows>>

Statuses == {"absent", "queued", "claimed", "running", "succeeded", "failed"}
Active == {"claimed", "running"}
Final == {"succeeded", "failed"}

\* Time left on a lease.  The code compares differently at the two ends: a
\* callback needs a lease that ends after now, expiry one that ended before
\* now, so a lease that ends exactly now (0) is neither usable nor stale.
LeaseLeft == (-1 .. LeaseTicks) \cup {NoLease}

Cases == 1 .. CaseCount
Row == [verdict : Results, by : Judges]
NoRow == [verdict |-> "none", by |-> Nobody]
NoRows == [c \in Cases |-> NoRow]

-----------------------------------------------------------------------------

Init ==
  /\ status = [j \in Jobs |-> "absent"]
  /\ claimedBy = [j \in Jobs |-> Nobody]
  /\ attempts = [j \in Jobs |-> 0]
  /\ lease = [j \in Jobs |-> NoLease]
  /\ subStatus = [j \in Jobs |-> "none"]
  /\ result = [j \in Jobs |-> "none"]
  /\ judgedOn = [j \in Jobs |-> Nobody]
  /\ rows = [j \in Jobs |-> NoRows]

\* Mutants: an ownership check that looks at the judge alone, and one that looks
\* at the lease and the status but not at the judge.
OwnsByName(w, j) == claimedBy[j] = w
OwnsByLease(w, j) == lease[j] # NoLease /\ lease[j] > 0 /\ status[j] \in Active

\* JudgeResultService._assert_owned
Owns(w, j) ==
  /\ claimedBy[j] = w
  /\ lease[j] # NoLease
  /\ lease[j] > 0
  /\ status[j] \in Active

\* Mutant: only jobs that were started expire.
StaleIfRunning(j) == status[j] = "running" /\ lease[j] # NoLease /\ lease[j] < 0

\* The filter of expire_stale_jobs.
Stale(j) ==
  /\ status[j] \in Active
  /\ lease[j] # NoLease
  /\ lease[j] < 0

StaleJobs == {j \in Jobs : Stale(j)}

\* create_submission: the submission and its job appear together, queued.
CreateSubmission(j) ==
  /\ status[j] = "absent"
  /\ status' = [status EXCEPT ![j] = "queued"]
  /\ subStatus' = [subStatus EXCEPT ![j] = "Q"]
  /\ UNCHANGED <<claimedBy, attempts, lease, result, judgedOn, rows>>

\* expire_stale_jobs fails a job that has used up its attempts.
OutOfAttempts(j) == attempts[j] >= MaxAttempts

\* The first transaction of every claim.  S is the set of stale jobs it handles:
\* jobs whose row another transaction holds are skipped (skip_locked).
ExpireStaleJobs(S) ==
  LET gone == {j \in S : OutOfAttempts(j)}
      back == S \ gone
  IN /\ S \subseteq StaleJobs
     /\ rows' = [j \in Jobs |-> IF j \in S THEN NoRows ELSE rows[j]]
     /\ status' = [j \in Jobs |-> IF j \in gone THEN "failed"
                                  ELSE IF j \in back THEN "queued" ELSE status[j]]
     /\ claimedBy' = [j \in Jobs |-> IF j \in back THEN Nobody ELSE claimedBy[j]]
     /\ lease' = [j \in Jobs |-> IF j \in S THEN NoLease ELSE lease[j]]
     /\ subStatus' = [j \in Jobs |-> IF j \in gone THEN "ER"
                                     ELSE IF j \in back THEN "Q" ELSE subStatus[j]]
     /\ result' = [j \in Jobs |-> IF j \in gone THEN "IE"
                                  ELSE IF j \in back THEN "none" ELSE result[j]]
     /\ judgedOn' = [j \in Jobs |-> IF j \in S THEN Nobody ELSE judgedOn[j]]
     /\ UNCHANGED attempts

\* The second transaction of a claim.  The code takes the first queued job by
\* priority and age that no other transaction has locked; since any row may be
\* locked at that instant, any eligible job may be the one taken.
ClaimJob(w, j) ==
  /\ status[j] = "queued"
  /\ <<w, j>> \in Speaks
  /\ status' = [status EXCEPT ![j] = "claimed"]
  /\ claimedBy' = [claimedBy EXCEPT ![j] = w]
  /\ attempts' = [attempts EXCEPT ![j] = @ + 1]
  /\ lease' = [lease EXCEPT ![j] = LeaseTicks]
  /\ UNCHANGED <<subVars, rows>>

\* start on a claimed job.
StartJob(w, j) ==
  /\ Owns(w, j)
  /\ status[j] = "claimed"
  /\ status' = [status EXCEPT ![j] = "running"]
  /\ lease' = [lease EXCEPT ![j] = LeaseTicks]
  /\ subStatus' = [subStatus EXCEPT ![j] = "JG"]
  /\ UNCHANGED <<claimedBy, attempts, result, judgedOn, rows>>

\* start on a job that is running already: the lease is extended without
\* looking at whether it is still valid.
RestartJob(w, j) ==
  /\ status[j] = "running"
  /\ claimedBy[j] = w
  /\ lease' = [lease EXCEPT ![j] = LeaseTicks]
  /\ UNCHANGED <<status, claimedBy, attempts, subVars, rows>>

Batches == UNION {[S -> CaseVerdicts] : S \in SUBSET Cases}

Upserted(w, r, batch) ==
  [c \in Cases |-> IF c \in DOMAIN batch THEN [verdict |-> batch[c], by |-> w] ELSE r[c]]

\* Mutant: cases that arrive before start do not promote the job.
RecordCasesNoPromotion(w, j, batch) ==
  /\ Owns(w, j)
  /\ rows' = [rows EXCEPT ![j] = Upserted(w, @, batch)]
  /\ subStatus' = [subStatus EXCEPT ![j] = "JG"]
  /\ lease' = [lease EXCEPT ![j] = LeaseTicks]
  /\ UNCHANGED <<status, claimedBy, attempts, result, judgedOn>>

\* record_cases: upsert by case number, and promote a claimed job.
RecordCases(w, j, batch) ==
  /\ Owns(w, j)
  /\ status' = [status EXCEPT ![j] = "running"]
  /\ rows' = [rows EXCEPT ![j] = Upserted(w, @, batch)]
  /\ subStatus' = [subStatus EXCEPT ![j] = "JG"]
  /\ lease' = [lease EXCEPT ![j] = LeaseTicks]
  /\ UNCHANGED <<claimedBy, attempts, result, judgedOn>>

\* The verdict of a scored submission (ScoringService; module Scoring has points
\* and groups): an error wins, then any case missing, rejected, or accepted for
\* less than its points, which counts as "WA" here.
ScoredResult(j, r) ==
  LET seen == {r[c].verdict : c \in Cases}
  IN IF "CE" \in seen THEN "CE"
     ELSE IF "IE" \in seen THEN "IE"
     ELSE IF Cases # {} /\ seen = {"AC"} /\ j \in FullMarks THEN "AC"
     ELSE "WA"

\* The result of a custom-input run is its last row's verdict; with no row the
\* run is an internal error.
RunResult(r) ==
  LET present == {c \in Cases : r[c] # NoRow}
  IN IF present = {} THEN "IE"
     ELSE r[CHOOSE c \in present : \A d \in present : d <= c].verdict

FinalResult(j, r) == IF j \in RunJobs THEN RunResult(r) ELSE ScoredResult(j, r)

\* Submission.status of a finished job.
FinalStatus(j, r) ==
  IF j \in RunJobs
  THEN IF \A c \in Cases : r[c] = NoRow THEN "ER" ELSE "CM"
  ELSE IF ScoredResult(j, r) \in {"CE", "IE"} THEN "ER" ELSE "CM"

\* finish: the verdict is computed from the rows, whatever the worker says.
FinishJob(w, j) ==
  /\ Owns(w, j)
  /\ status' = [status EXCEPT ![j] = "succeeded"]
  /\ lease' = [lease EXCEPT ![j] = NoLease]
  /\ subStatus' = [subStatus EXCEPT ![j] = FinalStatus(j, rows[j])]
  /\ result' = [result EXCEPT ![j] = FinalResult(j, rows[j])]
  /\ judgedOn' = [judgedOn EXCEPT ![j] = w]
  /\ UNCHANGED <<claimedBy, attempts, rows>>

\* fail: the worker gives up (compile error or internal error).  The case rows
\* stay in the table.
FailJob(w, j, code) ==
  /\ Owns(w, j)
  /\ status' = [status EXCEPT ![j] = "failed"]
  /\ lease' = [lease EXCEPT ![j] = NoLease]
  /\ subStatus' = [subStatus EXCEPT ![j] = "ER"]
  /\ result' = [result EXCEPT ![j] = code]
  /\ judgedOn' = [judgedOn EXCEPT ![j] = w]
  /\ UNCHANGED <<claimedBy, attempts, rows>>

\* Mutant: a heartbeat that extends the leases of every judge.
HeartbeatForAll(w) ==
  /\ lease' = [j \in Jobs |-> IF status[j] \in Active THEN LeaseTicks ELSE lease[j]]
  /\ UNCHANGED <<status, claimedBy, attempts, subVars, rows>>

\* heartbeat: every job the judge holds gets a full lease, expired or not.
Heartbeat(w) ==
  /\ lease' = [j \in Jobs |-> IF claimedBy[j] = w /\ status[j] \in Active
                              THEN LeaseTicks ELSE lease[j]]
  /\ UNCHANGED <<status, claimedBy, attempts, subVars, rows>>

\* Mutants: a rejudge that does not give the attempts back, one that leaves the
\* case rows, and one that does not take the job from the judge that holds it.
RejudgeKeepsAttempts(j) ==
  /\ status[j] # "absent"
  /\ status' = [status EXCEPT ![j] = "queued"]
  /\ claimedBy' = [claimedBy EXCEPT ![j] = Nobody]
  /\ lease' = [lease EXCEPT ![j] = NoLease]
  /\ subStatus' = [subStatus EXCEPT ![j] = "Q"]
  /\ result' = [result EXCEPT ![j] = "none"]
  /\ judgedOn' = [judgedOn EXCEPT ![j] = Nobody]
  /\ rows' = [rows EXCEPT ![j] = NoRows]
  /\ UNCHANGED attempts
RejudgeKeepsRows(j) ==
  /\ status[j] # "absent"
  /\ status' = [status EXCEPT ![j] = "queued"]
  /\ claimedBy' = [claimedBy EXCEPT ![j] = Nobody]
  /\ attempts' = [attempts EXCEPT ![j] = 0]
  /\ lease' = [lease EXCEPT ![j] = NoLease]
  /\ subStatus' = [subStatus EXCEPT ![j] = "Q"]
  /\ result' = [result EXCEPT ![j] = "none"]
  /\ judgedOn' = [judgedOn EXCEPT ![j] = Nobody]
  /\ UNCHANGED rows
RejudgeKeepsHolder(j) ==
  /\ status[j] # "absent"
  /\ status' = [status EXCEPT ![j] = IF @ \in Active THEN @ ELSE "queued"]
  /\ claimedBy' = [claimedBy EXCEPT ![j] = IF status[j] \in Active THEN @ ELSE Nobody]
  /\ attempts' = [attempts EXCEPT ![j] = 0]
  /\ subStatus' = [subStatus EXCEPT ![j] = "Q"]
  /\ result' = [result EXCEPT ![j] = "none"]
  /\ judgedOn' = [judgedOn EXCEPT ![j] = Nobody]
  /\ rows' = [rows EXCEPT ![j] = NoRows]
  /\ UNCHANGED lease

\* rejudge_submission: whatever the job is doing, start over.
Rejudge(j) ==
  /\ status[j] # "absent"
  /\ status' = [status EXCEPT ![j] = "queued"]
  /\ claimedBy' = [claimedBy EXCEPT ![j] = Nobody]
  /\ attempts' = [attempts EXCEPT ![j] = 0]
  /\ lease' = [lease EXCEPT ![j] = NoLease]
  /\ subStatus' = [subStatus EXCEPT ![j] = "Q"]
  /\ result' = [result EXCEPT ![j] = "none"]
  /\ judgedOn' = [judgedOn EXCEPT ![j] = Nobody]
  /\ rows' = [rows EXCEPT ![j] = NoRows]

\* Time passes for every lease; -1 is "in the past" and stays so.
Tick ==
  /\ \E j \in Jobs : lease[j] # NoLease /\ lease[j] > -1
  /\ lease' = [j \in Jobs |-> IF lease[j] # NoLease /\ lease[j] > -1
                              THEN lease[j] - 1 ELSE lease[j]]
  /\ UNCHANGED <<status, claimedBy, attempts, subVars, rows>>

Callback(w, j) ==
  \/ StartJob(w, j)
  \/ RestartJob(w, j)
  \/ \E batch \in Batches : RecordCases(w, j, batch)
  \/ FinishJob(w, j)
  \/ \E code \in {"CE", "IE"} : FailJob(w, j, code)

Next ==
  \/ \E S \in SUBSET StaleJobs : ExpireStaleJobs(S)
  \/ \E w \in Judges, j \in Jobs : ClaimJob(w, j)
  \/ \E w \in Judges, j \in Jobs : Callback(w, j)
  \/ \E w \in Judges : Heartbeat(w)
  \/ \E j \in Jobs : CreateSubmission(j)
  \/ \E j \in Jobs : Rejudge(j)
  \/ Tick

Spec == Init /\ [][Next]_vars

-----------------------------------------------------------------------------
(* Properties *)

\* Every variable has its type.
TypeOK ==
  /\ status \in [Jobs -> Statuses]
  /\ claimedBy \in [Jobs -> Judges \cup {Nobody}]
  /\ attempts \in [Jobs -> Nat]
  /\ lease \in [Jobs -> LeaseLeft]
  /\ subStatus \in [Jobs -> {"none", "Q", "JG", "CM", "ER"}]
  /\ result \in [Jobs -> Results \cup {"none"}]
  /\ judgedOn \in [Jobs -> Judges \cup {Nobody}]
  /\ rows \in [Jobs -> [Cases -> Row \cup {NoRow}]]

\* The two columns that decide ownership never contradict the status: a job has
\* a lease exactly while a judge may work on it, and names a judge exactly when
\* one took it since it was last queued.  Six operations write these columns.
LeaseShape ==
  \A j \in Jobs :
    /\ lease[j] # NoLease <=> status[j] \in Active
    /\ claimedBy[j] # Nobody <=> status[j] \in Active \cup Final

\* The submission a user sees and the job behind it, two tables that no
\* constraint ties together, tell the same story after every transaction; and
\* nothing of an earlier attempt is left when a job waits or is handed out.
SubmissionAgrees ==
  \A j \in Jobs :
    /\ status[j] \in {"absent", "queued", "claimed"} => result[j] = "none" /\ rows[j] = NoRows
    /\ status[j] \in {"queued", "claimed"} => subStatus[j] = "Q"
    /\ status[j] = "running" => subStatus[j] = "JG" /\ result[j] = "none"
    /\ status[j] = "succeeded" =>
         subStatus[j] \in {"CM", "ER"} /\ result[j] # "none" /\ judgedOn[j] = claimedBy[j]
    /\ status[j] = "failed" => subStatus[j] = "ER" /\ result[j] \in {"CE", "IE"}

\* A job is handed out at most MaxAttempts times between two queuings by a
\* person, a job that waits can still be handed out, and the server itself gives
\* a submission up (an error that no judge is credited with) only after the last
\* of its attempts.
AttemptsBounded ==
  \A j \in Jobs :
    /\ attempts[j] <= MaxAttempts
    /\ status[j] \in {"absent", "queued"} => attempts[j] < MaxAttempts
    /\ status[j] = "failed" /\ judgedOn[j] = Nobody => attempts[j] = MaxAttempts

\* Case results of different judges never mix: every row of a job was written
\* by the judge that holds (or finished) it, however late or often the calls of
\* earlier holders arrive.
RowsFromOwner ==
  \A j \in Jobs : \A c \in Cases : rows[j][c] # NoRow => rows[j][c].by = claimedBy[j]

\* The verdict on record is the one the rows on record give: no callback that
\* arrives after finish can change the evidence under a published verdict.
VerdictMatchesRows ==
  \A j \in Jobs : status[j] = "succeeded" =>
    /\ result[j] = FinalResult(j, rows[j])
    /\ subStatus[j] = FinalStatus(j, rows[j])

\* A settled submission keeps its verdict, status and judge for as long as its
\* job is settled: finish and fail are idempotent, and no order of callbacks,
\* heartbeats and expiries turns one outcome into another.
FinalStable ==
  [][\A j \in Jobs : status[j] \in Final /\ status'[j] \in Final =>
       /\ status'[j] = status[j]
       /\ subStatus'[j] = subStatus[j]
       /\ result'[j] = result[j]
       /\ judgedOn'[j] = judgedOn[j]
       /\ rows'[j] = rows[j]]_vars

-----------------------------------------------------------------------------
(* The abstract lifecycle, one copy per job *)

Phase(j) == IF status[j] = "absent" THEN "absent"
            ELSE IF status[j] = "queued" THEN "waiting"
            ELSE IF status[j] \in Active THEN "held"
            ELSE "settled"

Lifecycle(j) == INSTANCE JobLifecycle
  WITH Outcomes <- Results, phase <- Phase(j), holder <- claimedBy[j],
       tries <- attempts[j], outcome <- result[j]

\* Every job goes through the lifecycle that JobLifecycle promises, several
\* jobs in one step at most when an expiry sweep handles them together.
ImplementsLifecycle ==
  /\ \A j \in Jobs : Lifecycle(j)!Init
  /\ [][\A j \in Jobs : Lifecycle(j)!Next \/ UNCHANGED Lifecycle(j)!vars]_vars

=============================================================================
