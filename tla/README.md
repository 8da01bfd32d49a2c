# A TLA+ specification of judgeloom-core

judgeloom-core is an online judge: a Django control plane (`apps/`, `core/`)
that stores problems, contests and submissions, and Go workers (`worker/`) that
pull judge jobs over HTTP, run them in a sandbox and report the results.

This directory models the parts of it where the order of events decides
whether the result is right. Paths below are relative to the repository.

1. [The system](#1-the-system) - 2. [Modules](#2-modules) - 3. [Runs](#3-runs) -
4. [Fairness](#4-fairness) - 5. [Proofs](#5-proofs) - 6. [Findings](#6-findings) -
7. [Not modelled, and the plan](#7-not-modelled-and-the-plan)

## 1. The system

| Component | State | Operations | Talks to | Hard because |
|---|---|---|---|---|
| Judge job protocol (`apps/judge/services/judge_gateway_service.py`, `judge_result_service.py`, `api/gateway.py`) | `JudgeJob` (status, holder, attempts, lease), `Submission` (status, result, `judged_on`), `SubmissionTestCase` rows | claim (with a sweep of expired leases), start, cases, finish, fail, heartbeat | workers by HTTP; submissions, scoring and contests by calls | leases run out while their holder is alive; calls are lost, late or repeated; a rejudge may come at any time; rows are locked one by one |
| Go worker (`worker/internal/worker`, `api`) | the job in hand, its results | poll, execute, report; a heartbeat goroutine beside it | the gateway | two goroutines, crashes, restarts, requests without a deadline, no retries |
| Sandboxed execution (`worker/internal/executor`, `package`, `runner`) | the package cache, a compiled checker, case results | fetch and unpack a package, compile, validate, run, check, interact | go-judge by HTTP | calls lost and repeated; kills while unpacking; three programs with rules of their own for one package |
| Package authoring (`worker/internal/authoring`) | the file at the output path | validate, build | go-judge | a build is many stages, each may fail |
| Submissions (`apps/submissions`) | `Submission`, share tokens, statistics of users | create, run, rejudge, share, list, clean-up of runs | judge jobs, events, contests | rate limits are check-then-act; whole rows are saved from copies; statistics are counted and then written |
| Scoring (`apps/judge/services/scoring_service.py`) | none | score a set of case rows against a manifest | called by finish | rounding, caps, minimum groups, missing cases |
| Judge maintenance (`judge_maintenance_service.py`, Celery) | `Judge.online` | mark silent judges offline, requeue sessions of offline judges | workers, submissions | both read a list and then act on it |
| Shadow replays (`shadow_job_service.py`) | `ShadowJob` | create, claim, start, cases, finish, fail | a second loop of the worker | leases as above, but no limit on attempts and no renewal by heartbeats |
| Legacy bridge (`apps/judge/bridge`) | handlers in memory, `Judge.online` | connect, dispatch, results, disconnect | submissions | memory of one process beside a flag in the database |
| Problem packages (`apps/problems/services/package_service.py`) | `ProblemPackage`, version, active flag | import, activate, the admin's action | scoring, jobs | nothing locks the problem |
| Problems, posts, tickets (`apps/problems`, `apps/content`, `apps/tickets`) | visibility, organizations, authors, assignees | create, change, publish, assign | organizations | each rule of visibility is written twice, as a query and on the object |
| Contests (`apps/contests`) | participations, score, frozen board | join, start virtual, submit, change, recompute, rank | finish calls recompute | checks on copies read earlier; scores recomputed without a lock |
| Contest lifecycle, ratings (`apps/ratings`) | `started_at`, `ended_at`, ratings | tick, start, end, rate, recalculate | contests | runs of the periodic task overlap and fail; results arrive after the end |
| Comments and votes (`apps/content`) | comments with paths, votes | create, delete, vote | - | siblings are locked, and rows that are not there yet are not |
| Organizations (`apps/organizations`) | members, administrators, requests | create, ask, approve, reject | users | no transactions at all |
| Accounts and feeds (`apps/accounts`, consumers) | `token_version`, ban, tokens, WebSocket groups | login, refresh, logout, password, ban | every request | tokens are signed from copies; a feed is checked before it joins its group |
| Rate limit (`core/middleware.py`) | a counter in the cache per window | count a request | every request | add and increment are two calls |
| Events, tags, configuration (`core`, `config`) | none | publish; single rows | clients | - |

What makes each component correct:

- *Protocol*: a submission and its job agree; case rows of different holders do not
  mix; a settled verdict does not change; attempts are bounded; callbacks never
  wait for each other in a circle; everything is eventually settled.
- *Worker and execution*: a verdict is the product of one complete execution, whatever
  is lost; a lost call never turns into a verdict; the cache holds whole packages; what
  the authoring tool has built passes when it is imported and executed.
- *Scoring*: accepted means every case accepted and every group full; more accepted
  cases never cost points.
- *Contests*: standings do not depend on the order of verdicts or on what comes after
  the first accepted one; a stored score never credits what is not there; limits and
  access rules hold though requests overlap; a contest that is due ends, once.
- *Web requests*: a limit is exceeded by no more than the requests that were checked
  together; what was revoked stays revoked; lists and pages agree; a score is the sum
  of the votes; one package is active; members were approved.

The file `PROJECT.json` lists every component with its status, and every hazard
with the line where it bites and the properties that watch it.

## 2. Modules

    JobLifecycle              what the system promises about one submission
        ^ refined by
    JudgeLease                the control plane's protocol        <- MCJudgeLease
        ^ extended by
    JudgeWorker               + the Go workers                    <- MCJudgeWorker
        ^ extended by              (proofs: JudgeWorkerProofs)
    JudgeMaintenance          + Celery tasks                      <- MCJudgeMaintenance

    JudgingTransactions       verdicts, one row lock at a time    <- MCJudgingTransactions
                                   (proofs: JudgingTransactionsProofs)
    ShadowReplay              the second lease protocol           <- MCShadowReplay
                                   (proofs: ShadowReplayProofs)
    Ratings                   end of contests, ratings            <- MCRatings
                                   (proofs: ContestProofs)

    PackageFormat             packages as importer and worker read them
        ^ extended by
    JobExecution              the worker in go-judge    -+
        ^ extended by                                    |
    PackageAuthoring          the build of a package    -+
    Scoring                   ScoringService            -+-> MCStandings
    ContestFormats            what submissions are worth |   (Scoring also <- MCScoring)
        ^ extended by                                    |
    Scoreboard                standings of a contest    -+
    ContestScore              the stored score          -+   (proofs: ContestProofs)

    Contests                                            -+
    Accounts, Community, PackageRegistry,                |
    Organizations, LegacyBridge                         -+   (proofs: RecordsProofs)
    SubmissionDesk, Pages, RateLimit                    -+
        ^ extended by                                    |
    WebRequests                 the web API  <-----------+   <- MCRequests
                                   (proofs: RequestsProofs)

`MCStandings` and `WebRequests` are sums: a behaviour chooses one of the modules at the
start, its `part`, works on it, and leaves the variables of the others in their first
state. The parts share no rows of the database, so interleaving them would add states
and no behaviour. A property of a sum is the property of its module while that module
is at work.

### JobLifecycle
The abstract specification of one submission: it waits, is held by one judge, and
is either settled by its holder, returned, or given up after its last attempt; a
person may reopen it. `JudgeLease` implements it for every job through the
mapping `Phase`, with `claimed_by`, `attempts` and `result` as they are.

### JudgeLease
One action per operation of the control plane, each standing for one database
transaction that holds the lock of the job row.

| Action | Code |
|---|---|
| `CreateSubmission` | `SubmissionService.create_submission` |
| `ExpireStaleJobs`, `ClaimJob` | the two transactions of `JudgeGatewayService.claim_job` |
| `StartJob`, `RestartJob` | `JudgeResultService.start`, on a claimed and on a running job |
| `RecordCases`, `FinishJob`, `FailJob` | `JudgeResultService.record_cases`, `finish`, `fail` |
| `Heartbeat` | the heartbeat endpoint's renewal of leases |
| `Rejudge` | `SubmissionService.rejudge_submission` |
| `Tick` | time passes for every lease |

`lease` is the time a lease has left in ticks: -1 is past, 0 is the instant at
which it ends, which is neither usable (`<=` in `_assert_owned`) nor stale (`<`
in `expire_stale_jobs`). Any judge may call anything at any time, which covers
crashes and calls that come late or twice. Rejected calls, repeated finishes and
aborted transactions are stuttering steps. `skip_locked` is why `ExpireStaleJobs`
takes any set of stale jobs and `ClaimJob` any eligible one instead of the first.

Abstracted: points and groups (the verdict of accepted cases that do not add up
is decided per job by the constant `FullMarks`; module `Scoring` has the real
computation), times, memory, messages, published events, the contest refresh.

### JudgeWorker
Adds the worker loop: `pc` is the place in `Run` (idle, claim, start, exec,
cases, finish, fail, or down), `job` and `report` its local variables. A call
that succeeds and is answered is one step (`Answered`); `Refused` is a 403 or
409; `Fault` is any loss of a call or its answer. A call whose caller has stopped
waiting goes to `late` and may reach the server at any later time or never
(`Deliver`), so that a request that was processed and whose answer was lost is a
`Fault` followed by a `Deliver`. `Crash` and `Restart` end and begin a process
(a restart registers under the same token, hence as the same judge). The
heartbeat goroutine, `SendHeartbeat`, is independent of `pc`.

History variables number the claims of each job (`epoch`) and remember under
which claim a worker works (`under`) and rows were computed (`rowsEpoch`).
`overtaken` marks jobs touched by a call that belongs to an earlier claim of the
same judge. The server cannot tell such a call from a current one, since it
authorises by judge and not by claim, so the exactly-one-execution properties
except these jobs, and say so.

### JudgeMaintenance
Adds `Judge.online` and the two periodic tasks. `monitor_judges` reads a list
(`ReadOverdue`) and saves its members one by one (`SaveOffline`); a worker that
registers in between is marked offline although it is up, until its next heartbeat.

### JudgingTransactions
What `JudgeLease` takes as one step, cut into its row locks. A transaction is a
record: its kind, what it will write, the locks it holds (`held`) and the steps it has
yet to take (`todo`), in the order of the code (`Order`, `SweepOrder`, `EndOrder`): a
callback locks the job, then the submission, the user whose statistics the signal
updates, and the participation; a rejudge locks the submission first; the end of a
contest locks the participations and then the users. A transaction sees what is
committed and its own writes; `Abort` is PostgreSQL breaking a circle: the victim is rolled
back, but for a finish or fail that was refreshing the participation (`Refreshing`), which
loses its savepoint only and goes on. `Count` is the
reading half of `update_user_stats_on_completion`, which counts before it locks.
`muddled` marks histories in which two verdicts of the user overlapped, or one that was
counted went away.

### ShadowReplay
Server and worker of the shadow loop in one module. It differs from `JudgeLease` where
it matters: sweep and claim are one transaction (`Swept` is the row every claim sees),
`max_attempts` is never read, a requeued replay keeps its cases, callbacks extend the
lease and heartbeats do not, and no call is idempotent. `Slow` is an execution that
outlasts its lease; crash, lost call and slow execution are the three upsets.

### PackageFormat, JobExecution, PackageAuthoring
`PackageFormat` has the archive as the two programs that read it see it: what the
importer refuses, which checker it stores, which the worker uses, and the verdicts of
checkers, validators and custom runs. `JobExecution` is `Execute` and what it calls, one
action per stage (`Begin`, `Ensure`, `Download`, `Extract`, `Publish`, `Load`, and the
stages behind go-judge). `Answered` is a call that got its answer, `Lose` one that is
lost and tried again, `LoseAgain` the second loss, after which each stage does what the
code does with an error (`Unanswered`). `store` is the set of the entries under the package's
digest: the directory (`Root`), its `manifest.json` (`Manifest`) and the files of each case.
`Crash` kills the process and starts it again, and the start removes old directories entry by
entry (`Store.Cleanup`): a kill or an error in the middle leaves any part of the package
(`Remains`), whose directory is young again and is not removed by the next start. The history
variable `cut` says that what lies there is such a remainder.
`PackageAuthoring` adds `judgeloom-package build`: the `Stages` in their order, each of
which may fail, and the output file they leave; what was built is then imported and
executed for the model solution by the actions of `JobExecution`.

Abstracted: a program is what it does on each case (right, partly right, wrong, crash,
slow); limits are part of that.

### Scoring
`package` is any manifest the importer can produce (with declared groups, or the
default group worth the sum of the cases), `rows` any set of case rows. `Points`
and `Result` are `ScoringService.score` in integer arithmetic: one unit is
1/10000 point, to which the code rounds the share of a case (`Share`). Half a unit is
rounded up; Python rounds the nearest double, which may go the other way. Roundings take
the errors of floats away, except in the total of the groups' points, which is added up and
compared as it is (`scoring_service.py:101`, `:149`). The constant `Above` has the groups'
points whose float sum is above their sum (1.1 and 2.2, for one), and `Reaches` is the
comparison of rounded points with that total.
The importer strips the id of a group where it checks it (`package_service.py:309`) and stores
it as it came (`:356`), so that a case may be in a group that the service does not know; its
`group` in the model is the one it is then scored in (`scoring_service.py:80`).
`AcceptingStep` compares a set of rows with the same rows where one more is accepted.

### ContestFormats
The five formats as functions of the submissions of one participation, numbered in the
order of their creation, where a queryset is a restriction to some of the numbers: `ProblemResult` is `get_problem_result`, `Combined` what
`calculate_participation` makes of the results of all problems, `Standing` both.
A submission is its problem, the minute of its creation and `out`: result, points
and subtasks, which are `Pending` while it waits. Time is in minutes (the default
format compares seconds); only what the ranking sorts by is kept, the rest of
`format_data` is for display.

### Scoreboard
Participants submit at some minute and are judged, and judged again after a
rejudge, at any later time and in any order. The properties are about what the
formats make of every such history, and about the frozen board, which is computed
from what was created before the freeze, in whatever state that is by now, and
shown from then until the contest ends (`IsFrozen`).

### ContestScore
The score that the control plane stores for one participation. PostgreSQL runs at
READ COMMITTED and the code takes no lock on the participation, so a refresh is
several steps: `BeginReport` writes a result, `ReadProblem` reads the submissions
of the next problem as they are committed at that moment (plus the transaction's
own write), `Commit` saves and commits. `BeginRecalculation` and `BeginLastRefresh` are
refreshes without a result of their own; the end also computes ratings from the
scores it has just saved. `CommitResultOnly` is the refresh that fails and is
logged while the verdict is committed, `Abort` a transaction the database rolls
back, `GiveUp` a job out of attempts, which is settled without a refresh.

Abstracted: all submissions are made in the same minute (times are `Scoreboard`'s
business); saving and committing are one step, for the row lock taken by the save
is held until the commit; one recalculation and one end at a time (the end holds
the lock of the contest and happens once). Rejudges are left out of this module:
they take points back without a refresh, which needs no race to go wrong (see 6).

### Ratings
`contests.tick` reads what is due (`ReadDue`) and starts and ends it contest by contest,
looking again under the row lock (`StartContest`, `BeginEnd`, `CommitEnd`); two runs may
overlap. The events are published inside the transactions, before they commit. A transaction
that commits is one step with its event, since nothing else of it is visible before; one that
fails, or is killed (`FailStart`, `FailEnd`), rolls its mark back (`RollBack`) and may have
published, which `retracted` remembers; a kill also ends the run of the task. A PATCH saves the copy of the row it has read
(`ReadCopy`, `SaveCopy`). `Plan` is what `calculate_ratings` will write; the recalculation
of everything goes contest by contest in a transaction of its own (`BeginAll`, `RedoNext`,
`CommitAll`), and `Command` is the management command, which uses another formula. The
formulas are constants of the model (`Elo`, `SimpleElo`): real arithmetic is left out,
what it is applied to is not.

### Contests
One contest and the requests of its users: a request reads the contest in the router
(`Arrive` takes a copy), then checks, locks and writes in steps of its own (`Join`,
`StartVirtual`, `Create`, `LockEntry`, `CheckLimit`, `Insert`, `Save`), while PATCHes,
disqualifications, changes of the problem list and the clock come between. `FirstOf` is
`.first()` in the model's default order. `welcomed` remembers who could have been let in.

### SubmissionDesk
The endpoints of `apps/submissions` in front of the judge. A creation checks (`CheckSubmission`) and
inserts (`InsertRow`); a change of the public flag or the share token reads the row and saves
a copy (`ReadRow`, `SaveRow`; `Saved` is `save(update_fields=...)`); `CleanupRuns` deletes
old custom runs. `Detail`, `ReadsSource`, `Listed` and `Shared` are what the reading
endpoints show to whom.

### Accounts
The row of one user (`token_version`, `is_banned`), the tokens that have not expired, and
the feeds. Login and refresh read the row and sign later (`Sign`); revocation, password
change, ban and unban read it and save later (`BeginChange`, `SaveChange`), and a ban then
disconnects the feeds in their group (`Disconnect`, which may fail). A feed is checked
(`CheckFeed`) and joins later (`JoinFeed`); `missed` are the feeds in between when a
disconnection was sent, `ended` the sessions that were put an end to, and `overtaken` marks two
changes that overlapped.

### Community
Comments of a post and votes on them as transactions. A creation reads its siblings with
SELECT FOR UPDATE and computes its path from what the statement saw (`LockSiblings`,
`CommitComment`); a vote locks its row and adds a difference to the score (`LockBallot`,
`CommitVote`); either may be rolled back (`AbortWork`).

### PackageRegistry
Imports and activations as transactions that lock row by row, and the admin's action, which
clears and sets outside of any. `ToClear` is what their UPDATE statements match; `raced`
marks that an import or an admin's action overlapped another request.

### Organizations
No request runs in a transaction: `CheckRequest` plans the writes of a request from what it
reads, and each write is a step (`Enter`, `Promote`, `Admit`, `Note`); `Cut` is the end
of a process between two of them. `muddled` are join requests on which two reviews
disagreed, or whose review was cut.

### Pages
The visibility of a problem, a post and a ticket, each as the query of its list (`Lists...`)
and as the check of its page (`Opens...`, `SeesPost`), while they are created, changed,
published, linked and assigned and users become members. The writes that follow the
insertion of a post are steps (`WriteFields`, `WriteOrganizations`), and a process may end
between them (`CutPost`).

### LegacyBridge
Handlers of connections, the registry under the names of their judges, and `Judge.online`.
`Greet` and `Register` are the two halves of `on_connect`, `Leave` and `Unregister` of
`on_disconnect`, `Choose` and `Mark` of a dispatch; `Restart` empties the memory. `rivals`
marks names that two connections used at a time.

### RateLimit
One client's counter in the cache: a request computes the key of its window (`Receive`), adds
it (`Add`) and increments it (`Increment`), and is served or not; keys expire with the clock.

## 3. Runs

| Run | Question | Bounds |
|---|---|---|
| `lease` | Is the protocol safe under arbitrary callers, and does it implement the lifecycle? | 2 judges, 2 jobs (one scored, one custom run), 2 cases, 2 attempts, 1 tick |
| `workers` | Is a verdict one execution's, with crashes, restarts, lost and late calls, rejudges? | 2 workers, 1 job, 2 cases, any 2 upsets, any number of restarts |
| `workers_live` | Is every submission settled while a worker is left? | 2 workers, 1 job, 3 upsets (crashes for good, rejudges), 2 ticks |
| `monitor` | Does the online flag follow the process? | 1 crash, restarts |
| `transactions` | Can callbacks deadlock, are statistics right, is an announced rejudge done? | 2 submissions of one user, 3 backends, 2 claims of a job, 1 rejudge |
| `shadow` | Is a replay's verdict one execution's, does it end, what repeats it? | 1 replay, 2 workers, 2 upsets |
| `ratings` | Are contests started, ended and rated once, and rated for good? | 2 contests, 2 users, 2 overlapping runs of the task, 2 upsets in all (a change of a score, a PATCH, a failure, a recalculation) |
| `standings` | From execution to scoreboard, in four parts | below |
| `requests` | The requests of the web API, in ten parts | below |
| `lost_answer` | Does a job that its worker has forgotten get freed? **Violated** | as `workers_live` with one lost call and no crash |
| `cleanup` | Does the clean-up task rescue what the last worker left? **Violated** | crashes |
| `scoring_shares` | Do accepted cases give full points? **Violated** | up to 3 cases that share 100 points |

Bounds of the parts of `standings`: *execution*: archives of 2 cases with each kind of
defect (no manifest, the older key, too many files, an unknown, broken, failing or slow
checker, a broken validator, a case it rejects) and builds of 2 cases, 5 kinds of
behaviour on each case, 3 lost calls, 1 kill with any cut of the clean-up after it, 2
executions; *score*: 2 cases, 2 groups worth 0, 1.1 or 2.2, sum and minimum, 10 kinds of
report; *board*: 1 participant, 2 problems of 2 submissions, 3
minutes with a freeze at minute 1, 4 outcomes, all formats; *entry*: 1 participation, 2 + 1
submissions, 3 outcomes, format ioi, any number of overlapping transactions, failing
refreshes.

Bounds of the parts of `requests`: two requests at a time in each; *contest*: an outsider, a
holder of the access code and an organizer, 2 participations, 1 submission allowed, 2
PATCHes, a private contest and one of an organization; *desk*: 4 kinds of users, 2 problems, 2 languages, 3
rows, 2 tokens, 3 changes; *account*: 2 sessions, 3 changes, 1 feed; *post*: 4 acts of 2
authors, comments to depth 2 and at most 2 votes; *registry*: 3 archives, 4 requests; *organization*: 1
administrator, 2 users, 2 join requests; *posts* and *tickets*: a guest, staff, an author, a
tester and a user, with a problem beside the ticket; *bridge*: 3 connections of 2 judges;
*limiter*: 3 windows of 2 requests.

Why the bounds are enough. Two judges are what it takes to lose a job to somebody
else and get it back. Two attempts are one expiry that requeues and one that gives
up. One tick of lease separates usable, just ended and stale. Jobs do not interact
in the protocol except through a heartbeat and a sweep, which handle sets; two jobs
cover both, and the proofs cover the rest. Two upsets suffice for every two-event
mishap, such as a call delayed across a rejudge. Three backends are the smallest
circle that is not a pair. Two cases and two groups give
every relation between a case, its group and the others; three cases are the
smallest number whose rounded shares of 100 do not add up. Two submissions to one
problem show what an earlier and a later one do to each other, the second problem
makes totals and, in `ContestScore`, a refresh that reads in two steps. Standings of
different participants do not depend on each other, so one is enough there. Three lost
calls are a retry that succeeds, a call lost for good, and one more. The checks that web requests make
before they write are invalidated by one other request; a third would find what the
second left, which two requests in succession show as well.

`SYMMETRY` is used in safety runs only: the judges of `workers`, submissions and backends
of `transactions`, and the two requests of `requests`. `transactions` also checks an
action property under symmetry; it is a condition on single steps, which TLC evaluates on
each step it generates. `CHECK_DEADLOCK FALSE` is set where the
system may stop: when every worker has died for good, when a contest and its bounded
changes are over, when an execution or the bounded requests are done.

## 4. Fairness

`TimelySpec` of `JudgeWorker` assumes weak fairness of each worker's loop and heartbeat,
and of the clock: a live process runs its goroutines, a request either gets an answer or
fails. (The HTTP client sets no timeout: a request that hangs for ever without
failing is excluded by this assumption, not by the code.) Crashes, restarts,
faults, submissions and rejudges are not fair, and late calls may never arrive.

`HeartbeatInTime` restricts time, not the program: a worker heartbeats every 10
seconds and leases last 60, so the clock does not use up a live worker's lease
between two heartbeats. Without it TLC would report a worker that loses every
lease by being infinitely slow. The safety runs do not assume it. In the
maintenance runs leases may expire under a live worker as well.

`MaintenanceFairness` adds that Celery beat keeps running both tasks and that
each works through its list. `Ratings` assumes the same of `contests.tick`, and that
transactions come to an end; failures, PATCHes and recalculations are bounded and not fair.
`ShadowReplay` assumes fair worker loops and time; its upsets are bounded and not fair.
All other modules are checked for safety and state no fairness.

## 5. Proofs

`JudgeWorkerProofs` proves, for any sets of jobs and judges, any number of cases and
attempts and any lease length, that `JudgeLease!Spec` satisfies `TypeOK`
(`TypeCorrect`), `RowsFromOwner` (`NoForeignRows`), `AttemptsBounded` (`AttemptLimit`),
`VerdictMatchesRows` (`VerdictFollowsRows`), `SubmissionAgrees` (`Agreement`),
`FinalStable` (`SettledForGood`) and `ImplementsLifecycle` (`Implementation`). The only
assumption is `LeaseAssumption` (types of the constants, `MaxAttempts` and `LeaseTicks`
positive, `Nobody` and `NoLease` distinct from judges and numbers). What is proved need
not be run as well: `lease` checks the four properties that a mistake in the code would
break first, and leaves types, attempts and rows-to-verdict to the proofs.

The argument. The invariants are proved together as one inductive invariant (`IInv`,
theorem `Invariance`), since none is inductive alone: that an expiring job's rows are
gone and its lease is well formed needs the shape of the lease by status; that a queued
job has attempts left needs the expiry test and the count at claim; that a verdict
follows from its rows needs that no callback is accepted in a final state, which
is the ownership test. Each action is one step of the proof, with per-job
reasoning inside. The action property and the refinement follow from the
invariant and a case split on the action; a sweep maps to a lifecycle step of each
job it handles and a stutter of the others.

The second half of that module proves, for any number of workers, jobs and upsets and
under `WorkerAssumption` as well, that `JudgeWorker!WSpec` satisfies `WTypeOK`
(`WTypeCorrect`), `OneExecutionPerVerdict` (`OneExecution`), `ClaimsAreExclusive`
(`ExclusiveClaims`) and `ReportedBeforeFinish` (`CompleteReports`), and that
it implements `JudgeLease!Spec` (`WorkersRefineLease`): each step of the workers
and of their calls is a step of the control plane or a stutter, so the theorems
above hold of the composition too. The invariant `WIInv` has seven parts besides
`IInv` and the types. A verdict that mixes two executions would need rows of one
claim and a finish of another. Nobody works under a claim that is still to be made
(`PastClaims`), so a new claim is nobody else's and no call left on its way carries
it (`OwnClaims`); hence only the holder of the latest claim is believed
(`LatestClaim`). Its job has no rows until it posts them, and then exactly the ones
it computed (`RowsPosted`); a finish that it left on its way follows those rows
(`LateFinish`), so the rows behind a verdict are of its claim (`RowsOfClaim`). Calls
of an earlier claim that arrive under a later claim of the same worker break the chain,
which is the exception that `overtaken` marks.

`JudgingTransactionsProofs` proves `CallbacksNeverDeadlock` (`NoDeadlock`) for any number
of processes and any finite set of submissions, its only assumption. The invariant (`LInv`) says
what each kind of transaction holds and has still to lock, and that no row is locked
twice. A row that is waited for ranks above all the rows its waiter holds: job, user,
participation, in this order. Nobody waits for a submission, because whoever wants or
holds one holds its job. So a chain of those who wait for each other climbs to
the participation and ends there.

`ShadowReplayProofs` proves `OneExecutionPerReplay` (`OneReplay`) under `ReplayAssumption`. The
argument is that of the workers, but shorter, because nothing clears the cases of an
earlier attempt: nobody works under a claim still to come (`PastClaims`), so a
worker that the row names works under the latest one (`LatestClaim`); once a finish of
the latest claim is on its way, the cases are of that claim, and whoever may still
replace them is of it too (`CasesFirst`).

`AttemptsAreExplained` (`AttemptsExplained`) adds a count to that: every upset may cost one
attempt, and so may a poll that is still on its way although its worker gave it up
(`LateClaims`), which itself is the trace of an upset. A live worker that holds the lease has
one attempt to spare, which is the one that ends the replay.

Of `JudgingTransactions` two more properties are proved under the same assumption.
`StatsFollowVerdicts` (`StatsFollow`): a finish stores the count of what it saw (`Writes`), and
this is the count of what is committed when it commits, since only another finish that
counted, or a verdict taken back, changes it in between, and both set `muddled`.
`AnnouncedIsDone` (`RejudgeAnnounced`), an action property: a rejudge publishes with all its
locks taken, so it waits for nobody and is never the one that PostgreSQL aborts.

The second half of `ContestProofs` proves, under `RatingsAssumption` (a contest starts before it ends, and an
order of their ends) and for any formulas, the invariant `IInv` (`RatingsInv`), the
invariant `AnnouncedOnce` (`AnnouncedAtMostOnce`) and the action property `RatingsAreFinal`
(`RatingsStay`). One transaction ends a contest at a time and nobody puts back its row
meanwhile, for it holds the row lock (`OneEnd`); a start or end that a row does not show has
been announced at most as often as rows were put back and transactions failed with their
event out (`StillToAnnounce`, `RollBackCounts`); and what an end
plans to write is not on record yet (`PlansAreNew`), which is what the early return of
`calculate_ratings` is worth when the end that follows a PATCH finds ratings there.

The first half of `ContestProofs` is about contests while they run: any format, problems,
subtasks, tries and limits, any number of submissions. Assumptions: problems are worth no
less than nothing (`FormatsAssumption`), and what finish and fail write has no negative
points, and none at all without subtasks (`WellScored`), which is what `Scoring` computes.
Both are needed: the endpoint takes any float for the points of a problem, and in atcoder a
problem of negative points would cost whoever solves it; and in ioi points that come without
subtasks are dropped as soon as another submission has some.

One relation carries these proofs. `Grows(q, r)` says that r has the submissions of q, of
which those that wait may have got their result, and others, all of them later. Every
queryset keeps it (`AttemptsGrow`), no problem loses points over it, whatever the format
(`ResultGrows`: the best of more is no less, and what is accepted stays accepted and within
its tries), so neither does the score (`StandingGrows`), which is a sum of the points of the
problems in all formats (`ScoreIsTotal`).

- `NeverOvercredited` (`CreditHolds`). A transaction reads one problem after the other, so what
  it has read is of different moments. The invariant (`ScoreInv`, `ScoreInvHolds`) says that
  each part is no more than it would read now (`ReadsLast`), which others keep true as
  what they commit only grows what it sees (`SeenGrows`). So the sum is no more than what it
  leaves on record when it commits (`ComputedIsRight`, `Committed`). This needs that a
  submission has one report at a time and waits while it has one (`Reporting`), which is what
  the lock on the job row is for: a second report would replace a result, not add one.
- `FrozenNeverOverstates` (`FrozenHolds`). The frozen board is computed from a beginning of the
  submissions, since they are numbered in the order of their times (`BoardInv`,
  `BoardInvHolds`), and what begins a list grows to the list.
- `SolvedIsSolved` (`SolvedHolds`). Up to the first accepted submission nothing differs
  (`SolvingUpTo`), also among those that icpc counts. In ecoo there are two cases: the accepted
  one is within the tries, as are all before it, or neither it nor any later one is.

`StandingsProofs` proves, for any packages, programs and jobs that are well-formed
(`WellFormed`), the invariant `ExecInv` (`ExecutionHolds`) of `PackageAuthoring`, which
contains `JobExecution`. Faults decide nothing (`FaultsDecideNothing`, `FaultsHold`) because
the place in `Execute` says what has been passed on the way to it (`PassedSoFar`), and this and
the results so far (`ResultsTrue`) determine the case of `Expected` that every ending falls
under. `WellFormed` says that only a validator rejects an input, that a program without a
compiler compiles, and which tools, languages and modes there are.

- `PublishedIsComplete` (`CacheHolds`). What is being unpacked is not
  where the package is looked for, and it is published when all files are there (`CacheWhole`).
  Only a removal that was cut leaves less, and `FaultsDecideNothing` bounds what that can do:
  the jobs of submissions fail (IE), no verdict changes.
- `ModelSolutionPasses` (`ModelSolutionHolds`) needs a second invariant, that every stage
  a build has behind it succeeded (`BuildTrue`), and the positions of the stages
  (`StagesOf`). Assumption (`ModelSolutions`): a model solution prints the right answers if it
  prints any, since the answers are its own, and its language is one of the worker's, which
  `validateProgram` checks (`worker/internal/authoring/spec.go:337`).

The second half of `StandingsProofs` is about what `Scoring` computes from any manifest
that the importer makes and any reports, whatever their number, points and totals
(`ScoringAssumption`: packages have cases, and no points are negative; a report may claim
any integers).

- `AcceptingNeverCosts` (`AcceptingHolds`): a share grows with what is claimed, and never
  exceeds the points of its case, although it is rounded (`ShareIsPart`); so
  do the sum or the minimum of a group with the scores of its cases, its cap, the sum of the
  groups, and the rounding to hundredths. The first form of the property was refuted by
  the proof: a report of 1 point that has no total is measured against the points of its
  case, and may well be worth less than the rejected report it replaces.
- `AcceptedIffFull` (`AcceptedHolds`): sums of group scores reach the sum of the caps only
  if every group reaches its cap, since none exceeds it (`SumsCompare`), and not even then where
  floats add the caps up to more (`Above`, of which `ScoringAssumption` says that it takes two
  groups with points, one of them not a whole number). Hypothesis
  (`WholeHundredths`): caps, and what accepted cases earn, are whole hundredths, so that the
  last rounding is exact; see the remark in 6. The values of the run satisfy it.

These need sums over a set of any size, whose folds are defined by recursion. `SumLemmas`
has what was needed: the library's induction theorems take an operator, but induction over
the subsets of a finite set can be stated for the set of those subsets that have the
property, and follows from the well-founded order of cardinalities (`SubsetInduction`).
With it, a sum takes its elements in any order (`SumsAgree`), takes one element out
(`SumTakes`), is changed by one element by the difference (`SumsDiffer`), grows with its
summands and only with them (`SumsCompare`), and is a multiple of what they are multiples
of (`SumOfMultiples`). It also has that finitely many naturals have a greatest
(`GreatestOfNaturals`), which `ContestProofs` and `RecordsProofs` use.

`RecordsProofs` has the records that requests share. Each invariant says, besides the types,
what a request under way knows, and that the steps of others leave it true:

- `RevokedStaysRevoked` (`RevocationHolds`) and `BannedIsCutOff` (`BanHolds`): `Dated` says of
  every token, and of every copy from which one will be signed, that its version is one
  the user has had, and an earlier one if its session was ended; unless two changes overtook each other. A
  ban has still to be announced, or every feed that is left is in `missed` (`BanReaches`).
  Assumption: the lifetime of an access token is a natural number.
- `Membership` (`MembershipHolds`): a write that will note an approval comes after the one
  that admits the user, which comes first in its plan (`Grounded`); a plan that is cut in
  between leaves its row in `muddled`.
- `OneActivePackage` (`PackagesSafe`): a task that runs alone is the only one that runs
  (`LoneRuns`), and of the active packages it has seen all but those it has yet to switch off
  or has switched off (`Informed`). Assumption: finitely many archives, so that there is a
  highest version (`GreatestOfNaturals`).
- `OwnPlaces` (`PlacesSafe`): a request knows all the siblings of its comment, or that it was
  overlapped (`Aware`), so its number is above theirs; siblings are therefore numbered in
  the order of their creation (`Numbered`), and a path determines the parent's path and
  the number (`AppendInjective`). Assumption: the bound `MaxActs` is a number.
- `ScoreIsSumOfVotes` (`ScoresHold`): the difference that a vote adds is the one by which the sum
  of the ballots changes (`VoteCounts`), and nobody has voted on a comment that is yet to be
  written (`Tallied`). Assumption: finitely many authors.
- `RegistryIsLive` (`RegistrySafe`): two connections of one name are on record (`RivalsKnown`),
  and without a rival a judge is online from its greeting on (`GreetedIsOnline`). Assumption:
  every connection has a name, and `None` is no connection.

`RequestsProofs` has the properties of the other parts and of the whole:

- `LimitHolds` (`LimitKept`) and `NoBootstrap` (`NobodySlipsIn`), for any users, problems,
  requests and PATCHes, any time limit and any `Limit` in Nat. A request that was allowed
  inserts later, so what it counted must still be so: it holds the lock of its participation
  (`LocksHeld`), and only under that lock does anybody insert (`RoomLeft`). For
  `NoBootstrap`, every copy of the row that a request carries is a state the row has had, and
  so accounted for in the history (`Noted`). `ScheduleValid` (`ScheduleKept`) is inductive as
  it stands, given that contests are created with a valid schedule (`ContestAssumption`, which
  `create_contest` checks): a PATCH saves every field of the copy it has checked. The mutant
  that saves the fields that were sent breaks it.
- `WindowBounded` (`WindowsBounded`): what was served in a window is at most what its key
  counted, and a key that is there outlives its window (`KeyOutlivesWindow`).
- `RowsBounded`, `DeadTokensStayDead` and `DetailsAgree` (`DeskSafe`): the rows that count
  and the requests that have passed the check together exceed the limit by the overlap alone
  (`RateKept`); this needs that the clean-up never takes a row that still counts
  (`GoneAreOld`, from `RowWindow <= Retention`). A token that is out of use is nobody's, and a
  token in use is one row's (`TokensApart`).
- `ListsAgree` and `NoPreview` (`PagesSafe`): a post that its creator wants private is, or
  is about to be and has no date yet (`PrivateOrComing`).
- `PartsKeepTheirSpecs` shows that `RequestsSpec` implements the specification of each part. Hence
  `RateBounded` (`RatesHold`), `ViewsAgree` (`ViewsHold`) and, together with the module
  above, all safety properties of the run `requests` (`RequestsSafe`).

The assumptions on constants are named in the modules that declare them and evaluated in
every run. `DeskAssumption`, `PagesAssumption` and `RateAssumption` say of what kind the
constants are; what they say of the program is that rate limits are not negative, the window
of the middleware is positive, and runs are kept at least as long as they count.

Only model-checked: liveness under fairness and ENABLED, which are outside the prover's
reach (`EventuallySettled`, `AbandonedIsFreed`, `OnlineFollowsProcess`, `DueEnds`,
`ReplaysEnd`). Every safety property of the passing runs is proved.

## 6. Findings

Three places where the code and what its documents, comments or tests say differ
are recorded in `PROJECT.json`, each with a run that shows it: a forgotten job kept alive
by heartbeats for ever (`lost_answer`); a clean-up task whose filter never matches a pull
job (`cleanup`); rounded shares that keep a fully accepted submission from being accepted
(`scoring_shares`).

The other differences and limits met while modelling are listed here. The models have
the behaviour of the code; where a property has an exception, its comment names it.

Judging:

- `start` on a running job extends the lease without looking at its expiry
  (`judge_result_service.py:86`), while `docs/judge/protocol-v1.md:154` says that it rejects
  expired jobs.
- Without partial scores the points are reset only when the result is not CE or IE
  (`scoring_service.py:106`), while `docs/judge/protocol-v1.md:185` says that any
  non-AC case yields zero points.
- `rejudge_submission` and `expire_stale_jobs` change a result without refreshing the
  participation: a rejudged submission that ends as IE leaves its old points on the
  scoreboard until the next refresh. A rejudge uses the package of the job, not the active one.
- A rejudge and a callback, or a callback and the end of a contest, can wait for each
  other; PostgreSQL then aborts one of them, which a worker sees as a failed call.
- `rejudge_problem` stops at the first submission that a clean-up deleted meanwhile, and
  `cleanup_runs` deletes old custom runs while they are being judged.
- User statistics count submissions before the user's row is locked (`submissions/signals.py`), so
  two verdicts at once may leave the smaller count; an error or a rejudge never counts again.
- Shadow replays: heartbeats do not extend their leases, `max_attempts` is never read, and
  a failed replay keeps the cases of an earlier attempt.
- The legacy bridge: a second connection of the same name replaces the first, whose end
  then unregisters it and marks the judge offline; a restart leaves the online flag; the save of
  a dispatch can overwrite a result that came first; a result, had it a sender, would overwrite
  what the pull protocol has settled (`submission_service.py:378`); the registry is in the memory of one process
  while `judge_submission` runs in a Celery worker.

Execution and packages:

- A compiler that the sandbox could not run (`InternalError`) is reported as CE
  (`worker/internal/runner/runner.go:78`); `docs/judge/protocol-v1.md:225` maps that status to IE.
- The clean-up of the package cache removes a directory entry by entry (`package/store.go:114`).
  A kill in between, or an error, which is only logged (`cmd/judgeloom-worker/main.go:30`), may
  leave `manifest.json` without the rest; as the removal has renewed the directory's age, no
  clean-up of the next three days touches it, and `Ensure` (`store.go:60`) takes it for the
  package: each job of it on this worker that needs a missing file ends as IE, a verdict. If
  `manifest.json` went first, the package is fetched for every job and never published, for
  `os.Rename` refuses a directory that is there. `docs/operations/troubleshooting.md:41` names
  the cure, to remove the directory, for files with a wrong hash.
- A checker that runs out of time is held against the participant, and an interactor
  is compiled without `testlib.h`.
- Importer and worker disagree on the case of the checker's type, on the key "output", on
  archives with more than 1000 files and on archives without `manifest.json`, which
  the importer accepts (`tests/test_problem_packages.py:25`) and no worker can judge.
- A build that fails for the size of the archive has already removed the old output
  (`worker/internal/authoring/builder.go:283`); `docs/judge/package-authoring.md:138` says
  it is only replaced after the whole build succeeds.
- Concurrent imports leave two active packages, or two with one version, and the admin's
  "Activate selected package" may leave none: `docs/reference/package-format.md:134` says
  "Each problem has one active package".

Contests and ratings:

- A refresh of a score that read earlier and saves later loses a result: two transactions that finish,
  or a finish and a recalculation, leave the stored score without one of
  them until the next refresh (`contests/formats/base.py:56`, `judge_result_service.py:59`).
  `NeverOvercredited` is what remains true.
- `end_contest` computes ratings at once and never again, though submissions made in time may still
  be judged afterwards; `recalculate_all_ratings` rates contests that are not over;
  the command `recalculate_ratings` uses another formula; `max_rating` is computed from
  a copy of the user. The task `contests.recalculate_contest_rankings` is never scheduled.
- A PATCH saves the whole row it read, with `started_at` and `ended_at`: a contest may be
  started or ended, and announced, twice. `start_contest` and `end_contest` publish before they
  commit (`contest_lifecycle_service.py:60`, `:88`): a failed commit, or a kill in between,
  takes the mark back and not the event, and the next run of the task announces again.
- The legacy bridge writes the points of a submission and not its subtasks
  (`submission_service.py:380`): in ioi these points are dropped once another submission to
  the problem has subtasks (`contests/formats/ioi.py:71`), so that a participation judged by both protocols
  may lose points by submitting more. `ContestScore` and `Scoreboard` have the pull protocol only.
- `get_frozen_ranking` sorts by standings computed anew (`ranking_service.py:76`); its
  docstring (`:58`) promises the order of the stored metrics.
- `submit_to_contest` takes the first participation in the model's default
  order, by score: a live or a virtual one, whichever is better, and the submission may be refused although
  the other would take it. Two joins at once may create two participations. A banned user
  with a participation may still submit, and a disqualified one start a virtual one.

Web requests:

- The form of `UserAdmin` (`accounts/admin.py:38`) changes passwords and bans without raising
  `token_version` and without disconnecting feeds; `RevokedStaysRevoked` and `BannedIsCutOff` are
  about the API alone.
- Two changes of `token_version` that overlap write the same number
  (`accounts/services/auth_service.py:212`), so a token signed between them survives the
  second, against the docstring in line 210.
- A feed between its check and its group misses the disconnection of a ban
  (`submissions/consumers.py:31`).
- The first siblings under a comment have no row to lock, so two at once get one path. Replies
  to these two, with one number each, share a path again although nothing overlapped them
  (`comment_service.py:62`): a path names a thread only as far up as nobody was overlapped.
  `create_user` checks that a name is free and then creates, in two steps.
- A membership request approved and rejected from copies read before may end as rejected with
  the user a member; so may one whose approval is cut in half. Joining never checks `access_code`.
- A post created or patched as "published" has no publication date, so that only staff see
  it until the publish endpoint sets one; authors may edit but not view their drafts; a post
  whose creation was cut before its privacy was written, and which is published later, is public.
- A PATCH of a ticket validates `linked_problem_id` and then ignores it (`ticket_service.py:53`);
  a ticket may be assigned to a user who cannot open it; unlisted problems are listed.
- The rate limit of the desk counts and then creates, so requests that are checked together exceed it; a
  request held up past its window may restart the count of that past window.

Two remarks on `AcceptedIffFull`. It is stated for group points in whole
hundredths. With finer group points (a cap of 0.004, say) the final rounding to
hundredths may differ from the exact sum in either direction. And the groups' points
are added as floats and not rounded: with groups of 1.1 and 2.2 points the total is
3.3000000000000003, the points of a full submission are 3.3, and no submission is ever
accepted. The property excepts these packages (`Above`), and says of them that none is.

## 7. Not modelled, and the plan

Partly modelled, and what is left: judge maintenance (token rotation and blocking, single
writes by staff); packages (the download is a read); ratings (the formula itself, real
arithmetic); comments (texts and edits); accounts (registration, profiles, e-mail); problem
pages (statistics, editorial solutions); the forms of the admin site, except the activation of
packages; events (delivery is done by Channels and Redis).

Not modelled: core infrastructure and configuration (caching of GET responses, validators,
pagination, settings) and tags, which are single-row operations without interaction.

What would come next, in this order:

1. Two participants in `ContestScore`, so that the end of a contest and its ratings meet the
   refreshes of several participations.
2. The composition of `JobExecution` with `JudgeWorker`, in place of its single step `Execute`.
