---------------------------- MODULE JudgeWorker -----------------------------
(***************************************************************************)
(* The Go worker loop (worker.Run and its heartbeat goroutine) together    *)
(* with the control plane of JudgeLease.                                   *)
(*                                                                         *)
(* A worker makes one call at a time and waits for the answer.  Any answer *)
(* other than success, from the server or from the network, makes it log,  *)
(* forget the job and poll again; it never repeats a call.  A call that it *)
(* has given up, or made just before it died, may never reach the server,  *)
(* or reach it at any later time.  The heartbeat goroutine runs beside the *)
(* loop for as long as the process lives, whatever the loop is doing.      *)
(*                                                                         *)
(* epoch, under, rowsEpoch and overtaken are history variables: they number*)
(* the claims of a job and remember under which claim work was done.       *)
(***************************************************************************)
EXTENDS JudgeLease

CONSTANTS
  NoJob,      \* a worker without a job
  Upsets,     \* the kinds of upset that happen: see UpsetKinds
  MaxUpsets   \* bound: crashes, lost answers and rejudges in a behaviour

UpsetKinds == {"crash", "restart", "fault", "rejudge"}

ASSUME WorkerAssumption ==
  /\ NoJob \notin Jobs
  /\ Upsets \subseteq UpsetKinds
  /\ MaxUpsets \in Nat

VARIABLES
  pc,         \* where each worker's loop is
  job,        \* the job it believes it has
  report,     \* the case results it computed and is about to post
  late,       \* calls on their way whose caller is not waiting any more
  epoch,      \* history: number of times each job has been claimed
  under,      \* history: the claim (epoch) a worker's job came from
  rowsEpoch,  \* history: the claim under which a job's rows were computed
  overtaken,  \* history: jobs that a call of an earlier round has touched
  upsets      \* how many upsets there have been

workerVars == <<pc, job, report, under>>
history == <<epoch, rowsEpoch, overtaken>>
wvars == <<vars, workerVars, late, history, upsets>>

\* The calls the loop makes about a job, in order; "fail" replaces the last two.
Calls == {"start", "cases", "finish", "fail"}
Loop == {"idle", "claim", "exec"} \cup Calls

\* What Execute returns: results for all cases in order, or up to the first
\* rejected one when the problem short-circuits.
Reports == {b \in Batches :
              \E n \in Cases : /\ DOMAIN b = 1 .. n
                               /\ n < CaseCount => b[n] # "AC"}

WInit ==
  /\ Init
  /\ pc = [w \in Judges |-> "idle"]
  /\ job = [w \in Judges |-> NoJob]
  /\ report = [w \in Judges |-> <<>>]
  /\ under = [w \in Judges |-> 0]
  /\ late = {}
  /\ epoch = [j \in Jobs |-> 0]
  /\ rowsEpoch = [j \in Jobs |-> 0]
  /\ overtaken = {}
  /\ upsets = 0

\* The variables of a loop round are gone.
Forget(w, next) ==
  /\ pc' = [pc EXCEPT ![w] = next]
  /\ job' = [job EXCEPT ![w] = NoJob]
  /\ report' = [report EXCEPT ![w] = <<>>]
  /\ under' = [under EXCEPT ![w] = 0]

\* The call that worker w is making.
InFlight(w) == [call |-> pc[w], by |-> w, job |-> job[w], report |-> report[w],
                under |-> under[w]]

\* The claim call reaches the server, which sweeps expired leases first.  No
\* row is locked by another transaction here, so it sweeps all of them.
SendClaim(w) ==
  /\ pc[w] = "idle"
  /\ ExpireStaleJobs(StaleJobs)
  /\ pc' = [pc EXCEPT ![w] = "claim"]
  /\ UNCHANGED <<job, report, under, late, history, upsets>>

Eligible(w) == {j \in Jobs : status[j] = "queued" /\ <<w, j>> \in Speaks}

ReceiveJob(w) ==
  /\ pc[w] = "claim"
  /\ \E j \in Eligible(w) :
       /\ ClaimJob(w, j)
       /\ epoch' = [epoch EXCEPT ![j] = @ + 1]
       /\ under' = [under EXCEPT ![w] = epoch[j] + 1]
       /\ job' = [job EXCEPT ![w] = j]
  /\ pc' = [pc EXCEPT ![w] = "start"]
  /\ UNCHANGED <<report, late, rowsEpoch, overtaken, upsets>>

ReceiveNothing(w) ==
  /\ pc[w] = "claim"
  /\ Eligible(w) = {}
  /\ pc' = [pc EXCEPT ![w] = "idle"]
  /\ UNCHANGED <<vars, job, report, under, late, history, upsets>>

\* Execute succeeds, or fails to compile or to run.
Execute(w) ==
  /\ pc[w] = "exec"
  /\ \/ /\ \E b \in Reports : report' = [report EXCEPT ![w] = b]
        /\ pc' = [pc EXCEPT ![w] = "cases"]
     \/ /\ pc' = [pc EXCEPT ![w] = "fail"]
        /\ UNCHANGED report
  /\ UNCHANGED <<vars, job, under, late, history, upsets>>

\* The server accepts call m.
Accept(m) ==
  /\ \/ /\ m.call = "start"
        /\ StartJob(m.by, m.job) \/ RestartJob(m.by, m.job)
     \/ /\ m.call = "cases"
        /\ RecordCases(m.by, m.job, m.report)
     \/ /\ m.call = "finish"
        /\ FinishJob(m.by, m.job)
     \/ /\ m.call = "fail"
        /\ \E code \in {"CE", "IE"} : FailJob(m.by, m.job, code)
  /\ rowsEpoch' = [j \in Jobs |-> IF m.call = "cases" /\ j = m.job THEN m.under
                                  ELSE rowsEpoch[j]]
  /\ UNCHANGED epoch

Acceptable(m) ==
  \/ Owns(m.by, m.job) /\ (m.call = "start" => status[m.job] = "claimed")
  \/ m.call = "start" /\ status[m.job] = "running" /\ claimedBy[m.job] = m.by

Answered(w) ==
  /\ pc[w] \in Calls
  /\ Accept(InFlight(w))
  /\ \/ /\ pc[w] = "start"
        /\ pc' = [pc EXCEPT ![w] = "exec"]
        /\ UNCHANGED <<job, report, under>>
     \/ /\ pc[w] = "cases"
        /\ pc' = [pc EXCEPT ![w] = "finish"]
        /\ UNCHANGED <<job, report, under>>
     \/ /\ pc[w] \in {"finish", "fail"}
        /\ Forget(w, "idle")
  /\ UNCHANGED <<late, overtaken, upsets>>

\* 403 or 409: the job is not the worker's any more, or its lease has run out.
Refused(w) ==
  /\ pc[w] \in Calls
  /\ ~Acceptable(InFlight(w))
  /\ Forget(w, "idle")
  /\ UNCHANGED <<vars, late, history, upsets>>

\* The call in flight, if there is one, is lost or left on its way.
Abandon(w) ==
  \/ late' = late
  \/ pc[w] \in Calls \cup {"claim"} /\ late' = late \cup {InFlight(w)}

\* One more upset, if that kind happens and the bound allows it.
Upset(kind) ==
  /\ kind \in Upsets
  /\ upsets < MaxUpsets
  /\ upsets' = upsets + 1

\* The network fails while the worker waits for an answer.
Fault(w) ==
  /\ pc[w] \in Calls \cup {"claim"}
  /\ Upset("fault")
  /\ Abandon(w)
  /\ Forget(w, "idle")
  /\ UNCHANGED <<vars, history>>

\* A call nobody waits for reaches the server: m belongs to an earlier round of
\* its worker than the claim the job is under now, or is a claim of a job that
\* its worker has in hand.
Overtakes(m, j) == IF m.call = "claim" THEN job[m.by] = j ELSE m.under # epoch[j]

Deliver(m) ==
  /\ m \in late
  /\ late' = late \ {m}
  /\ \/ /\ m.call = "claim"
        /\ \E j \in Eligible(m.by) :
             /\ ClaimJob(m.by, j)
             /\ epoch' = [epoch EXCEPT ![j] = @ + 1]
             /\ overtaken' = IF Overtakes(m, j) THEN overtaken \cup {j} ELSE overtaken
        /\ UNCHANGED rowsEpoch
     \/ /\ m.call # "claim"
        /\ Accept(m)
        /\ overtaken' = IF Overtakes(m, m.job) THEN overtaken \cup {m.job} ELSE overtaken
     \/ /\ IF m.call = "claim" THEN Eligible(m.by) = {} ELSE ~Acceptable(m)
        /\ UNCHANGED <<vars, history>>
  /\ UNCHANGED <<workerVars, upsets>>

\* The heartbeat goroutine.
SendHeartbeat(w) ==
  /\ pc[w] # "down"
  /\ Heartbeat(w)
  /\ UNCHANGED <<workerVars, late, history, upsets>>

Crash(w) ==
  /\ pc[w] # "down"
  /\ Upset("crash")
  /\ Abandon(w)
  /\ Forget(w, "down")
  /\ UNCHANGED <<vars, history>>

\* A new process registers under the same token and starts polling.
Restart(w) ==
  /\ pc[w] = "down"
  /\ "restart" \in Upsets
  /\ pc' = [pc EXCEPT ![w] = "idle"]
  /\ UNCHANGED <<vars, job, report, under, late, history, upsets>>

Submit(j) ==
  /\ CreateSubmission(j)
  /\ UNCHANGED <<workerVars, late, history, upsets>>

AskRejudge(j) ==
  /\ Upset("rejudge")
  /\ Rejudge(j)
  /\ UNCHANGED <<workerVars, late, history>>

Clock ==
  /\ Tick
  /\ UNCHANGED <<workerVars, late, history, upsets>>

LoopStep(w) ==
  \/ SendClaim(w)
  \/ ReceiveJob(w)
  \/ ReceiveNothing(w)
  \/ Execute(w)
  \/ Answered(w)
  \/ Refused(w)

\* Everything but the calls that say a worker is alive.
QuietStep ==
  \/ \E w \in Judges : LoopStep(w)
  \/ \E m \in late : Deliver(m)
  \/ \E w \in Judges : Fault(w)
  \/ \E w \in Judges : Crash(w)
  \/ \E j \in Jobs : Submit(j)
  \/ \E j \in Jobs : AskRejudge(j)
  \/ Clock

WNext ==
  \/ QuietStep
  \/ \E w \in Judges : SendHeartbeat(w)
  \/ \E w \in Judges : Restart(w)

WSpec == WInit /\ [][WNext]_wvars

\* A live process keeps executing its loop and its heartbeat goroutine, and time
\* passes.  Faults, crashes, restarts and what
\* users do are not fair, and a call nobody waits for may never arrive.
Fairness ==
  /\ \A w \in Judges : /\ WF_wvars(LoopStep(w))
                       /\ WF_wvars(SendHeartbeat(w))
  /\ WF_wvars(Clock)

\* A worker heartbeats every 10 seconds and a lease lasts 60, so no lease of a
\* live worker gets old: time does not use one up before the next heartbeat.
HeartbeatInTime ==
  \A j \in Jobs : status[j] \in Active /\ pc[claimedBy[j]] # "down" => lease[j] > 1

TimelySpec == /\ WInit
              /\ [][WNext /\ (Clock => HeartbeatInTime)]_wvars
              /\ Fairness

-----------------------------------------------------------------------------
(* Properties *)

\* Every variable has its type.
WTypeOK ==
  /\ TypeOK
  /\ pc \in [Judges -> Loop \cup {"down"}]
  /\ job \in [Judges -> Jobs \cup {NoJob}]
  /\ report \in [Judges -> Reports \cup {<<>>}]
  /\ late \subseteq {m \in [call : Calls \cup {"claim"}, by : Judges,
                            job : Jobs \cup {NoJob}, report : Reports \cup {<<>>},
                            under : Nat] : m.call = "claim" <=> m.job = NoJob}
  /\ epoch \in [Jobs -> Nat]
  /\ under \in [Judges -> Nat]
  /\ rowsEpoch \in [Jobs -> Nat]
  /\ overtaken \subseteq Jobs

\* A verdict comes from one execution: the rows behind a finished job were
\* reported, and computed, under the very claim that finished it, whatever
\* crashes, restarts, lost calls and rejudges came before.  The server knows
\* the judge of a callback but not the claim it belongs to, so a call that stays
\* on its way until the same worker holds the job again is the one exception.
OneExecutionPerVerdict ==
  \A j \in Jobs \ overtaken : status[j] = "succeeded" =>
    /\ rows[j] # NoRows
    /\ rowsEpoch[j] = epoch[j]

\* docs/judge/protocol-v1.md:155: two workers never receive the same job.  Two
\* may work on it, but never under the same claim, and only the one whose claim
\* is the latest is still believed by the server.
ClaimsAreExclusive ==
  \A v, w \in Judges :
    /\ v # w /\ job[v] # NoJob /\ job[v] = job[w] => under[v] # under[w]
    /\ job[w] \in Jobs \ overtaken /\ Owns(w, job[w]) => under[w] = epoch[job[w]]

\* When a worker is about to finish a job that the server believes it has, the
\* rows on record are the ones it computed, not fewer and not others.
ReportedBeforeFinish ==
  \A w \in Judges :
    pc[w] = "finish" /\ job[w] \notin overtaken /\ Owns(w, job[w]) =>
      \A c \in Cases : rows[job[w]][c] =
        IF c \in DOMAIN report[w] THEN [verdict |-> report[w][c], by |-> w] ELSE NoRow

\* Some worker that is up can judge j.
CanBeJudged(j) == \E w \in Judges : pc[w] # "down" /\ <<w, j>> \in Speaks

\* With workers that may die at any point of their loop, and as long as one is
\* left that speaks the language, every submission is eventually settled: the
\* claim of a dead worker runs out, and the polling of the others frees its job.
EventuallySettled ==
  \A j \in Jobs : status[j] = "queued" ~> status[j] \in Final \/ ~CanBeJudged(j)

\* docs/reference/glossary.md:23: a lease is a time-bounded claim.  A job that no
\* worker works on does not stay claimed while there are workers to judge it.
AbandonedIsFreed ==
  \A j \in Jobs : status[j] \in Active /\ (\A w \in Judges : job[w] # j)
                    ~> \/ status[j] \notin Active
                       \/ \E w \in Judges : job[w] = j
                       \/ ~CanBeJudged(j)

=============================================================================
