---------------------------- MODULE ShadowReplay -----------------------------
(***************************************************************************)
(* Shadow replays: staff queue a non-scoring execution of a submission,    *)
(* maybe pinned to one judge, and workers in shadow mode claim it, run it  *)
(* and report (ShadowJobService and worker.Run with the ShadowClient).     *)
(*                                                                         *)
(* It differs from the scoring protocol of JudgeLease where it matters:    *)
(* one transaction sweeps and claims, an expired replay is queued again    *)
(* whatever its number of attempts and keeps the cases it has, a callback  *)
(* extends the lease but a heartbeat does not, and no call is idempotent.  *)
(*                                                                         *)
(* claims, under and overtaken are history variables, as in JudgeWorker.   *)
(***************************************************************************)
EXTENDS Integers, FiniteSets

CONSTANTS
  Replays,     \* the shadow jobs that may be created
  Workers,     \* the judges that run a worker in shadow mode
  Nobody,      \* no judge: an unclaimed replay, or one without a target
  NoReplay,    \* a worker without a replay
  LeaseTicks,  \* ticks a lease lasts
  Upsets,      \* the kinds of upset that happen: see UpsetKinds
  MaxUpsets    \* bound: upsets in a behaviour

UpsetKinds == {"crash", "fault", "slow"}

ASSUME ReplayAssumption ==
  /\ Nobody \notin Workers
  /\ NoReplay \notin Replays
  /\ LeaseTicks \in Nat \ {0}
  /\ Upsets \subseteq UpsetKinds
  /\ MaxUpsets \in Nat

VARIABLES
  replay,     \* the shadow_job rows
  worker,     \* the loops of the workers
  late,       \* calls on their way whose caller is not waiting any more
  claims,     \* history: how often each replay has been claimed
  overtaken,  \* history: replays that a call of an earlier round has touched
  upsets      \* how many upsets there have been

vars == <<replay, worker, late, claims, overtaken, upsets>>

Active == {"claimed", "running"}
Final == {"succeeded", "failed"}
Verdicts == {"AC", "WA"}
Calls == {"start", "cases", "finish", "fail"}

\* What an execution reports, with the claim it ran under (0: nothing yet).
Reports == [verdict : Verdicts \cup {"none"}, under : Nat]
NoReport == [verdict |-> "none", under |-> 0]

\* A row before it is created; lease is 0 when there is none or it ran out.
Absent == [status |-> "absent", by |-> Nobody, target |-> Nobody, lease |-> 0,
           attempts |-> 0, cases |-> NoReport, result |-> "none"]
Idle == [pc |-> "idle", job |-> NoReplay, report |-> NoReport, under |-> 0]

Init ==
  /\ replay = [r \in Replays |-> Absent]
  /\ worker = [w \in Workers |-> Idle]
  /\ late = {}
  /\ claims = [r \in Replays |-> 0]
  /\ overtaken = {}
  /\ upsets = 0

-----------------------------------------------------------------------------
(* The server *)

Stale(r) == replay[r].status \in Active /\ replay[r].lease = 0

\* Mutant: the sweep frees the replays that were claimed but never started.
SweptUnstarted(r) ==
  IF Stale(r) /\ replay[r].status = "claimed"
  THEN [replay[r] EXCEPT !.status = "queued", !.by = Nobody] ELSE replay[r]

\* The row after the sweep that opens every claim.
Swept(r) ==
  IF Stale(r) THEN [replay[r] EXCEPT !.status = "queued", !.by = Nobody]
  ELSE replay[r]

ForWorker(r, w) == /\ Swept(r).status = "queued"
                   /\ Swept(r).target \in {Nobody, w}

\* Mutant: a claim is given without a lease.
ClaimUnleased(r, w) ==
  /\ ForWorker(r, w)
  /\ replay' = [q \in Replays |->
       IF q = r THEN [Swept(r) EXCEPT !.status = "claimed", !.by = w,
                                      !.attempts = @ + 1]
       ELSE Swept(q)]
  /\ claims' = [claims EXCEPT ![r] = @ + 1]

\* Priority and age choose among the queued replays; any may come first.
Claim(r, w) ==
  /\ ForWorker(r, w)
  /\ replay' = [q \in Replays |->
       IF q = r THEN [Swept(r) EXCEPT !.status = "claimed", !.by = w,
                                      !.attempts = @ + 1, !.lease = LeaseTicks]
       ELSE Swept(q)]
  /\ claims' = [claims EXCEPT ![r] = @ + 1]

\* No replay is for w: the sweep is all a claim does.
ClaimNothing(w) ==
  /\ \A r \in Replays : ~ForWorker(r, w)
  /\ replay' = [r \in Replays |-> Swept(r)]
  /\ UNCHANGED claims

Owns(r, w) ==
  /\ replay[r].by = w
  /\ replay[r].lease > 0
  /\ replay[r].status \in Active

\* The row after callback m: start, record_cases, finish or fail.
Started(row) == [row EXCEPT !.status = "running", !.lease = LeaseTicks]

\* Mutant: the cases a replay already has are kept.
RecordedOnce(row, report) ==
  IF row.cases = NoReport THEN [Started(row) EXCEPT !.cases = report] ELSE Started(row)

Recorded(row, report) == [Started(row) EXCEPT !.cases = report]

\* Without cases the worker's word would count, but it always sends one.
Finished(row) ==
  [row EXCEPT !.status = "succeeded", !.lease = 0, !.result = row.cases.verdict]

\* The cases of an earlier attempt stay on the row.
FailedWith(row, code) ==
  [row EXCEPT !.status = "failed", !.lease = 0, !.result = code]

Accept(m) ==
  /\ Owns(m.job, m.by)
  /\ \/ /\ m.call = "start"
        /\ replay' = [replay EXCEPT ![m.job] = Started(@)]
     \/ /\ m.call = "cases"
        /\ replay' = [replay EXCEPT ![m.job] = Recorded(@, m.report)]
     \/ /\ m.call = "finish"
        /\ replay' = [replay EXCEPT ![m.job] = Finished(@)]
     \/ /\ m.call = "fail"
        /\ \E code \in {"CE", "IE"} :
             replay' = [replay EXCEPT ![m.job] = FailedWith(@, code)]
  /\ UNCHANGED claims

\* Staff ask for a replay, on one judge or on any.
Create(r) ==
  /\ replay[r].status = "absent"
  /\ \E t \in Workers \cup {Nobody} :
       replay' = [replay EXCEPT ![r].status = "queued", ![r].target = t]
  /\ UNCHANGED <<worker, late, claims, overtaken, upsets>>

-----------------------------------------------------------------------------
(* The worker *)

\* One more upset, if that kind happens and the bound allows it.
Upset(kind) == kind \in Upsets /\ upsets < MaxUpsets /\ upsets' = upsets + 1

InFlight(w) == [call |-> worker[w].pc, by |-> w, job |-> worker[w].job,
                report |-> worker[w].report, under |-> worker[w].under]

Poll(w) ==
  /\ worker[w].pc = "idle"
  /\ worker' = [worker EXCEPT ![w].pc = "claim"]
  /\ UNCHANGED <<replay, late, claims, overtaken, upsets>>

\* The claim reaches the server and its answer the worker.
Claimed(w) ==
  /\ worker[w].pc = "claim"
  /\ \/ \E r \in Replays :
          /\ Claim(r, w)
          /\ worker' = [worker EXCEPT ![w].pc = "start", ![w].job = r,
                                      ![w].under = claims[r] + 1]
     \/ /\ ClaimNothing(w)
        /\ worker' = [worker EXCEPT ![w] = Idle]
  /\ UNCHANGED <<late, overtaken, upsets>>

Execute(w) ==
  /\ worker[w].pc = "exec"
  /\ \/ \E v \in Verdicts :
          worker' = [worker EXCEPT
            ![w].pc = "cases",
            ![w].report = [verdict |-> v, under |-> worker[w].under]]
     \/ worker' = [worker EXCEPT ![w].pc = "fail"]
  /\ UNCHANGED <<replay, late, claims, overtaken, upsets>>

Answered(w) ==
  /\ worker[w].pc \in Calls
  /\ Accept(InFlight(w))
  /\ worker' = [worker EXCEPT ![w] =
       CASE @.pc = "start" -> [@ EXCEPT !.pc = "exec"]
         [] @.pc = "cases" -> [@ EXCEPT !.pc = "finish"]
         [] OTHER -> Idle]
  /\ UNCHANGED <<late, overtaken, upsets>>

\* 403 or 409: log it, forget the replay, poll again.
Refused(w) ==
  /\ worker[w].pc \in Calls
  /\ ~Owns(worker[w].job, w)
  /\ worker' = [worker EXCEPT ![w] = Idle]
  /\ UNCHANGED <<replay, late, claims, overtaken, upsets>>

\* The call in flight, if there is one, is lost or left on its way.
Abandon(w) ==
  \/ late' = late
  \/ worker[w].pc \in Calls \cup {"claim"} /\ late' = late \cup {InFlight(w)}

Fault(w) ==
  /\ worker[w].pc \in Calls \cup {"claim"}
  /\ Upset("fault")
  /\ Abandon(w)
  /\ worker' = [worker EXCEPT ![w] = Idle]
  /\ UNCHANGED <<replay, claims, overtaken>>

Crash(w) ==
  /\ worker[w].pc # "down"
  /\ Upset("crash")
  /\ Abandon(w)
  /\ worker' = [worker EXCEPT ![w] = [Idle EXCEPT !.pc = "down"]]
  /\ UNCHANGED <<replay, claims, overtaken>>

Restart(w) ==
  /\ worker[w].pc = "down"
  /\ worker' = [worker EXCEPT ![w] = Idle]
  /\ UNCHANGED <<replay, late, claims, overtaken, upsets>>

\* A call nobody waits for reaches the server.
Deliver(m) ==
  /\ m \in late
  /\ late' = late \ {m}
  /\ \/ /\ m.call = "claim"
        /\ \E r \in Replays :
             /\ Claim(r, m.by)
             /\ overtaken' = IF worker[m.by].job = r THEN overtaken \cup {r}
                             ELSE overtaken
     \/ m.call = "claim" /\ ClaimNothing(m.by) /\ UNCHANGED overtaken
     \/ /\ m.call # "claim"
        /\ Accept(m)
        /\ overtaken' = IF m.under # claims[m.job] THEN overtaken \cup {m.job}
                        ELSE overtaken
     \/ /\ m.call # "claim"
        /\ ~Owns(m.job, m.by)
        /\ UNCHANGED <<replay, claims, overtaken>>
  /\ UNCHANGED <<worker, upsets>>

\* Some live worker is about to lose the lease of the replay it works on.
Slow == \E w \in Workers, r \in Replays :
          worker[w].job = r /\ Owns(r, w) /\ replay[r].lease = 1

\* Time passes.  Nothing but a callback extends a lease, so an execution that
\* outlasts one is an upset.
Tick ==
  /\ \E r \in Replays : replay[r].lease > 0
  /\ replay' = [r \in Replays |->
                  [replay[r] EXCEPT !.lease = IF @ > 0 THEN @ - 1 ELSE 0]]
  /\ IF Slow THEN Upset("slow") ELSE UNCHANGED upsets
  /\ UNCHANGED <<worker, late, claims, overtaken>>

LoopStep(w) ==
  \/ Poll(w)
  \/ Claimed(w)
  \/ Execute(w)
  \/ Answered(w)
  \/ Refused(w)

Next ==
  \/ \E w \in Workers : \/ LoopStep(w)
                        \/ Fault(w)
                        \/ Crash(w)
                        \/ Restart(w)
  \/ \E m \in late : Deliver(m)
  \/ \E r \in Replays : Create(r)
  \/ Tick

\* Live workers go on and time passes.  Nothing else is fair.
Fairness == (\A w \in Workers : WF_vars(LoopStep(w))) /\ WF_vars(Tick)

Spec == Init /\ [][Next]_vars /\ Fairness

-----------------------------------------------------------------------------
(* Properties *)

\* The verdict of a replay is that of one execution, the one made under the claim
\* that finished it, although a requeued replay keeps the cases of the attempt
\* before.  The exception is a call that stays on its way until its worker holds
\* the replay again, since the server knows the caller but not the claim.
OneExecutionPerReplay ==
  \A r \in Replays \ overtaken : replay[r].status = "succeeded" =>
    /\ replay[r].cases.under = claims[r]
    /\ replay[r].result = replay[r].cases.verdict

\* Nothing reads max_attempts, so only upsets can repeat a replay: there is never
\* more than one attempt for each crash, lost call or slow execution, and one more.
AttemptsAreExplained == \A r \in Replays : replay[r].attempts <= 1 + upsets

\* The worker that could take replay r is up.
CanRun(r) == \E w \in Workers : /\ replay[r].target \in {Nobody, w}
                                /\ worker[w].pc # "down"

\* A replay ends, unless its workers are gone: what a dead worker or a lost
\* answer leaves claimed is freed by the next poll after its lease.
ReplaysEnd ==
  \A r \in Replays : replay[r].status = "queued" ~>
    replay[r].status \in Final \/ ~CanRun(r)

=============================================================================
