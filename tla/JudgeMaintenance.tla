-------------------------- MODULE JudgeMaintenance --------------------------
(***************************************************************************)
(* Judge.online and the two Celery tasks of JudgeMaintenanceService, beside*)
(* the workers of JudgeWorker.  Both tasks first read a list and then work *)
(* through it one row at a time, with no lock in between.                  *)
(***************************************************************************)
EXTENDS JudgeWorker

VARIABLES online,   \* Judge.online
          overdue   \* judges that monitor_judges has read and not yet saved

mvars == <<wvars, online, overdue>>

MInit ==
  /\ WInit
  /\ online = [w \in Judges |-> TRUE]
  /\ overdue = {}

\* register and heartbeat both set online.
Register(w) ==
  /\ Restart(w)
  /\ online' = [online EXCEPT ![w] = TRUE]
  /\ UNCHANGED overdue

\* Mutant: a heartbeat that extends leases only.
BeatOffline(w) == SendHeartbeat(w) /\ UNCHANGED <<online, overdue>>

Beat(w) ==
  /\ SendHeartbeat(w)
  /\ online' = [online EXCEPT ![w] = TRUE]
  /\ UNCHANGED overdue

\* monitor_judges: 120 seconds without a heartbeat are a worker that is down.
ReadOverdue ==
  /\ overdue = {}
  /\ overdue' = {w \in Judges : pc[w] = "down" /\ online[w]}
  /\ UNCHANGED <<wvars, online>>

SaveOffline(w) ==
  /\ w \in overdue
  /\ overdue' = overdue \ {w}
  /\ online' = [online EXCEPT ![w] = FALSE]
  /\ UNCHANGED wvars

\* cleanup_stale_sessions, for one submission of its list.
CleanupStaleSession(j) ==
  /\ subStatus[j] = "JG"
  /\ judgedOn[j] # Nobody
  /\ ~online[judgedOn[j]]
  /\ Rejudge(j)
  /\ UNCHANGED <<workerVars, late, history, upsets, online, overdue>>

MonitorNext ==
  \/ QuietStep /\ UNCHANGED <<online, overdue>>
  \/ \E w \in Judges : Register(w)
  \/ \E w \in Judges : Beat(w)
  \/ ReadOverdue
  \/ \E w \in Judges : SaveOffline(w)

\* Celery beat starts both tasks again and again.
MaintenanceFairness ==
  /\ \A w \in Judges : /\ WF_mvars(LoopStep(w) /\ UNCHANGED <<online, overdue>>)
                       /\ WF_mvars(Beat(w))
                       /\ WF_mvars(SaveOffline(w))
  /\ WF_mvars(ReadOverdue)
  /\ WF_mvars(Clock /\ UNCHANGED <<online, overdue>>)

MonitorSpec == MInit /\ [][MonitorNext]_mvars /\ MaintenanceFairness

MaintenanceSpec ==
  /\ MInit
  /\ [][MonitorNext \/ \E j \in Jobs : CleanupStaleSession(j)]_mvars
  /\ MaintenanceFairness
  /\ \A j \in Jobs : WF_mvars(CleanupStaleSession(j))

-----------------------------------------------------------------------------
(* Properties *)

\* Judge.online follows the process: a judge that died ends up offline, and one
\* that lives ends up online even if monitor_judges, working from a list it read
\* before the worker came back, marked it offline after it registered.
OnlineFollowsProcess ==
  \A w \in Judges : /\ pc[w] = "down" ~> pc[w] # "down" \/ ~online[w]
                    /\ pc[w] # "down" ~> pc[w] = "down" \/ online[w]

\* judge_maintenance_service.py:43: "Requeue stale in-flight submissions tied to
\* offline judges."  A submission being judged by a judge that is offline does
\* not stay that way while the judge does.
OfflineSubmissionsRequeued ==
  \A j \in Jobs :
    subStatus[j] = "JG" /\ claimedBy[j] # Nobody /\ ~online[claimedBy[j]]
      ~> subStatus[j] # "JG" \/ online[claimedBy[j]]

=============================================================================
