----------------------------- MODULE LegacyBridge ------------------------------
(***************************************************************************)
(* The bridge that pushed submissions to connected judges before the job   *)
(* protocol (judge/bridge/bridge_manager.py, judge/bridge/judge_handler.py,*)
(* the tasks of submissions/tasks.py and the update functions of           *)
(* submission_service.py): a registry of handlers in the memory of one     *)
(* process, under the name of the judge, next to the judge's online flag   *)
(* in the database.                                                        *)
(***************************************************************************)
EXTENDS Integers

CONSTANTS
  Names,               \* judges that have a key and are not blocked
  Connections,         \* handlers, one per connection
  NameOf,              \* the judge a connection speaks for
  Able,                \* judges that have the runtime and the problem
  Submissions,
  None

ASSUME BridgeAssumption == NameOf \in [Connections -> Names] /\ None \notin Connections

VARIABLES
  handler,             \* state of each connection
  copy,                \* online flag of the handler's own copy of its judge
  registry,            \* BridgeManager._handlers
  online,              \* Judge.online in the database
  rivals,              \* names two connections used at a time (for the properties)
  sub,                 \* status and judge of each submission
  sending              \* the handler a dispatch has chosen, per submission

linkVars == <<handler, copy, registry, online, rivals>>
bridgeVars == <<linkVars, sub, sending>>

BInit ==
  /\ handler = [c \in Connections |-> "new"]
  /\ copy = [c \in Connections |-> FALSE]
  /\ registry = [n \in Names |-> None]
  /\ online = [n \in Names |-> FALSE]
  /\ rivals = {}
  /\ sub = [s \in Submissions |-> [status |-> "queued", by |-> None]]
  /\ sending = [s \in Submissions |-> None]

Linked == {"greeted", "open", "leaving"}

-----------------------------------------------------------------------------
(* on_connect saves the judge as online and then registers the handler     *)
(* over whatever its name held; on_disconnect saves it as offline and then *)
(* removes what its name holds.                                            *)

Greet(c) ==
  /\ handler[c] = "new"
  /\ handler' = [handler EXCEPT ![c] = "greeted"]
  /\ online' = [online EXCEPT ![NameOf[c]] = TRUE]
  /\ copy' = [copy EXCEPT ![c] = TRUE]
  /\ rivals' = rivals \cup {n \in {NameOf[c]} :
                            \E d \in Connections \ {c} : NameOf[d] = n /\ handler[d] \in Linked}
  /\ UNCHANGED <<registry, sub, sending>>

Register(c) ==
  /\ handler[c] = "greeted"
  /\ handler' = [handler EXCEPT ![c] = "open"]
  /\ registry' = [registry EXCEPT ![NameOf[c]] = c]
  /\ UNCHANGED <<copy, online, rivals, sub, sending>>

Leave(c) ==
  /\ handler[c] = "open"
  /\ handler' = [handler EXCEPT ![c] = "leaving"]
  /\ online' = [online EXCEPT ![NameOf[c]] = FALSE]
  /\ copy' = [copy EXCEPT ![c] = FALSE]
  /\ UNCHANGED <<registry, rivals, sub, sending>>

\* Mutant: a handler only takes its name off while its judge is online.
UnregisterOnline(c) ==
  /\ handler[c] = "leaving"
  /\ handler' = [handler EXCEPT ![c] = "closed"]
  /\ registry' = IF copy[c] THEN [registry EXCEPT ![NameOf[c]] = None] ELSE registry
  /\ UNCHANGED <<copy, online, rivals, sub, sending>>

Unregister(c) ==
  /\ handler[c] = "leaving"
  /\ handler' = [handler EXCEPT ![c] = "closed"]
  /\ registry' = [registry EXCEPT ![NameOf[c]] = None]
  /\ UNCHANGED <<copy, online, rivals, sub, sending>>

\* The process ends: the registry and its handlers are gone, the flags stay.
Restart ==
  /\ handler' = [c \in Connections |-> IF handler[c] = "new" THEN "new" ELSE "closed"]
  /\ registry' = [n \in Names |-> None]
  /\ sending' = [s \in Submissions |-> None]
  /\ UNCHANGED <<copy, online, rivals, sub>>

-----------------------------------------------------------------------------
(* The task judge_submission: get_available_judge looks through a snapshot *)
(* of the registry, the payload is sent, and the submission is then marked *)
(* on a copy read before.  A judge may answer first.                       *)

Choose(s, c) ==
  /\ sending[s] = None
  /\ registry[NameOf[c]] = c /\ copy[c] /\ NameOf[c] \in Able
  /\ sending' = [sending EXCEPT ![s] = c]
  /\ UNCHANGED <<linkVars, sub>>

\* A transport that fails is a judge that is not available.
Unsent(s) ==
  /\ sending[s] # None
  /\ handler[sending[s]] \notin {"open", "leaving"}
  /\ sending' = [sending EXCEPT ![s] = None]
  /\ UNCHANGED <<linkVars, sub>>

Mark(s) ==
  /\ sending[s] # None
  /\ sub' = [sub EXCEPT ![s] = [status |-> "compiling", by |-> NameOf[sending[s]]]]
  /\ sending' = [sending EXCEPT ![s] = None]
  /\ UNCHANGED linkVars

\* update_test_case_result and update_submission_result take the row's lock and
\* ask neither who sends nor what the submission has become.
CaseResult(c, s) ==
  /\ handler[c] = "open"
  /\ sub' = [sub EXCEPT ![s].status = "judging"]
  /\ UNCHANGED <<linkVars, sending>>

SubmissionResult(c, s) ==
  /\ handler[c] = "open"
  /\ \E status \in {"completed", "error"} : sub' = [sub EXCEPT ![s].status = status]
  /\ UNCHANGED <<linkVars, sending>>

BNext ==
  \/ \E c \in Connections : Greet(c) \/ Register(c) \/ Leave(c) \/ Unregister(c)
  \/ Restart
  \/ \E s \in Submissions :
       \/ Unsent(s) \/ Mark(s)
       \/ \E c \in Connections : Choose(s, c) \/ CaseResult(c, s) \/ SubmissionResult(c, s)

BSpec == BInit /\ [][BNext]_bridgeVars

-----------------------------------------------------------------------------
(* Properties *)

\* The registry follows the connections across reconnects and restarts: what it
\* holds is connected or just leaving, and an open connection is in it and its
\* judge online, unless a second connection came under its name while it lasted.
RegistryIsLive ==
  /\ \A n \in Names : registry[n] # None =>
       /\ NameOf[registry[n]] = n
       /\ handler[registry[n]] \in {"open", "leaving"}
  /\ \A c \in Connections : handler[c] = "open" /\ NameOf[c] \notin rivals =>
       registry[NameOf[c]] = c /\ online[NameOf[c]]

=============================================================================
