---------------------------- MODULE PackageRegistry ----------------------------
(***************************************************************************)
(* The packages of one problem in the control plane: imports and           *)
(* activations as transactions of PostgreSQL at READ COMMITTED, and the    *)
(* admin action, which runs outside of any transaction.                    *)
(*                                                                         *)
(* Nobody locks the problem.  A statement reads what is committed when it  *)
(* starts and takes the locks of the rows it updates one by one; what a    *)
(* transaction wrote becomes visible, and its locks are released, at its   *)
(* commit.  An archive stands for its digest.                              *)
(***************************************************************************)
EXTENDS Integers, FiniteSets, FiniteSetsExt

CONSTANTS Digests, PackageTasks, Free,
          MaxRequests \* bound: requests

ASSUME RegistryAssumption == IsFiniteSet(Digests)

VARIABLES
  packages, \* digest -> its committed row: version (0 if there is none) and active
  locks,    \* digest -> the task that holds the lock of its row
  task,     \* task -> what it is doing
  imports,  \* requests begun so far
  raced     \* an import or an admin action overlapped a request, and nobody cleared up since

rvars == <<packages, locks, task, imports, raced>>

Stored == {d \in Digests : packages[d].version > 0}
ActivePackages == {d \in Digests : packages[d].active}

NoTask == [stage |-> "free", digest |-> Free, activate |-> FALSE, import |-> FALSE, version |-> 0,
           todo |-> {}, off |-> {}, list |-> {}, lone |-> TRUE]

RInit ==
  /\ packages = [d \in Digests |-> [version |-> 0, active |-> FALSE]]
  /\ locks = [d \in Digests |-> Free]
  /\ task = [t \in PackageTasks |-> NoTask]
  /\ imports = 0 /\ raced = FALSE

Running == {t \in PackageTasks : task[t].stage # "free"}

\* A request begins: from now on neither it nor those that run are alone.
RBegin(t, new) ==
  /\ task[t].stage = "free" /\ imports < MaxRequests
  /\ imports' = imports + 1
  /\ task' = [u \in PackageTasks |->
                IF u = t THEN [new EXCEPT !.lone = Running = {}]
                ELSE IF u \in Running THEN [task[u] EXCEPT !.lone = FALSE] ELSE task[u]]
  /\ UNCHANGED <<packages, locks, raced>>

\* import_zip looks the digest up; a package that is there is only activated.
BeginImport(t) == \E d \in Digests, activate \in BOOLEAN :
  LET new == [NoTask EXCEPT !.digest = d, !.activate = activate]
  IN \/ d \notin Stored /\ RBegin(t, [new EXCEPT !.stage = "version", !.import = TRUE])
     \/ d \in Stored /\ activate /\ RBegin(t, [new EXCEPT !.stage = "clear"])

\* A task goes on to its next stage.
To(t, new) == task' = [task EXCEPT ![t] = new]

\* Max("version") of what is committed, plus one.
ReadVersion(t) ==
  /\ task[t].stage = "version"
  /\ To(t, [task[t] EXCEPT !.version = Max({packages[d].version : d \in Digests}) + 1,
                           !.stage = IF task[t].activate THEN "clear" ELSE "write"])
  /\ UNCHANGED <<packages, locks, imports, raced>>

\* Mutant: an activation clears the active rows only, as an import does.
ToClearActive(t) == ActivePackages \ {task[t].digest}

\* The rows an UPDATE is about to write: an import's the active ones, an
\* activation's all others.
ToClear(t) == IF task[t].import THEN ActivePackages ELSE Stored \ {task[t].digest}

Clear(t) ==
  /\ task[t].stage = "clear"
  /\ To(t, [task[t] EXCEPT !.todo = ToClear(t), !.stage = "locking"])
  /\ UNCHANGED <<packages, locks, imports, raced>>

\* The UPDATE waits for the next row's lock and writes it.
ClearRow(t) == \E d \in task[t].todo :
  /\ task[t].stage = "locking" /\ locks[d] \in {Free, t}
  /\ locks' = [locks EXCEPT ![d] = t]
  /\ To(t, [task[t] EXCEPT !.todo = @ \ {d}, !.off = @ \cup {d}])
  /\ UNCHANGED <<packages, imports, raced>>

Cleared(t) ==
  /\ task[t].stage = "locking" /\ task[t].todo = {}
  /\ To(t, [task[t] EXCEPT !.stage = "write"])
  /\ UNCHANGED <<packages, locks, imports, raced>>

\* The row is inserted or saved.  A second insert of the digest waits for the
\* first, and fails if that one commits.
RWrite(t) ==
  LET d == task[t].digest
  IN /\ task[t].stage = "write" /\ locks[d] \in {Free, t}
     /\ ~(task[t].import /\ d \in Stored)
     /\ locks' = [locks EXCEPT ![d] = t]
     /\ To(t, [task[t] EXCEPT !.stage = "commit"])
     /\ UNCHANGED <<packages, imports, raced>>

Unlocked(t) == [d \in Digests |-> IF locks[d] = t THEN Free ELSE locks[d]]

RCommit(t) ==
  LET d == task[t].digest
      old == packages[d]
      row == [version |-> IF task[t].import THEN task[t].version ELSE old.version,
              active |-> IF task[t].activate THEN TRUE ELSE old.active]
  IN /\ task[t].stage = "commit"
     /\ packages' = [e \in Digests |->
          IF e = d THEN row
          ELSE IF e \in task[t].off THEN [packages[e] EXCEPT !.active = FALSE]
          ELSE packages[e]]
     /\ raced' = IF task[t].activate /\ task[t].lone THEN FALSE
                 ELSE raced \/ (task[t].import /\ ~task[t].lone)
     /\ locks' = Unlocked(t)
     /\ To(t, NoTask)
     /\ UNCHANGED imports

\* The database gives the transaction up: a deadlock, a duplicate, a lost connection.
RAbort(t) ==
  /\ task[t].stage \notin {"free", "admin", "admin save"}
  /\ locks' = Unlocked(t)
  /\ To(t, NoTask)
  /\ UNCHANGED <<packages, imports, raced>>

\* The admin action: the chosen packages are read, then activated one after the
\* other, the newest first; each statement commits by itself.
BeginAdmin(t) == \E chosen \in SUBSET Stored :
  /\ chosen # {}
  /\ RBegin(t, [NoTask EXCEPT !.stage = "admin", !.list = chosen, !.off = ActivePackages,
                           !.activate = TRUE])

\* One package of the list, the newest first: all others are cleared ...
AdminClear(t) == \E d \in task[t].list :
  /\ task[t].stage = "admin"
  /\ \A e \in task[t].list : packages[d].version >= packages[e].version
  /\ \A e \in Digests \ {d} : locks[e] = Free
  /\ packages' = [e \in Digests |-> IF e # d THEN [packages[e] EXCEPT !.active = FALSE] ELSE packages[e]]
  /\ To(t, [task[t] EXCEPT !.digest = d, !.list = @ \ {d}, !.stage = "admin save"])
  /\ UNCHANGED <<locks, imports, raced>>

\* ... and it is set, unless it was active when the list was read.
AdminSave(t) ==
  LET d == task[t].digest
  IN /\ task[t].stage = "admin save"
     /\ d \in task[t].off \/ locks[d] = Free
     /\ packages' = IF d \in task[t].off THEN packages ELSE [packages EXCEPT ![d].active = TRUE]
     /\ raced' = (raced \/ ~task[t].lone)
     /\ To(t, IF task[t].list = {} THEN NoTask ELSE [task[t] EXCEPT !.stage = "admin"])
     /\ UNCHANGED <<locks, imports>>

RNext == \E t \in PackageTasks :
  \/ BeginImport(t) \/ ReadVersion(t) \/ Clear(t) \/ ClearRow(t) \/ Cleared(t)
  \/ RWrite(t) \/ RCommit(t) \/ RAbort(t) \/ BeginAdmin(t) \/ AdminClear(t) \/ AdminSave(t)

RSpec == RInit /\ [][RNext]_rvars

-----------------------------------------------------------------------------
(* Properties *)

\* However activations overlap, no two packages of the problem are active, unless an
\* import or an admin action overlapped another request (two imports do not see each
\* other's rows, and the admin action clears and sets in two transactions); the next
\* activation that runs alone repairs that too.
OneActivePackage == Cardinality(ActivePackages) > 1 => raced

=============================================================================
