------------------------- MODULE JudgingTransactions -------------------------
(***************************************************************************)
(* The transactions that write verdicts, one row lock at a time: worker    *)
(* callbacks, rejudges, the sweep of expired leases and the end of the     *)
(* contest in which the submissions were made.                             *)
(*                                                                         *)
(* JudgeLease takes each of them as one step.  Here they overlap: a        *)
(* transaction takes its row locks in the order of the code, sees what     *)
(* others have committed (READ COMMITTED) and shows its writes when it     *)
(* commits; the database aborts one of those that wait for each other.     *)
(* All submissions are of one user, each to a problem of its own, in one   *)
(* contest.  How scores and ratings are computed is elsewhere.             *)
(***************************************************************************)
EXTENDS Naturals, Sequences, FiniteSets

CONSTANTS
  Subs,      \* the submissions
  Backends,  \* processes that serve requests and tasks
  Free,      \* a backend without a transaction
  MaxClaims, \* bound: claims of a job
  MaxRejudges \* bound: rejudges

VARIABLES
  job,     \* judge_job.status, as committed
  sub,     \* what the submission says: its status, or its verdict
  stat,    \* User.problem_count
  tx,      \* the transaction of each backend
  claims,  \* history: number of claims of each job
  muddled, \* history: the user's statistics may be off, see Overlaps
  rejudges \* number of rejudges begun

vars == <<job, sub, stat, tx, claims, muddled, rejudges>>

JobOf(s) == <<"job", s>>
SubOf(s) == <<"submission", s>>
User == <<"user">>
Entry == <<"participation">>

Callbacks == {"progress", "finish", "fail"}

Init ==
  /\ job = [s \in Subs |-> "queued"]
  /\ sub = [s \in Subs |-> "queued"]
  /\ stat = 0
  /\ tx = [b \in Backends |-> Free]
  /\ claims = [s \in Subs |-> 0]
  /\ muddled = FALSE
  /\ rejudges = 0

-----------------------------------------------------------------------------
(* Locks *)

Busy == {b \in Backends : tx[b] # Free}
Held(b) == IF b \in Busy THEN tx[b].held ELSE {}

\* b waits for a row that c has locked.
WaitsFor(b, c) == /\ {b, c} \subseteq Busy
                  /\ b # c
                  /\ tx[b].todo # <<>>
                  /\ Head(tx[b].todo) \cap Held(c) # {}

Waits(b) == \E c \in Backends : WaitsFor(b, c)
Locked(rows) == \E b \in Backends : Held(b) \cap rows # {}

\* Each of B waits for another of B.
Deadlocked(B) == B # {} /\ \A b \in B : \E c \in B : WaitsFor(b, c)

\* Mutant: fail goes by the submission, like a rejudge.
OrderBySubmission(kind, s) ==
  CASE kind = "progress" -> <<{JobOf(s)}, {SubOf(s)}>>
    [] kind = "finish" -> <<{JobOf(s)}, {SubOf(s)}, {User}, {Entry}>>
    [] kind = "fail" -> <<{SubOf(s)}, {JobOf(s)}, {Entry}>>
    [] kind = "rejudge" -> <<{SubOf(s)}, {JobOf(s)}>>

\* The rows a transaction about s locks, in this order: start and record_cases,
\* finish (whose signal updates the user before the participation is refreshed),
\* fail (an error changes no statistics), and rejudge_submission.
Order(kind, s) ==
  CASE kind = "progress" -> <<{JobOf(s)}, {SubOf(s)}>>
    [] kind = "finish" -> <<{JobOf(s)}, {SubOf(s)}, {User}, {Entry}>>
    [] kind = "fail" -> <<{JobOf(s)}, {SubOf(s)}, {Entry}>>
    [] kind = "rejudge" -> <<{SubOf(s)}, {JobOf(s)}>>

\* The sweep locks the expired jobs it finds unlocked, then each submission;
\* end_contest updates the participations and then the users it rates.
SweepOrder(ss) ==
  {<<{JobOf(s) : s \in ss}>> \o [i \in DOMAIN p |-> {SubOf(p[i])}] :
     p \in {q \in [1 .. Cardinality(ss) -> ss] : \A s \in ss : \E i \in DOMAIN q : q[i] = s}}
EndOrder == <<{Entry}, {User}>>

-----------------------------------------------------------------------------
(* Transactions *)

\* new: what it writes to the submissions it is about; under: the claim a
\* callback belongs to; count: the accepted problems it has counted.
Transaction(kind, new, under, order) ==
  [kind |-> kind, new |-> new, under |-> under, todo |-> order, held |-> {},
   counted |-> FALSE, count |-> 0]

Begin(b, t) == tx[b] = Free /\ tx' = [tx EXCEPT ![b] = t]

\* A claim, which skips locked jobs, is one step: it locks nothing else.
Claim(s) ==
  /\ job[s] = "queued"
  /\ ~Locked({JobOf(s)})
  /\ claims[s] < MaxClaims
  /\ job' = [job EXCEPT ![s] = "active"]
  /\ claims' = [claims EXCEPT ![s] = @ + 1]
  /\ UNCHANGED <<sub, stat, tx, muddled, rejudges>>

\* A callback arrives, of the latest claim of s or of an earlier one.  Every
\* claim is of another worker.
Call(b, s, kind, value) ==
  /\ \E under \in 1 .. claims[s] :
       Begin(b, Transaction(kind, [q \in {s} |-> value], under, Order(kind, s)))
  /\ UNCHANGED <<job, sub, stat, claims, muddled, rejudges>>

BeginProgress(b, s) == Call(b, s, "progress", "judging")
BeginFinish(b, s) == \E v \in {"AC", "WA"} : Call(b, s, "finish", v)
BeginFail(b, s) == Call(b, s, "fail", "error")

BeginRejudge(b, s) ==
  /\ rejudges < MaxRejudges
  /\ rejudges' = rejudges + 1
  /\ Begin(b, Transaction("rejudge", [q \in {s} |-> "queued"], 0, Order("rejudge", s)))
  /\ UNCHANGED <<job, sub, stat, claims, muddled>>

\* The sweep finds leases of ss that have run out: it queues the jobs again or
\* gives them up.  It takes the locks of the jobs with the query.
BeginSweep(b, ss) ==
  /\ \A s \in ss : job[s] = "active" /\ ~Locked({JobOf(s)})
  /\ \E new \in [ss -> {"queued", "error"}], order \in SweepOrder(ss) :
       Begin(b, [Transaction("sweep", new, 0, Tail(order)) EXCEPT !.held = Head(order)])
  /\ UNCHANGED <<job, sub, stat, claims, muddled, rejudges>>

\* end_contest locks its contest: one at a time.
BeginEnd(b) ==
  /\ \A c \in Busy : tx[c].kind # "end"
  /\ Begin(b, Transaction("end", [q \in {} |-> "none"], 0, EndOrder))
  /\ UNCHANGED <<job, sub, stat, claims, muddled, rejudges>>

\* _assert_owned, on the locked row: only the latest claim of an active job may
\* call.
Believed(t) ==
  t.kind \in Callbacks => \A s \in DOMAIN t.new : job[s] = "active" /\ t.under = claims[s]

AtCheck(t) == t.kind \in Callbacks /\ t.held = {}

\* What the transaction sees of the submissions.
Seen(t) == [s \in Subs |-> IF s \in DOMAIN t.new THEN t.new[s] ELSE sub[s]]

Accepted(of) == Cardinality({s \in Subs : of[s] = "AC"})

MustCount(t) == t.kind = "finish" /\ t.todo # <<>> /\ Head(t.todo) = {User} /\ ~t.counted

\* Mutant: the signal counts what is committed.
CountCommitted(b) ==
  /\ b \in Busy
  /\ MustCount(tx[b])
  /\ tx' = [tx EXCEPT ![b].counted = TRUE, ![b].count = Accepted(sub)]
  /\ UNCHANGED <<job, sub, stat, claims, muddled, rejudges>>

\* update_user_stats_on_completion counts, and only then updates the user.
Count(b) ==
  /\ b \in Busy
  /\ MustCount(tx[b])
  /\ tx' = [tx EXCEPT ![b].counted = TRUE, ![b].count = Accepted(Seen(tx[b]))]
  /\ UNCHANGED <<job, sub, stat, claims, muddled, rejudges>>

\* The next lock; a callback that has locked the job checks whose it is.
Lock(b) ==
  /\ b \in Busy
  /\ tx[b].todo # <<>>
  /\ ~Waits(b)
  /\ ~MustCount(tx[b])
  /\ tx' = [tx EXCEPT ![b] =
       IF AtCheck(tx[b]) /\ ~Believed(tx[b]) THEN Free
       ELSE [tx[b] EXCEPT !.held = tx[b].held \cup Head(tx[b].todo), !.todo = Tail(tx[b].todo)]]
  /\ UNCHANGED <<job, sub, stat, claims, muddled, rejudges>>

JobAfter(value) == CASE value = "judging" -> "active"
                     [] value = "queued" -> "queued"
                     [] OTHER -> "done"

\* Another transaction is about to count accepted submissions, or a verdict that
\* was counted goes away: nobody counts again until the user's next verdict.
Overlaps(b) ==
  \/ tx[b].kind = "finish" /\ \E c \in Busy \ {b} : tx[c].kind = "finish" /\ tx[c].counted
  \/ \E s \in DOMAIN tx[b].new : sub[s] = "AC" /\ tx[b].new[s] # "AC"

Commit(b) ==
  /\ b \in Busy
  /\ tx[b].todo = <<>>
  /\ tx[b].kind = "rejudge" => tx[b].counted
  /\ LET t == tx[b]
     IN /\ job' = [s \in Subs |-> IF s \in DOMAIN t.new THEN JobAfter(t.new[s]) ELSE job[s]]
        /\ sub' = Seen(t)
        /\ stat' = IF t.kind = "finish" THEN t.count ELSE stat
        /\ muddled' = (muddled \/ Overlaps(b))
        /\ tx' = [tx EXCEPT ![b] = Free]
  /\ UNCHANGED <<claims, rejudges>>

\* Mutant: a rejudge tells what it is going to do.
AnnounceFirst(b) ==
  /\ b \in Busy
  /\ tx[b].kind = "rejudge"
  /\ ~tx[b].counted
  /\ tx' = [tx EXCEPT ![b].counted = TRUE]
  /\ UNCHANGED <<job, sub, stat, claims, muddled, rejudges>>

\* rejudge_submission publishes inside its transaction, as its last statement;
\* all others publish after their commit, which changes nothing here.  counted
\* is the mark.
AnnounceRejudge(b) ==
  /\ b \in Busy
  /\ tx[b].kind = "rejudge"
  /\ tx[b].todo = <<>>
  /\ ~tx[b].counted
  /\ tx' = [tx EXCEPT ![b].counted = TRUE]
  /\ UNCHANGED <<job, sub, stat, claims, muddled, rejudges>>

\* finish and fail refresh the participation in a savepoint and catch what fails there.
Refreshing(t) == t.kind \in {"finish", "fail"} /\ t.todo # <<>> /\ Head(t.todo) = {Entry}

\* The database breaks a deadlock: one of its transactions is rolled back, or, where
\* it was refreshing the participation, goes on without.
Abort(b) ==
  /\ \E B \in SUBSET Busy : /\ b \in B
                            /\ Deadlocked(B)
                            /\ \A C \in SUBSET B : C # B => ~Deadlocked(C)
  /\ tx' = [tx EXCEPT ![b] = IF Refreshing(tx[b]) THEN [tx[b] EXCEPT !.todo = Tail(tx[b].todo)]
                                                  ELSE Free]
  /\ UNCHANGED <<job, sub, stat, claims, muddled, rejudges>>

Proceed(b) ==
  \/ Count(b)
  \/ Lock(b)
  \/ AnnounceRejudge(b)
  \/ Commit(b)
  \/ Abort(b)

Next ==
  \/ \E s \in Subs : Claim(s)
  \/ \E b \in Backends, s \in Subs : \/ BeginProgress(b, s)
                                     \/ BeginFinish(b, s)
                                     \/ BeginFail(b, s)
                                     \/ BeginRejudge(b, s)
  \/ \E b \in Backends, ss \in SUBSET Subs \ {{}} : BeginSweep(b, ss)
  \/ \E b \in Backends : BeginEnd(b) \/ Proceed(b)

Spec == Init /\ [][Next]_vars

-----------------------------------------------------------------------------
(* Properties *)

\* Callbacks and the sweep lock the job first, then its submission, the user and
\* the participation: whatever waits for what, they never wait for each other in
\* a circle.  Only rejudges and the end of a contest can make one.
CallbacksNeverDeadlock ==
  \A B \in SUBSET Busy :
    (\A b \in B : tx[b].kind \in Callbacks \cup {"sweep"}) => ~Deadlocked(B)

\* A rejudge publishes its event before its transaction commits, but no rejudge is
\* announced and then undone to break a deadlock.
AnnouncedIsDone ==
  [][\A b \in Busy : tx[b].kind = "rejudge" /\ tx[b].counted /\ tx'[b] = Free =>
       \A s \in DOMAIN tx[b].new : job'[s] = "queued" /\ sub'[s] = "queued"]_vars

\* The statistics of a user are those of the verdicts on record, unless verdicts
\* of the user were written at the same time or a counted one was taken back.
StatsFollowVerdicts == muddled \/ stat = Accepted(sub)

=============================================================================
