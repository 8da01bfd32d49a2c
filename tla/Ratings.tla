------------------------------ MODULE Ratings -------------------------------
(***************************************************************************)
(* The end of contests and the ratings: the Celery task that starts and    *)
(* ends what is due, PATCHes that save a whole row, end_contest with its   *)
(* calculation of ratings, and the operator's recalculation of everything. *)
(*                                                                         *)
(* The database is at READ COMMITTED.  A calculation reads, computes, and  *)
(* then writes and commits; what it wrote depends only on what it read, so *)
(* the writes are one step with the commit: until then the contest is      *)
(* locked and nobody else sees them.  The event is seen at once: it is     *)
(* published inside the transaction, which may fail, or be killed, with    *)
(* the event out.                                                          *)
(*                                                                         *)
(* The Elo-MMR formula is a constant: the new rating as a function of the  *)
(* old one and of twice the tied rank.                                     *)
(***************************************************************************)
EXTENDS Naturals, FiniteSets

CONSTANTS
  Contests, Users,
  StartOf, EndOf,       \* the schedules
  ByEnd,                \* the contests in the order of their end
  Excluded,             \* Contest.rate_exclude, as pairs of a contest and a user
  Lowest, Highest,      \* Contest.rating_floor and rating_ceiling
  Initial,              \* RATING_INIT
  Top,                  \* in place of a rating_ceiling that is not set, above every rating
  Elo(_, _), SimpleElo(_, _, _),  \* the formula, and that of the management command
  Tasks,                \* runs of contests.tick that may overlap
  NoRating,
  FirstPoints,          \* the scores of a contest while it runs
  Horizon, MaxScore, MaxUpsets  \* bounds

ASSUME RatingsAssumption ==
  /\ \A c \in Contests : StartOf[c] < EndOf[c]
  /\ ByEnd \in [1..Cardinality(Contests) -> Contests]

VARIABLES
  now,
  row,       \* Contest.started_at and ended_at, as Booleans
  points,    \* stored scores of the participations in good standing, or Absent
  book,      \* Rating rows, User.rating and User.max_rating
  due,       \* what each run of the task has read and still has to do
  calc,      \* end_contest transactions under way: the contest and what it will write
  copies,    \* copies of rows that a PATCH has read and not yet saved
  all,       \* a recalculate_all_ratings under way: what it deleted, reset and wrote
  announced, \* CONTEST_STARTED and CONTEST_ENDED events published
  plays, edits, faults, recalculations,  \* changes of a score, PATCHes saved, and so on
  early,     \* history: contests that a recalculation met before they were ended
  retracted  \* history: how many of the events are of transactions that failed

vars == <<now, row, points, book, due, calc, copies, all, announced,
          plays, edits, faults, recalculations, early, retracted>>

counters == <<plays, edits, faults, recalculations>>

\* Bounds together how often scores change, PATCHes are sent, starts and ends fail
\* and everything is recalculated.
MayUpset == plays + edits + Cardinality(copies) + faults + recalculations < MaxUpsets

Absent == MaxScore + 1
Phases == {"started", "ended"}
NoCalc == [on |-> FALSE]

Larger(m, n) == IF m >= n THEN m ELSE n

-----------------------------------------------------------------------------
(* calculate_ratings *)

RatedIn(rows, u) == {c \in Contests : rows[c][u] # NoRating}

\* The rating after the latest other contest on record, by end time.
LastRating(rows, c, u) ==
  LET others == RatedIn(rows, u) \ {c}
  IN IF others = {} THEN Initial
     ELSE rows[CHOOSE d \in others : \A e \in others : EndOf[e] <= EndOf[d]][u].after

Selected(rows, c) ==
  {u \in Users : /\ points[c][u] # Absent
                 /\ <<c, u>> \notin Excluded
                 /\ LastRating(rows, c, u) \in Lowest[c]..Highest[c]}

\* Twice the index that _tie_ranks gives to a group of equals.
TwiceRank(chosen, c, u) ==
  LET better == {v \in chosen : points[c][v] > points[c][u]}
      equal == {v \in chosen : points[c][v] = points[c][u]}
  IN 2 * Cardinality(better) + Cardinality(equal) - 1

\* Mutant: a contest that has been rated is rated again.
PlanAnew(b, c) ==
  LET chosen == Selected(b.rows, c)
  IN [u \in chosen |->
       [before |-> LastRating(b.rows, c, u),
        after |-> Elo(LastRating(b.rows, c, u), TwiceRank(chosen, c, u)),
        max |-> b.max[u]]]

\* What a calculation is going to write, by user.
Plan(b, c) ==
  LET chosen == IF \E u \in Users : b.rows[c][u] # NoRating THEN {} ELSE Selected(b.rows, c)
  IN [u \in chosen |->
       [before |-> LastRating(b.rows, c, u),
        after |-> Elo(LastRating(b.rows, c, u), TwiceRank(chosen, c, u)),
        max |-> b.max[u]]]

\* update_or_create of the Rating, then user.save of rating and max_rating, the
\* latter from the copy of the user that was read.
Written(b, c, plan) ==
  [rows |-> [b.rows EXCEPT ![c] = [u \in Users |->
                IF u \in DOMAIN plan THEN [before |-> plan[u].before, after |-> plan[u].after]
                                     ELSE b.rows[c][u]]],
   rating |-> [u \in Users |-> IF u \in DOMAIN plan THEN plan[u].after ELSE b.rating[u]],
   max |-> [u \in Users |-> IF u \in DOMAIN plan THEN Larger(plan[u].max, plan[u].after)
                                                 ELSE b.max[u]]]

-----------------------------------------------------------------------------

Init ==
  /\ now = 0
  /\ row = [c \in Contests |-> [k \in Phases |-> FALSE]]
  /\ points \in FirstPoints
  /\ book = [rows |-> [c \in Contests |-> [u \in Users |-> NoRating]],
             rating |-> [u \in Users |-> Initial],
             max |-> [u \in Users |-> Initial]]
  /\ due = [t \in Tasks |-> {}]
  /\ calc = [t \in Tasks |-> NoCalc]
  /\ copies = {}
  /\ all = NoCalc
  /\ announced = [c \in Contests |-> [k \in Phases |-> 0]]
  /\ plays = 0 /\ edits = 0 /\ faults = 0 /\ recalculations = 0
  /\ early = {}
  /\ retracted = [c \in Contests |-> [k \in Phases |-> 0]]

\* Somebody takes part, with a submission, and later scores.
Play(c, u) ==
  /\ MayUpset
  /\ plays' = plays + 1
  /\ IF points[c][u] = Absent THEN StartOf[c] <= now /\ now < EndOf[c]
                             ELSE points[c][u] < MaxScore
  /\ points' = [points EXCEPT ![c][u] = IF @ = Absent THEN 0 ELSE @ + 1]
  /\ UNCHANGED <<now, row, book, due, calc, copies, all, announced,
                 edits, faults, recalculations, early, retracted>>

\* An end_contest transaction holds the lock on the row of its contest.
Locked(c) == \E t \in Tasks : calc[t].on /\ calc[t].contest = c

\* update_contest: the router reads the row, the service saves all of it.
ReadCopy(c) ==
  /\ MayUpset
  /\ copies' = copies \cup {[contest |-> c, row |-> row[c]]}
  /\ copies' # copies
  /\ UNCHANGED <<now, row, points, book, due, calc, all, announced, counters, early, retracted>>

SaveCopy(d) ==
  /\ ~Locked(d.contest)
  /\ copies' = copies \ {d}
  /\ row' = [row EXCEPT ![d.contest] = d.row]
  /\ edits' = edits + 1
  /\ UNCHANGED <<now, points, book, due, calc, all, announced,
                 plays, faults, recalculations, early, retracted>>

Due(c, k) == IF k = "started" THEN StartOf[c] ELSE EndOf[c]

\* Mutant: only what falls due at this very time.
ReadDueNow(t) ==
  /\ due[t] = {}
  /\ ~calc[t].on
  /\ due' = [due EXCEPT ![t] = {x \in Contests \X Phases :
                                  ~row[x[1]][x[2]] /\ now = Due(x[1], x[2])}]
  /\ due' # due
  /\ UNCHANGED <<now, row, points, book, calc, copies, all, announced, counters, early, retracted>>

\* tick_contests reads what is to be started and to be ended.
ReadDue(t) ==
  /\ due[t] = {}
  /\ ~calc[t].on
  /\ due' = [due EXCEPT ![t] = {x \in Contests \X Phases :
                                  ~row[x[1]][x[2]] /\ now >= Due(x[1], x[2])}]
  /\ due' # due
  /\ UNCHANGED <<now, row, points, book, calc, copies, all, announced, counters, early, retracted>>

Drop(t, c, k) == due' = [due EXCEPT ![t] = @ \ {<<c, k>>}]

\* First what is to be started.
Turn(t, c, k) ==
  /\ <<c, k>> \in due[t]
  /\ ~calc[t].on
  /\ k = "ended" => \A x \in due[t] : x[2] = "ended"

Announce(c, k) ==
  /\ row' = [row EXCEPT ![c][k] = TRUE]
  /\ announced' = [announced EXCEPT ![c][k] = @ + 1]

\* Mutant: what the list says is not looked at again under the lock.
StartUnseen(t, c) ==
  /\ Turn(t, c, "started")
  /\ ~Locked(c)
  /\ Drop(t, c, "started")
  /\ Announce(c, "started")
  /\ UNCHANGED <<now, points, book, calc, copies, all, counters, early, retracted>>

StartContest(t, c) ==
  /\ Turn(t, c, "started")
  /\ ~Locked(c)
  /\ Drop(t, c, "started")
  /\ IF row[c].started THEN UNCHANGED <<row, announced>> ELSE Announce(c, "started")
  /\ UNCHANGED <<now, points, book, calc, copies, all, counters, early, retracted>>

\* What a failure leaves: the mark is rolled back, the event may be out.  An
\* exception is logged and the contest left to a later run; a process that is killed
\* leaves the rest of its list, too.
RollBack(t, c, k) ==
  /\ MayUpset
  /\ faults' = faults + 1
  /\ \E out \in {0, 1} : /\ announced' = [announced EXCEPT ![c][k] = @ + out]
                        /\ retracted' = [retracted EXCEPT ![c][k] = @ + out]
  /\ \E left \in {due[t] \ {<<c, k>>}, {}} : due' = [due EXCEPT ![t] = left]

FailStart(t, c) ==
  /\ Turn(t, c, "started")
  /\ ~Locked(c)
  /\ ~row[c].started
  /\ RollBack(t, c, "started")
  /\ UNCHANGED <<now, row, points, book, calc, copies, all, plays, edits, recalculations, early>>

\* end_contest up to the writes of calculate_ratings.
BeginEnd(t, c) ==
  /\ Turn(t, c, "ended")
  /\ ~Locked(c)
  /\ IF row[c].ended
       THEN Drop(t, c, "ended") /\ UNCHANGED calc
       ELSE /\ calc' = [calc EXCEPT ![t] = [on |-> TRUE, contest |-> c, plan |-> Plan(book, c)]]
            /\ UNCHANGED due
  /\ UNCHANGED <<now, row, points, book, copies, all, announced, counters, early, retracted>>

\* A recalculation has updated, and so locked, these users.
UsersLocked(us) == all.on /\ us \cap all.users # {}

CommitEnd(t) ==
  /\ calc[t].on
  /\ ~UsersLocked(DOMAIN calc[t].plan)
  /\ LET c == calc[t].contest
     IN /\ book' = Written(book, c, calc[t].plan)
        /\ Announce(c, "ended")
        /\ Drop(t, c, "ended")
  /\ calc' = [calc EXCEPT ![t] = NoCalc]
  /\ UNCHANGED <<now, points, copies, all, counters, early, retracted>>

FailEnd(t) ==
  /\ calc[t].on
  /\ RollBack(t, calc[t].contest, "ended")
  /\ calc' = [calc EXCEPT ![t] = NoCalc]
  /\ UNCHANGED <<now, row, points, book, copies, all, plays, edits, recalculations, early>>

\* recalculate_all_ratings: users with ratings are reset, the rows it sees deleted.
BeginAll ==
  /\ ~all.on
  /\ MayUpset
  /\ recalculations' = recalculations + 1
  /\ LET users == {u \in Users : RatedIn(book.rows, u) # {}}
     IN all' = [on |-> TRUE, next |-> 1, users |-> users,
                gone |-> {x \in Contests \X Users : book.rows[x[1]][x[2]] # NoRating},
                own |-> [rows |-> [c \in Contests |-> [u \in Users |-> NoRating]],
                         rating |-> [u \in Users |-> Initial],
                         max |-> [u \in Users |-> Initial]]]
  /\ UNCHANGED <<now, row, points, book, due, calc, copies, announced,
                 plays, edits, faults, early, retracted>>

\* What the recalculation sees: its own writes, and what others have committed.
View ==
  [rows |-> [c \in Contests |-> [u \in Users |->
               IF all.own.rows[c][u] = NoRating /\ <<c, u>> \notin all.gone
                 THEN book.rows[c][u] ELSE all.own.rows[c][u]]],
   rating |-> [u \in Users |-> IF u \in all.users THEN all.own.rating[u] ELSE book.rating[u]],
   max |-> [u \in Users |-> IF u \in all.users THEN all.own.max[u] ELSE book.max[u]]]

\* It goes through the rated contests by their end, over or not.
RedoNext ==
  /\ all.on
  /\ all.next \in DOMAIN ByEnd
  /\ \E seen \in {View} : \E plan \in {Plan(seen, ByEnd[all.next])} :
       all' = [all EXCEPT !.next = @ + 1, !.own = Written(@, ByEnd[all.next], plan),
                          !.users = @ \cup DOMAIN plan]
  /\ UNCHANGED <<now, row, points, book, due, calc, copies, announced, counters, early, retracted>>

CommitAll ==
  /\ all.on
  /\ all.next \notin DOMAIN ByEnd
  /\ book' = View
  /\ all' = NoCalc
  /\ early' = early \cup {c \in Contests : ~row[c].ended}
  /\ UNCHANGED <<now, row, points, due, calc, copies, announced, counters, retracted>>

\* The management command recalculate_ratings, one transaction for each contest: a
\* formula of its own, from the rating the user has now, and ranks without ties.
Command(c) ==
  /\ MayUpset
  /\ recalculations' = recalculations + 1
  /\ LET players == {u \in Users : points[c][u] # Absent}
     IN /\ players # {}
        /\ ~UsersLocked(players)
        /\ \E rank \in [players -> 1..Cardinality(players)] :
             /\ \A u, v \in players : /\ u # v => rank[u] # rank[v]
                                      /\ points[c][u] > points[c][v] => rank[u] < rank[v]
             /\ book' = Written([book EXCEPT !.rows[c] = [u \in Users |-> NoRating]], c,
                                [u \in players |->
                                  [before |-> book.rating[u],
                                   after |-> SimpleElo(book.rating[u], points[c][u], rank[u]),
                                   max |-> book.max[u]]])
  /\ early' = IF row[c].ended THEN early ELSE early \cup {c}
  /\ UNCHANGED <<now, row, points, due, calc, copies, all, announced,
                 plays, edits, faults, retracted>>

Tick ==
  /\ now < Horizon
  /\ now' = now + 1
  /\ UNCHANGED <<row, points, book, due, calc, copies, all, announced, counters, early, retracted>>

TaskStep(t) ==
  \/ \E c \in Contests : StartContest(t, c) \/ BeginEnd(t, c)
  \/ CommitEnd(t)

Next ==
  \/ \E c \in Contests, u \in Users : Play(c, u)
  \/ \E c \in Contests : ReadCopy(c)
  \/ \E d \in copies : SaveCopy(d)
  \/ \E t \in Tasks : ReadDue(t) \/ TaskStep(t) \/ FailEnd(t)
  \/ \E t \in Tasks, c \in Contests : FailStart(t, c)
  \/ BeginAll
  \/ RedoNext
  \/ CommitAll
  \/ \E c \in Contests : Command(c)
  \/ Tick

\* Celery beat starts contests.tick every minute, and transactions come to an end.
Fairness ==
  /\ WF_vars(Tick)
  /\ WF_vars(RedoNext) /\ WF_vars(CommitAll)
  /\ \A t \in Tasks : WF_vars(ReadDue(t)) /\ WF_vars(TaskStep(t))

Spec == Init /\ [][Next]_vars /\ Fairness

-----------------------------------------------------------------------------
(* Properties *)

\* tests/test_contests.py:86: the task is idempotent.  Runs of it that overlap start
\* and end a contest once.  There are two ways to announce it again: a PATCH that
\* puts back a copy of the row from before, and a transaction that publishes and
\* then does not commit (events that nobody receives count, too).
AnnouncedOnce ==
  \A c \in Contests, k \in Phases : announced[c][k] <= 1 + edits + retracted[c][k]

\* A contest may be ended twice, because of a PATCH, and its scores may change in
\* between: what was rated then stays rated as it was, but for a recalculation of
\* everything.
RatingsAreFinal ==
  [][recalculations' = recalculations /\ ~(all.on /\ ~all'.on) =>
       \A c \in Contests \ early, u \in Users :
         book.rows[c][u] # NoRating => book'.rows[c][u] = book.rows[c][u]]_vars

\* A contest whose end time passes is ended, though runs of the task may fail and
\* PATCHes may put back a row that was not ended.
DueEnds == \A c \in Contests : now >= EndOf[c] /\ ~row[c].ended ~> row[c].ended

=============================================================================
