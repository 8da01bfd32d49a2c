------------------------------ MODULE Contests ------------------------------
(***************************************************************************)
(* One contest: who may enter and submit, and the PATCHes of its staff.    *)
(*                                                                         *)
(* A request reads the contest in its router and works with that copy: by  *)
(* the time it looks for a participation, takes a lock or saves, the row   *)
(* may be another.  Requests of one user overlap.  Scores matter only in   *)
(* as far as they decide which participation a submission is bound to, and *)
(* of the order of participations the cumulative time is left out: among   *)
(* equal scores any comes first.                                           *)
(***************************************************************************)
EXTENDS Naturals, Sequences, FiniteSets

CONSTANTS
  Users, Staff,   \* all of them signed in; Staff: organizers, curators, platform staff
  Members,           \* members of the contest's organizations
  CodeHolders,    \* those who send the access code, if there is one
  Banned,         \* Contest.banned_users
  Problems, Limit,  \* ContestProblem.max_submissions
  TimeLimit,      \* Contest.time_limit of a virtual participation
  FirstRows,      \* how a contest may be created
  Edits,          \* what a PATCH may send: some of the fields of the row
  Wants,          \* the requests users make: pairs of a user and a kind
  Requests,       \* requests that may be under way at once
  Horizon, MaxEntries, MaxEdits  \* bounds

\* create_contest refuses a contest that does not start before it ends.
ASSUME ContestAssumption ==
  /\ Limit \in Nat
  /\ \A row \in FirstRows : row.start < row.end

VARIABLES
  now,       \* the clock
  contest,   \* the row: its schedule, and who it is open to
  listed,    \* the problems of the contest
  entries,   \* participations in the order of their creation
  used,      \* submissions by participation and problem
  ask,       \* requests under way
  edits,     \* PATCHes saved
  welcomed   \* history: the users some state of the row would let in

vars == <<now, contest, listed, entries, used, ask, edits, welcomed>>

Live == "live"
Virtual == "virtual"
NoAsk == [step |-> "none"]

-----------------------------------------------------------------------------
(* Who may see and enter *)

EntriesOf(u) == {i \in DOMAIN entries : entries[i].user = u}
LiveOf(u) == {i \in EntriesOf(u) : entries[i].status = Live}

\* Mutant: a private contest is open to whoever has a link.
SeesShown(u, row) == u \in Staff \/ row.shown

CanSee(u, row) ==
  \/ u \in Staff
  \/ row.shown /\ row.vis = "public"
  \/ row.shown /\ row.vis = "private" /\ EntriesOf(u) # {}
  \/ row.shown /\ row.vis = "organization" /\ u \in Members

Upcoming(row) == now < row.start
Finished(row) == now >= row.end
Active(row) == row.start <= now /\ now < row.end

CanJoin(u, row, finishedToo) ==
  /\ u \notin Banned
  /\ ~Upcoming(row)
  /\ Finished(row) => finishedToo
  /\ \/ u \in Staff
     \/ row.code /\ u \in CodeHolders
     \/ row.shown /\ CanSee(u, row)

\* Whether a row lets u in of itself, not counting what u already has.
Welcomes(row, u) ==
  \/ u \in Staff
  \/ row.code /\ u \in CodeHolders
  \/ row.shown /\ row.vis = "public"
  \/ row.shown /\ row.vis = "organization" /\ u \in Members

-----------------------------------------------------------------------------
(* Requests *)

Init ==
  /\ now = 0
  /\ contest \in FirstRows
  /\ listed = Problems
  /\ entries = <<>>
  /\ used = <<>>
  /\ ask = [r \in Requests |-> NoAsk]
  /\ edits = 0
  /\ welcomed = {u \in Users : Welcomes(contest, u)}

Arrive(r, u, op, what) ==
  /\ ask[r] = NoAsk
  /\ <<u, op>> \in Wants
  /\ ask' = [ask EXCEPT ![r] = [step |-> op, user |-> u, row |-> contest, what |-> what, entry |-> 0]]
  /\ UNCHANGED <<now, contest, listed, entries, used, edits, welcomed>>

AskToJoin(r, u) == Arrive(r, u, "join", Live)
AskForVirtual(r, u) == Arrive(r, u, "virtual", Virtual)
AskToSubmit(r, u, p) == Arrive(r, u, "submit", p)
AskToEdit(r, u, e) == u \in Staff /\ Arrive(r, u, "edit", e)

Go(r, step) == ask' = [ask EXCEPT ![r].step = step]
Done(r) == ask' = [ask EXCEPT ![r] = NoAsk]

Unentered == UNCHANGED <<now, contest, listed, entries, used, edits, welcomed>>

\* join_contest up to the lookup of get_or_create; with one live participation
\* that one is returned, with more the lookup fails.
Join(r) ==
  /\ ask[r].step = "join"
  /\ LET u == ask[r].user
     IN IF CanJoin(u, ask[r].row, FALSE) /\ LiveOf(u) = {} THEN Go(r, "create") ELSE Done(r)
  /\ Unentered

\* start_virtual up to its lookup.
StartVirtual(r) ==
  /\ ask[r].step = "virtual"
  /\ LET u == ask[r].user
     IN IF TimeLimit > 0 /\ CanJoin(u, ask[r].row, TRUE) /\ EntriesOf(u) = LiveOf(u)
          THEN Go(r, "create") ELSE Done(r)
  /\ Unentered

\* Neither creation holds a lock, and virtual_start is NULL or the current time,
\* so the unique constraint stops neither.
Create(r) ==
  /\ ask[r].step = "create"
  /\ Len(entries) < MaxEntries
  /\ entries' = Append(entries, [user |-> ask[r].user, status |-> ask[r].what,
                                 began |-> now, score |-> 0, out |-> FALSE])
  /\ used' = Append(used, [p \in Problems |-> 0])
  /\ Done(r)
  /\ UNCHANGED <<now, contest, listed, edits, welcomed>>

\* The participations of u that come first by score.
FirstOf(u) ==
  LET good == {i \in EntriesOf(u) : ~entries[i].out}
  IN {i \in good : \A j \in good : entries[j].score <= entries[i].score}

Holding == {r \in Requests : ask[r].step \in {"locked", "allowed"}}
EntryLocked(i) == \E r \in Holding : ask[r].entry = i
ProblemLocked(p) == \E r \in Holding : ask[r].step = "allowed" /\ ask[r].what = p

\* submit_to_contest locks a participation of the user.
LockEntry(r) ==
  /\ ask[r].step = "submit"
  /\ \E i \in FirstOf(ask[r].user) :
       /\ ~EntryLocked(i)
       /\ ask' = [ask EXCEPT ![r].step = "locked", ![r].entry = i]
  /\ Unentered

NotJoined(r) ==
  /\ ask[r].step = "submit"
  /\ FirstOf(ask[r].user) = {}
  /\ Done(r)
  /\ Unentered

TimeIsLeft(i, schedule) ==
  IF entries[i].status = Live THEN Active(schedule) ELSE now < entries[i].began + TimeLimit

\* Mutant: one submission more than allowed.
BelowLimit(i, p) == used[i][p] <= Limit

UnderLimit(i, p) == used[i][p] < Limit

\* It then checks the time, locks the problem and counts.
CheckLimit(r) ==
  /\ ask[r].step = "locked"
  /\ LET i == ask[r].entry
         p == ask[r].what
     IN /\ ~ProblemLocked(p)
        /\ IF TimeIsLeft(i, ask[r].row) /\ p \in listed /\ UnderLimit(i, p)
             THEN Go(r, "allowed") ELSE Done(r)
  /\ Unentered

\* create_submission, and the transaction commits.
Insert(r) ==
  /\ ask[r].step = "allowed"
  /\ used' = [used EXCEPT ![ask[r].entry][ask[r].what] = @ + 1]
  /\ Done(r)
  /\ UNCHANGED <<now, contest, listed, entries, edits, welcomed>>

Updated(row, e) == [f \in DOMAIN row |-> IF f \in DOMAIN e THEN e[f] ELSE row[f]]

\* Mutant: only the fields that were sent are written.
SaveFields(r) ==
  /\ ask[r].step = "edit"
  /\ LET row == Updated(ask[r].row, ask[r].what)
     IN IF row.start < row.end /\ edits < MaxEdits
          THEN /\ contest' = Updated(contest, ask[r].what)
               /\ edits' = edits + 1
               /\ welcomed' = welcomed \cup {u \in Users : Welcomes(contest', u)}
          ELSE UNCHANGED <<contest, edits, welcomed>>
  /\ Done(r)
  /\ UNCHANGED <<now, listed, entries, used>>

\* update_contest checks the schedule and saves every field of its copy.
Save(r) ==
  /\ ask[r].step = "edit"
  /\ LET row == Updated(ask[r].row, ask[r].what)
     IN IF row.start < row.end /\ edits < MaxEdits
          THEN /\ contest' = row
               /\ edits' = edits + 1
               /\ welcomed' = welcomed \cup {u \in Users : Welcomes(row, u)}
          ELSE UNCHANGED <<contest, edits, welcomed>>
  /\ Done(r)
  /\ UNCHANGED <<now, listed, entries, used>>

RequestStep(r) ==
  \/ Join(r)
  \/ StartVirtual(r)
  \/ Create(r)
  \/ LockEntry(r)
  \/ NotJoined(r)
  \/ CheckLimit(r)
  \/ Insert(r)
  \/ Save(r)

-----------------------------------------------------------------------------
(* The staff and the judges *)

SetOut(u, out) ==
  /\ entries' = [i \in DOMAIN entries |->
                   IF entries[i].user = u THEN [entries[i] EXCEPT !.out = out] ELSE entries[i]]
  /\ UNCHANGED <<now, contest, listed, used, ask, edits, welcomed>>

\* Each waits for submissions that have locked a participation of the user.
Disqualify(u) == (\A i \in EntriesOf(u) : ~EntryLocked(i)) /\ SetOut(u, TRUE)
Undisqualify(u) == (\A i \in EntriesOf(u) : ~EntryLocked(i)) /\ SetOut(u, FALSE)

AddProblem(p) ==
  /\ p \notin listed
  /\ listed' = listed \cup {p}
  /\ UNCHANGED <<now, contest, entries, used, ask, edits, welcomed>>

RemoveProblem(p) ==
  /\ p \in listed
  /\ ~ProblemLocked(p)
  /\ listed' = listed \ {p}
  /\ UNCHANGED <<now, contest, entries, used, ask, edits, welcomed>>

\* A finish refreshes the score of the participation.
Scored(i) ==
  /\ entries[i].score = 0
  /\ \E p \in Problems : used[i][p] > 0
  /\ ~EntryLocked(i)
  /\ entries' = [entries EXCEPT ![i].score = 1]
  /\ UNCHANGED <<now, contest, listed, used, ask, edits, welcomed>>

Tick ==
  /\ now < Horizon
  /\ now' = now + 1
  /\ UNCHANGED <<contest, listed, entries, used, ask, edits, welcomed>>

Next ==
  \/ \E r \in Requests, u \in Users : \/ AskToJoin(r, u)
                                      \/ AskForVirtual(r, u)
                                      \/ \E p \in Problems : AskToSubmit(r, u, p)
                                      \/ \E e \in Edits : AskToEdit(r, u, e)
  \/ \E r \in Requests : RequestStep(r)
  \/ \E u \in Users \ Staff : Disqualify(u) \/ Undisqualify(u)
  \/ \E p \in Problems : AddProblem(p) \/ RemoveProblem(p)
  \/ \E i \in DOMAIN entries : Scored(i)
  \/ Tick

Spec == Init /\ [][Next]_vars

-----------------------------------------------------------------------------
(* Properties *)

\* submit_to_contest counts and then creates: no participation gets more
\* submissions to a problem than max_submissions, however its requests overlap and
\* even if the problem is taken out of the contest and put back.
LimitHolds == \A i \in DOMAIN used : \A p \in Problems : used[i][p] <= Limit

\* A private contest shows itself to its participants, and lets in whom it shows
\* itself to: nobody gets in that way whom no state of the contest would have let
\* in of itself.
NoBootstrap == \A i \in DOMAIN entries : entries[i].user \in welcomed

\* update_contest checks the schedule on its copy of the row: two PATCHes that
\* overlap, each right on its own, do not leave a contest that ends before it
\* starts.
ScheduleValid == contest.start < contest.end

=============================================================================
