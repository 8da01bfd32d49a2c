---------------------------- MODULE SubmissionDesk ----------------------------
(***************************************************************************)
(* The submissions API in front of the judge: new submissions and runs     *)
(* under their rate limits, who may see what of a submission, its public   *)
(* flag and its share token, and the clean-up of old runs.                 *)
(*                                                                         *)
(* A request is a task of the web server.  It checks, or reads a row, in   *)
(* one step and writes in a later one; other requests, the clock and the   *)
(* clean-up come in between.  Judging itself is in JudgingTransactions.    *)
(***************************************************************************)
EXTENDS Integers, Sequences, FiniteSets

CONSTANTS
  DeskUsers, DeskStaff, Maintainers, \* maintainers: pairs of a user and a problem
  Accessible,                \* pairs: the problem's own rules let the user in
  Contending,                \* pairs: ... or a running contest with the problem, live for the user
  DeskProblems, Packaged,    \* packaged: an active package
  Languages, Enabled,        \* the languages that are switched on
  LanguagesOf,               \* problem -> its languages, none meaning all
  RowLimit,                  \* mode -> rows per window
  RowWindow, Retention,      \* in ticks: the window, and the age at which runs go
  DeskTasks, Nobody,
  MaxRows, MaxTokens,        \* bounds: rows created, share tokens issued,
  MaxSettings                \* ... changes of settings begun

Modes == {"submit", "run"}
NoToken == 0

ASSUME DeskAssumption ==
  /\ IsFiniteSet(DeskTasks) /\ DeskTasks # {}
  /\ RowLimit \in [Modes -> Nat]
  /\ RowWindow \in Nat /\ Retention \in Nat /\ RowWindow <= Retention

VARIABLES
  subs,      \* the rows in the order of their creation; a deleted one keeps its place
  reqs,      \* task -> the request it works on
  issued,    \* share tokens issued: token n is the nth
  withdrawn, \* tokens that a finished request replaced or revoked
  settings   \* changes of settings begun

svars == <<subs, reqs, issued, withdrawn, settings>>

NoRequest == [stage |-> "idle", by |-> Nobody, row |-> 0, mode |-> "submit", problem |-> Nobody,
              change |-> "none", copy |-> [public |-> FALSE, token |-> NoToken]]

SInit ==
  /\ subs = <<>>
  /\ reqs = [t \in DeskTasks |-> NoRequest]
  /\ issued = 0 /\ withdrawn = {} /\ settings = 0

Kept == {i \in DOMAIN subs : ~subs[i].gone}

-----------------------------------------------------------------------------
(* Who may do what *)

\* What the rate limit counts: the user's rows of that mode.
Recent(u, mode) ==
  {i \in DOMAIN subs : /\ ~subs[i].gone /\ subs[i].owner = u
                       /\ subs[i].mode = mode /\ subs[i].age <= RowWindow}

HasAccess(u, p) == <<u, p>> \in Accessible \cup Contending

LanguageOk(p, l) == l \in Enabled /\ (LanguagesOf[p] = {} \/ l \in LanguagesOf[p])

WithinRate(u, mode) == u \in DeskStaff \/ Cardinality(Recent(u, mode)) < RowLimit[mode]

Accepts(u, p, l, mode) ==
  /\ HasAccess(u, p) /\ LanguageOk(p, l)
  /\ WithinRate(u, mode)
  /\ mode = "run" \/ p \in Packaged

Authenticated(u) == u # Nobody
Maintains(u, s) == <<u, s.problem>> \in Maintainers

CanViewPrivate(u, s) == Authenticated(u) /\ (u \in DeskStaff \/ s.owner = u \/ Maintains(u, s))

\* Mutant: metadata follows the rules of the source.
CanViewAsSource(u, s) == CanViewPrivate(u, s)

CanView(u, s) ==
  s.public \/ (Authenticated(u) /\ (u \in DeskStaff \/ s.owner = u \/ Maintains(u, s)))

CanEdit(u, s) == Authenticated(u) /\ (u \in DeskStaff \/ s.owner = u)

-----------------------------------------------------------------------------
(* What the endpoints that only read answer *)

\* The list: all that is judged for staff, one's own for others, or what is public.
Listed(u, public) ==
  {i \in DOMAIN subs : /\ Authenticated(u) /\ ~subs[i].gone /\ subs[i].mode = "submit"
                       /\ u \in DeskStaff \/ IF public THEN subs[i].public ELSE subs[i].owner = u}

Hidden == "hidden"
Meta == "metadata"
Full == "with the error text"

Detail(u, i) ==
  IF subs[i].gone \/ ~CanView(u, subs[i]) THEN Hidden
  ELSE IF CanViewPrivate(u, subs[i]) THEN Full ELSE Meta

\* The source, and the results of the test cases.
ReadsSource(u, i) == ~subs[i].gone /\ CanViewPrivate(u, subs[i])

\* The rows a share token leads to: their metadata is shown to anybody.
Shared(token) == {i \in Kept : token # NoToken /\ subs[i].token = token}

-----------------------------------------------------------------------------
(* Requests *)

\* create_submission up to its checks.
CheckSubmission(t) ==
  /\ reqs[t].stage = "idle"
  /\ \E u \in DeskUsers, p \in DeskProblems, l \in Languages, mode \in Modes :
       /\ Accepts(u, p, l, mode)
       /\ reqs' = [reqs EXCEPT ![t] =
                     [NoRequest EXCEPT !.stage = "insert", !.by = u, !.mode = mode, !.problem = p]]
  /\ UNCHANGED <<subs, issued, withdrawn, settings>>

\* ... and its transaction: the row, its source and its job.
InsertRow(t) ==
  /\ reqs[t].stage = "insert" /\ Len(subs) < MaxRows
  /\ subs' = Append(subs, [owner |-> reqs[t].by, problem |-> reqs[t].problem, mode |-> reqs[t].mode,
                           age |-> 0, gone |-> FALSE, public |-> FALSE, token |-> NoToken])
  /\ reqs' = [reqs EXCEPT ![t] = NoRequest]
  /\ UNCHANGED <<issued, withdrawn, settings>>

\* A change of the settings reads its row; the answer of all of them shows it in full.
ReadRow(t) ==
  /\ reqs[t].stage = "idle"
  /\ settings < MaxSettings /\ settings' = settings + 1
  /\ \E i \in Kept, change \in {"show", "hide", "share", "revoke"} :
       /\ \E u \in DeskUsers : CanEdit(u, subs[i])
       /\ reqs' = [reqs EXCEPT ![t] =
                     [NoRequest EXCEPT !.stage = "save", !.row = i, !.change = change,
                                  !.copy = [public |-> subs[i].public, token |-> subs[i].token]]]
  /\ UNCHANGED <<subs, issued, withdrawn>>

\* The change made to a copy of the row.
Changed(copy, change, fresh) ==
  [public |-> IF change \in {"show", "hide"} THEN change = "show" ELSE copy.public,
   token |-> IF change = "share" THEN fresh ELSE IF change = "revoke" THEN NoToken ELSE copy.token]

\* Mutant: the whole copy is written.
SavedWhole(row, copy, change, fresh) ==
  [row EXCEPT !.public = Changed(copy, change, fresh).public, !.token = Changed(copy, change, fresh).token]

\* save(update_fields): only the changed field is written.
Saved(row, copy, change, fresh) ==
  IF change \in {"show", "hide"} THEN [row EXCEPT !.public = Changed(copy, change, fresh).public]
  ELSE [row EXCEPT !.token = Changed(copy, change, fresh).token]

SaveRow(t) ==
  LET q == reqs[t]
      fresh == issued + 1
  IN /\ q.stage = "save" /\ q.row \in Kept
     /\ q.change = "share" => issued < MaxTokens
     /\ subs' = [subs EXCEPT ![q.row] = Saved(@, q.copy, q.change, fresh)]
     /\ issued' = IF q.change = "share" THEN fresh ELSE issued
     /\ withdrawn' = IF q.change \in {"share", "revoke"}
                     THEN withdrawn \cup ({subs[q.row].token} \ {NoToken}) ELSE withdrawn
     /\ reqs' = [reqs EXCEPT ![t] = NoRequest]
     /\ UNCHANGED settings

\* The row went away in between: the update finds nothing and the request fails.
SaveFails(t) ==
  /\ reqs[t].stage = "save" /\ reqs[t].row \notin Kept
  /\ reqs' = [reqs EXCEPT ![t] = NoRequest]
  /\ UNCHANGED <<subs, issued, withdrawn, settings>>

\* Mutant: runs go as soon as a tick has passed.
OutlivedAtOnce(s) == s.mode = "run" /\ s.age > 0

Outlived(s) == s.mode = "run" /\ s.age > Retention

\* The periodic task deletes runs, and what hangs on them, after their retention.
CleanupRuns ==
  /\ \E i \in Kept : Outlived(subs[i])
  /\ subs' = [i \in DOMAIN subs |->
                IF Outlived(subs[i]) THEN [subs[i] EXCEPT !.gone = TRUE, !.public = FALSE, !.token = NoToken]
                ELSE subs[i]]
  /\ UNCHANGED <<reqs, issued, withdrawn, settings>>

\* Time passes; ages beyond the retention are not told apart.
STick ==
  /\ \E i \in DOMAIN subs : subs[i].age <= Retention
  /\ subs' = [i \in DOMAIN subs |-> [subs[i] EXCEPT !.age = IF @ > Retention THEN @ ELSE @ + 1]]
  /\ UNCHANGED <<reqs, issued, withdrawn, settings>>

SNext ==
  \/ \E t \in DeskTasks : CheckSubmission(t) \/ InsertRow(t) \/ ReadRow(t) \/ SaveRow(t) \/ SaveFails(t)
  \/ CleanupRuns \/ STick

SSpec == SInit /\ [][SNext]_svars

-----------------------------------------------------------------------------
(* Properties *)

\* The rows of a user that the window covers, deleted or not.
InWindow(u, mode) ==
  {i \in DOMAIN subs : subs[i].owner = u /\ subs[i].mode = mode /\ subs[i].age <= RowWindow}

\* The rate limits hold up to the requests that passed the check together: a user
\* creates at most RowLimit rows of a mode in a window, and one more per other request
\* in flight.  The clean-up of runs never hides one that still counts.
RowsBounded == \A u \in DeskUsers \ DeskStaff, mode \in Modes :
  Cardinality(InWindow(u, mode)) <= RowLimit[mode] + Cardinality(DeskTasks) - 1

\* A share token that was revoked or replaced leads nowhere again, whatever other
\* change of the submission was under way, with a copy that still has the token.
DeadTokensStayDead == \A token \in withdrawn : Shared(token) = {}

\* The endpoints agree on who sees what: whatever a list shows can be opened, the
\* source is readable exactly where the details come in full, and whoever may change
\* the settings, and so gets the full answer, may read it in full.
DetailsAgree == \A i \in Kept, u \in DeskUsers \cup {Nobody} :
  LET seen == Detail(u, i)
  IN /\ i \in Listed(u, TRUE) \/ i \in Listed(u, FALSE) => seen # Hidden
     /\ ReadsSource(u, i) <=> seen = Full
     /\ CanEdit(u, subs[i]) => seen = Full

=============================================================================
