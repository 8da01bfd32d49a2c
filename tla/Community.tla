------------------------------ MODULE Community ------------------------------
(***************************************************************************)
(* Comments under one post, and the votes on them, as transactions of      *)
(* PostgreSQL at READ COMMITTED.                                           *)
(*                                                                         *)
(* A comment's place is its path: its parent's place and a number among    *)
(* its siblings.  A creation reads its siblings and waits for their locks; *)
(* what it has read is as of the start of the statement.  Texts, and so    *)
(* edits, and who may see the post are left out.                           *)
(***************************************************************************)
EXTENDS Integers, Sequences, FiniteSetsExt, Functions

CONSTANTS
  Authors,              \* the users
  Writers,              \* tasks of the web server
  MaxSegment, MaxDepth,
  MaxActs, MaxVotes     \* bounds: comments created and votes begun; votes begun

ASSUME CommunityAssumption == MaxActs \in Nat /\ IsFiniteSet(Authors)

Root == 0

VARIABLES
  comments, \* rows in the order of creation: parent, path, deleted, score, overlapped
  ballots,  \* <<comment, user>> -> committed vote, 0 if there is none
  work,     \* task -> its request
  cast      \* votes begun

cvars == <<comments, ballots, work, cast>>

Resting == [stage |-> "resting", by |-> "none", at |-> Root, seen |-> {}, value |-> 0, score |-> 0,
            overlapped |-> FALSE]

CInit ==
  /\ comments = <<>>
  /\ ballots = [ballot \in (1..MaxActs) \X Authors |-> 0]
  /\ work = [w \in Writers |-> Resting]
  /\ cast = 0

Rows == DOMAIN comments
Siblings(parent) == {c \in Rows : comments[c].parent = parent}
PathOf(c) == IF c = Root THEN <<>> ELSE comments[c].path

-----------------------------------------------------------------------------
(* Comments *)

\* Mutant: deleted siblings give their numbers back.
NextAmongVisible(seen) ==
  1 + Max({0} \cup {comments[c].path[Len(comments[c].path)] : c \in {c \in seen : ~comments[c].deleted}})

\* One more than the greatest number among the siblings that were read.
NextSegment(seen) == 1 + Max({0} \cup {comments[c].path[Len(comments[c].path)] : c \in seen})

\* add_comment: the parent is not too deep, and its replies are read.
BeginComment(w) == \E parent \in Rows \cup {Root} :
  /\ work[w].stage = "resting" /\ Len(comments) + cast < MaxActs
  /\ Len(PathOf(parent)) < MaxDepth
  /\ work' = [work EXCEPT ![w] = [Resting EXCEPT !.stage = "locking", !.at = parent,
                                                 !.seen = Siblings(parent)]]
  /\ UNCHANGED <<comments, ballots, cast>>

\* Their locks are all free: other creations that read some of them have ended.
LockSiblings(w) ==
  /\ work[w].stage = "locking"
  /\ \A v \in Writers : work[v].stage = "locked" => work[v].seen \cap work[w].seen = {}
  /\ work' = [work EXCEPT ![w].stage = IF NextSegment(work[w].seen) > MaxSegment THEN "full" ELSE "locked"]
  /\ UNCHANGED <<comments, ballots, cast>>

\* There is no number left: the request is refused.
RefuseComment(w) ==
  /\ work[w].stage = "full"
  /\ work' = [work EXCEPT ![w] = Resting]
  /\ UNCHANGED <<comments, ballots, cast>>

\* The comment is inserted and the transaction commits; those that read the same
\* siblings before do not see it any more.
CommitComment(w) ==
  LET q == work[w]
  IN /\ q.stage = "locked" /\ Len(comments) + cast < MaxActs
     /\ comments' = Append(comments,
          [parent |-> q.at, path |-> Append(PathOf(q.at), NextSegment(q.seen)),
           deleted |-> FALSE, score |-> 0, overlapped |-> q.overlapped])
     /\ work' = [v \in Writers |->
          IF v = w THEN Resting
          ELSE IF work[v].stage \in {"locking", "locked", "full"} /\ work[v].at = q.at
               THEN [work[v] EXCEPT !.overlapped = TRUE] ELSE work[v]]
     /\ UNCHANGED <<ballots, cast>>

\* The author, or staff, deletes a comment: it stays, without its text, and so do the
\* replies.
DeleteComment(c) ==
  /\ ~comments[c].deleted
  /\ comments' = [comments EXCEPT ![c].deleted = TRUE]
  /\ UNCHANGED <<ballots, work, cast>>

-----------------------------------------------------------------------------
(* Votes *)

\* The comment is read ...
BeginVote(w) == \E u \in Authors, c \in Rows, value \in {1, -1} :
  /\ work[w].stage = "resting" /\ cast < MaxVotes /\ Len(comments) + cast < MaxActs
  /\ cast' = cast + 1
  /\ work' = [work EXCEPT ![w] = [Resting EXCEPT !.stage = "voting", !.by = u, !.at = c, !.value = value,
                                                 !.score = comments[c].score]]
  /\ UNCHANGED <<comments, ballots>>

\* ... then the user's vote is found, or inserted, and locked: nobody else holds it.
LockBallot(w) ==
  /\ work[w].stage = "voting"
  /\ \A v \in Writers \ {w} : work[v].stage = "voted" => <<work[v].at, work[v].by>> # <<work[w].at, work[w].by>>
  /\ work' = [work EXCEPT ![w].stage = "voted"]
  /\ UNCHANGED <<comments, ballots, cast>>

\* Mutant: the score is counted from the copy that was read.
ScoredFromCopy(q, delta) == IF delta = 0 THEN comments[q.at].score ELSE q.score + delta

\* The database adds the difference to the score as it is now.
NewScore(q, delta) == comments[q.at].score + delta

\* The vote and the score are committed together.
CommitVote(w) ==
  LET q == work[w]
  IN /\ q.stage = "voted"
     /\ ballots' = [ballots EXCEPT ![<<q.at, q.by>>] = q.value]
     /\ comments' = [comments EXCEPT ![q.at].score = NewScore(q, q.value - ballots[<<q.at, q.by>>])]
     /\ work' = [work EXCEPT ![w] = Resting]
     /\ UNCHANGED cast

\* The database gives a transaction up, and nothing of it stays.
AbortWork(w) ==
  /\ work[w].stage \in {"locked", "voted"}
  /\ work' = [work EXCEPT ![w] = Resting]
  /\ UNCHANGED <<comments, ballots, cast>>

CNext ==
  \/ \E w \in Writers : BeginComment(w) \/ LockSiblings(w) \/ RefuseComment(w) \/ CommitComment(w)
                        \/ BeginVote(w) \/ LockBallot(w) \/ CommitVote(w) \/ AbortWork(w)
  \/ \E c \in Rows : DeleteComment(c)

CSpec == CInit /\ [][CNext]_cvars

-----------------------------------------------------------------------------
(* Properties *)

\* A comment's score is the sum of the votes on it, however votes of one or of
\* several users overlap, change their minds or are given up.
ScoreIsSumOfVotes == \A c \in Rows :
  comments[c].score = SumFunction([u \in Authors |-> ballots[<<c, u>>]])

\* Two comments have one place only if the second was created while the first was, or
\* if their parents are two comments that share a place in turn: the numbers of deleted
\* comments are never given out again.
OwnPlaces == \A b, c \in Rows :
  b < c /\ comments[b].path = comments[c].path =>
    \/ comments[c].overlapped
    \/ /\ comments[b].parent # comments[c].parent
       /\ PathOf(comments[b].parent) = PathOf(comments[c].parent)

=============================================================================
