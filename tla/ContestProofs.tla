---------------------------- MODULE ContestProofs ----------------------------
(***************************************************************************)
(* Proofs about contests: that no format takes points away for more work   *)
(* or more results, and what follows for the stored score of a             *)
(* participation (ContestScore) and for the board (Scoreboard), for any    *)
(* problems, outcomes and number of submissions and transactions; and      *)
(* about the end of contests and their ratings (Ratings), for any          *)
(* contests, users, schedules and bounds, any number of overlapping runs   *)
(* of the task and any rating formula.                                     *)
(***************************************************************************)
EXTENDS Ratings, ContestScore, Scoreboard, SumLemmas, TLAPS

-----------------------------------------------------------------------------
(* What the formats make of more submissions, and of more results *)

\* Submissions that make sense: finitely many, by number, each with its time and
\* an outcome as finish and fail write it, or none yet.
Entries(q) ==
  /\ IsFiniteSet(DOMAIN q) /\ DOMAIN q \subseteq Nat
  /\ \A i \in DOMAIN q : q[i].at \in Nat /\ WellScored(q[i].out)

\* What has no result yet may get one, and what is new is later than all the rest.
Grows(q, r) ==
  /\ DOMAIN q \subseteq DOMAIN r
  /\ \A i \in DOMAIN q, j \in DOMAIN r : j < i => j \in DOMAIN q
  /\ \A i \in DOMAIN q : /\ r[i].problem = q[i].problem
                         /\ r[i].out = q[i].out \/ q[i].out = Pending

\* The querysets are restrictions of the submissions.
LEMMA AttemptsAre ==
  ASSUME NEW q, NEW p
  PROVE  /\ DOMAIN Attempts(q, p) = {i \in DOMAIN q : q[i].problem = p}
         /\ \A i \in DOMAIN Attempts(q, p) : Attempts(q, p)[i] = q[i]
  BY DEF Attempts, RestrictValues, Restrict

LEMMA CountedAre ==
  ASSUME NEW q
  PROVE  /\ DOMAIN Counted(q) = {i \in DOMAIN q : q[i].out.result \notin {"CE", "IE"}}
         /\ \A i \in DOMAIN Counted(q) : Counted(q)[i] = q[i]
  BY DEF Counted, RestrictValues, Restrict

LEMMA FirstTriesAre ==
  ASSUME NEW q
  PROVE  /\ DOMAIN FirstTries(q) = {i \in DOMAIN q : Cardinality({j \in DOMAIN q : j <= i}) <= Tries}
         /\ \A i \in DOMAIN FirstTries(q) : FirstTries(q)[i] = q[i]
  BY DEF FirstTries, RestrictDomain, Restrict

LEMMA AttemptsSound ==
  ASSUME NEW q, Entries(q), NEW p
  PROVE  Entries(Attempts(q, p))
  BY AttemptsAre, FS_Subset DEF Entries

LEMMA AttemptsGrow ==
  ASSUME NEW q, NEW r, Grows(q, r), NEW p
  PROVE  Grows(Attempts(q, p), Attempts(r, p))
<1> DEFINE a == Attempts(q, p)
           b == Attempts(r, p)
<1>1. /\ DOMAIN a = {i \in DOMAIN q : q[i].problem = p} /\ \A i \in DOMAIN a : a[i] = q[i]
      /\ DOMAIN b = {i \in DOMAIN r : r[i].problem = p} /\ \A i \in DOMAIN b : b[i] = r[i]
  <2>1. DOMAIN a = {i \in DOMAIN q : q[i].problem = p} /\ \A i \in DOMAIN a : a[i] = q[i]
    BY AttemptsAre
  <2>2. DOMAIN b = {i \in DOMAIN r : r[i].problem = p} /\ \A i \in DOMAIN b : b[i] = r[i]
    BY AttemptsAre
  <2> QED BY <2>1, <2>2
<1> HIDE DEF a, b
<1>2. DOMAIN a \subseteq DOMAIN b
  BY <1>1 DEF Grows
<1>3. ASSUME NEW i \in DOMAIN a, NEW j \in DOMAIN b, j < i PROVE j \in DOMAIN a
  BY <1>1, <1>3 DEF Grows
<1>4. ASSUME NEW i \in DOMAIN a
      PROVE  b[i].problem = a[i].problem /\ (b[i].out = a[i].out \/ a[i].out = Pending)
  BY <1>1, <1>2 DEF Grows
<1>5. Grows(a, b)
  BY <1>2, <1>3, <1>4 DEF Grows
<1> QED BY <1>5 DEF a, b

\* What is accepted stays accepted, also among those that icpc and ecoo look at.
LEMMA SolvedGrows ==
  ASSUME NEW q, NEW r, Entries(r), Grows(q, r)
  PROVE  /\ Solved(q) => Solved(r)
         /\ Solved(Counted(q)) => Solved(Counted(r))
         /\ Solved(FirstTries(q)) => Solved(FirstTries(r))
<1>1. ASSUME NEW i \in DOMAIN q, Accepted(q[i])
      PROVE  /\ i \in DOMAIN r /\ r[i].out = q[i].out /\ Accepted(r[i])
             /\ {j \in DOMAIN r : j <= i} = {j \in DOMAIN q : j <= i}
  <2>1. i \in DOMAIN r /\ r[i].out = q[i].out
    BY <1>1 DEF Grows, Accepted, Pending
  <2>2. {j \in DOMAIN r : j <= i} = {j \in DOMAIN q : j <= i}
    <3>1. DOMAIN r \subseteq Nat /\ DOMAIN q \subseteq DOMAIN r
      BY DEF Entries, Grows
    <3>2. \A j \in DOMAIN r : j < i \/ j = i => j \in DOMAIN q
      BY DEF Grows
    <3> QED BY <3>1, <3>2
  <2> QED BY <1>1, <2>1, <2>2 DEF Accepted
<1>2. Solved(q) => Solved(r)
  BY <1>1 DEF Solved
<1>3. ASSUME Solved(Counted(q)) PROVE Solved(Counted(r))
  <2>1. PICK i \in DOMAIN Counted(q) : Accepted(Counted(q)[i])
    BY <1>3 DEF Solved
  <2>2. i \in DOMAIN q /\ Accepted(q[i])
    BY <2>1, CountedAre
  <2>3. i \in DOMAIN Counted(r) /\ Accepted(Counted(r)[i])
    BY <1>1, <2>2, CountedAre DEF Accepted
  <2> QED BY <2>3 DEF Solved
<1>4. ASSUME Solved(FirstTries(q)) PROVE Solved(FirstTries(r))
  <2>1. PICK i \in DOMAIN FirstTries(q) : Accepted(FirstTries(q)[i])
    BY <1>4 DEF Solved
  <2>2. i \in DOMAIN q /\ Accepted(q[i]) /\ Cardinality({j \in DOMAIN q : j <= i}) <= Tries
    BY <2>1, FirstTriesAre
  <2>3. i \in DOMAIN FirstTries(r) /\ Accepted(FirstTries(r)[i])
    BY <1>1, <2>2, FirstTriesAre
  <2> QED BY <2>3 DEF Solved
<1> QED BY <1>2, <1>3, <1>4

\* The best score does not drop.
LEMMA PointsFinite ==
  ASSUME NEW q, Entries(q)
  PROVE  /\ {q[i].out.points : i \in DOMAIN q} \cup {0} \in SUBSET Nat
         /\ IsFiniteSet({q[i].out.points : i \in DOMAIN q} \cup {0})
<1> DEFINE f == [i \in DOMAIN q |-> q[i].out.points]
           F == {q[i].out.points : i \in DOMAIN q}
<1>1. F \subseteq Nat
  BY DEF Entries, WellScored
<1>2. IsFiniteSet(F)
  <2>1. F = {f[i] : i \in DOMAIN f} /\ DOMAIN f = DOMAIN q
    OBVIOUS
  <2> HIDE DEF f, F
  <2> QED BY <2>1, FinitelyManyValues DEF Entries
<1> HIDE DEF F
<1>3. F \cup {0} \in SUBSET Nat /\ IsFiniteSet(F \cup {0})
  BY <1>1, <1>2, FS_AddElement
<1> QED BY <1>3 DEF F

LEMMA BestGrows ==
  ASSUME NEW q, NEW r, Entries(q), Entries(r), Grows(q, r)
  PROVE  /\ BestPoints(q) \in Nat
         /\ BestPoints(q) <= BestPoints(r)
<1> DEFINE F == {q[i].out.points : i \in DOMAIN q} \cup {0}
           H == {r[i].out.points : i \in DOMAIN r} \cup {0}
<1>1. /\ F \in SUBSET Nat /\ IsFiniteSet(F)
      /\ H \in SUBSET Nat /\ IsFiniteSet(H)
  BY PointsFinite
<1>2. F \subseteq H
  <2> SUFFICES ASSUME NEW i \in DOMAIN q PROVE q[i].out.points \in H
    OBVIOUS
  <2>1. i \in DOMAIN r /\ (r[i].out.points = q[i].out.points \/ q[i].out.points = 0)
    BY DEF Grows, Pending
  <2> QED BY <2>1
<1>3. 0 \in F /\ BestPoints(q) = Max(F) /\ BestPoints(r) = Max(H)
  BY DEF BestPoints
<1> HIDE DEF F, H
<1>4. \A x \in F : \E y \in H : x <= y
  BY <1>1, <1>2
<1>5. Max(F) \in Nat /\ Max(F) <= Max(H)
  BY <1>1, <1>3, <1>4, GreatestGrows
<1> QED BY <1>3, <1>5

LEMMA SubtaskFinite ==
  ASSUME NEW q, Entries(q), NEW k \in Groups
  PROVE  /\ {q[i].out.subtasks[k] : i \in Graded(q)} \cup {0} \in SUBSET Nat
         /\ IsFiniteSet({q[i].out.subtasks[k] : i \in Graded(q)} \cup {0})
<1> DEFINE f == [i \in Graded(q) |-> q[i].out.subtasks[k]]
           F == {q[i].out.subtasks[k] : i \in Graded(q)}
<1>1. F \subseteq Nat
  BY DEF Graded, Entries, WellScored
<1>2. IsFiniteSet(F)
  <2>1. F = {f[i] : i \in DOMAIN f} /\ DOMAIN f = Graded(q)
    OBVIOUS
  <2>2. IsFiniteSet(Graded(q))
    BY FS_Subset DEF Graded, Entries
  <2> HIDE DEF f, F
  <2> QED BY <2>1, <2>2, FinitelyManyValues
<1> HIDE DEF F
<1>3. F \cup {0} \in SUBSET Nat /\ IsFiniteSet(F \cup {0})
  BY <1>1, <1>2, FS_AddElement
<1> QED BY <1>3 DEF F

LEMMA SubtasksGrow ==
  ASSUME NEW q, NEW r, Entries(q), Entries(r), Grows(q, r)
  PROVE  /\ BestSubtasks(q) \in [Groups -> Nat]
         /\ \A k \in Groups : BestSubtasks(q)[k] <= BestSubtasks(r)[k]
<1> SUFFICES ASSUME NEW k \in Groups
             PROVE  BestSubtasks(q)[k] \in Nat /\ BestSubtasks(q)[k] <= BestSubtasks(r)[k]
  BY DEF BestSubtasks
<1> DEFINE F == {q[i].out.subtasks[k] : i \in Graded(q)} \cup {0}
           H == {r[i].out.subtasks[k] : i \in Graded(r)} \cup {0}
<1>1. /\ F \in SUBSET Nat /\ IsFiniteSet(F)
      /\ H \in SUBSET Nat /\ IsFiniteSet(H)
  BY SubtaskFinite
<1>2. F \subseteq H
  <2> SUFFICES ASSUME NEW i \in Graded(q) PROVE q[i].out.subtasks[k] \in H
    OBVIOUS
  <2>1. i \in Graded(r) /\ r[i].out.subtasks[k] = q[i].out.subtasks[k]
    BY DEF Graded, Grows, Pending
  <2> QED BY <2>1
<1>3. 0 \in F /\ BestSubtasks(q)[k] = Max(F) /\ BestSubtasks(r)[k] = Max(H)
  BY DEF BestSubtasks
<1> HIDE DEF F, H
<1>4. \A x \in F : \E y \in H : x <= y
  BY <1>1, <1>2
<1>5. Max(F) \in Nat /\ Max(F) <= Max(H)
  BY <1>1, <1>3, <1>4, GreatestGrows
<1> QED BY <1>3, <1>5

\* In ioi the points are the sum of the subtasks' points even if there are no subtasks.
LEMMA IoiPoints ==
  ASSUME NEW q, Entries(q)
  PROVE  IoiResult(q).points = SumFunction(BestSubtasks(q))
<1> SUFFICES ASSUME Graded(q) = {}
             PROVE  BestPoints(q) = SumFunction(BestSubtasks(q))
  BY DEF IoiResult
<1>1. \A i \in DOMAIN q : q[i].out.points = 0
  BY DEF Entries, WellScored, Graded
<1>2. BestPoints(q) = 0
  <2>1. {q[i].out.points : i \in DOMAIN q} \cup {0} = {0}
    BY <1>1
  <2> QED BY <2>1 DEF BestPoints, Max
<1>3. DOMAIN BestSubtasks(q) = Groups /\ \A k \in Groups : BestSubtasks(q)[k] = 0
  BY DEF BestSubtasks, Max
<1>4. SumFunction(BestSubtasks(q)) = 0
  BY <1>3, FormatsAssumption, SumZero
<1> QED BY <1>2, <1>4

\* In every format a problem is worth no less after more submissions and results.
LEMMA ResultGrows ==
  ASSUME NEW f \in Formats, NEW p \in Problems, NEW q, NEW r, Entries(q), Entries(r), Grows(q, r)
  PROVE  /\ ProblemResult(f, q, p).points \in Nat
         /\ ProblemResult(f, q, p).points <= ProblemResult(f, r, p).points
<1> DEFINE a == Attempts(q, p)
           b == Attempts(r, p)
<1>1. Entries(a) /\ Entries(b) /\ Grows(a, b)
  BY AttemptsSound, AttemptsGrow
<1> HIDE DEF a, b
<1>2. CASE f = "default"
  <2>1. ProblemResult(f, q, p).points = BestPoints(a) /\ ProblemResult(f, r, p).points = BestPoints(b)
    BY <1>2 DEF ProblemResult, DefaultResult, a, b
  <2> QED BY <1>1, <2>1, BestGrows
<1>3. CASE f = "icpc"
  <2>1. /\ ProblemResult(f, q, p).points = IF Solved(Counted(a)) THEN 1 ELSE 0
        /\ ProblemResult(f, r, p).points = IF Solved(Counted(b)) THEN 1 ELSE 0
    BY <1>3 DEF ProblemResult, IcpcResult, Solving, a, b
  <2> QED BY <1>1, <2>1, SolvedGrows
<1>4. CASE f = "ioi"
  <2>1. /\ ProblemResult(f, q, p).points = SumFunction(BestSubtasks(a))
        /\ ProblemResult(f, r, p).points = SumFunction(BestSubtasks(b))
    <3>1. ProblemResult(f, q, p) = IoiResult(a) /\ ProblemResult(f, r, p) = IoiResult(b)
      BY <1>4 DEF ProblemResult, a, b
    <3> QED BY <1>1, <3>1, IoiPoints
  <2>2. /\ BestSubtasks(a) \in [Groups -> Nat]
        /\ \A k \in Groups : BestSubtasks(a)[k] <= BestSubtasks(b)[k]
    BY <1>1, SubtasksGrow
  <2>3. BestSubtasks(b) \in [Groups -> Nat]
    <3>1. Grows(b, b)
      BY DEF Grows
    <3> QED BY <1>1, <3>1, SubtasksGrow
  <2>4. IsFiniteSet(Groups)
    BY FormatsAssumption
  <2>5. BestSubtasks(a) \in [Groups -> Int] /\ BestSubtasks(b) \in [Groups -> Int]
    BY <2>2, <2>3
  <2>6. SumFunction(BestSubtasks(a)) \in Nat
    BY <2>2, <2>4, SumNat
  <2>7. SumFunction(BestSubtasks(a)) <= SumFunction(BestSubtasks(b))
    BY <2>2, <2>4, <2>5, SumsCompare
  <2> QED BY <2>1, <2>6, <2>7
<1>5. CASE f = "atcoder"
  <2>1. /\ ProblemResult(f, q, p).points = IF Solved(a) THEN ProblemPoints[p] ELSE 0
        /\ ProblemResult(f, r, p).points = IF Solved(b) THEN ProblemPoints[p] ELSE 0
    BY <1>5 DEF ProblemResult, AtCoderResult, Solving, a, b
  <2>2. ProblemPoints[p] \in Nat
    BY FormatsAssumption
  <2> QED BY <1>1, <2>1, <2>2, SolvedGrows
<1>6. CASE f = "ecoo"
  <2>1. /\ ProblemResult(f, q, p).points = IF Solved(FirstTries(a)) THEN 1 ELSE 0
        /\ ProblemResult(f, r, p).points = IF Solved(FirstTries(b)) THEN 1 ELSE 0
    BY <1>6 DEF ProblemResult, EcooResult, Solving, a, b
  <2> QED BY <1>1, <2>1, SolvedGrows
<1> QED BY <1>2, <1>3, <1>4, <1>5, <1>6 DEF Formats

LEMMA ProblemsFinite == IsFiniteSet(Problems)
<1>1. DOMAIN ProblemList = 1..Len(ProblemList) /\ Len(ProblemList) \in Nat
  BY FormatsAssumption
<1>2. IsFiniteSet(DOMAIN ProblemList)
  BY <1>1, FS_Interval
<1>3. Problems = {ProblemList[i] : i \in DOMAIN ProblemList}
  BY DEF Problems, ToSet
<1> QED BY <1>2, <1>3, FinitelyManyValues

\* The score is the sum of the points in every format, so it does not drop either.
LEMMA ScoreIsTotal ==
  ASSUME NEW f \in Formats, NEW r
  PROVE  Combined(f, r).score = TotalPoints(r)
  BY DEF Formats, Combined, DefaultScore, IcpcScore, AtCoderScore, UntiedScore

LEMMA TotalGrows ==
  ASSUME NEW f \in Formats, NEW r, NEW s,
         \A p \in Problems : r[p].points \in Nat /\ s[p].points \in Nat /\ r[p].points <= s[p].points
  PROVE  Combined(f, r).score \in Nat /\ Combined(f, r).score <= Combined(f, s).score
<1> DEFINE g == [p \in Problems |-> r[p].points]
           h == [p \in Problems |-> s[p].points]
<1>1. Combined(f, r).score = SumFunction(g) /\ Combined(f, s).score = SumFunction(h)
  BY ScoreIsTotal DEF TotalPoints
<1>2. g \in [Problems -> Nat] /\ g \in [Problems -> Int] /\ h \in [Problems -> Int]
  OBVIOUS
<1>3. \A p \in Problems : g[p] <= h[p]
  OBVIOUS
<1> HIDE DEF g, h
<1> QED BY <1>1, <1>2, <1>3, ProblemsFinite, SumNat, SumsCompare

LEMMA StandingGrows ==
  ASSUME NEW f \in Formats, NEW q, NEW r, Entries(q), Entries(r), Grows(q, r)
  PROVE  Standing(f, q).score \in Nat /\ Standing(f, q).score <= Standing(f, r).score
<1> DEFINE x == [p \in Problems |-> ProblemResult(f, q, p)]
           y == [p \in Problems |-> ProblemResult(f, r, p)]
<1>1. Standing(f, q).score = Combined(f, x).score /\ Standing(f, r).score = Combined(f, y).score
  BY DEF Standing
<1>2. Grows(r, r)
  BY DEF Grows
<1>3. \A p \in Problems : x[p].points \in Nat /\ y[p].points \in Nat /\ x[p].points <= y[p].points
  BY <1>2, ResultGrows
<1> HIDE DEF x, y
<1> QED BY <1>1, <1>3, TotalGrows

\* What reading a problem yields.
Reading == [points : Nat, wrong : Nat, minute : Nat]

LEMMA SolvingTyped ==
  ASSUME NEW q, Entries(q), NEW worth \in Nat
  PROVE  Solving(q, worth) \in Reading
<1>1. CASE ~Solved(q)
  BY <1>1 DEF Solving, Reading
<1>2. CASE Solved(q)
  <2> DEFINE S == {i \in DOMAIN q : Accepted(q[i])}
             before == {i \in DOMAIN q : Solved(q) => i < FirstAccepted(q)}
  <2>1. S \in SUBSET Nat /\ S # {}
    BY <1>2 DEF Entries, Solved
  <2>2. FirstAccepted(q) \in DOMAIN q
    <3>1. Min(S) \in S
      <4> HIDE DEF S
      <4> QED BY <2>1, SmallestOfNaturals
    <3> QED BY <3>1 DEF FirstAccepted
  <2>3. Cardinality(before) \in Nat
    <3>1. IsFiniteSet(before)
      BY FS_Subset DEF Entries
    <3> HIDE DEF before
    <3> QED BY <3>1, FS_CardinalityType
  <2>4. Wrong(q) \in Nat
    BY <2>3 DEF Wrong
  <2>5. q[FirstAccepted(q)].at \in Nat
    BY <2>2 DEF Entries
  <2> QED BY <1>2, <2>4, <2>5 DEF Solving, Reading
<1> QED BY <1>1, <1>2

LEMMA ResultTyped ==
  ASSUME NEW f \in Formats, NEW p \in Problems, NEW q, Entries(q)
  PROVE  ProblemResult(f, q, p) \in Reading
<1> DEFINE a == Attempts(q, p)
<1>1. Entries(a)
  BY AttemptsSound
<1>2. ProblemResult(f, q, p).points \in Nat
  <2>1. Grows(q, q)
    BY DEF Grows
  <2> QED BY <2>1, ResultGrows
<1> HIDE DEF a
<1>3. CASE f = "default"
  <2> DEFINE S == {i \in DOMAIN a : Accepted(a[i])}
             g == [i \in S |-> a[i].at]
             M == {a[i].at : i \in S}
             last == Max(M \cup {0})
  <2>1. IsFiniteSet(S) /\ M \subseteq Nat
    BY <1>1, FS_Subset DEF Entries
  <2>2. M = {g[i] : i \in DOMAIN g} /\ DOMAIN g = S
    OBVIOUS
  <2>3. IsFiniteSet(M)
    <3> HIDE DEF S, M, g
    <3> QED BY <2>1, <2>2, FinitelyManyValues
  <2>4. last \in Nat
    <3> HIDE DEF M
    <3>1. M \cup {0} \in SUBSET Nat /\ IsFiniteSet(M \cup {0})
      BY <2>1, <2>3, FS_AddElement
    <3> QED BY <3>1, GreatestOfNaturals
  <2>5. ProblemResult(f, q, p) = [points |-> BestPoints(a), wrong |-> 0, minute |-> last]
    BY <1>3 DEF ProblemResult, DefaultResult, a
  <2> HIDE DEF last
  <2> QED BY <1>2, <2>4, <2>5 DEF Reading
<1>4. CASE f = "icpc"
  <2>1. Entries(Counted(a))
    BY <1>1, CountedAre, FS_Subset DEF Entries
  <2>2. ProblemResult(f, q, p) = Solving(Counted(a), 1)
    BY <1>4 DEF ProblemResult, IcpcResult, a
  <2> QED BY <2>1, <2>2, SolvingTyped
<1>5. CASE f = "ioi"
  <2>1. ProblemResult(f, q, p) = IoiResult(a)
    BY <1>5 DEF ProblemResult, a
  <2> QED BY <1>2, <2>1 DEF IoiResult, Reading
<1>6. CASE f = "atcoder"
  <2>1. ProblemResult(f, q, p) = Solving(a, ProblemPoints[p])
    BY <1>6 DEF ProblemResult, AtCoderResult, a
  <2>2. ProblemPoints[p] \in Nat
    BY FormatsAssumption
  <2> QED BY <1>1, <2>1, <2>2, SolvingTyped
<1>7. CASE f = "ecoo"
  <2>1. Entries(FirstTries(a))
    BY <1>1, FirstTriesAre, FS_Subset DEF Entries
  <2>2. ProblemResult(f, q, p) = Solving(FirstTries(a), 1)
    BY <1>7 DEF ProblemResult, EcooResult, a
  <2> QED BY <2>1, <2>2, SolvingTyped
<1> QED BY <1>3, <1>4, <1>5, <1>6, <1>7 DEF Formats

-----------------------------------------------------------------------------
(* The stored score *)

Outs == Outcomes \cup {Pending, [Pending EXCEPT !.result = "IE"]}
Submission == [problem : Problems, at : {1}, out : Outs]
OpenTransaction == [of : Nat \cup {Nobody}, out : Outs, end : BOOLEAN, read : Seq(Reading)]

ScoreTypes ==
  /\ subs \in Seq(Submission)
  /\ open \in SUBSET OpenTransaction
  /\ stored.score \in Nat
  /\ rated # Unrated => rated.score \in Nat

\* A transaction that reports on a submission is the only one, and the submission waits.
Reporting ==
  /\ \A t, u \in open : t.of = u.of /\ t.of # Nobody => t = u
  /\ \A t \in open : t.of # Nobody => t.of \in DOMAIN subs /\ subs[t.of].out = Pending

\* What a transaction has read is no more than what it would read now.
ReadsLast(t) ==
  /\ Len(t.read) <= Len(ProblemList)
  /\ \A k \in DOMAIN t.read :
       t.read[k].points <= ProblemResult(Format, Seen(t), ProblemList[k]).points

ScoreInv == ScoreTypes /\ Reporting /\ (\A t \in open : ReadsLast(t)) /\ NeverOvercredited

LEMMA OutsAreSound == Pending \in Outs /\ \A out \in Outs : WellScored(out)
  BY ScoreAssumption DEF Outs, WellScored, Pending

LEMMA SubsAreSound ==
  ASSUME NEW q \in Seq(Submission)
  PROVE  Entries(q)
<1>1. DOMAIN q = 1..Len(q) /\ Len(q) \in Nat
  OBVIOUS
<1>2. \A i \in DOMAIN q : q[i] \in Submission
  OBVIOUS
<1>3. IsFiniteSet(DOMAIN q)
  BY <1>1, FS_Interval
<1> QED BY <1>1, <1>2, <1>3, OutsAreSound DEF Entries, Submission

\* What a transaction sees of the submissions s.
SeenIn(s, t) == IF t.of = Nobody THEN s ELSE [s EXCEPT ![t.of].out = t.out]

LEMMA SeenIs ==
  ASSUME NEW t \in OpenTransaction, NEW s \in Seq(Submission), t.of # Nobody => t.of \in DOMAIN s
  PROVE  /\ SeenIn(s, t) \in Seq(Submission)
         /\ DOMAIN SeenIn(s, t) = DOMAIN s
         /\ \A i \in DOMAIN s : SeenIn(s, t)[i] = IF i = t.of THEN [s[i] EXCEPT !.out = t.out] ELSE s[i]
<1>1. \A i \in DOMAIN s : s[i] \in Submission /\ i \in Nat
  OBVIOUS
<1>2. t.out \in Outs
  BY DEF OpenTransaction
<1>3. CASE t.of = Nobody
  BY <1>1, <1>3, ScoreAssumption DEF SeenIn
<1>4. CASE t.of # Nobody
  <2>1. SeenIn(s, t) = [s EXCEPT ![t.of] = [s[t.of] EXCEPT !.out = t.out]]
    BY <1>4 DEF SeenIn
  <2>2. [s[t.of] EXCEPT !.out = t.out] \in Submission
    BY <1>1, <1>2, <1>4 DEF Submission
  <2>3. t.of \in DOMAIN s
    BY <1>4
  <2> QED BY <2>1, <2>2, <2>3
<1> QED BY <1>3, <1>4

\* It grows as the submissions do.
LEMMA SeenGrows ==
  ASSUME NEW t \in OpenTransaction, NEW s1 \in Seq(Submission), NEW s2 \in Seq(Submission),
         Grows(s1, s2), t.of # Nobody => t.of \in DOMAIN s1
  PROVE  Grows(SeenIn(s1, t), SeenIn(s2, t))
<1> DEFINE a == SeenIn(s1, t)
           b == SeenIn(s2, t)
<1>1. t.of # Nobody => t.of \in DOMAIN s2
  BY DEF Grows
<1>2. DOMAIN a = DOMAIN s1 /\ DOMAIN b = DOMAIN s2
  BY <1>1, SeenIs
<1>3. /\ \A i \in DOMAIN s1 : a[i] = IF i = t.of THEN [s1[i] EXCEPT !.out = t.out] ELSE s1[i]
      /\ \A i \in DOMAIN s2 : b[i] = IF i = t.of THEN [s2[i] EXCEPT !.out = t.out] ELSE s2[i]
  BY <1>1, SeenIs
<1> HIDE DEF a, b
<1>4. DOMAIN a \subseteq DOMAIN b /\ \A i \in DOMAIN a, j \in DOMAIN b : j < i => j \in DOMAIN a
  BY <1>2 DEF Grows
<1>5. ASSUME NEW i \in DOMAIN a
      PROVE  b[i].problem = a[i].problem /\ (b[i].out = a[i].out \/ a[i].out = Pending)
  <2>1. /\ i \in DOMAIN s1 /\ i \in DOMAIN s2
        /\ s2[i].problem = s1[i].problem /\ (s2[i].out = s1[i].out \/ s1[i].out = Pending)
    BY <1>2, <1>4, <1>5 DEF Grows
  <2>2. s1[i] \in Submission /\ s2[i] \in Submission
    BY <2>1
  <2>3. CASE i = t.of
    BY <1>3, <2>1, <2>2, <2>3 DEF Submission
  <2>4. CASE i # t.of
    BY <1>3, <2>1, <2>4
  <2> QED BY <2>3, <2>4
<1> QED BY <1>4, <1>5 DEF Grows, a, b

\* Where what a transaction sees only grows, what it has read is still no more than
\* what it would read now.
LEMMA ReadsKept ==
  ASSUME NEW t \in OpenTransaction, NEW a, NEW b, Entries(a), Entries(b), Grows(a, b),
         NEW k \in DOMAIN t.read, Len(t.read) <= Len(ProblemList),
         t.read[k].points <= ProblemResult(Format, a, ProblemList[k]).points
  PROVE  t.read[k].points <= ProblemResult(Format, b, ProblemList[k]).points
<1>1. t.read \in Seq(Reading)
  BY DEF OpenTransaction
<1>2. t.read[k] \in Reading
  BY <1>1
<1>3. ProblemList[k] \in Problems
  BY <1>1, FormatsAssumption
<1>4. /\ ProblemResult(Format, a, ProblemList[k]) \in Reading
      /\ ProblemResult(Format, b, ProblemList[k]) \in Reading
      /\ ProblemResult(Format, a, ProblemList[k]).points <= ProblemResult(Format, b, ProblemList[k]).points
  BY <1>3, ResultTyped, ResultGrows, ScoreAssumption
<1>5. /\ t.read[k].points \in Nat
      /\ ProblemResult(Format, a, ProblemList[k]).points \in Nat
      /\ ProblemResult(Format, b, ProblemList[k]).points \in Nat
  BY <1>2, <1>4 DEF Reading
<1> QED BY <1>4, <1>5

\* So it is with every transaction when the submissions grow.
LEMMA AllReadsKept ==
  ASSUME ScoreInv, NEW s \in Seq(Submission), Grows(subs, s), subs' = s,
         NEW t \in open
  PROVE  ReadsLast(t)'
<1>1. t \in OpenTransaction /\ subs \in Seq(Submission) /\ ReadsLast(t)
      /\ (t.of # Nobody => t.of \in DOMAIN subs)
  BY DEF ScoreInv, ScoreTypes, Reporting
<1>2. Seen(t) = SeenIn(subs, t)
  BY DEF Seen, SeenIn
<1>3. Grows(SeenIn(subs, t), SeenIn(s, t))
  BY <1>1, SeenGrows
<1>4. Entries(SeenIn(subs, t)) /\ Entries(SeenIn(s, t))
  <2>1. t.of # Nobody => t.of \in DOMAIN s
    BY <1>1 DEF Grows
  <2> QED BY <1>1, <2>1, SeenIs, SubsAreSound
<1>5. Len(t.read) <= Len(ProblemList)
  BY <1>1 DEF ReadsLast
<1>6. ASSUME NEW k \in DOMAIN t.read
      PROVE  t.read[k].points <= ProblemResult(Format, SeenIn(s, t), ProblemList[k]).points
  <2>1. t.read[k].points <= ProblemResult(Format, SeenIn(subs, t), ProblemList[k]).points
    BY <1>1, <1>2 DEF ReadsLast
  <2> QED BY <1>1, <1>3, <1>4, <1>5, <2>1, ReadsKept
<1>7. Seen(t)' = SeenIn(s, t)
  BY DEF Seen, SeenIn
<1> QED BY <1>5, <1>6, <1>7 DEF ReadsLast, ProblemResult

\* Nor is a score that was no more than the standing before.
LEMMA CreditKept ==
  ASSUME ScoreInv, NEW s \in Seq(Submission), Grows(subs, s)
  PROVE  /\ stored.score \in Nat /\ stored.score <= Standing(Format, s).score
         /\ rated # Unrated => rated.score \in Nat /\ rated.score <= Standing(Format, s).score
<1>1. Entries(subs) /\ Entries(s) /\ Format \in Formats
  BY SubsAreSound, ScoreAssumption DEF ScoreInv, ScoreTypes
<1>2. /\ Standing(Format, subs).score \in Nat
      /\ Standing(Format, subs).score <= Standing(Format, s).score
  BY <1>1, StandingGrows
<1>3. Standing(Format, s).score \in Nat
  <2>1. Grows(s, s)
    BY DEF Grows
  <2> QED BY <1>1, <2>1, StandingGrows
<1>4. /\ stored.score \in Nat /\ stored.score <= Standing(Format, subs).score
      /\ rated # Unrated => rated.score \in Nat /\ rated.score <= Standing(Format, subs).score
  BY DEF ScoreInv, ScoreTypes, NeverOvercredited
<1> QED BY <1>2, <1>3, <1>4

\* A transaction that has read everything computes a score that is on record once it
\* commits.
LEMMA ComputedIsRight ==
  ASSUME NEW t \in open, ScoreInv, Len(t.read) = Len(ProblemList)
  PROVE  /\ Computed(t).score \in Nat
         /\ Computed(t).score <= Standing(Format, Seen(t)).score
<1> DEFINE at(p) == CHOOSE k \in DOMAIN ProblemList : ProblemList[k] = p
           x == [p \in Problems |-> t.read[at(p)]]
           y == [p \in Problems |-> ProblemResult(Format, Seen(t), p)]
<1>1. t \in OpenTransaction /\ t.read \in Seq(Reading) /\ ReadsLast(t)
  BY DEF ScoreInv, ScoreTypes, OpenTransaction
<1>2. Entries(Seen(t)) /\ Format \in Formats
  <2>1. Seen(t) \in Seq(Submission)
    BY <1>1, SeenIs DEF ScoreInv, ScoreTypes, Reporting, Seen, SeenIn
  <2> QED BY <2>1, SubsAreSound, ScoreAssumption
<1>3. ASSUME NEW p \in Problems
      PROVE  x[p].points \in Nat /\ y[p].points \in Nat /\ x[p].points <= y[p].points
  <2>1. at(p) \in DOMAIN ProblemList /\ ProblemList[at(p)] = p
    BY DEF Problems, ToSet
  <2> HIDE DEF at
  <2>2. at(p) \in DOMAIN t.read
    BY <1>1, <2>1, FormatsAssumption
  <2>3. t.read[at(p)] \in Reading /\ ProblemResult(Format, Seen(t), p) \in Reading
    BY <1>1, <1>2, <2>2, ResultTyped
  <2>4. t.read[at(p)].points <= ProblemResult(Format, Seen(t), p).points
    BY <1>1, <2>1, <2>2 DEF ReadsLast
  <2> QED BY <2>3, <2>4 DEF Reading
<1>4. Computed(t) = Combined(Format, x) /\ Standing(Format, Seen(t)) = Combined(Format, y)
  BY DEF Computed, Standing
<1> HIDE DEF x, y
<1> QED BY <1>2, <1>3, <1>4, TotalGrows

\* The steps under which the submissions grow and transactions end.
LEMMA GrowingStep ==
  ASSUME ScoreInv, NEW s \in Seq(Submission), Grows(subs, s), subs' = s, open' \subseteq open,
         \A t \in open' : t.of # Nobody => s[t.of].out = Pending,
         stored'.score \in Nat, stored'.score <= Standing(Format, s).score,
         rated' # Unrated => rated'.score \in Nat /\ rated'.score <= Standing(Format, s).score
  PROVE  ScoreInv'
<1>1. ScoreTypes'
  BY DEF ScoreInv, ScoreTypes
<1>2. Reporting'
  <2>1. ASSUME NEW t \in open', NEW u \in open', t.of = u.of, t.of # Nobody PROVE t = u
    BY <2>1 DEF ScoreInv, Reporting
  <2>2. ASSUME NEW t \in open', t.of # Nobody PROVE t.of \in DOMAIN s /\ s[t.of].out = Pending
    BY <2>2 DEF ScoreInv, Reporting, Grows
  <2> QED BY <2>1, <2>2 DEF Reporting
<1>3. \A t \in open' : ReadsLast(t)'
  BY AllReadsKept
<1>4. NeverOvercredited'
  <2>1. Standing(Format, subs)' = Standing(Format, s)
    BY DEF Standing, ProblemResult
  <2> QED BY <2>1 DEF NeverOvercredited
<1> QED BY <1>1, <1>2, <1>3, <1>4 DEF ScoreInv

\* The steps of a transaction that is open or opens.
LEMMA ReadingStep ==
  ASSUME ScoreInv, NEW u \in OpenTransaction, NEW T \in SUBSET open,
         open' = T \cup {u}, UNCHANGED <<subs, stored, rated>>, ReadsLast(u),
         u.of # Nobody => /\ u.of \in DOMAIN subs /\ subs[u.of].out = Pending
                          /\ \A t \in T : t.of # u.of
  PROVE  ScoreInv'
<1>1. ScoreTypes'
  BY DEF ScoreInv, ScoreTypes
<1>2. Reporting'
  <2>1. \A t, v \in T : t.of = v.of /\ t.of # Nobody => t = v
    BY DEF ScoreInv, Reporting
  <2>2. \A t \in T : t.of # Nobody => t.of \in DOMAIN subs /\ subs[t.of].out = Pending
    BY DEF ScoreInv, Reporting
  <2> QED BY <2>1, <2>2 DEF Reporting
<1>3. \A t \in open' : ReadsLast(t)'
  <2>1. \A t \in open' : ReadsLast(t)
    BY DEF ScoreInv
  <2>2. ASSUME NEW t \in open' PROVE ReadsLast(t)'
    <3>1. Seen(t)' = Seen(t)
      BY DEF Seen
    <3> QED BY <2>1, <3>1 DEF ReadsLast, ProblemResult
  <2> QED BY <2>2
<1>4. NeverOvercredited'
  <2>1. Standing(Format, subs)' = Standing(Format, subs)
    BY DEF Standing, ProblemResult
  <2> QED BY <2>1 DEF ScoreInv, NeverOvercredited
<1> QED BY <1>1, <1>2, <1>3, <1>4 DEF ScoreInv

LEMMA InvFacts ==
  ASSUME ScoreInv
  PROVE  /\ subs \in Seq(Submission) /\ Grows(subs, subs) /\ Entries(subs)
         /\ stored.score \in Nat /\ stored.score <= Standing(Format, subs).score
         /\ rated # Unrated => rated.score \in Nat /\ rated.score <= Standing(Format, subs).score
  BY SubsAreSound DEF ScoreInv, ScoreTypes, NeverOvercredited, Grows

LEMMA SubmitKeeps ==
  ASSUME ScoreInv, NEW p \in Problems, Submit(p)
  PROVE  ScoreInv'
<1> DEFINE new == [problem |-> p, at |-> 1, out |-> Pending]
           s == Append(subs, new)
<1>1. subs \in Seq(Submission)
  BY InvFacts
<1>2. new \in Submission
  BY OutsAreSound DEF Submission
<1> HIDE DEF new
<1>3. s \in Seq(Submission) /\ DOMAIN subs \subseteq DOMAIN s /\ \A i \in DOMAIN subs : s[i] = subs[i]
  BY <1>1, <1>2
<1>4. \A i \in DOMAIN subs, j \in DOMAIN s : j < i => j \in DOMAIN subs
  BY <1>1, <1>2
<1>5. subs' = s /\ UNCHANGED <<stored, open, rated>>
  BY DEF Submit, new
<1> HIDE DEF s
<1>6. Grows(subs, s)
  BY <1>3, <1>4 DEF Grows
<1>7. \A t \in open' : t.of # Nobody => s[t.of].out = Pending
  BY <1>3, <1>5 DEF ScoreInv, Reporting
<1>8. /\ stored.score \in Nat /\ stored.score <= Standing(Format, s).score
      /\ rated # Unrated => rated.score \in Nat /\ rated.score <= Standing(Format, s).score
  BY <1>3, <1>6, CreditKept
<1> QED BY <1>3, <1>5, <1>6, <1>7, <1>8, GrowingStep

LEMMA GiveUpKeeps ==
  ASSUME ScoreInv, NEW i \in DOMAIN subs, GiveUp(i)
  PROVE  ScoreInv'
<1> DEFINE out == [Pending EXCEPT !.result = "IE"]
           s == [subs EXCEPT ![i].out = out]
<1>1. subs \in Seq(Submission) /\ subs[i] \in Submission
  BY InvFacts
<1>2. out \in Outs
  BY DEF Outs
<1>3. subs[i].out = Pending /\ subs' = s /\ UNCHANGED <<stored, open, rated>> /\ ~JobLocked(i)
  BY DEF GiveUp
<1> HIDE DEF out
<1>4. s = [subs EXCEPT ![i] = [subs[i] EXCEPT !.out = out]] /\ [subs[i] EXCEPT !.out = out] \in Submission
  BY <1>1, <1>2 DEF Submission
<1>5. /\ s \in Seq(Submission) /\ DOMAIN s = DOMAIN subs
      /\ \A j \in DOMAIN subs : j # i => s[j] = subs[j]
      /\ s[i].problem = subs[i].problem
  BY <1>1, <1>4 DEF Submission
<1> HIDE DEF s
<1>6. Grows(subs, s)
  BY <1>3, <1>5 DEF Grows
<1>7. \A t \in open' : t.of # Nobody => s[t.of].out = Pending
  BY <1>3, <1>5 DEF ScoreInv, Reporting, JobLocked
<1>8. /\ stored.score \in Nat /\ stored.score <= Standing(Format, s).score
      /\ rated # Unrated => rated.score \in Nat /\ rated.score <= Standing(Format, s).score
  BY <1>5, <1>6, CreditKept
<1> QED BY <1>3, <1>5, <1>6, <1>7, <1>8, GrowingStep

\* Once a transaction commits, the submissions are what it saw, and no other is about
\* the same one.
LEMMA Committed ==
  ASSUME ScoreInv, NEW t \in open
  PROVE  /\ Seen(t) \in Seq(Submission) /\ Grows(subs, Seen(t))
         /\ \A u \in open \ {t} : u.of # Nobody => Seen(t)[u.of].out = Pending
<1>1. /\ t \in OpenTransaction /\ subs \in Seq(Submission)
      /\ t.of # Nobody => t.of \in DOMAIN subs /\ subs[t.of].out = Pending
  BY DEF ScoreInv, ScoreTypes, Reporting
<1> PICK s : s = Seen(t)
  OBVIOUS
<1>2. /\ s \in Seq(Submission) /\ DOMAIN s = DOMAIN subs
      /\ \A i \in DOMAIN subs : s[i] = IF i = t.of THEN [subs[i] EXCEPT !.out = t.out] ELSE subs[i]
  BY <1>1, SeenIs DEF Seen, SeenIn
<1>3. \A i \in DOMAIN subs : s[i].problem = subs[i].problem /\ (s[i].out = subs[i].out \/ subs[i].out = Pending)
  <2> SUFFICES ASSUME NEW i \in DOMAIN subs
               PROVE  s[i].problem = subs[i].problem /\ (s[i].out = subs[i].out \/ subs[i].out = Pending)
    OBVIOUS
  <2>1. subs[i] \in Submission
    BY <1>1
  <2>2. CASE i = t.of
    <3>1. t.of # Nobody
      BY <1>1, <2>2, ScoreAssumption
    <3> QED BY <1>1, <1>2, <2>1, <2>2, <3>1 DEF Submission
  <2>3. CASE i # t.of
    BY <1>2, <2>3
  <2> QED BY <2>2, <2>3
<1>4. Grows(subs, s)
  BY <1>2, <1>3 DEF Grows
<1>5. ASSUME NEW u \in open \ {t}, u.of # Nobody PROVE s[u.of].out = Pending
  <2>1. u.of # t.of /\ u.of \in DOMAIN subs /\ subs[u.of].out = Pending
    BY <1>5 DEF ScoreInv, Reporting
  <2> QED BY <1>2, <2>1
<1> QED BY <1>2, <1>4, <1>5

LEMMA CommitKeeps ==
  ASSUME ScoreInv, NEW t \in open, Commit(t)
  PROVE  ScoreInv'
<1> PICK s : s = Seen(t)
  OBVIOUS
<1> PICK c : c = Computed(t)
  OBVIOUS
<1>1. /\ s \in Seq(Submission) /\ Grows(subs, s)
      /\ \A u \in open \ {t} : u.of # Nobody => s[u.of].out = Pending
  BY Committed
<1>2. /\ subs' = s /\ open' = open \ {t} /\ stored' = c
      /\ rated' = IF t.end THEN c ELSE rated
      /\ Len(t.read) = Len(ProblemList)
  BY DEF Commit
<1>3. c.score \in Nat /\ c.score <= Standing(Format, s).score
  BY <1>2, ComputedIsRight
<1>4. rated # Unrated => rated.score \in Nat /\ rated.score <= Standing(Format, s).score
  BY <1>1, <1>2, CreditKept
<1>5. rated' # Unrated => rated'.score \in Nat /\ rated'.score <= Standing(Format, s).score
  BY <1>2, <1>3, <1>4
<1>6. stored'.score \in Nat /\ stored'.score <= Standing(Format, s).score
  BY <1>2, <1>3
<1> QED BY <1>1, <1>2, <1>5, <1>6, GrowingStep

LEMMA CommitResultOnlyKeeps ==
  ASSUME ScoreInv, NEW t \in open, CommitResultOnly(t)
  PROVE  ScoreInv'
<1> PICK s : s = Seen(t)
  OBVIOUS
<1>1. /\ s \in Seq(Submission) /\ Grows(subs, s)
      /\ \A u \in open \ {t} : u.of # Nobody => s[u.of].out = Pending
  BY Committed
<1>2. subs' = s /\ open' = open \ {t} /\ UNCHANGED <<stored, rated>>
  BY DEF CommitResultOnly
<1>3. /\ stored.score \in Nat /\ stored.score <= Standing(Format, s).score
      /\ rated # Unrated => rated.score \in Nat /\ rated.score <= Standing(Format, s).score
  BY <1>1, <1>2, CreditKept
<1> QED BY <1>1, <1>2, <1>3, GrowingStep

\* The submissions stay, and transactions at most end.
LEMMA QuietStep ==
  ASSUME ScoreInv, open' \subseteq open, UNCHANGED <<subs, stored, rated>>
  PROVE  ScoreInv'
<1>1. \A t \in open' : t.of # Nobody => subs[t.of].out = Pending
  BY DEF ScoreInv, Reporting
<1> QED BY <1>1, InvFacts, GrowingStep

LEMMA NothingRead ==
  ASSUME NEW t, t.read = <<>>
  PROVE  ReadsLast(t)
<1>1. Len(t.read) = 0 /\ DOMAIN t.read = {}
  OBVIOUS
<1>2. Len(ProblemList) \in Nat
  BY FormatsAssumption
<1> QED BY <1>1, <1>2 DEF ReadsLast

LEMMA BeginReportKeeps ==
  ASSUME ScoreInv, NEW i \in DOMAIN subs, NEW out \in Outcomes, BeginReport(i, out)
  PROVE  ScoreInv'
<1> PICK u : u = Transaction(i, out, FALSE)
  OBVIOUS
<1>1. u.of = i /\ u.read = <<>>
  BY DEF Transaction
<1>2. i \in Nat
  BY InvFacts
<1>3. u \in OpenTransaction
  BY <1>2 DEF Transaction, OpenTransaction, Outs
<1>4. ReadsLast(u)
  BY <1>1, NothingRead
<1>5. /\ open' = open \cup {u} /\ UNCHANGED <<subs, stored, rated>>
      /\ subs[i].out = Pending /\ \A t \in open : t.of # i
  BY DEF BeginReport, JobLocked
<1> QED BY <1>1, <1>3, <1>4, <1>5, ReadingStep

LEMMA BeginRefreshKeeps ==
  ASSUME ScoreInv, NEW end \in BOOLEAN, open' = open \cup {Transaction(Nobody, Pending, end)},
         UNCHANGED <<subs, stored, rated>>
  PROVE  ScoreInv'
<1> PICK u : u = Transaction(Nobody, Pending, end)
  OBVIOUS
<1>1. u.of = Nobody /\ u.read = <<>>
  BY DEF Transaction
<1>2. u \in OpenTransaction
  BY DEF Transaction, OpenTransaction, Outs
<1>3. ReadsLast(u)
  BY <1>1, NothingRead
<1> QED BY <1>1, <1>2, <1>3, ReadingStep

LEMMA ReadProblemKeeps ==
  ASSUME ScoreInv, NEW t \in open, ReadProblem(t)
  PROVE  ScoreInv'
<1> DEFINE n == Len(t.read) + 1
<1> PICK x : x = ProblemResult(Format, Seen(t), ProblemList[n])
  OBVIOUS
<1> PICK read : read = Append(t.read, x)
  OBVIOUS
<1> PICK u : u = [t EXCEPT !.read = read]
  OBVIOUS
<1>1. /\ t \in OpenTransaction /\ t.read \in Seq(Reading) /\ ReadsLast(t)
      /\ Len(t.read) < Len(ProblemList)
      /\ t.of # Nobody => t.of \in DOMAIN subs /\ subs[t.of].out = Pending
  BY DEF ScoreInv, ScoreTypes, Reporting, OpenTransaction, ReadProblem
<1>2. n \in DOMAIN ProblemList /\ ProblemList[n] \in Problems
  BY <1>1, FormatsAssumption
<1>3. x \in Reading
  BY <1>2, Committed, SubsAreSound, ResultTyped, ScoreAssumption
<1>4. read \in Seq(Reading) /\ Len(read) = n /\ read[n] = x /\ \A k \in DOMAIN t.read : read[k] = t.read[k]
  BY <1>1, <1>3
<1>5. u \in OpenTransaction /\ u.of = t.of /\ u.out = t.out /\ u.read = read
  BY <1>1, <1>4 DEF OpenTransaction
<1>6. Seen(u) = Seen(t)
  BY <1>5 DEF Seen
<1>7. ASSUME NEW k \in DOMAIN read
      PROVE  read[k].points <= ProblemResult(Format, Seen(t), ProblemList[k]).points
  <2>1. CASE k = n
    BY <1>3, <1>4, <2>1 DEF Reading
  <2>2. CASE k \in DOMAIN t.read
    BY <1>1, <1>4, <2>2 DEF ReadsLast
  <2>3. k = n \/ k \in DOMAIN t.read
    BY <1>1, <1>4
  <2> QED BY <2>1, <2>2, <2>3
<1>8. ReadsLast(u)
  <2>1. Len(read) <= Len(ProblemList)
    BY <1>1, <1>4, FormatsAssumption
  <2> QED BY <1>5, <1>6, <1>7, <2>1 DEF ReadsLast
<1>9. open' = (open \ {t}) \cup {u} /\ UNCHANGED <<subs, stored, rated>>
  BY DEF ReadProblem
<1>10. u.of # Nobody => /\ u.of \in DOMAIN subs /\ subs[u.of].out = Pending
                         /\ \A v \in open \ {t} : v.of # u.of
  BY <1>1, <1>5 DEF ScoreInv, Reporting
<1>11. open \ {t} \in SUBSET open
  OBVIOUS
<1> HIDE DEF n
<1> QED BY <1>5, <1>8, <1>9, <1>10, <1>11, ReadingStep

\* Submissions and open transactions are typed, a submission under report waits and has
\* one report, and what transactions have read, what is stored and what was rated is no
\* more than what is on record.
THEOREM ScoreInvHolds == ScoreSpec => []ScoreInv
<1>1. ScoreInit => ScoreInv
  <2> SUFFICES ASSUME ScoreInit PROVE ScoreInv
    OBVIOUS
  <2>1. subs = <<>> /\ open = {} /\ stored.score = 0 /\ rated = Unrated
    BY DEF ScoreInit, Zero
  <2>2. ScoreTypes /\ Reporting /\ \A t \in open : ReadsLast(t)
    BY <2>1 DEF ScoreTypes, Reporting
  <2>3. Standing(Format, subs).score \in Nat
    <3>1. subs \in Seq(Submission) /\ Grows(subs, subs)
      BY <2>1 DEF Grows
    <3> QED BY <3>1, SubsAreSound, StandingGrows, ScoreAssumption
  <2>4. NeverOvercredited
    BY <2>1, <2>3 DEF NeverOvercredited
  <2> QED BY <2>2, <2>4 DEF ScoreInv
<1>2. ScoreInv /\ [ScoreNext]_scoreVars => ScoreInv'
  <2> SUFFICES ASSUME ScoreInv, [ScoreNext]_scoreVars PROVE ScoreInv'
    OBVIOUS
  <2>1. ASSUME NEW p \in Problems, Submit(p) PROVE ScoreInv'
    BY <2>1, SubmitKeeps
  <2>2. ASSUME NEW i \in DOMAIN subs, NEW out \in Outcomes, BeginReport(i, out) PROVE ScoreInv'
    BY <2>2, BeginReportKeeps
  <2>3. CASE BeginRecalculation
    BY <2>3, BeginRefreshKeeps DEF BeginRecalculation
  <2>4. CASE BeginLastRefresh
    BY <2>4, BeginRefreshKeeps DEF BeginLastRefresh
  <2>5. ASSUME NEW t \in open, ReadProblem(t) PROVE ScoreInv'
    BY <2>5, ReadProblemKeeps
  <2>6. ASSUME NEW t \in open, Commit(t) PROVE ScoreInv'
    BY <2>6, CommitKeeps
  <2>7. ASSUME NEW t \in open, CommitResultOnly(t) PROVE ScoreInv'
    BY <2>7, CommitResultOnlyKeeps
  <2>8. ASSUME NEW t \in open, Abort(t) PROVE ScoreInv'
    BY <2>8, QuietStep DEF Abort
  <2>9. ASSUME NEW i \in DOMAIN subs, GiveUp(i) PROVE ScoreInv'
    BY <2>9, GiveUpKeeps
  <2>10. CASE EndTimePasses
    BY <2>10, QuietStep DEF EndTimePasses
  <2>11. CASE UNCHANGED scoreVars
    BY <2>11, QuietStep DEF scoreVars
  <2> QED BY <2>1, <2>2, <2>3, <2>4, <2>5, <2>6, <2>7, <2>8, <2>9, <2>10, <2>11 DEF ScoreNext
<1> QED BY <1>1, <1>2, PTL DEF ScoreSpec

\* The stored score of a participation, and the score it was rated by, never credit what
\* is not on record: in every format, for all outcomes and any number of transactions.
THEOREM CreditHolds == ScoreSpec => []NeverOvercredited
<1>1. ScoreInv => NeverOvercredited
  BY DEF ScoreInv
<1> QED BY <1>1, ScoreInvHolds, PTL

-----------------------------------------------------------------------------
(* The board *)

\* y with nothing after k, where k is the first accepted submission.
LEMMA SolvingUpTo ==
  ASSUME NEW y, NEW z, Entries(y), NEW k \in DOMAIN y, Accepted(y[k]),
         \A i \in DOMAIN y : Accepted(y[i]) => k <= i,
         DOMAIN z = {i \in DOMAIN y : i <= k}, \A i \in DOMAIN z : z[i] = y[i],
         NEW worth
  PROVE  Solving(z, worth) = Solving(y, worth)
<1> DEFINE S == {i \in DOMAIN y : Accepted(y[i])}
           T == {i \in DOMAIN z : Accepted(z[i])}
<1>1. DOMAIN y \subseteq Nat /\ k \in Nat
  BY DEF Entries
<1>2. k \in DOMAIN z /\ z[k] = y[k]
  BY <1>1
<1>3. k \in S /\ S \in SUBSET Nat /\ \A i \in S : k <= i
  BY <1>1
<1>4. k \in T /\ T \in SUBSET Nat /\ \A i \in T : k <= i
  BY <1>1, <1>2
<1>5. Min(S) = k /\ Min(T) = k
  <2> HIDE DEF S, T
  <2>1. Min(S) \in S /\ \A i \in S : Min(S) <= i
    BY <1>3, SmallestOfNaturals
  <2>2. Min(T) \in T /\ \A i \in T : Min(T) <= i
    BY <1>4, SmallestOfNaturals
  <2> QED BY <1>3, <1>4, <2>1, <2>2
<1>6. FirstAccepted(y) = k /\ FirstAccepted(z) = k
  BY <1>5 DEF FirstAccepted
<1>7. Solved(y) /\ Solved(z)
  BY <1>2 DEF Solved
<1>8. {i \in DOMAIN y : i < k} = {i \in DOMAIN z : i < k}
  BY <1>1
<1>9. Wrong(y) = Wrong(z)
  <2>1. Wrong(y) = Cardinality({i \in DOMAIN y : i < k}) /\ Wrong(z) = Cardinality({i \in DOMAIN z : i < k})
    BY <1>6, <1>7 DEF Wrong
  <2> QED BY <1>8, <2>1
<1> QED BY <1>2, <1>6, <1>7, <1>9 DEF Solving

\* Where a problem is solved, its result is that of what was submitted up to the first
\* accepted submission.
LEMMA LaterDoesNotCount ==
  ASSUME NEW f \in {"icpc", "atcoder", "ecoo"}, NEW p, NEW s, Entries(s), Solved(Attempts(s, p))
  PROVE  ProblemResult(f, UpTo(Attempts(s, p), FirstAccepted(Attempts(s, p))), p) = ProblemResult(f, s, p)
<1> DEFINE q == Attempts(s, p)
           k == FirstAccepted(q)
           x == UpTo(q, k)
           S == {i \in DOMAIN q : Accepted(q[i])}
<1>1. Entries(q) /\ \A i \in DOMAIN q : q[i].problem = p
  <2>1. Entries(q)
    BY AttemptsSound
  <2>2. DOMAIN q = {i \in DOMAIN s : s[i].problem = p} /\ \A i \in DOMAIN q : q[i] = s[i]
    BY AttemptsAre
  <2> HIDE DEF q
  <2> QED BY <2>1, <2>2
<1>2. Solved(q)
  OBVIOUS
<1> HIDE DEF q
<1>3. k \in DOMAIN q /\ Accepted(q[k]) /\ \A i \in DOMAIN q : Accepted(q[i]) => k <= i
  <2>1. S \in SUBSET Nat /\ S # {}
    BY <1>1, <1>2 DEF Entries, Solved
  <2>2. Min(S) \in S /\ \A i \in S : Min(S) <= i
    <3> HIDE DEF S
    <3> QED BY <2>1, SmallestOfNaturals
  <2>3. k = Min(S)
    BY DEF FirstAccepted
  <2> QED BY <2>2, <2>3
<1> HIDE DEF k
<1>4. /\ x = [i \in DOMAIN x |-> x[i]]
      /\ DOMAIN x = {i \in DOMAIN q : i <= k} /\ \A i \in DOMAIN x : x[i] = q[i]
  BY DEF UpTo, RestrictDomain, Restrict
<1> HIDE DEF x
<1>5. Attempts(x, p) = x
  <2>1. {i \in DOMAIN x : x[i].problem = p} = DOMAIN x
    BY <1>1, <1>4
  <2>2. Attempts(x, p) = [i \in {j \in DOMAIN x : x[j].problem = p} |-> x[i]]
    BY DEF Attempts, RestrictValues, Restrict
  <2> QED BY <1>4, <2>1, <2>2
<1>6. DOMAIN q \subseteq Nat /\ k \in Nat /\ k \in DOMAIN x
  BY <1>1, <1>3, <1>4 DEF Entries
<1>7. CASE f = "icpc"
  <2> DEFINE y == Counted(q)
             z == Counted(x)
  <2>1. /\ DOMAIN y = {i \in DOMAIN q : q[i].out.result \notin {"CE", "IE"}} /\ \A i \in DOMAIN y : y[i] = q[i]
        /\ DOMAIN z = {i \in DOMAIN x : x[i].out.result \notin {"CE", "IE"}} /\ \A i \in DOMAIN z : z[i] = x[i]
    BY CountedAre
  <2>2. Entries(y)
    BY <1>1, <2>1, FS_Subset DEF Entries
  <2>3. ProblemResult(f, s, p) = Solving(y, 1) /\ ProblemResult(f, x, p) = Solving(z, 1)
    BY <1>5, <1>7 DEF ProblemResult, IcpcResult, q
  <2> HIDE DEF y, z
  <2>4. k \in DOMAIN y /\ Accepted(y[k]) /\ \A i \in DOMAIN y : Accepted(y[i]) => k <= i
    BY <1>3, <2>1 DEF Accepted
  <2>5. DOMAIN z = {i \in DOMAIN y : i <= k} /\ \A i \in DOMAIN z : z[i] = y[i]
    BY <1>4, <2>1
  <2>6. Solving(z, 1) = Solving(y, 1)
    BY <2>2, <2>4, <2>5, SolvingUpTo
  <2> QED BY <2>3, <2>6 DEF k, q, x
<1>8. CASE f = "atcoder"
  <2>1. /\ ProblemResult(f, s, p) = Solving(q, ProblemPoints[p])
        /\ ProblemResult(f, x, p) = Solving(x, ProblemPoints[p])
    BY <1>5, <1>8 DEF ProblemResult, AtCoderResult, q
  <2>2. Solving(x, ProblemPoints[p]) = Solving(q, ProblemPoints[p])
    BY <1>1, <1>3, <1>4, SolvingUpTo
  <2> QED BY <2>1, <2>2 DEF k, q, x
<1>9. CASE f = "ecoo"
  <2> DEFINE y == FirstTries(q)
             z == FirstTries(x)
             tries(i) == Cardinality({j \in DOMAIN q : j <= i})
  <2>1. /\ DOMAIN y = {i \in DOMAIN q : tries(i) <= Tries}
        /\ \A i \in DOMAIN y : y[i] = q[i]
    BY FirstTriesAre
  <2>2. /\ DOMAIN z = {i \in DOMAIN x : Cardinality({j \in DOMAIN x : j <= i}) <= Tries}
        /\ \A i \in DOMAIN z : z[i] = x[i]
    BY FirstTriesAre
  <2>3. \A i \in DOMAIN x : {j \in DOMAIN x : j <= i} = {j \in DOMAIN q : j <= i}
    BY <1>4, <1>6
  <2>4. DOMAIN z = {i \in DOMAIN x : tries(i) <= Tries}
    BY <2>2, <2>3
  <2>5. ProblemResult(f, s, p) = Solving(y, 1) /\ ProblemResult(f, x, p) = Solving(z, 1)
    BY <1>5, <1>9 DEF ProblemResult, EcooResult, q
  <2>6. \A i \in DOMAIN q : k <= i => tries(k) \in Nat /\ tries(i) \in Nat /\ tries(k) <= tries(i)
    <3> SUFFICES ASSUME NEW i \in DOMAIN q, k <= i
                 PROVE  tries(k) \in Nat /\ tries(i) \in Nat /\ tries(k) <= tries(i)
      OBVIOUS
    <3> DEFINE A == {j \in DOMAIN q : j <= k}
               B == {j \in DOMAIN q : j <= i}
    <3>1. A \subseteq B
      BY <1>6
    <3>2. IsFiniteSet(A) /\ IsFiniteSet(B)
      BY <1>1, FS_Subset DEF Entries
    <3> HIDE DEF A, B
    <3>3. Cardinality(A) \in Nat /\ Cardinality(B) \in Nat /\ Cardinality(A) <= Cardinality(B)
      BY <3>1, <3>2, FS_CardinalityType, FS_Subset
    <3> QED BY <3>3 DEF A, B
  <2>7. Entries(y)
    BY <1>1, <2>1, FS_Subset DEF Entries
  <2>8. Tries \in Nat
    BY FormatsAssumption
  <2> HIDE DEF y, z, tries
  <2>9. DOMAIN z = {i \in DOMAIN y : i <= k} /\ \A i \in DOMAIN z : z[i] = y[i]
    BY <1>4, <2>1, <2>2, <2>4
  <2>10. CASE tries(k) <= Tries
    <3>1. k \in DOMAIN y /\ Accepted(y[k]) /\ \A i \in DOMAIN y : Accepted(y[i]) => k <= i
      BY <1>3, <2>1, <2>10
    <3>2. Solving(z, 1) = Solving(y, 1)
      BY <2>7, <2>9, <3>1, SolvingUpTo
    <3> QED BY <2>5, <3>2 DEF k, q, x
  <2>11. CASE ~(tries(k) <= Tries)
    <3>1. \A i \in DOMAIN y : ~Accepted(y[i])
      <4> SUFFICES ASSUME NEW i \in DOMAIN y, Accepted(y[i]) PROVE FALSE
        OBVIOUS
      <4>1. i \in DOMAIN q /\ k <= i /\ tries(i) <= Tries
        BY <1>3, <2>1
      <4> QED BY <2>6, <2>8, <2>11, <4>1
    <3>2. ~Solved(y) /\ ~Solved(z)
      BY <2>9, <3>1 DEF Solved
    <3>3. Solving(z, 1) = Solving(y, 1)
      BY <3>2 DEF Solving
    <3> QED BY <2>5, <3>3 DEF k, q, x
  <2> QED BY <2>10, <2>11
<1> QED BY <1>7, <1>8, <1>9

BoardEntry == [problem : Problems, at : Nat, out : Verdicts \cup {Pending}]

\* Submissions are numbered as they are made.
BoardInv ==
  /\ clock \in Nat
  /\ board \in [Participants -> Seq(BoardEntry)]
  /\ \A u \in Participants : \A i \in DOMAIN board[u] :
       /\ board[u][i].at <= clock
       /\ \A j \in DOMAIN board[u] : j < i => board[u][j].at <= board[u][i].at

LEMMA BoardIsSound ==
  ASSUME BoardInv, NEW u \in Participants
  PROVE  Entries(board[u])
<1> PICK q : q = board[u]
  OBVIOUS
<1>1. q \in Seq(BoardEntry)
  BY DEF BoardInv
<1>2. DOMAIN q = 1..Len(q) /\ Len(q) \in Nat /\ \A i \in DOMAIN q : q[i] \in BoardEntry
  BY <1>1
<1>3. IsFiniteSet(DOMAIN q)
  BY <1>2, FS_Interval
<1>4. \A out \in Verdicts \cup {Pending} : WellScored(out)
  BY BoardAssumption DEF WellScored, Pending
<1>5. Entries(q)
  BY <1>2, <1>3, <1>4 DEF Entries, BoardEntry
<1> QED BY <1>5

\* A step that gives a submission another outcome.
LEMMA Rejudged ==
  ASSUME BoardInv, NEW u \in Participants, NEW i \in DOMAIN board[u], NEW out \in Verdicts \cup {Pending},
         board' = [board EXCEPT ![u][i].out = out], UNCHANGED clock
  PROVE  BoardInv'
<1> PICK q : q = board[u]
  OBVIOUS
<1> PICK r : r = [q EXCEPT ![i].out = out]
  OBVIOUS
<1>1. q \in Seq(BoardEntry) /\ i \in DOMAIN q /\ q[i] \in BoardEntry
  BY DEF BoardInv
<1>2. r = [q EXCEPT ![i] = [q[i] EXCEPT !.out = out]] /\ [q[i] EXCEPT !.out = out] \in BoardEntry
      /\ [q[i] EXCEPT !.out = out].at = q[i].at
  BY <1>1 DEF BoardEntry
<1>3. r \in Seq(BoardEntry) /\ DOMAIN r = DOMAIN q /\ \A j \in DOMAIN q : r[j].at = q[j].at
  BY <1>1, <1>2
<1>4. /\ board' \in [Participants -> Seq(BoardEntry)]
      /\ \A v \in Participants : board'[v] = IF v = u THEN r ELSE board[v]
  <2>1. board' = [board EXCEPT ![u] = r]
    OBVIOUS
  <2> HIDE DEF BoardEntry
  <2> QED BY <1>3, <2>1 DEF BoardInv
<1>5. /\ clock \in Nat
      /\ \A v \in Participants : \A j \in DOMAIN board[v] :
           /\ board[v][j].at <= clock
           /\ \A k \in DOMAIN board[v] : k < j => board[v][k].at <= board[v][j].at
  BY DEF BoardInv
<1>6. ASSUME NEW v \in Participants, NEW j \in DOMAIN board'[v]
      PROVE  /\ board'[v][j].at <= clock
             /\ \A k \in DOMAIN board'[v] : k < j => board'[v][k].at <= board'[v][j].at
  <2>1. CASE v = u
    BY <1>3, <1>4, <1>5, <2>1
  <2>2. CASE v # u
    BY <1>4, <1>5, <2>2
  <2> QED BY <2>1, <2>2
<1> QED BY <1>4, <1>5, <1>6 DEF BoardInv

LEMMA SubmitToKeeps ==
  ASSUME BoardInv, NEW u \in Participants, NEW p \in Problems, SubmitTo(u, p)
  PROVE  BoardInv'
<1> DEFINE new == [problem |-> p, at |-> clock, out |-> Pending]
<1> PICK q : q = board[u]
  OBVIOUS
<1>1. q \in Seq(BoardEntry) /\ clock \in Nat
  BY DEF BoardInv
<1>2. new \in BoardEntry /\ new.at = clock
  BY <1>1 DEF BoardEntry
<1>3. board' = [board EXCEPT ![u] = Append(q, new)] /\ UNCHANGED clock
  BY DEF SubmitTo
<1> HIDE DEF new
<1> PICK r : r = Append(q, new)
  OBVIOUS
<1>4. /\ r \in Seq(BoardEntry) /\ Len(r) = Len(q) + 1 /\ DOMAIN r = 1..Len(r) /\ DOMAIN q = 1..Len(q)
      /\ \A j \in DOMAIN q : r[j] = q[j]
      /\ r[Len(r)] = new
  BY <1>1, <1>2
<1>5. \A j \in DOMAIN r : r[j].at <= clock /\ \A k \in DOMAIN r : k < j => r[k].at <= r[j].at
  <2>1. \A j \in DOMAIN q : /\ q[j].at <= clock
                            /\ \A k \in DOMAIN q : k < j => q[k].at <= q[j].at
    BY DEF BoardInv
  <2> SUFFICES ASSUME NEW j \in DOMAIN r
               PROVE  r[j].at <= clock /\ \A k \in DOMAIN r : k < j => r[k].at <= r[j].at
    OBVIOUS
  <2>2. CASE j = Len(r)
    <3>1. r[j].at = clock
      BY <1>2, <1>4, <2>2
    <3>2. \A k \in DOMAIN r : k < j => k \in DOMAIN q
      BY <1>1, <1>4, <2>2
    <3> QED BY <1>1, <1>4, <2>1, <3>1, <3>2
  <2>3. CASE j # Len(r)
    <3>1. j \in DOMAIN q /\ \A k \in DOMAIN r : k < j => k \in DOMAIN q
      BY <1>1, <1>4, <2>3
    <3> QED BY <1>4, <2>1, <3>1
  <2> QED BY <2>2, <2>3
<1>6. /\ board' \in [Participants -> Seq(BoardEntry)]
      /\ \A v \in Participants : board'[v] = IF v = u THEN r ELSE board[v]
  BY <1>3, <1>4 DEF BoardInv
<1>7. ASSUME NEW v \in Participants, NEW j \in DOMAIN board'[v]
      PROVE  /\ board'[v][j].at <= clock
             /\ \A k \in DOMAIN board'[v] : k < j => board'[v][k].at <= board'[v][j].at
  <2>1. CASE v = u
    BY <1>5, <1>6, <2>1
  <2>2. CASE v # u
    BY <1>6, <2>2 DEF BoardInv
  <2> QED BY <2>1, <2>2
<1> QED BY <1>1, <1>3, <1>6, <1>7 DEF BoardInv

\* The submissions of each participant are in the order of their times, none later than
\* now, with an outcome as finish and fail write it, or none.
THEOREM BoardInvHolds == BoardSpec => []BoardInv
<1>1. BoardInit => BoardInv
  BY DEF BoardInit, BoardInv
<1>2. BoardInv /\ [BoardNext]_boardVars => BoardInv'
  <2> SUFFICES ASSUME BoardInv, [BoardNext]_boardVars PROVE BoardInv'
    OBVIOUS
  <2>1. ASSUME NEW u \in Participants, NEW p \in Problems, SubmitTo(u, p) PROVE BoardInv'
    BY <2>1, SubmitToKeeps
  <2>2. ASSUME NEW u \in Participants, NEW i \in DOMAIN board[u], NEW out \in Verdicts, Judge(u, i, out)
        PROVE  BoardInv'
    BY <2>2, Rejudged DEF Judge
  <2>3. ASSUME NEW u \in Participants, NEW i \in DOMAIN board[u], Rejudge(u, i) PROVE BoardInv'
    BY <2>3, Rejudged DEF Rejudge
  <2>4. CASE Pass
    <3>1. /\ clock \in Nat /\ clock' = clock + 1 /\ board' = board
          /\ \A u \in Participants : \A i \in DOMAIN board[u] : board[u][i].at \in Nat
      BY <2>4, BoardIsSound DEF Pass, BoardInv, Entries
    <3>2. \A u \in Participants : \A i \in DOMAIN board[u] : board[u][i].at <= clock'
      BY <3>1 DEF BoardInv
    <3> QED BY <3>1, <3>2 DEF BoardInv
  <2>5. CASE UNCHANGED boardVars
    BY <2>5 DEF boardVars, BoardInv
  <2> QED BY <2>1, <2>2, <2>3, <2>4, <2>5 DEF BoardNext
<1> QED BY <1>1, <1>2, PTL DEF BoardSpec

\* Once a problem is solved, later submissions to it change nothing in icpc, atcoder and
\* ecoo: for any number of participants, submissions and tries, and all outcomes.
THEOREM SolvedHolds == BoardSpec => []SolvedIsSolved
<1>1. BoardInv => SolvedIsSolved
  BY BoardIsSound, LaterDoesNotCount DEF SolvedIsSolved
<1> QED BY <1>1, BoardInvHolds, PTL

\* In every format the frozen board never shows a participant with more than the real
\* one, whichever results are still to come.
THEOREM FrozenHolds == BoardSpec => []FrozenNeverOverstates
<1>1. BoardInv => FrozenNeverOverstates
  <2> SUFFICES ASSUME BoardInv, NEW u \in Participants, NEW f \in Formats
               PROVE  FrozenStanding(f, u).score <= Standing(f, board[u]).score
    BY DEF FrozenNeverOverstates
  <2> PICK r : r = board[u]
    OBVIOUS
  <2> DEFINE q == RestrictValues(r, LAMBDA s : s.at <= FreezeAt)
  <2>1. DOMAIN q = {i \in DOMAIN r : r[i].at <= FreezeAt} /\ \A i \in DOMAIN q : q[i] = r[i]
    BY DEF RestrictValues, Restrict
  <2>2. FrozenStanding(f, u) = Standing(f, q)
    BY DEF FrozenStanding
  <2> HIDE DEF q
  <2>3. Entries(r)
    BY BoardIsSound
  <2>4. Entries(q)
    BY <2>1, <2>3, FS_Subset DEF Entries
  <2>5. \A i, j \in DOMAIN r : j < i => r[j].at <= r[i].at
    BY DEF BoardInv
  <2>6. ASSUME NEW i \in DOMAIN q, NEW j \in DOMAIN r, j < i PROVE j \in DOMAIN q
    BY <2>1, <2>3, <2>5, <2>6, BoardAssumption DEF Entries
  <2>7. Grows(q, r)
    BY <2>1, <2>6 DEF Grows
  <2> QED BY <2>2, <2>3, <2>4, <2>7, StandingGrows
<1> QED BY <1>1, BoardInvHolds, PTL

-----------------------------------------------------------------------------
(* The end of contests and their ratings *)

Flags == [Phases -> BOOLEAN]

\* What an end_contest transaction can be, but for the plan of what it writes.
CalcOK(x) == x = NoCalc \/ (x.on = TRUE /\ x.contest \in Contests)

\* The type invariant; ratings may be of any kind, for the formula is not known.
TypeOK ==
  /\ row \in [Contests -> Flags]
  /\ announced \in [Contests -> [Phases -> Nat]] /\ retracted \in [Contests -> [Phases -> Nat]]
  /\ edits \in Nat /\ recalculations \in Nat
  /\ copies \subseteq [contest : Contests, row : Flags]
  /\ due \in [Tasks -> SUBSET (Contests \X Phases)]
  /\ DOMAIN calc = Tasks /\ calc = [t \in Tasks |-> calc[t]]
  /\ \A t \in Tasks : CalcOK(calc[t])
  /\ book.rows = [c \in Contests |-> book.rows[c]]

\* The lock on the row of a contest: one transaction ends it, and as long as that
\* one lasts nobody else ends it or puts back its row.
OneEnd ==
  /\ \A s, t \in Tasks : calc[s].on /\ calc[t].on /\ calc[s].contest = calc[t].contest => s = t
  /\ \A t \in Tasks : calc[t].on => ~row[calc[t].contest].ended

\* A start or an end that is still to be marked has been announced at most as often as
\* rows were put back and transactions failed after they had published.
StillToAnnounce == \A c \in Contests, k \in Phases :
  /\ announced[c][k] <= 1 + edits + retracted[c][k]
  /\ ~row[c][k] => announced[c][k] <= edits + retracted[c][k]

\* What a calculation is going to write is not on record, unless a recalculation
\* came before the end of the contest.
PlansAreNew == \A t \in Tasks :
  calc[t].on /\ calc[t].contest \notin early =>
    \A u \in Users \cap DOMAIN calc[t].plan : book.rows[calc[t].contest][u] = NoRating

IInv == TypeOK /\ OneEnd /\ StillToAnnounce /\ PlansAreNew

-----------------------------------------------------------------------------

\* calculate_ratings writes rows of its contest, and of the users in its plan.
LEMMA WrittenRows ==
  ASSUME NEW b, NEW c \in Contests, NEW plan,
         b.rows = [d \in Contests |-> b.rows[d]]
  PROVE  /\ Written(b, c, plan).rows = [d \in Contests |-> Written(b, c, plan).rows[d]]
         /\ \A d \in Contests \ {c} : Written(b, c, plan).rows[d] = b.rows[d]
         /\ \A u \in Users \ DOMAIN plan : Written(b, c, plan).rows[c][u] = b.rows[c][u]
<1>1. Written(b, c, plan).rows =
        [b.rows EXCEPT ![c] = [u \in Users |->
           IF u \in DOMAIN plan THEN [before |-> plan[u].before, after |-> plan[u].after]
                                ELSE b.rows[c][u]]]
  BY DEF Written
<1>2. DOMAIN b.rows = Contests
  OBVIOUS
<1> QED BY <1>1, <1>2

\* calculate_ratings plans nothing for a contest with a rating on record.
LEMMA PlanIsNew ==
  ASSUME NEW b, NEW c \in Contests, NEW u \in Users \cap DOMAIN Plan(b, c)
  PROVE  b.rows[c][u] = NoRating
<1>1. CASE \E v \in Users : b.rows[c][v] # NoRating
  <2>1. DOMAIN Plan(b, c) = {}
    BY <1>1 DEF Plan
  <2> QED BY <2>1
<1>2. CASE ~ \E v \in Users : b.rows[c][v] # NoRating
  BY <1>2
<1> QED BY <1>1, <1>2

\* An end_contest transaction is about a contest.
LEMMA EndOfContest ==
  ASSUME TypeOK, NEW t \in Tasks, calc[t].on PROVE calc[t].contest \in Contests
<1>1. calc[t] # NoCalc
  BY DEF NoCalc
<1> QED BY <1>1 DEF TypeOK, CalcOK

\* Nothing has started when the service is set up.
LEMMA InitInv == Init => IInv
<1> SUFFICES ASSUME Init PROVE IInv
  OBVIOUS
<1>1. TypeOK
  BY DEF Init, TypeOK, Flags, CalcOK, NoCalc, Phases
<1>2. \A t \in Tasks : ~calc[t].on
  BY DEF Init, NoCalc
<1>3. StillToAnnounce
  BY DEF Init, StillToAnnounce
<1> QED BY <1>1, <1>2, <1>3 DEF IInv, OneEnd, PlansAreNew

\* Steps that touch neither rows nor transactions keep the invariant.
LEMMA OtherSteps ==
  ASSUME IInv, UNCHANGED <<row, announced, retracted, edits, calc>>,
         \/ UNCHANGED <<book, early>>
         \/ \E c \in Contests : Command(c)
         \/ CommitAll,
         recalculations' \in Nat,
         copies' \subseteq [contest : Contests, row : Flags],
         due' \in [Tasks -> SUBSET (Contests \X Phases)]
  PROVE  IInv'
<1> USE DEF IInv
<1>1. OneEnd' /\ StillToAnnounce'
  BY DEF OneEnd, StillToAnnounce
<1>2. CASE UNCHANGED <<book, early>>
  BY <1>1, <1>2 DEF TypeOK, PlansAreNew
<1>3. ASSUME NEW c \in Contests, Command(c) PROVE IInv'
  <2> DEFINE before == [book EXCEPT !.rows[c] = [u \in Users |-> NoRating]]
  <2>1. PICK plan : book' = Written(before, c, plan)
    BY <1>3 DEF Command
  <2>2. /\ before.rows = [book.rows EXCEPT ![c] = [u \in Users |-> NoRating]]
    OBVIOUS
  <2>3. before.rows = [d \in Contests |-> before.rows[d]]
    BY <2>2 DEF TypeOK
  <2>4. \A d \in Contests \ {c} : before.rows[d] = book.rows[d]
    BY <2>2 DEF TypeOK
  <2> HIDE DEF before
  <2>5. /\ book'.rows = [d \in Contests |-> book'.rows[d]]
        /\ \A d \in Contests \ {c} : book'.rows[d] = book.rows[d]
    BY <2>1, <2>3, <2>4, WrittenRows
  <2>6. TypeOK'
    BY <2>5 DEF TypeOK
  <2>7. early \subseteq early' /\ (row[c].ended \/ c \in early')
    BY <1>3 DEF Command
  <2>8. PlansAreNew'
    <3> SUFFICES ASSUME NEW t \in Tasks, calc[t].on, calc[t].contest \notin early',
                        NEW u \in Users \cap DOMAIN calc[t].plan
                 PROVE  book'.rows[calc[t].contest][u] = NoRating
      BY DEF PlansAreNew
    <3>1. calc[t].contest \in Contests /\ ~row[calc[t].contest].ended
      BY EndOfContest DEF OneEnd
    <3>2. calc[t].contest \in Contests \ {c}
      BY <2>7, <3>1
    <3> QED BY <2>5, <2>7, <3>2 DEF PlansAreNew
  <2> QED BY <1>1, <2>6, <2>8
<1>4. ASSUME CommitAll PROVE IInv'
  <2>1. book'.rows = [c \in Contests |-> book'.rows[c]]
    BY <1>4 DEF CommitAll, View
  <2>2. \A c \in Contests : row[c].ended \/ c \in early'
    BY <1>4 DEF CommitAll
  <2>3. TypeOK'
    BY <2>1 DEF TypeOK
  <2>4. \A t \in Tasks : calc[t].on => calc[t].contest \in early'
    BY <2>2, EndOfContest DEF OneEnd
  <2>5. PlansAreNew'
    BY <2>4 DEF PlansAreNew
  <2> QED BY <1>1, <2>3, <2>5
<1> QED BY <1>2, <1>3, <1>4

\* A PATCH that saves a copy waits for the lock, and counts as an edit.
LEMMA SaveStep ==
  ASSUME IInv, NEW d \in copies, SaveCopy(d) PROVE IInv'
<1> USE DEF IInv
<1>1. d.contest \in Contests /\ d.row \in Flags
  BY DEF TypeOK
<1>2. row' = [row EXCEPT ![d.contest] = d.row] /\ edits' = edits + 1 /\ copies' \subseteq copies
      /\ UNCHANGED <<announced, retracted, calc, due, book, recalculations, early>>
  BY DEF SaveCopy
<1>3. TypeOK'
  BY <1>1, <1>2 DEF TypeOK
<1>4. \A t \in Tasks : calc[t].on => row'[calc[t].contest] = row[calc[t].contest]
  <2> SUFFICES ASSUME NEW t \in Tasks, calc[t].on
               PROVE  row'[calc[t].contest] = row[calc[t].contest]
    OBVIOUS
  <2>1. calc[t].contest \in Contests /\ calc[t].contest # d.contest
    BY EndOfContest DEF SaveCopy, Locked
  <2> QED BY <1>2, <2>1 DEF TypeOK
<1>5. OneEnd'
  BY <1>2, <1>4 DEF OneEnd
<1>6. StillToAnnounce'
  <2> SUFFICES ASSUME NEW c \in Contests, NEW k \in Phases
               PROVE  /\ announced'[c][k] <= 1 + edits' + retracted'[c][k]
                      /\ announced'[c][k] <= edits' + retracted'[c][k]
    BY DEF StillToAnnounce
  <2>1. /\ announced[c][k] \in Nat /\ retracted[c][k] \in Nat /\ edits \in Nat
        /\ announced[c][k] <= 1 + edits + retracted[c][k]
    BY DEF StillToAnnounce, TypeOK
  <2> QED BY <1>2, <2>1
<1>7. PlansAreNew'
  BY <1>2 DEF PlansAreNew
<1> QED BY <1>3, <1>5, <1>6, <1>7

\* Announcing what was not announced keeps the count.
LEMMA AnnounceOnce ==
  ASSUME IInv, NEW c \in Contests, NEW k \in Phases, ~row[c][k], Announce(c, k),
         UNCHANGED <<edits, retracted>>
  PROVE  /\ row' \in [Contests -> Flags] /\ announced' \in [Contests -> [Phases -> Nat]]
         /\ StillToAnnounce'
         /\ \A d \in Contests : d # c \/ k # "ended" => row'[d].ended = row[d].ended
<1> USE DEF IInv, TypeOK, Flags
<1>1. row' = [row EXCEPT ![c][k] = TRUE]
      /\ announced' = [announced EXCEPT ![c][k] = announced[c][k] + 1]
  BY DEF Announce
<1>2. /\ announced[c][k] \in Nat /\ retracted[c][k] \in Nat /\ edits \in Nat
      /\ announced[c][k] <= edits + retracted[c][k]
  BY DEF StillToAnnounce
<1>3. row' \in [Contests -> Flags] /\ announced' \in [Contests -> [Phases -> Nat]]
  BY <1>1, <1>2
<1>4. StillToAnnounce'
  <2> SUFFICES ASSUME NEW d \in Contests, NEW j \in Phases
               PROVE  /\ announced'[d][j] <= 1 + edits + retracted[d][j]
                      /\ ~row'[d][j] => announced'[d][j] <= edits + retracted[d][j]
    BY DEF StillToAnnounce
  <2>1. CASE d = c /\ j = k
    BY <1>1, <1>2, <2>1
  <2>2. CASE ~(d = c /\ j = k)
    <3>1. announced'[d][j] = announced[d][j] /\ row'[d][j] = row[d][j]
      BY <1>1, <2>2
    <3> QED BY <3>1 DEF StillToAnnounce
  <2> QED BY <2>1, <2>2
<1>5. ASSUME NEW d \in Contests, d # c \/ k # "ended" PROVE row'[d].ended = row[d].ended
  <2>1. CASE d # c
    BY <1>1, <2>1
  <2>2. CASE d = c
    <3>1. row'[c] = [row[c] EXCEPT ![k] = TRUE] /\ row[c] \in [Phases -> BOOLEAN] /\ k # "ended"
      BY <1>1, <1>5, <2>2
    <3> QED BY <2>2, <3>1 DEF Phases
  <2> QED BY <2>1, <2>2
<1> QED BY <1>3, <1>4, <1>5

\* A run of the task starts what it finds not started under the lock.
LEMMA StartStep ==
  ASSUME IInv, NEW t \in Tasks, NEW c \in Contests, StartContest(t, c) PROVE IInv'
<1> USE DEF IInv
<1>1. due' \in [Tasks -> SUBSET (Contests \X Phases)]
  BY DEF StartContest, Drop, TypeOK
<1>2. UNCHANGED <<calc, book, copies, edits, recalculations, early, retracted>>
  BY DEF StartContest, counters
<1>3. CASE row[c].started
  <2>1. UNCHANGED <<row, announced>>
    BY <1>3 DEF StartContest
  <2> QED BY <1>1, <1>2, <2>1 DEF TypeOK, OneEnd, StillToAnnounce, PlansAreNew
<1>4. CASE ~row[c].started
  <2>1. Announce(c, "started")
    BY <1>4 DEF StartContest
  <2>2. /\ row' \in [Contests -> Flags] /\ announced' \in [Contests -> [Phases -> Nat]]
        /\ StillToAnnounce'
        /\ \A d \in Contests : row'[d].ended = row[d].ended
    BY <1>2, <1>4, <2>1, AnnounceOnce DEF Phases
  <2>3. TypeOK'
    BY <1>1, <1>2, <2>2 DEF TypeOK
  <2>4. OneEnd'
    BY <1>2, <2>2, EndOfContest DEF OneEnd
  <2>5. PlansAreNew'
    BY <1>2 DEF PlansAreNew
  <2> QED BY <2>2, <2>3, <2>4, <2>5
<1> QED BY <1>3, <1>4

\* A run of the task takes the lock, or finds the contest ended.
LEMMA BeginStep ==
  ASSUME IInv, NEW t \in Tasks, NEW c \in Contests, BeginEnd(t, c) PROVE IInv'
<1> USE DEF IInv
<1>1. UNCHANGED <<row, announced, book, copies, edits, recalculations, early, retracted>>
  BY DEF BeginEnd, counters
<1>2. CASE row[c].ended
  <2>1. UNCHANGED calc /\ Drop(t, c, "ended")
    BY <1>2 DEF BeginEnd
  <2>2. due' \in [Tasks -> SUBSET (Contests \X Phases)]
    BY <2>1 DEF Drop, TypeOK
  <2> QED BY <1>1, <2>1, <2>2, OtherSteps DEF TypeOK
<1>3. CASE ~row[c].ended
  <2> DEFINE new == [on |-> TRUE, contest |-> c, plan |-> Plan(book, c)]
  <2>1. calc' = [calc EXCEPT ![t] = new] /\ UNCHANGED due
    BY <1>3 DEF BeginEnd
  <2>2. new.on = TRUE /\ new.contest = c /\ new.plan = Plan(book, c)
    OBVIOUS
  <2> HIDE DEF new
  <2>3. calc'[t] = new /\ \A s \in Tasks : s # t => calc'[s] = calc[s]
    BY <2>1 DEF TypeOK
  <2>4. TypeOK'
    <3>1. DOMAIN calc' = Tasks /\ calc' = [s \in Tasks |-> calc'[s]]
      BY <2>1 DEF TypeOK
    <3>2. \A s \in Tasks : CalcOK(calc'[s])
      BY <2>2, <2>3 DEF TypeOK, CalcOK
    <3> QED BY <1>1, <2>1, <3>1, <3>2 DEF TypeOK, CalcOK, NoCalc
  <2>5. \A s \in Tasks : ~(calc[s].on /\ calc[s].contest = c)
    BY DEF BeginEnd, Locked
  <2>6. OneEnd'
    BY <1>1, <1>3, <2>2, <2>3, <2>5 DEF OneEnd
  <2>7. PlansAreNew'
    <3> SUFFICES ASSUME NEW s \in Tasks, calc'[s].on, calc'[s].contest \notin early,
                        NEW u \in Users \cap DOMAIN calc'[s].plan
                 PROVE  book.rows[calc'[s].contest][u] = NoRating
      BY <1>1 DEF PlansAreNew
    <3>1. CASE s = t
      BY <2>2, <2>3, <3>1, PlanIsNew
    <3>2. CASE s # t
      BY <2>3, <3>2 DEF PlansAreNew
    <3> QED BY <3>1, <3>2
  <2>8. StillToAnnounce'
    BY <1>1 DEF StillToAnnounce
  <2> QED BY <2>4, <2>6, <2>7, <2>8
<1> QED BY <1>2, <1>3

\* A transaction that ends, either way, leaves those of the other runs alone.
LEMMA CalcEnds ==
  ASSUME IInv, NEW t \in Tasks, calc' = [calc EXCEPT ![t] = NoCalc]
  PROVE  /\ DOMAIN calc' = Tasks /\ calc' = [s \in Tasks |-> calc'[s]]
         /\ \A s \in Tasks : CalcOK(calc'[s])
         /\ \A s \in Tasks : calc'[s].on => s # t /\ calc'[s] = calc[s]
<1> USE DEF IInv
<1>1. calc'[t] = NoCalc /\ \A s \in Tasks : s # t => calc'[s] = calc[s]
  BY DEF TypeOK
<1>2. ~NoCalc.on
  BY DEF NoCalc
<1>3. DOMAIN calc' = Tasks /\ calc' = [s \in Tasks |-> calc'[s]]
  BY DEF TypeOK
<1> QED BY <1>1, <1>2, <1>3 DEF TypeOK, CalcOK

\* An event of a transaction that fails is counted on both sides.
LEMMA RollBackCounts ==
  ASSUME IInv, NEW t \in Tasks, NEW c \in Contests, NEW k \in Phases, RollBack(t, c, k),
         UNCHANGED <<row, edits>>
  PROVE  /\ announced' \in [Contests -> [Phases -> Nat]]
         /\ retracted' \in [Contests -> [Phases -> Nat]]
         /\ due' \in [Tasks -> SUBSET (Contests \X Phases)]
         /\ StillToAnnounce'
<1> USE DEF IInv, TypeOK
<1>1. PICK out \in {0, 1} : /\ announced' = [announced EXCEPT ![c][k] = @ + out]
                            /\ retracted' = [retracted EXCEPT ![c][k] = @ + out]
  BY DEF RollBack
<1>2. announced' \in [Contests -> [Phases -> Nat]] /\ retracted' \in [Contests -> [Phases -> Nat]]
  BY <1>1
<1>3. due' \in [Tasks -> SUBSET (Contests \X Phases)]
  BY DEF RollBack
<1>4. StillToAnnounce'
  <2> SUFFICES ASSUME NEW d \in Contests, NEW j \in Phases
               PROVE  /\ announced'[d][j] <= 1 + edits + retracted'[d][j]
                      /\ ~row[d][j] => announced'[d][j] <= edits + retracted'[d][j]
    BY DEF StillToAnnounce
  <2>1. PICK more \in {0, 1} : /\ announced'[d][j] = announced[d][j] + more
                               /\ retracted'[d][j] = retracted[d][j] + more
    <3>1. CASE d = c /\ j = k
      BY <1>1, <3>1
    <3>2. CASE ~(d = c /\ j = k)
      <4>1. announced'[d][j] = announced[d][j] /\ retracted'[d][j] = retracted[d][j]
        BY <1>1, <3>2
      <4> QED BY <4>1
    <3> QED BY <3>1, <3>2
  <2>2. announced[d][j] \in Nat /\ retracted[d][j] \in Nat /\ edits \in Nat
    OBVIOUS
  <2> QED BY <2>1, <2>2 DEF StillToAnnounce
<1> QED BY <1>2, <1>3, <1>4

\* A start that fails leaves the contest as it was.
LEMMA FailStartStep ==
  ASSUME IInv, NEW t \in Tasks, NEW c \in Contests, FailStart(t, c) PROVE IInv'
<1> USE DEF IInv
<1>1. UNCHANGED <<row, calc, book, copies, edits, recalculations, early>>
  BY DEF FailStart
<1>2. RollBack(t, c, "started") /\ "started" \in Phases
  BY DEF FailStart, Phases
<1>3. TypeOK' /\ StillToAnnounce'
  BY <1>1, <1>2, RollBackCounts DEF TypeOK
<1>4. OneEnd' /\ PlansAreNew'
  BY <1>1 DEF OneEnd, PlansAreNew
<1> QED BY <1>3, <1>4

\* A failed end rolls back.
LEMMA FailStep ==
  ASSUME IInv, NEW t \in Tasks, FailEnd(t) PROVE IInv'
<1> USE DEF IInv
<1>1. UNCHANGED <<row, book, copies, edits, recalculations, early>>
      /\ calc' = [calc EXCEPT ![t] = NoCalc]
  BY DEF FailEnd
<1>2. RollBack(t, calc[t].contest, "ended") /\ "ended" \in Phases /\ calc[t].contest \in Contests
  BY EndOfContest DEF FailEnd, Phases
<1>3. /\ announced' \in [Contests -> [Phases -> Nat]]
      /\ retracted' \in [Contests -> [Phases -> Nat]]
      /\ due' \in [Tasks -> SUBSET (Contests \X Phases)]
      /\ StillToAnnounce'
  BY <1>1, <1>2, RollBackCounts
<1>4. TypeOK'
  BY <1>1, <1>3, CalcEnds DEF TypeOK, CalcOK, NoCalc
<1>5. \A s \in Tasks : calc'[s].on => calc'[s] = calc[s]
  BY <1>1, CalcEnds
<1>6. OneEnd'
  BY <1>1, <1>5 DEF OneEnd
<1>7. PlansAreNew'
  BY <1>1, <1>5 DEF PlansAreNew
<1> QED BY <1>3, <1>4, <1>6, <1>7

\* An end_contest that commits writes ratings of its contest that were not there.
LEMMA CommitStep ==
  ASSUME IInv, NEW t \in Tasks, CommitEnd(t)
  PROVE  /\ IInv'
         /\ \A c \in Contests \ early, u \in Users :
              book.rows[c][u] # NoRating => book'.rows[c][u] = book.rows[c][u]
<1> USE DEF IInv
<1> DEFINE c == calc[t].contest
<1>1. c \in Contests /\ ~row[c].ended
  BY EndOfContest DEF CommitEnd, OneEnd
<1>2. /\ book' = Written(book, c, calc[t].plan) /\ Announce(c, "ended") /\ Drop(t, c, "ended")
      /\ calc' = [calc EXCEPT ![t] = NoCalc]
      /\ UNCHANGED <<copies, edits, recalculations, early, retracted>>
  BY DEF CommitEnd, counters
<1>3. /\ book'.rows = [d \in Contests |-> book'.rows[d]]
      /\ \A d \in Contests \ {c} : book'.rows[d] = book.rows[d]
      /\ \A u \in Users \ DOMAIN calc[t].plan : book'.rows[c][u] = book.rows[c][u]
  <2>1. book.rows = [d \in Contests |-> book.rows[d]]
    BY DEF TypeOK
  <2>2. book' = Written(book, c, calc[t].plan) /\ c \in Contests
    BY <1>1, <1>2
  <2> HIDE DEF c
  <2> QED BY <2>1, <2>2, WrittenRows
<1>4. \A s \in Tasks : calc'[s].on =>
        s # t /\ calc'[s] = calc[s] /\ calc[s].contest \in Contests \ {c}
  <2> SUFFICES ASSUME NEW s \in Tasks, calc'[s].on
               PROVE  s # t /\ calc'[s] = calc[s] /\ calc[s].contest \in Contests \ {c}
    OBVIOUS
  <2>1. s # t /\ calc'[s] = calc[s]
    BY <1>2, CalcEnds
  <2>2. calc[s].on /\ calc[t].on
    BY <2>1 DEF CommitEnd
  <2> QED BY <2>1, <2>2, EndOfContest DEF OneEnd
<1>5. /\ row' \in [Contests -> Flags] /\ announced' \in [Contests -> [Phases -> Nat]]
      /\ StillToAnnounce'
      /\ \A d \in Contests : d # c => row'[d].ended = row[d].ended
  BY <1>1, <1>2, AnnounceOnce DEF Phases
<1>6. TypeOK'
  <2>1. due' \in [Tasks -> SUBSET (Contests \X Phases)]
    BY <1>2 DEF Drop, TypeOK
  <2> QED BY <1>2, <1>3, <1>5, <2>1, CalcEnds DEF TypeOK, CalcOK, NoCalc
<1>7. OneEnd'
  BY <1>4, <1>5 DEF OneEnd
<1>8. PlansAreNew'
  BY <1>2, <1>3, <1>4 DEF PlansAreNew
<1>9. ASSUME NEW d \in Contests \ early, NEW u \in Users, book.rows[d][u] # NoRating
      PROVE  book'.rows[d][u] = book.rows[d][u]
  <2>1. CASE d # c
    BY <1>3, <2>1
  <2>2. CASE d = c
    BY <1>3, <1>9, <2>2 DEF PlansAreNew, CommitEnd
  <2> QED BY <2>1, <2>2
<1> QED BY <1>5, <1>6, <1>7, <1>8, <1>9

-----------------------------------------------------------------------------

\* Every step keeps the invariant.
LEMMA NextInv == IInv /\ [Next]_vars => IInv'
<1> SUFFICES ASSUME IInv, [Next]_vars PROVE IInv'
  OBVIOUS
<1>t. TypeOK
  BY DEF IInv
<1>1. ASSUME NEW c \in Contests, NEW u \in Users, Play(c, u) PROVE IInv'
  BY <1>1, <1>t, OtherSteps DEF Play, TypeOK
<1>2. ASSUME NEW c \in Contests, ReadCopy(c) PROVE IInv'
  <2>1. copies' \subseteq [contest : Contests, row : Flags]
    BY <1>2, <1>t DEF ReadCopy, TypeOK
  <2> QED BY <1>2, <1>t, <2>1, OtherSteps DEF ReadCopy, TypeOK, counters
<1>3. ASSUME NEW t \in Tasks, ReadDue(t) PROVE IInv'
  <2>1. due' \in [Tasks -> SUBSET (Contests \X Phases)]
    BY <1>3, <1>t DEF ReadDue, TypeOK
  <2> QED BY <1>3, <1>t, <2>1, OtherSteps DEF ReadDue, TypeOK, counters
<1>4. CASE BeginAll
  BY <1>4, <1>t, OtherSteps DEF BeginAll, TypeOK
<1>5. CASE RedoNext
  BY <1>5, <1>t, OtherSteps DEF RedoNext, TypeOK, counters
<1>6. CASE CommitAll
  BY <1>6, <1>t, OtherSteps DEF CommitAll, TypeOK, counters
<1>7. ASSUME NEW c \in Contests, Command(c) PROVE IInv'
  <2>1. /\ UNCHANGED <<row, announced, retracted, edits, calc, copies, due>>
        /\ recalculations' = recalculations + 1
    BY <1>7 DEF Command
  <2>2. /\ recalculations' \in Nat /\ copies' \subseteq [contest : Contests, row : Flags]
        /\ due' \in [Tasks -> SUBSET (Contests \X Phases)]
    BY <2>1, <1>t DEF TypeOK
  <2> QED BY <1>7, <2>1, <2>2, OtherSteps
<1>8. CASE Tick
  BY <1>8, <1>t, OtherSteps DEF Tick, TypeOK, counters
<1>9. CASE UNCHANGED vars
  BY <1>9, <1>t, OtherSteps DEF vars, TypeOK
<1> QED
  BY <1>1, <1>2, <1>3, <1>4, <1>5, <1>6, <1>7, <1>8, <1>9,
     SaveStep, StartStep, FailStartStep, BeginStep, CommitStep, FailStep DEF Next, TaskStep

\* The states are of the types the module means, one transaction ends a contest at a
\* time, and the plan of one that is under way holds nothing that is on record.
THEOREM RatingsInv == Spec => []IInv
<1> QED BY InitInv, NextInv, PTL DEF Spec

\* tests/test_contests.py:86: overlapping runs of the task announce the start and the
\* end of a contest once.  Each PATCH brings at most one more, and so does each
\* transaction that fails, or is killed, between the event and its commit.
THEOREM AnnouncedAtMostOnce == Spec => []AnnouncedOnce
<1>1. IInv => AnnouncedOnce
  BY DEF IInv, StillToAnnounce, AnnouncedOnce
<1> QED BY <1>1, RatingsInv, PTL

\* A step that rates is a recalculation, or it commits the end of a contest and then
\* leaves what is on record alone.
LEMMA RatedStaysRated ==
  ASSUME IInv, [Next]_vars, recalculations' = recalculations, ~(all.on /\ ~all'.on),
         NEW c \in Contests \ early, NEW u \in Users, book.rows[c][u] # NoRating
  PROVE  book'.rows[c][u] = book.rows[c][u]
<1>1. ~CommitAll
  BY DEF CommitAll, NoCalc
<1>2. \A d \in Contests : ~Command(d)
  BY DEF Command, IInv, TypeOK
<1>3. CASE \E t \in Tasks : CommitEnd(t)
  BY <1>3, CommitStep
<1>4. CASE UNCHANGED book
  BY <1>4
<1> QED
  BY <1>1, <1>2, <1>3, <1>4
  DEF Next, TaskStep, vars, Play, ReadCopy, SaveCopy, ReadDue, StartContest, FailStart, BeginEnd,
      FailEnd, BeginAll, RedoNext, Tick

\* calculate_ratings returns early for a contest with ratings, under the lock on its
\* row: whatever is ended again, and whatever scores have changed in between, a rating
\* stays as it was written, but for a recalculation.
THEOREM RatingsStay == Spec => RatingsAreFinal
<1>1. IInv /\ [Next]_vars =>
        [recalculations' = recalculations /\ ~(all.on /\ ~all'.on) =>
           \A c \in Contests \ early, u \in Users :
             book.rows[c][u] # NoRating => book'.rows[c][u] = book.rows[c][u]]_vars
  BY RatedStaysRated
<1> QED BY <1>1, RatingsInv, PTL DEF Spec, RatingsAreFinal

=============================================================================
