------------------------------ MODULE Scoring -------------------------------
(***************************************************************************)
(* ScoringService: the points and the verdict of a submission, computed    *)
(* from its case rows and the package manifest, together with the part of  *)
(* the package importer that decides what a manifest can be.               *)
(*                                                                         *)
(* Points are counted in ten-thousandths, the precision to which the code  *)
(* rounds case and group scores; only the final sum is rounded further, to *)
(* hundredths.  A report's points and total matter by their ratio alone.   *)
(*                                                                         *)
(* The code counts in binary floats.  Rounding takes their errors away,    *)
(* except in the points of all groups together, which are added and not    *)
(* rounded: 1.1 + 2.2 is 3.3000000000000003.  Above has the groups' points *)
(* whose float sum is above their sum.  (A case or a group that falls      *)
(* between two ten-thousandths exactly is rounded up here, to either one   *)
(* in the code.)                                                           *)
(***************************************************************************)
EXTENDS Integers, Sequences, FiniteSetsExt, Functions

CONSTANTS
  CaseCounts,     \* numbers of cases a package may have
  GroupIds,       \* group ids a manifest may declare
  CasePoints,     \* points a manifest may give a case, or Omitted
  Omitted,
  GroupPoints,    \* points a manifest may give a group
  Above,          \* points of groups, by id, that add up to more in floats
  Modes,          \* "sum" and "min", or one of them
  FullPoints,     \* Problem.points
  Reports         \* case rows: [status, points, total]

Point == 10000
Cent == 100

\* The importer takes no negative points and no package without cases; what a
\* judge reports is not checked.  Floats are exact for whole points, and for the
\* points of a single group.
ASSUME ScoringAssumption ==
  /\ CaseCounts \subseteq Nat \ {0}
  /\ IsFiniteSet(GroupIds)
  /\ CasePoints \ {Omitted} \subseteq Nat
  /\ GroupPoints \subseteq Nat
  /\ \A cap \in Above :
       \E g, h \in DOMAIN cap : g # h /\ cap[g] > 0 /\ cap[h] > 0 /\ cap[g] % Point # 0
  /\ Modes \subseteq {"sum", "min"}
  /\ FullPoints \in Nat
  /\ \A r \in Reports : r.points \in Int /\ r.total \in Int

VARIABLES package, \* the manifest of the package, as the importer stores it
          rows     \* the case rows of the submission, by case number

gradeVars == <<package, rows>>

\* round(maximum * ratio, 4)
Share(maximum, part, total) == (2 * maximum * part + total) \div (2 * total)

\* round(x, 2)
RoundToCent(x) == ((x + Cent \div 2) \div Cent) * Cent

\* _apply_default_points: an equal share of the problem's points, rounded.
DefaultPoints(n) == RoundToCent(FullPoints \div n)

CasesOf(m) == DOMAIN m.points
GroupsOf(m) == DOMAIN m.cap
InGroup(m, g) == {c \in CasesOf(m) : m.group[c] = g}

\* Manifests with declared groups; the importer refuses a case in an unknown
\* group, but not a group without cases or with points its cases cannot reach.
\* group is where a case is scored: in its own group or, where the stored id has
\* spaces that the importer overlooked, in "default" or the first one.
Declared == UNION
  {{[points |-> [c \in 1 .. n |-> IF p[c] = Omitted THEN DefaultPoints(n) ELSE p[c]],
     group |-> g, cap |-> cap, mode |-> mode, partial |-> partial] :
      p \in [1 .. n -> CasePoints], g \in [1 .. n -> GroupIds], cap \in [GroupIds -> GroupPoints],
      mode \in [GroupIds -> Modes], partial \in BOOLEAN} : n \in CaseCounts}

\* Without groups the importer adds one that is worth the sum of the cases.
Undeclared ==
  {[points |-> pts, group |-> [c \in DOMAIN pts |-> "default"],
    cap |-> [g \in {"default"} |-> RoundToCent(SumFunction(pts))],
    mode |-> [g \in {"default"} |-> "sum"], partial |-> partial] :
     pts \in {m.points : m \in Declared}, partial \in BOOLEAN}

GradeInit ==
  /\ package \in Declared \cup Undeclared
  /\ rows = <<>>

\* record_cases: insert or overwrite the row of one case.
Post(c, r) ==
  /\ rows' = [d \in DOMAIN rows \cup {c} |-> IF d = c THEN r ELSE rows[d]]
  /\ UNCHANGED package

GradeNext == \E c \in CasesOf(package), r \in Reports : Post(c, r)

GradeSpec == GradeInit /\ [][GradeNext]_gradeVars

-----------------------------------------------------------------------------
(* The algorithm *)

Clamp(x, low, high) == IF x < low THEN low ELSE IF x > high THEN high ELSE x

\* A report without a total is measured against the points of the case.
Total(m, c, r) == IF r.total # 0 THEN r.total ELSE m.points[c]

\* Mutant: an accepted case that reports no points gets none.
CaseScoreAsReported(m, c, r) ==
  LET total == Total(m, c, r)
      claimed == IF r.status \in {"AC", "PT"} THEN r.points ELSE 0
  IN IF total > 0 THEN Share(m.points[c], Clamp(claimed, 0, total), total) ELSE 0

\* What a reported case earns of its points.
CaseScore(m, c, r) ==
  LET total == Total(m, c, r)
      claimed == IF r.status \in {"AC", "PT"} THEN r.points ELSE 0
      earned == IF r.status = "AC" /\ claimed <= 0 THEN total ELSE claimed
  IN IF total > 0 THEN Share(m.points[c], Clamp(earned, 0, total), total)
     ELSE IF r.status = "AC" THEN m.points[c] ELSE 0

\* A group's score: its cases' sum or minimum, where a missing case counts as
\* nothing earned, capped by the group's points.
GroupScore(m, rs, g) ==
  LET s == [c \in InGroup(m, g) |-> IF c \in DOMAIN rs THEN CaseScore(m, c, rs[c]) ELSE 0]
      raw == IF InGroup(m, g) = {} THEN 0
             ELSE IF m.mode[g] = "min" THEN Min({s[c] : c \in DOMAIN s}) ELSE SumFunction(s)
  IN Min({raw, m.cap[g]})

RawPoints(m, rs) == RoundToCent(SumFunction([g \in GroupsOf(m) |-> GroupScore(m, rs, g)]))

TotalPossible(m) == SumFunction(m.cap)

\* points >= total_possible: rounded points against the float sum of the groups'.
Reaches(m, points) ==
  points > TotalPossible(m) \/ (points = TotalPossible(m) /\ m.cap \notin Above)

Passed(rs) == {c \in DOMAIN rs : rs[c].status = "AC"}

\* The verdicts that win over all others, the strongest first.
Severity == <<"CE", "IE", "TLE", "MLE", "RTE", "OLE">>

Worst(rs) == {i \in DOMAIN Severity : \E c \in DOMAIN rs : rs[c].status = Severity[i]}

\* Mutant: accepted because all cases are, whatever the points.
AggregateByCases(m, rs) ==
  IF Worst(rs) # {} THEN Severity[Min(Worst(rs))]
  ELSE IF Passed(rs) = CasesOf(m) THEN "AC"
  ELSE IF RawPoints(m, rs) > 0 THEN "PT"
  ELSE "WA"

\* _aggregate_result
Aggregate(m, rs) ==
  IF Worst(rs) # {} THEN Severity[Min(Worst(rs))]
  ELSE IF /\ Passed(rs) = CasesOf(m)
          /\ TotalPossible(m) <= 0 \/ Reaches(m, RawPoints(m, rs)) THEN "AC"
  ELSE IF RawPoints(m, rs) > 0 THEN "PT"
  ELSE "WA"

\* Without partial scores a submission that is not accepted scores nothing,
\* unless it is an error.
AllOrNothing(m, rs) == ~m.partial /\ Aggregate(m, rs) \notin {"AC", "CE", "IE"}

Points(m, rs) == IF AllOrNothing(m, rs) THEN 0 ELSE RawPoints(m, rs)

Result(m, rs) ==
  IF AllOrNothing(m, rs) /\ Aggregate(m, rs) = "PT" THEN "WA" ELSE Aggregate(m, rs)

-----------------------------------------------------------------------------
(* Properties *)

Errors == {"CE", "IE"}
HasError(rs) == \E c \in DOMAIN rs : rs[c].status \in Errors

\* A submission is accepted exactly when every case of the manifest, reported or
\* not, is accepted and every group earns all of its points (whole hundredths):
\* the code compares the sums, yet no surplus in one group makes up for another.
\* Where the float sum of the groups' points is above their sum, none is accepted.
AcceptedIffFull ==
  Result(package, rows) = "AC" <=>
    /\ Passed(rows) = CasesOf(package)
    /\ \A g \in GroupsOf(package) : GroupScore(package, rows, g) = package.cap[g]
    /\ package.cap \notin Above

\* A case becomes accepted with its full points, whether it was missing or
\* rejected.  (A report of 1 point without a total is not one of full points.)
BecomesAccepted(c) ==
  /\ ~HasError(rows)
  /\ c \in DOMAIN rows'
  /\ rows'[c].status = "AC"
  /\ rows'[c].points <= 0 \/ rows'[c].points >= Total(package, c, rows'[c])
  /\ \A d \in CasesOf(package) \ {c} :
       d \in DOMAIN rows <=> d \in DOMAIN rows' /\ (d \in DOMAIN rows => rows'[d] = rows[d])

AcceptingStep ==
  (\E c \in CasesOf(package) : BecomesAccepted(c)) =>
    /\ Points(package, rows') >= Points(package, rows)
    /\ Result(package, rows) = "AC" => Result(package, rows') = "AC"

\* More accepted cases never cost points: the score does not drop, and an accepted
\* submission stays accepted.
AcceptingNeverCosts == [][AcceptingStep]_gradeVars

\* tests/test_judge_core.py:131, test_all_ac_cases_score_full_points.
AllAcceptedScoreFull ==
  Passed(rows) = CasesOf(package) /\ (\A c \in CasesOf(package) : rows[c].points = rows[c].total)
    => Result(package, rows) = "AC" /\ Points(package, rows) = TotalPossible(package)

=============================================================================
