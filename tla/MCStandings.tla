------------------------------ MODULE MCStandings ------------------------------
(***************************************************************************)
(* From the execution of a job to the standings of a contest, in four      *)
(* parts that share no state: the execution of a job with its package and  *)
(* the build of a package (PackageAuthoring, JobExecution), the score of   *)
(* one submission (Scoring), the standings that the five formats make of   *)
(* submissions (Scoreboard), and the stored score of one participation     *)
(* (ContestScore).  A behaviour works on one part and leaves the others in *)
(* a first state.                                                          *)
(***************************************************************************)
EXTENDS PackageAuthoring, Scoring, ContestScore, Scoreboard

CONSTANTS p1, p2, u1 \* problems, the user of the board

VARIABLE part

-----------------------------------------------------------------------------
(* Packages of two cases, each of the ways in which an archive, a checker, *)
(* a validator, a submission or a build can go wrong.                      *)

Package(manifest, listing, crowded, checker, tool, validator, bad) ==
  [manifest |-> manifest, listing |-> listing, crowded |-> crowded, cases |-> 2,
   checker |-> checker, tool |-> tool, validator |-> validator, bad |-> bad]

MCArchives ==
  {Package(FALSE, "none", FALSE, "absent", "ok", "none", 0),
   Package(TRUE, "none", FALSE, "absent", "ok", "none", 0),
   Package(TRUE, "output", FALSE, "exact", "ok", "none", 0),
   Package(TRUE, "output", FALSE, "interactive", "ok", "none", 0),
   Package(TRUE, "answer", TRUE, "exact", "ok", "none", 0),
   Package(TRUE, "answer", FALSE, "unheard-of", "ok", "none", 0)}
  \cup {Package(TRUE, "answer", FALSE, c, t, "none", 0) :
          c \in {"TESTLIB", "testlib", "interactive", "none"}, t \in {"ok", "broken", "fails", "slow"}}
  \cup {Package(TRUE, "answer", FALSE, c, "ok", v, b) :
          c \in {"exact", "interactive"}, v \in {"ok", "broken"}, b \in 0 .. 2}

Does == {"right", "partial", "wrong", "crash", "slow"}
MCPrograms ==
  {[language |-> "CPP17", compiles |-> TRUE, does |-> d] : d \in [1 .. 2 -> Does]}
  \cup {[language |-> l, compiles |-> l # "CPP17", does |-> <<"right", "wrong">>] :
          l \in {"CPP17", "PY3", "other"}}

MCJobs ==
  {[mode |-> "submit", short |-> s, compared |-> FALSE] : s \in BOOLEAN}
  \cup {[mode |-> "run", short |-> FALSE, compared |-> c] : c \in BOOLEAN}

Solution(l, c, d) == [language |-> l, compiles |-> c, does |-> d]

MCBuildSpecs ==
  {s \in [checker : {"exact", "TESTLIB", "none", "interactive"}, tool : {"ok", "broken", "picky"},
   validator : {"none", "ok", "broken"}, bad : {0, 2}, cases : {2},
   generator : {"ok", "broken", "fails"}, huge : BOOLEAN,
   solution : {Solution("CPP17", TRUE, <<"right", "right">>), Solution("PY3", TRUE, <<"right", "slow">>),
               Solution("CPP17", FALSE, <<"right", "right">>)}] :
     s.validator = "none" => s.bad = 0}

-----------------------------------------------------------------------------
(* Manifests of two cases in up to two groups; a report of one case        *)
(* has none of the points, half of them, all of them, or more.  All shares *)
(* are whole hundredths, which AcceptedIffFull needs.  Of the sums of two  *)
(* groups' points, the float sum of 1.1 and 2.2 is above, the others exact. *)

R(status, points, total) == [status |-> status, points |-> points, total |-> total]
MCReports == {R("AC", 0, 0), R("AC", 1, 2), R("AC", 2, 2), R("PT", 0, 0), R("PT", 1, 2),
              R("PT", 3, 2), R("WA", 2, 2), R("TLE", 0, 2), R("IE", 0, 2), R("CE", 0, 0)}

Tenth == Point \div 10
MCCasePoints == {0, 11 * Tenth, Omitted}
MCGroupPoints == {0, 11 * Tenth, 22 * Tenth}
MCFullPoints == 44 * Tenth
MCAbove == {cap \in [Groups -> {11 * Tenth, 22 * Tenth}] : cap["a"] # cap["b"]}

-----------------------------------------------------------------------------
(* The problems of the standings.                                          *)

MCProblemList == <<p1, p2>>
MCProblemPoints == [p \in Problems |-> IF p = p1 THEN 2 ELSE 3]

Out(result, a, b) == [result |-> result, points |-> a + b,
                      subtasks |-> [g \in Groups |-> IF g = "a" THEN a ELSE b]]
\* A failed job has no subtasks.
Failed == [Pending EXCEPT !.result = "CE"]

-----------------------------------------------------------------------------
(* One participation: two problems, three submissions.                     *)

MCLimits == [p \in Problems |-> IF p = p1 THEN 2 ELSE 1]
MCOutcomes == {Out("AC", 1, 1), Out("WA", 1, 0), Failed}

-----------------------------------------------------------------------------
(* A board of every format: two submissions to each problem, of which ecoo *)
(* counts one, created before and after the freeze.                        *)

MCVerdicts == MCOutcomes \cup {Out("WA", 0, 1)}
MCAllowance == [p \in Problems |-> 2]

-----------------------------------------------------------------------------

gradeOnly == <<gradeVars, scoreVars, boardVars>>

\* The first states of the parts that are not at work.
OneExecution ==
  /\ archive = CHOOSE a \in MCArchives : a.manifest
  /\ program = CHOOSE p \in MCPrograms : TRUE
  /\ job = CHOOSE k \in MCJobs : TRUE
  /\ AInit /\ build = "none"

OneManifest ==
  /\ package = CHOOSE m \in Undeclared : TRUE
  /\ rows = <<>>

PartsInit ==
  /\ part \in {"execution", "score", "board", "entry"}
  /\ IF part = "execution" THEN AInit ELSE OneExecution
  /\ IF part = "score" THEN GradeInit ELSE OneManifest
  /\ BoardInit /\ ScoreInit

PartsNext ==
  \/ part = "execution" /\ ANext /\ UNCHANGED <<part, gradeOnly>>
  \/ part = "score" /\ GradeNext /\ UNCHANGED <<part, avars, scoreVars, boardVars>>
  \/ part = "board" /\ BoardNext /\ UNCHANGED <<part, avars, gradeVars, scoreVars>>
  \/ part = "entry" /\ ScoreNext /\ UNCHANGED <<part, avars, gradeVars, boardVars>>

StandingsSpec == PartsInit /\ [][PartsNext]_<<part, avars, gradeOnly>>

=============================================================================
