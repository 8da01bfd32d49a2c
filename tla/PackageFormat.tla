---------------------------- MODULE PackageFormat -----------------------------
(***************************************************************************)
(* Test data packages, as the two programs that read them see them: the    *)
(* importer of the control plane, which stores a manifest of its own, and  *)
(* the Go worker, which reads the manifest.json inside the archive.        *)
(*                                                                         *)
(* An archive is a record of what either of them looks at:                 *)
(*   manifest   it has a manifest.json                                     *)
(*   listing    how the manifest lists the cases: under "answer", under    *)
(*              the older key "output", or "none" (the .in/.out pairs)     *)
(*   cases      the number of cases; crowded: more files than a worker     *)
(*              unpacks                                                    *)
(*   checker    the declared type ("absent" if none), and tool, what the   *)
(*              checker's program does: "ok", or "broken" (does not        *)
(*              compile), "fails" (exit 3), "slow", "picky" (rejects all)  *)
(*   validator  "none", "ok" or "broken", and bad, the case it rejects (0  *)
(*              if none)                                                   *)
(* A program is its language, whether it compiles and what it does on each *)
(* case.  A job has a mode, whether it stops at the first failed case, and *)
(* for a custom run whether an expected output was given.                  *)
(***************************************************************************)
EXTENDS Integers, Sequences, FiniteSetsExt

CONSTANT MaxCases \* MAX_TEST_CASES

CheckerTypes == {"exact", "testlib", "interactive", "none"}

\* _validate_checker compares the type in lower case, and stores it as it is.
Lower(type) == IF type = "TESTLIB" THEN "testlib" ELSE type

\* What import_zip refuses: an unknown checker, too many cases, none at all.
Refused(a) ==
  \/ a.checker # "absent" /\ Lower(a.checker) \notin CheckerTypes
  \/ a.cases \notin 1 .. MaxCases

\* The checker of the stored manifest, which every claimed job carries.
StoredChecker(a) == IF a.checker = "absent" THEN "exact" ELSE a.checker

\* The checker the worker runs: the archive's, else the job's; a type it does
\* not know is compared exactly.
CheckerUsed(a) ==
  LET type == IF a.checker = "absent" THEN StoredChecker(a) ELSE a.checker
  IN IF type \in CheckerTypes THEN type ELSE "exact"

\* Does the worker find the answers it compares with?  Its manifest has no "output".
AnswersFound(a) == a.listing # "output" \/ CheckerUsed(a) = "interactive"

-----------------------------------------------------------------------------
(* Verdicts *)

Prints(b) == b \in {"right", "partial", "wrong"}

\* The status of a participant's run: AC only says that it ended normally.
RunStatus(b) == CASE b = "crash" -> "RTE" [] b = "slow" -> "TLE" [] OTHER -> "AC"

\* Exit codes of a checker or an interactor, and its own limits.
ToolVerdict(tool, b) ==
  CASE tool \in {"broken", "fails"} -> "IE"
    [] tool = "slow" -> "TLE"
    [] tool = "picky" -> "WA"
    [] OTHER -> CASE b = "right" -> "AC" [] b = "partial" -> "PT" [] OTHER -> "WA"

\* What a checker says of an output.
CheckVerdict(a, b) ==
  CASE CheckerUsed(a) = "none" -> "AC"
    [] CheckerUsed(a) = "exact" -> IF b = "right" THEN "AC" ELSE "WA"
    [] OTHER -> ToolVerdict(a.tool, b)

\* The verdict of one case when every call to the sandbox is answered.
CaseVerdict(a, b) ==
  IF CheckerUsed(a) = "interactive" /\ a.tool = "broken" THEN "IE"
  ELSE IF ~Prints(b) THEN RunStatus(b)
  ELSE CheckVerdict(a, b)

\* The verdict of a custom run.
CustomVerdict(job, b) ==
  IF Prints(b) /\ job.compared THEN (IF b = "right" THEN "AC" ELSE "WA") ELSE RunStatus(b)

=============================================================================
