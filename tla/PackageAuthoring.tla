--------------------------- MODULE PackageAuthoring ----------------------------
(***************************************************************************)
(* judgeloom-package: a package is built from a generator, a validator, a  *)
(* model solution and a checker, imported, and then executed for the model *)
(* solution itself, under the limits it was built with.                    *)
(*                                                                         *)
(* A specification has the fields of an archive that it fixes (checker,    *)
(* tool, validator, bad, cases), what its generator does ("ok", "broken"   *)
(* or "fails"), its solution, and whether the ZIP will be huge.  The tests *)
(* of JobExecution without a build are those with build = "none".          *)
(***************************************************************************)
EXTENDS JobExecution

CONSTANT BuildSpecs

VARIABLES
  spec,  \* the package specification
  build, \* "none", "running", "written", "ok" or "failed"
  step,  \* the stages of the build that have passed
  out    \* the file at the output path: "old", "new" or "gone"

builder == <<spec, build, step, out>>
avars == <<vars, builder>>

\* Spec.validate, after applyDefaults has put the checker type in lower case.
\* Interactive packages cannot be built.
Valid(s) == Lower(s.checker) \in {"exact", "testlib", "none"} /\ s.cases \in 1 .. MaxCases

\* The archive that Build writes.
Packaged(s) ==
  [manifest |-> TRUE, listing |-> "answer", crowded |-> FALSE, cases |-> s.cases,
   checker |-> Lower(s.checker), tool |-> s.tool, validator |-> s.validator, bad |-> s.bad]

Compiling == <<"generator", "solution", "validator">>
CaseStages == <<"generate", "validate", "solve", "check">>

\* Mutant: the checker is not tried on the model answer.
StagesUnchecked(s) ==
  Compiling \o [i \in 1 .. 4 * s.cases |-> CaseStages[((IF i % 4 = 0 THEN i - 2 ELSE i - 1) % 4) + 1]]

\* The stages of Build in their order.
Stages(s) ==
  Compiling \o [i \in 1 .. 4 * s.cases |-> CaseStages[((i - 1) % 4) + 1]]

\* The case that the i-th stage is about.
CaseAt(i) == (i - Len(Compiling) - 1) \div 4 + 1

\* Does a stage succeed when its requests are answered?
Succeeds(s, stage, c) ==
  CASE stage = "generator" -> s.generator # "broken"
    [] stage = "solution" -> s.solution.compiles
    [] stage = "validator" -> s.validator # "broken"
    [] stage = "generate" -> s.generator # "fails"
    [] stage = "validate" -> s.validator = "none" \/ s.bad # c
    [] stage = "solve" -> Prints(s.solution.does[c])
    [] stage = "check" -> CheckVerdict(Packaged(s), "right") = "AC"

AInit ==
  \/ /\ Init
     /\ build = "none" /\ step = 0 /\ out = "old"
     /\ spec \in {CHOOSE s \in BuildSpecs : TRUE}
  \/ /\ spec \in {s \in BuildSpecs : Valid(s)}
     /\ build = "running" /\ step = 0 /\ out = "old"
     /\ archive = Packaged(spec) /\ program = spec.solution
     /\ job \in {k \in JobKinds : k.mode = "submit"}
     /\ store = {} /\ cut = FALSE /\ temp = {}
     /\ faults = 0 /\ crashes = 0 /\ jobs = 0
     /\ pc = "off" /\ at = 1 /\ tries = 0 /\ prepared = FALSE
     /\ results = <<>> /\ outcome = "none" /\ outage = FALSE

BuildStage ==
  /\ build = "running" /\ step < Len(Stages(spec))
  /\ Succeeds(spec, Stages(spec)[step + 1], CaseAt(step + 1))
  /\ step' = step + 1
  /\ UNCHANGED <<vars, spec, build, out>>

\* A stage fails, its requests are lost for good, or the build is interrupted.
BuildFails ==
  /\ build = "running"
  /\ build' = "failed"
  /\ UNCHANGED <<vars, spec, step, out>>

\* writePackage: a temporary file, renamed over the output.
WritePackage ==
  /\ build = "running" /\ step = Len(Stages(spec))
  /\ build' = "written" /\ out' = "new"
  /\ UNCHANGED <<vars, spec, step>>

\* The size is checked last; a file that is too large is removed.
Measure ==
  /\ build = "written"
  /\ build' = IF spec.huge THEN "failed" ELSE "ok"
  /\ out' = IF spec.huge THEN "gone" ELSE "new"
  /\ UNCHANGED <<vars, spec, step>>

\* The package is imported and its solution submitted.
Upload ==
  /\ build = "ok" /\ pc = "off" /\ ~Refused(archive)
  /\ pc' = "idle"
  /\ UNCHANGED <<inputs, cache, bounds, at, tries, prepared, results, outcome, outage, builder>>

ANext ==
  \/ pc # "off" /\ Next /\ UNCHANGED builder
  \/ BuildStage \/ BuildFails \/ WritePackage \/ Measure \/ Upload

ASpec == AInit /\ [][ANext]_avars

-----------------------------------------------------------------------------
(* Properties *)

\* A package that was built is one that the importer accepts, and its model
\* solution is accepted on every case of it: what the builder tried is what the
\* worker will do, with the package whole in its cache; one whose removal was left
\* unfinished can only fail the job.
ModelSolutionPasses ==
  /\ build = "ok" => ~Refused(archive)
  /\ build = "ok" /\ pc = "done" /\ ~outage =>
       Ending = <<"cases", [c \in 1 .. archive.cases |-> "AC"]>> \/ (cut /\ Ending = <<"IE">>)

=============================================================================
