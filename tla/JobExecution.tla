----------------------------- MODULE JobExecution ------------------------------
(***************************************************************************)
(* How the Go worker executes a job: it fetches the package into its       *)
(* cache, compiles and runs the validator, the submission and the checker  *)
(* in go-judge, and ends with a list of case results or with a failure.    *)
(*                                                                         *)
(* Each request to go-judge is made twice at most, and may be lost each    *)
(* time.  The process may be killed at any point, also while its start     *)
(* clears the cache; what is in the cache directory stays.  `outage'       *)
(* remembers that some request failed for good during the execution.       *)
(***************************************************************************)
EXTENDS PackageFormat

CONSTANTS
  Archives, Programs, JobKinds, \* what may be executed
  MaxFaults,                    \* bound: lost requests
  MaxCrashes,                   \* bound: kills of the process
  MaxJobs                       \* bound: executions by the same process

VARIABLES
  archive, program, job, \* the inputs
  store,    \* what lies under the package's digest in the cache
  cut,      \* history: a removal of it was left unfinished
  temp,     \* the files unpacked into the temporary directory
  pc, at,   \* the place in Execute and the case it is at
  tries,    \* requests already lost by the call being made
  prepared, \* the checker is compiled (TestlibChecker.fileID)
  results,  \* the case results so far
  outcome,  \* "none", "CE", "IE" (the job fails) or "cases" (it is reported)
  outage, faults, crashes, jobs

inputs == <<archive, program, job>>
cache == <<store, cut, temp>>
bounds == <<faults, crashes, jobs>>
run == <<pc, at, tries, prepared, results, outcome, outage>>
vars == <<inputs, cache, bounds, run>>

\* A package on disk: its directory, its manifest.json (which has the checker and
\* the validator in it) and, by number, the files of each case.
Root == -1
Manifest == 0
Paths == IF archive.manifest THEN 0 .. archive.cases ELSE 1 .. archive.cases
Whole == {Root} \cup Paths

Interactive == CheckerUsed(archive) = "interactive"
Behaviour == program.does[at]

Start ==
  /\ pc = "idle" /\ at = 1 /\ tries = 0 /\ prepared = FALSE
  /\ results = <<>> /\ outcome = "none" /\ outage = FALSE

Init ==
  /\ archive \in {a \in Archives : ~Refused(a)} /\ program \in Programs /\ job \in JobKinds
  /\ store = {} /\ cut = FALSE /\ temp = {}
  /\ faults = 0 /\ crashes = 0 /\ jobs = 0
  /\ Start

\* Where the next step is taken.
GoTo(place) == pc' = place /\ tries' = 0 /\ UNCHANGED <<at, prepared, results, outcome>>

\* Execute returns an error.
Fail(result) ==
  pc' = "done" /\ outcome' = result /\ tries' = 0 /\ UNCHANGED <<at, prepared, results>>

\* A case is done: the loop goes on, or it stops at the first failed case.
Record(verdict) ==
  LET last == at = archive.cases \/ job.mode = "run" \/ (job.short /\ verdict # "AC")
  IN /\ results' = Append(results, verdict)
     /\ pc' = IF last THEN "done" ELSE "read"
     /\ outcome' = IF last THEN "cases" ELSE outcome
     /\ at' = IF last THEN at ELSE at + 1
     /\ tries' = 0 /\ UNCHANGED prepared

-----------------------------------------------------------------------------
(* The package cache *)

Begin ==
  /\ pc = "idle" /\ jobs < MaxJobs
  /\ jobs' = jobs + 1
  /\ GoTo(IF job.mode = "run" THEN "compile" ELSE "ensure")
  /\ UNCHANGED <<inputs, cache, faults, crashes, outage>>

\* Store.Ensure: a directory with a manifest.json counts as the package.
Ensure ==
  /\ pc = "ensure"
  /\ GoTo(IF Manifest \in store THEN "load" ELSE "download")
  /\ UNCHANGED <<inputs, cache, bounds, outage>>

\* The download has no retry; other bytes than the digest's are refused.
Download ==
  /\ pc = "download"
  /\ GoTo("extract")
  /\ temp' = {}
  /\ UNCHANGED <<inputs, store, cut, bounds, outage>>

DownloadFails ==
  /\ pc = "download" /\ faults < MaxFaults
  /\ faults' = faults + 1
  /\ outage' = TRUE /\ pc' = "done" /\ outcome' = "IE"
  /\ UNCHANGED <<inputs, cache, crashes, jobs, at, tries, prepared, results>>

\* Mutant: the files are unpacked where the package will be looked for.
ExtractInPlace ==
  /\ pc = "extract"
  /\ IF archive.crowded THEN Fail("IE") /\ UNCHANGED cache
     ELSE \E f \in Paths \ temp :
            /\ temp' = temp \cup {f} /\ store' = {Root} \cup temp' /\ UNCHANGED cut
            /\ GoTo(IF temp' = Paths THEN "publish" ELSE "extract")
  /\ UNCHANGED <<inputs, bounds, outage>>

\* Files are unpacked one by one, in the order of the archive, into a temporary
\* directory.
Extract ==
  /\ pc = "extract"
  /\ IF archive.crowded THEN Fail("IE") /\ UNCHANGED cache
     ELSE \E f \in Paths \ temp :
            /\ temp' = temp \cup {f} /\ UNCHANGED <<store, cut>>
            /\ GoTo(IF temp' = Paths THEN "publish" ELSE "extract")
  /\ UNCHANGED <<inputs, bounds, outage>>

\* os.Rename fails on any directory that is there already, which is only good if
\* it has a manifest.json.
Publish ==
  /\ pc = "publish"
  /\ IF store = {} THEN store' = {Root} \cup temp /\ GoTo("load")
     ELSE /\ UNCHANGED store
          /\ IF Manifest \in store THEN GoTo("load") ELSE Fail("IE")
  /\ UNCHANGED <<inputs, cut, temp, bounds, outage>>

\* loadManifest, and the choice of checker and validator.
Load ==
  /\ pc = "load"
  /\ IF Manifest \notin store THEN Fail("IE")
     ELSE GoTo(IF archive.validator = "none" THEN "read" ELSE "validator")
  /\ UNCHANGED <<inputs, cache, bounds, outage>>

\* readPackageFile and verifyFileHash of a case's files.
Read ==
  /\ pc = "read"
  /\ IF at \notin store \/ ~AnswersFound(archive) THEN Fail("IE")
     ELSE GoTo(IF archive.validator # "none" THEN "validate"
               ELSE IF Interactive THEN "interactor" ELSE "compile")
  /\ UNCHANGED <<inputs, cache, bounds, outage>>

-----------------------------------------------------------------------------
(* What the answer of the sandbox is taken for, call by call *)

\* NewTestlibValidator
CompileValidator == IF archive.validator = "broken" THEN Fail("IE") ELSE GoTo("read")

\* TestlibValidator.Validate; a rejected input fails the job.
Validate ==
  IF archive.bad = at THEN Fail("IE") ELSE GoTo(IF Interactive THEN "interactor" ELSE "compile")

\* InteractiveChecker.Check compiles its interactor for every case.
CompileInteractor == IF archive.tool = "broken" THEN Record("IE") ELSE GoTo("compile")

\* Runner.Prepare, for every case again.
Compile ==
  IF ~program.compiles THEN Fail("CE") ELSE GoTo(IF Interactive /\ job.mode # "run" THEN "interact" ELSE "run")

\* The participant's run, and the checks that need no sandbox.
Run ==
  IF job.mode = "run" THEN Record(CustomVerdict(job, Behaviour))
  ELSE IF ~Prints(Behaviour) THEN Record(RunStatus(Behaviour))
  ELSE IF CheckerUsed(archive) \in {"exact", "none"} THEN Record(CheckVerdict(archive, Behaviour))
  ELSE GoTo(IF prepared THEN "check" ELSE "checker")

\* TestlibChecker.compiled
CompileChecker ==
  IF archive.tool = "broken" THEN Record("IE")
  ELSE /\ prepared' = TRUE /\ pc' = "check" /\ tries' = 0
       /\ UNCHANGED <<at, results, outcome>>

\* TestlibChecker.Check
Check == Record(CheckVerdict(archive, Behaviour))

\* RunInteractive: a participant that does not end normally comes first.
Interact ==
  IF ~Prints(Behaviour) THEN Record(RunStatus(Behaviour)) ELSE Record(CheckVerdict(archive, Behaviour))

Calls == {"validator", "validate", "interactor", "compile", "run", "checker", "check", "interact"}

\* Does this place make a request at all?  An interpreter has nothing to compile.
Asks == pc \in Calls /\ ~(pc = "compile" /\ program.language # "CPP17")

Answered ==
  /\ Asks
  /\ CASE pc = "validator" -> CompileValidator [] pc = "validate" -> Validate
       [] pc = "interactor" -> CompileInteractor [] pc = "compile" -> Compile
       [] pc = "run" -> Run [] pc = "checker" -> CompileChecker
       [] pc = "check" -> Check [] pc = "interact" -> Interact
  /\ UNCHANGED <<inputs, cache, bounds, outage>>

\* A language without a compiler, and one the worker has no profile for.
Interpret ==
  /\ pc = "compile" /\ program.language # "CPP17"
  /\ IF program.language # "PY3" THEN Fail("IE")
     ELSE GoTo(IF Interactive /\ job.mode # "run" THEN "interact" ELSE "run")
  /\ UNCHANGED <<inputs, cache, bounds, outage>>

\* doRunWithRetry: after the first lost request there is a second one.
Lose ==
  /\ Asks /\ tries = 0 /\ faults < MaxFaults
  /\ faults' = faults + 1 /\ tries' = 1
  /\ UNCHANGED <<inputs, cache, crashes, jobs, pc, at, prepared, results, outcome, outage>>

\* Mutant: a checker that could not be run is read by its exit status, which is 0.
UnansweredByExitStatus ==
  CASE pc \in {"validator", "validate"} -> Fail("IE")
    [] pc = "compile" -> Fail("CE")
    [] OTHER -> Record(IF pc = "check" THEN "AC" ELSE "IE")

\* What a call that was lost twice is taken for.  Run answers IE without an error:
\* a validator that ends so fails the job, a compiler that ends so is a compile
\* error, anything else is the verdict of the case.
Unanswered ==
  CASE pc \in {"validator", "validate"} -> Fail("IE")
    [] pc = "compile" -> Fail("CE")
    [] OTHER -> Record("IE")

LoseAgain ==
  /\ Asks /\ tries = 1 /\ faults < MaxFaults
  /\ faults' = faults + 1 /\ outage' = TRUE
  /\ Unanswered
  /\ UNCHANGED <<inputs, cache, crashes, jobs>>

-----------------------------------------------------------------------------
(* The process *)

Rest ==
  /\ pc' = "idle" /\ at' = 1 /\ tries' = 0 /\ prepared' = FALSE
  /\ results' = <<>> /\ outcome' = "none" /\ outage' = FALSE

\* The same job, or another of the same package, is executed next.
Again ==
  /\ pc = "done" /\ jobs < MaxJobs
  /\ Rest
  /\ UNCHANGED <<inputs, cache, bounds>>

\* What a removal may leave, wherever it stops: the directory goes last.
Remains(s) == {left \in SUBSET s : left = {} \/ Root \in left}

\* The process is killed and started again, even several times.  Each start removes
\* old directories, entry by entry: a kill may stop it there and an error, which is
\* only logged, too.  A removal renews the directory's age, so the next start may
\* keep what is left.
Crash ==
  /\ pc # "done" /\ crashes < MaxCrashes
  /\ crashes' = crashes + 1
  /\ Rest
  /\ store' \in Remains(store)
  /\ cut' = (store' # {} /\ (cut \/ store' # store))
  /\ temp' = {} /\ jobs' = 0
  /\ UNCHANGED <<inputs, faults>>

Next ==
  \/ Begin \/ Ensure \/ Download \/ DownloadFails \/ Extract \/ Publish \/ Load \/ Read
  \/ Answered \/ Interpret \/ Lose \/ LoseAgain \/ Again \/ Crash

Spec == Init /\ [][Next]_vars

-----------------------------------------------------------------------------
(* What the result should be *)

LastCase ==
  LET failed == {c \in 1 .. archive.cases : CaseVerdict(archive, program.does[c]) # "AC"}
  IN IF job.short /\ failed # {} THEN Min(failed) ELSE archive.cases

Judgeable == archive.manifest /\ ~archive.crowded /\ AnswersFound(archive)

\* An interactor that does not compile is noticed before the submission is compiled.
CompilesSubmission == ~(Interactive /\ archive.tool = "broken")

\* The verdict of an execution without an outage: the list of results, or a failure.
Expected ==
  IF job.mode = "run" /\ program.language = "other" THEN <<"IE">>
  ELSE IF job.mode = "run" /\ ~program.compiles THEN <<"CE">>
  ELSE IF job.mode = "run" THEN <<"cases", <<CustomVerdict(job, program.does[1])>>>>
  ELSE IF ~Judgeable \/ archive.validator = "broken" \/ archive.bad = 1 THEN <<"IE">>
  ELSE IF CompilesSubmission /\ program.language = "other" THEN <<"IE">>
  ELSE IF CompilesSubmission /\ ~program.compiles THEN <<"CE">>
  ELSE IF archive.bad \in 1 .. LastCase THEN <<"IE">>
  ELSE <<"cases", [c \in 1 .. LastCase |-> CaseVerdict(archive, program.does[c])]>>

Ending == IF outcome = "cases" THEN <<"cases", results>> ELSE <<outcome>>

(* Properties *)

\* Whatever single requests are lost and wherever the process was killed before, an
\* execution that got an answer to each call ends as the reference says, except that
\* a submission's job fails (IE) on a package whose removal was left unfinished; and
\* when the sandbox cannot be reached a case is reported with the verdict the
\* submission deserves, or IE.
FaultsDecideNothing ==
  /\ pc = "done" /\ ~outage =>
       Ending = Expected \/ (cut /\ job.mode = "submit" /\ Ending = <<"IE">>)
  /\ job.mode = "submit" =>
       \A c \in DOMAIN results : results[c] \in {CaseVerdict(archive, program.does[c]), "IE"}

\* A process killed while it unpacks leaves nothing that the next one takes for the
\* package: what lies under a digest is the whole package, unless a removal of it
\* was left unfinished.
PublishedIsComplete == store \in {{}, Whole} \/ cut

=============================================================================
