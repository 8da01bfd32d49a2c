--------------------------- MODULE StandingsProofs ---------------------------
(***************************************************************************)
(* Proofs about JobExecution, PackageAuthoring and Scoring: from the       *)
(* execution of a job to its score, for any packages, programs and jobs,   *)
(* any number of cases, lost requests, kills, executions and reports.      *)
(*                                                                         *)
(* Faults decide nothing, because the place in Execute says what was       *)
(* passed on the way to it: a case is run only of a package that is whole, *)
(* whose answers were found and whose validator took every input so far.   *)
(* So the step that ends an execution ends it as Expected says, which      *)
(* looks at nothing but the inputs; or it finds that a removal of the      *)
(* package was cut.                                                        *)
(*                                                                         *)
(* A score is monotone in what the cases earn, through shares, minima,     *)
(* sums, caps and rounding; and a sum of scores reaches the sum of their   *)
(* caps only if each score reaches its own.                                *)
(***************************************************************************)
EXTENDS PackageAuthoring, Scoring, SumLemmas

-----------------------------------------------------------------------------
(* The inductive invariant of an execution *)

Tools == {"ok", "broken", "fails", "slow", "picky"}

Verdicts == {"AC", "PT", "WA", "TLE", "RTE", "IE"}

\* Only a validator rejects a case.
IsArchive(a) ==
  /\ a.manifest \in BOOLEAN /\ a.crowded \in BOOLEAN
  /\ a.tool \in Tools
  /\ a.bad \in Nat /\ (a.validator = "none" => a.bad = 0)

\* An interpreter has nothing to compile.
IsProgram(p) ==
  /\ p.language \in {"CPP17", "PY3", "other"}
  /\ p.language # "CPP17" => p.compiles

IsJob(j) == j.mode \in {"submit", "run"}

\* The verdict of case c when nothing is lost.
Deserved(c) == CaseVerdict(archive, program.does[c])

Submitted == job.mode = "submit"

\* The places of Execute after the package has been loaded.
CasePlaces == Calls \cup {"read"}
Places == CasePlaces \cup {"off", "idle", "ensure", "download", "extract", "publish", "load", "done"}

InputsTyped ==
  /\ IsArchive(archive) /\ ~Refused(archive)
  /\ IsProgram(program)
  /\ IsJob(job)

RunTyped ==
  /\ pc \in Places
  /\ at \in 1 .. archive.cases
  /\ temp \subseteq Paths
  /\ prepared \in BOOLEAN
  /\ results \in Seq(Verdicts)
  /\ outcome \in {"none", "CE", "IE", "cases"}
  /\ outage \in BOOLEAN

\* The package in the cache is whole, unless its removal was cut; what is being
\* unpacked grows up to that.
CacheWhole ==
  /\ cut \in BOOLEAN
  /\ store \subseteq Whole
  /\ store \in {{}, Whole} \/ cut
  /\ store # {} => ~archive.crowded
  /\ pc = "extract" => temp # Paths
  /\ pc = "publish" => temp = Paths /\ ~archive.crowded
  /\ Submitted /\ pc \in CasePlaces \cup {"load"} => store # {}

\* What the place of an execution says about its inputs: what has been passed.
PassedSoFar ==
  /\ ~Submitted => pc \in {"off", "idle", "compile", "run", "done"}
  /\ pc \in {"off", "idle", "ensure", "download", "extract", "publish", "load", "validator"} => at = 1
  /\ ~Submitted => at = 1
  /\ Submitted /\ pc \in CasePlaces => archive.manifest
  /\ Submitted /\ pc \in CasePlaces \ {"validator"} => archive.validator # "broken"
  /\ Submitted /\ pc \in CasePlaces \ {"validator", "read"} => AnswersFound(archive)
  /\ Submitted /\ pc \in CasePlaces \ {"validator", "read", "validate"} => archive.bad # at
  /\ pc \in {"interactor", "interact"} => Interactive
  /\ Submitted /\ pc \in {"run", "checker", "check"} => ~Interactive
  /\ Submitted /\ pc \in {"compile", "interact"} => CompilesSubmission
  /\ pc \in {"run", "interact", "checker", "check"} => program.compiles /\ program.language # "other"
  /\ pc \in {"checker", "check"} => Prints(Behaviour) /\ CheckerUsed(archive) = "testlib"
  /\ prepared => archive.tool # "broken"

\* The results of the cases that are done; what the first of them has shown of
\* the package and the program; and the result of the whole.
ResultsTrue ==
  /\ pc # "done" => outcome = "none" /\ Len(results) = at - 1
  /\ Submitted => \A c \in DOMAIN results : results[c] \in {Deserved(c), "IE"}
  /\ Submitted /\ ~outage /\ pc # "done" =>
       /\ \A c \in DOMAIN results : results[c] = Deserved(c)
       /\ job.short => \A c \in DOMAIN results : Deserved(c) = "AC"
       /\ at > 1 => AnswersFound(archive) /\ (CompilesSubmission => program.compiles /\ program.language # "other")
       /\ archive.bad \notin 1 .. (at - 1)
  /\ pc = "done" /\ ~outage => Ending = Expected \/ (cut /\ Submitted /\ Ending = <<"IE">>)

ExecInv == InputsTyped /\ RunTyped /\ CacheWhole /\ PassedSoFar /\ ResultsTrue

-----------------------------------------------------------------------------
(* What is expected depends on the inputs alone. *)

LEMMA InputsKept ==
  ASSUME UNCHANGED inputs
  PROVE  /\ InputsTyped' = InputsTyped /\ Paths' = Paths /\ Whole' = Whole /\ Interactive' = Interactive
         /\ Submitted' = Submitted /\ CompilesSubmission' = CompilesSubmission
         /\ Expected' = Expected /\ \A c : Deserved(c)' = Deserved(c)
         /\ UNCHANGED <<archive, program, job>>
<1>0. UNCHANGED <<archive, program, job>>
  BY DEF inputs
<1>1. InputsTyped' = InputsTyped
  BY <1>0 DEF InputsTyped
<1>2. Paths' = Paths /\ Whole' = Whole /\ Interactive' = Interactive /\ Submitted' = Submitted
  BY <1>0 DEF Paths, Whole, Interactive, Submitted
<1>3. CompilesSubmission' = CompilesSubmission /\ Judgeable' = Judgeable /\ LastCase' = LastCase
  BY <1>0, <1>2 DEF CompilesSubmission, Judgeable, LastCase
<1>4. Expected' = Expected
  BY <1>0, <1>3 DEF Expected
<1>5. \A c : Deserved(c)' = Deserved(c)
  BY <1>0 DEF Deserved
<1> QED BY <1>0, <1>1, <1>2, <1>3, <1>4, <1>5

\* Every verdict is one of these.
LEMMA VerdictsTyped ==
  ASSUME InputsTyped, NEW b
  PROVE  /\ RunStatus(b) \in Verdicts
         /\ CheckVerdict(archive, b) \in Verdicts
         /\ CaseVerdict(archive, b) \in Verdicts
         /\ CustomVerdict(job, b) \in Verdicts
<1>1. RunStatus(b) \in Verdicts
  BY DEF RunStatus, Verdicts
<1>2. ToolVerdict(archive.tool, b) \in Verdicts
  BY DEF ToolVerdict, Verdicts, InputsTyped, IsArchive, Tools
<1>3. CheckVerdict(archive, b) \in Verdicts
  BY <1>2 DEF CheckVerdict, Verdicts
<1>4. CaseVerdict(archive, b) \in Verdicts
  BY <1>1, <1>3 DEF CaseVerdict, Verdicts
<1>5. CustomVerdict(job, b) \in Verdicts
  BY <1>1 DEF CustomVerdict, Verdicts
<1> QED BY <1>1, <1>3, <1>4, <1>5

\* The least of a set of numbers is there.
LEMMA MinIsLeast ==
  ASSUME NEW S \in SUBSET Nat, S # {}
  PROVE  Min(S) \in S /\ \A y \in S : Min(S) <= y
<1>1. PICK x \in S : \A y \in S : ~ (<<y, x>> \in OpToRel(<, Nat))
  BY NatLessThanWellFounded, WFMin
<1>2. ASSUME NEW y \in S PROVE x <= y
  <2>1. x \in Nat /\ y \in Nat
    OBVIOUS
  <2>2. ~(y < x)
    BY <1>1, <2>1 DEF OpToRel
  <2> QED BY <2>1, <2>2
<1> QED BY <1>2 DEF Min

\* Up to the case the loop is at, nothing has stopped it; and where it stops is LastCase.
LEMMA StopsAtLast ==
  ASSUME InputsTyped, NEW n \in 1 .. archive.cases,
         job.short => \A c \in 1 .. (n - 1) : Deserved(c) = "AC"
  PROVE  /\ LastCase \in n .. archive.cases
         /\ n = archive.cases \/ (job.short /\ Deserved(n) # "AC") => LastCase = n
<1> DEFINE failed == {c \in 1 .. archive.cases : CaseVerdict(archive, program.does[c]) # "AC"}
<1>1. CASE job.short /\ failed # {}
  <2>1. LastCase = Min(failed)
    BY <1>1 DEF LastCase
  <2>2. failed \subseteq Nat /\ archive.cases \in Int
    BY DEF InputsTyped, Refused
  <2>3. \A c \in failed : c \in n .. archive.cases
    BY <1>1, <2>2 DEF Deserved
  <2>4. Deserved(n) # "AC" => n \in failed
    BY DEF Deserved
  <2>5. Min(failed) \in failed /\ \A c \in failed : Min(failed) <= c
    <3> HIDE DEF failed
    <3> QED BY <1>1, <2>2, MinIsLeast
  <2>6. LastCase \in n .. archive.cases
    BY <2>1, <2>3, <2>5
  <2>7. ASSUME n = archive.cases \/ Deserved(n) # "AC" PROVE LastCase = n
    <3>1. CASE n = archive.cases
      BY <2>2, <2>6, <3>1
    <3>2. CASE Deserved(n) # "AC"
      <4>1. Min(failed) <= n
        BY <2>4, <2>5, <3>2
      <4> HIDE DEF failed
      <4>2. LastCase <= n /\ LastCase >= n /\ LastCase \in Int
        BY <2>1, <2>2, <2>6, <4>1
      <4> QED BY <4>2
    <3> QED BY <2>7, <3>1, <3>2
  <2> QED BY <2>6, <2>7
<1>2. CASE ~(job.short /\ failed # {})
  <2>1. LastCase = archive.cases
    BY <1>2 DEF LastCase
  <2>2. job.short => Deserved(n) = "AC"
    BY <1>2 DEF Deserved
  <2>3. archive.cases \in Int
    BY DEF InputsTyped, Refused
  <2> QED BY <2>1, <2>2, <2>3
<1> QED BY <1>1, <1>2

-----------------------------------------------------------------------------
(* The cases of the definition of Expected. *)

\* A package that cannot be judged fails the job.
LEMMA NotJudged ==
  ASSUME InputsTyped, Submitted,
         ~Judgeable \/ archive.validator = "broken" \/ archive.bad = 1
  PROVE  Expected = <<"IE">>
BY DEF Expected, Submitted

\* What the places after "read" have shown about the package and the program.
LEMMA PastRead ==
  ASSUME ExecInv, Submitted, pc \in CasePlaces \ {"validator", "read"}
  PROVE  Judgeable /\ archive.validator # "broken"
BY DEF ExecInv, PassedSoFar, CacheWhole, Judgeable, CasePlaces, Calls

\* An input that the validator rejects fails the job.
LEMMA RejectedInput ==
  ASSUME ExecInv, Submitted, ~outage, pc = "validate", archive.bad = at
  PROVE  Expected = <<"IE">>
<1>1. Judgeable /\ archive.validator # "broken"
  BY PastRead DEF CasePlaces, Calls
<1>2. at \in 1 .. archive.cases /\ archive.cases \in Nat
  BY DEF ExecInv, RunTyped, InputsTyped, Refused
<1>3. CASE at = 1
  BY <1>3, NotJudged DEF ExecInv
<1>4. CASE at > 1
  <2>1. CompilesSubmission => program.compiles /\ program.language # "other"
    BY <1>4 DEF ExecInv, ResultsTrue
  <2>2. Len(results) = at - 1 /\ results \in Seq(Verdicts)
    BY DEF ExecInv, ResultsTrue, RunTyped
  <2>3. job.short => \A c \in 1 .. (at - 1) : Deserved(c) = "AC"
    BY <2>2 DEF ExecInv, ResultsTrue
  <2>4. LastCase \in at .. archive.cases
    BY <1>2, <2>3, StopsAtLast DEF ExecInv
  <2>5. archive.bad \in 1 .. LastCase
    BY <1>2, <2>4
  <2> QED BY <1>1, <2>1, <2>5 DEF Expected, Submitted
<1> QED BY <1>2, <1>3, <1>4

\* Once a case is run, no input up to it was rejected.
LEMMA NoFirstRejection ==
  ASSUME ExecInv, Submitted, ~outage, pc \in CasePlaces \ {"validator", "read", "validate"}
  PROVE  archive.bad \notin 1 .. at
<1>1. at \in Nat /\ at >= 1 /\ archive.bad \in Nat
  BY DEF ExecInv, RunTyped, InputsTyped, IsArchive
<1>2. archive.bad # at
  BY DEF ExecInv, PassedSoFar
<1>3. archive.bad \notin 1 .. (at - 1)
  BY DEF ExecInv, ResultsTrue, CasePlaces, Calls
<1> QED BY <1>1, <1>2, <1>3

\* What the compiler is asked first decides: a language without a profile, a program
\* that does not compile.
LEMMA NotCompiled ==
  ASSUME ExecInv, ~outage, pc = "compile"
  PROVE  /\ program.language = "other" => Expected = <<"IE">>
         /\ program.language = "CPP17" /\ ~program.compiles => Expected = <<"CE">>
<1>1. CASE Submitted
  <2>1. Judgeable /\ archive.validator # "broken" /\ CompilesSubmission
    BY <1>1, PastRead DEF CasePlaces, Calls, ExecInv, PassedSoFar
  <2>2. archive.bad # 1
    <3>1. archive.bad \notin 1 .. at
      BY <1>1, NoFirstRejection DEF CasePlaces, Calls
    <3>2. at \in Nat /\ at >= 1
      BY DEF ExecInv, RunTyped
    <3> QED BY <3>1, <3>2
  <2> QED BY <1>1, <2>1, <2>2 DEF Expected, Submitted
<1>2. CASE ~Submitted
  <2>1. job.mode = "run"
    BY <1>2 DEF ExecInv, InputsTyped, IsJob, Submitted
  <2>2. program.language = "CPP17" => program.language # "other"
    OBVIOUS
  <2> QED BY <2>1, <2>2 DEF Expected
<1> QED BY <1>1, <1>2

\* The list of results, when the case that was just done is the last one.
LEMMA AllJudged ==
  ASSUME ExecInv, Submitted, ~outage,
         pc \in CasePlaces \ {"validator", "read", "validate"},
         CompilesSubmission => program.compiles /\ program.language # "other",
         at = archive.cases \/ (job.short /\ Deserved(at) # "AC")
  PROVE  Expected = <<"cases", Append(results, Deserved(at))>>
<1>1. Judgeable /\ archive.validator # "broken"
  BY PastRead
<1>2. at \in 1 .. archive.cases /\ archive.cases \in Nat
  BY DEF ExecInv, RunTyped, InputsTyped, Refused
<1>3. Len(results) = at - 1 /\ results \in Seq(Verdicts)
  BY DEF ExecInv, ResultsTrue, RunTyped, CasePlaces, Calls
<1>4. \A c \in 1 .. (at - 1) : results[c] = Deserved(c) /\ (job.short => Deserved(c) = "AC")
  BY <1>3 DEF ExecInv, ResultsTrue, CasePlaces, Calls
<1>5. LastCase = at
  BY <1>2, <1>4, StopsAtLast DEF ExecInv
<1>6. archive.bad \notin 1 .. LastCase /\ archive.bad # 1
  BY <1>2, <1>5, NoFirstRejection
<1>7. Expected = <<"cases", [c \in 1 .. at |-> Deserved(c)]>>
  BY <1>1, <1>5, <1>6 DEF Expected, Submitted, Deserved
<1>8. Append(results, Deserved(at)) = [c \in 1 .. at |-> Deserved(c)]
  <2> DEFINE w == Append(results, Deserved(at))
  <2>1. Deserved(at) \in Verdicts
    BY VerdictsTyped DEF Deserved, ExecInv
  <2>2. w \in Seq(Verdicts) /\ Len(w) = at /\ w[at] = Deserved(at)
    BY <1>2, <1>3, <2>1
  <2>3. \A c \in 1 .. (at - 1) : w[c] = Deserved(c)
    BY <1>2, <1>3, <1>4, <2>1
  <2>4. \A c \in 1 .. at : w[c] = Deserved(c)
    BY <1>2, <2>2, <2>3
  <2> HIDE DEF w
  <2>5. w = [c \in 1 .. at |-> w[c]]
    BY <2>2
  <2>6. [c \in 1 .. at |-> w[c]] = [c \in 1 .. at |-> Deserved(c)]
    BY <2>4
  <2> QED BY <2>5, <2>6 DEF w
<1> QED BY <1>7, <1>8

-----------------------------------------------------------------------------
(* The three ways in which a step ends. *)

\* Execute returns an error.
LEMMA FailKeeps ==
  ASSUME ExecInv, pc \notin {"done", "off", "idle"}, NEW r \in {"IE", "CE"},
         pc' = "done", outcome' = r,
         UNCHANGED <<inputs, cache, at, prepared, results>>, outage' \in BOOLEAN,
         outage' \/ (~outage /\ Expected = <<r>>) \/ (cut /\ Submitted /\ r = "IE")
  PROVE  ExecInv'
<1>1. /\ InputsTyped' = InputsTyped /\ Paths' = Paths /\ Whole' = Whole /\ Interactive' = Interactive
      /\ Submitted' = Submitted /\ CompilesSubmission' = CompilesSubmission
      /\ Expected' = Expected /\ (\A c : Deserved(c)' = Deserved(c))
      /\ UNCHANGED <<archive, program, job>>
  BY InputsKept
<1>2. /\ pc' = "done" /\ outcome' = r /\ UNCHANGED <<at, prepared, results, store, cut, temp>>
  BY DEF cache
<1>3. RunTyped'
  BY <1>1, <1>2 DEF ExecInv, RunTyped, Places
<1>4. CacheWhole'
  BY <1>1, <1>2 DEF ExecInv, CacheWhole, CasePlaces, Calls
<1>5. PassedSoFar'
  BY <1>1, <1>2 DEF ExecInv, PassedSoFar, CasePlaces, Calls
<1>6. ResultsTrue'
  <2>1. (Submitted => \A c \in DOMAIN results : results[c] \in {Deserved(c), "IE"})'
    BY <1>1, <1>2 DEF ExecInv, ResultsTrue
  <2>2. Ending' = <<r>>
    BY <1>2 DEF Ending
  <2>3. ~outage' => Ending' = Expected' \/ (cut' /\ Submitted' /\ Ending' = <<"IE">>)
    BY <1>1, <1>2, <2>2
  <2> QED BY <1>2, <2>1, <2>3 DEF ResultsTrue
<1> QED BY <1>1, <1>3, <1>4, <1>5, <1>6 DEF ExecInv

\* The next place.
LEMMA GoToKeeps ==
  ASSUME ExecInv, pc \notin {"done", "off"}, NEW place \in Places \ {"done", "off"},
         pc' = place, UNCHANGED <<inputs, at, results, outcome, outage>>,
         prepared' \in BOOLEAN, temp' \subseteq Paths, CacheWhole', PassedSoFar'
  PROVE  ExecInv'
<1>1. /\ InputsTyped' = InputsTyped /\ Paths' = Paths
      /\ Submitted' = Submitted /\ CompilesSubmission' = CompilesSubmission
      /\ (\A c : Deserved(c)' = Deserved(c))
      /\ UNCHANGED <<archive, program, job>>
  BY InputsKept
<1>2. RunTyped'
  BY <1>1 DEF ExecInv, RunTyped
<1>3. ResultsTrue'
  <2>1. AnswersFound(archive)' = AnswersFound(archive)
    BY <1>1
  <2>2. \A c \in DOMAIN results : Deserved(c)' = Deserved(c)
    BY <1>1
  <2> QED BY <1>1, <2>1, <2>2 DEF ExecInv, ResultsTrue
<1> QED BY <1>1, <1>2, <1>3 DEF ExecInv

\* A case of a submission is done.
LEMMA RecordKeeps ==
  ASSUME ExecInv, Submitted, pc \in CasePlaces \ {"validator", "read", "validate"},
         NEW v \in {Deserved(at), "IE"}, Record(v),
         UNCHANGED <<inputs, cache>>, outage' \in BOOLEAN,
         \/ outage'
         \/ /\ ~outage /\ v = Deserved(at)
            /\ CompilesSubmission => program.compiles /\ program.language # "other"
  PROVE  ExecInv'
<1>1. /\ InputsTyped' = InputsTyped /\ Paths' = Paths /\ Whole' = Whole /\ Interactive' = Interactive
      /\ Submitted' = Submitted /\ CompilesSubmission' = CompilesSubmission
      /\ Expected' = Expected /\ (\A c : Deserved(c)' = Deserved(c))
      /\ UNCHANGED <<archive, program, job>>
  BY InputsKept
<1> DEFINE last == at = archive.cases \/ (job.short /\ v # "AC")
<1>2. /\ results' = Append(results, v)
      /\ pc' = IF last THEN "done" ELSE "read"
      /\ outcome' = IF last THEN "cases" ELSE outcome
      /\ at' = IF last THEN at ELSE at + 1
      /\ UNCHANGED <<prepared, store, cut, temp>>
  BY DEF Record, cache, Submitted
<1>3. v \in Verdicts
  BY VerdictsTyped DEF ExecInv, Deserved, Verdicts
<1>4. /\ Len(results) = at - 1 /\ results \in Seq(Verdicts)
      /\ outcome = "none" /\ at \in 1 .. archive.cases /\ archive.cases \in Nat
  BY DEF ExecInv, ResultsTrue, RunTyped, CasePlaces, Calls, InputsTyped, Refused
<1>5. RunTyped'
  <2>1. at' \in 1 .. archive.cases
    BY <1>2, <1>4
  <2>2. results' \in Seq(Verdicts)
    BY <1>2, <1>3, <1>4
  <2>3. pc' \in Places /\ outcome' \in {"none", "CE", "IE", "cases"}
    BY <1>2, <1>4 DEF Places, CasePlaces
  <2> QED BY <1>1, <1>2, <2>1, <2>2, <2>3 DEF ExecInv, RunTyped
<1>6. CacheWhole'
  BY <1>1, <1>2 DEF ExecInv, CacheWhole, CasePlaces, Calls
<1>7. PassedSoFar'
  BY <1>1, <1>2 DEF ExecInv, PassedSoFar, CasePlaces, Calls
<1>8. ResultsTrue'
  <2> DEFINE w == Append(results, v)
  <2>1. /\ Len(w) = at /\ w[at] = v /\ DOMAIN w = 1 .. at /\ DOMAIN results = 1 .. (at - 1)
        /\ \A c \in 1 .. (at - 1) : w[c] = results[c]
    BY <1>3, <1>4
  <2> HIDE DEF w
  <2>2. results' = w
    BY <1>2 DEF w
  <2>3. \A c \in DOMAIN w : c \in 1 .. (at - 1) \/ c = at
    BY <1>4, <2>1
  <2>4. \A c \in DOMAIN w : w[c] \in {Deserved(c), "IE"}
    <3>1. \A c \in 1 .. (at - 1) : results[c] \in {Deserved(c), "IE"}
      BY <2>1 DEF ExecInv, ResultsTrue
    <3> QED BY <2>1, <2>3, <3>1
  <2>5. pc' # "done" => outcome' = "none" /\ Len(w) = at' - 1
    BY <1>2, <1>4, <2>1
  <2>6. ASSUME ~outage', pc' # "done"
        PROVE  /\ \A c \in DOMAIN w : w[c] = Deserved(c)
               /\ job.short => \A c \in DOMAIN w : Deserved(c) = "AC"
               /\ AnswersFound(archive)
               /\ CompilesSubmission => program.compiles /\ program.language # "other"
               /\ archive.bad \notin 1 .. (at' - 1)
    <3>1. ~outage /\ v = Deserved(at) /\ (CompilesSubmission => program.compiles /\ program.language # "other")
      BY <2>6
    <3>2. ~last /\ at' = at + 1
      BY <1>2, <2>6
    <3>3. /\ \A c \in 1 .. (at - 1) : results[c] = Deserved(c)
          /\ job.short => \A c \in 1 .. (at - 1) : Deserved(c) = "AC"
      BY <2>1, <3>1 DEF ExecInv, ResultsTrue, CasePlaces, Calls
    <3>4. archive.bad \notin 1 .. at
      BY <3>1, NoFirstRejection
    <3>5. AnswersFound(archive)
      BY PastRead DEF Judgeable
    <3>6. at' - 1 = at
      BY <1>4, <3>2
    <3> QED BY <2>1, <2>3, <3>1, <3>2, <3>3, <3>4, <3>5, <3>6
  <2>7. ASSUME ~outage', pc' = "done" PROVE Ending' = Expected
    <3>1. ~outage /\ v = Deserved(at) /\ (CompilesSubmission => program.compiles /\ program.language # "other")
      BY <2>7
    <3>2. last /\ outcome' = "cases"
      BY <1>2, <2>7
    <3>3. Expected = <<"cases", Append(results, Deserved(at))>>
      BY <3>1, <3>2, AllJudged
    <3> QED BY <2>2, <3>1, <3>2, <3>3 DEF Ending, w
  <2>8. AnswersFound(archive)' = AnswersFound(archive)
    BY <1>1
  <2>9. (\A c \in DOMAIN results : results[c] \in {Deserved(c), "IE"})'
    BY <1>1, <2>2, <2>4
  <2>10. (Submitted /\ ~outage /\ pc # "done" =>
           /\ \A c \in DOMAIN results : results[c] = Deserved(c)
           /\ job.short => \A c \in DOMAIN results : Deserved(c) = "AC"
           /\ at > 1 => AnswersFound(archive) /\ (CompilesSubmission => program.compiles /\ program.language # "other")
           /\ archive.bad \notin 1 .. (at - 1))'
    BY <1>1, <2>2, <2>6, <2>8
  <2> QED BY <1>1, <2>2, <2>5, <2>7, <2>9, <2>10 DEF ResultsTrue
<1> QED BY <1>1, <1>5, <1>6, <1>7, <1>8 DEF ExecInv

\* A custom run is done.
LEMMA CustomKeeps ==
  ASSUME ExecInv, ~Submitted, pc = "run", NEW v \in Verdicts, Record(v),
         UNCHANGED <<inputs, cache>>, outage' \in BOOLEAN,
         outage' \/ (~outage /\ v = CustomVerdict(job, Behaviour))
  PROVE  ExecInv'
<1>1. /\ InputsTyped' = InputsTyped /\ Paths' = Paths /\ Whole' = Whole /\ Interactive' = Interactive
      /\ Submitted' = Submitted /\ CompilesSubmission' = CompilesSubmission
      /\ Expected' = Expected /\ UNCHANGED <<archive, program, job>>
  BY InputsKept
<1>2. job.mode = "run" /\ at = 1
  BY DEF ExecInv, InputsTyped, IsJob, Submitted, PassedSoFar
<1>3. /\ results' = Append(results, v) /\ pc' = "done" /\ outcome' = "cases" /\ at' = at
      /\ UNCHANGED <<prepared, store, cut, temp>>
  BY <1>2 DEF Record, cache
<1>4. results \in Seq(Verdicts) /\ Len(results) = 0
  BY <1>2 DEF ExecInv, ResultsTrue, RunTyped
<1>5. results' = <<v>>
  BY <1>3, <1>4
<1>6. RunTyped'
  <2>1. results' \in Seq(Verdicts)
    BY <1>5
  <2> QED BY <1>1, <1>3, <2>1 DEF ExecInv, RunTyped, Places
<1>7. CacheWhole'
  BY <1>1, <1>3 DEF ExecInv, CacheWhole
<1>8. PassedSoFar'
  BY <1>1, <1>3 DEF ExecInv, PassedSoFar, CasePlaces, Calls
<1>9. ResultsTrue'
  <2>1. ASSUME ~outage' PROVE Ending' = Expected
    <3>1. v = CustomVerdict(job, program.does[1])
      BY <1>2, <2>1 DEF Behaviour
    <3>2. program.compiles /\ program.language # "other"
      BY DEF ExecInv, PassedSoFar
    <3>3. Ending' = <<"cases", <<v>>>>
      BY <1>3, <1>5 DEF Ending
    <3> QED BY <1>2, <3>1, <3>2, <3>3 DEF Expected
  <2> QED BY <1>1, <1>3, <2>1 DEF ResultsTrue
<1> QED BY <1>1, <1>6, <1>7, <1>8, <1>9 DEF ExecInv

-----------------------------------------------------------------------------
(* The steps *)

\* Store.Ensure and loadManifest.
LEMMA CacheSteps ==
  ASSUME ExecInv, Begin \/ Ensure \/ Download \/ DownloadFails \/ Extract \/ Publish \/ Load
  PROVE  ExecInv'
<1>0. /\ Submitted' = Submitted /\ CompilesSubmission' = CompilesSubmission
      /\ Paths' = Paths /\ Whole' = Whole /\ Interactive' = Interactive
      /\ UNCHANGED <<archive, program, job, inputs>>
  BY InputsKept DEF Begin, Ensure, Download, DownloadFails, Extract, Publish, Load, inputs
<1>t. /\ temp \subseteq Paths /\ prepared \in BOOLEAN /\ outage \in BOOLEAN
      /\ Paths # {} /\ Whole = {Root} \cup Paths /\ cut \in BOOLEAN
  <2>1. archive.cases \in Nat /\ archive.cases >= 1 /\ archive.manifest \in BOOLEAN
    BY DEF ExecInv, InputsTyped, IsArchive, Refused
  <2>2. 1 \in Paths
    BY <2>1 DEF Paths
  <2> QED BY <2>2 DEF ExecInv, RunTyped, CacheWhole, Whole
\* A package under the digest without a manifest.json is one that cannot have any,
\* or one that was cut.
<1>m. /\ Manifest \in store => archive.manifest
      /\ Manifest \notin store /\ store # {} => ~archive.manifest \/ cut
  <2>1. (Manifest \in Whole) <=> archive.manifest
    <3>1. archive.cases \in Nat /\ archive.manifest \in BOOLEAN
      BY DEF ExecInv, InputsTyped, IsArchive, Refused
    <3> QED BY <3>1 DEF Whole, Paths, Manifest, Root
  <2> QED BY <2>1 DEF ExecInv, CacheWhole
<1>1. CASE Begin
  <2> DEFINE place == IF job.mode = "run" THEN "compile" ELSE "ensure"
  <2>1. /\ pc = "idle" /\ pc' = place /\ UNCHANGED <<at, prepared, results, outcome, outage, store, cut, temp>>
        /\ Submitted <=> place = "ensure"
    BY <1>1 DEF Begin, GoTo, cache, Submitted, ExecInv, InputsTyped, IsJob
  <2>2. place \in {"compile", "ensure"}
    OBVIOUS
  <2> HIDE DEF place
  <2>3. CacheWhole'
    BY <1>0, <2>1, <2>2 DEF ExecInv, CacheWhole, CasePlaces, Calls
  <2>4. PassedSoFar'
    BY <1>0, <2>1, <2>2 DEF ExecInv, PassedSoFar, CasePlaces, Calls
  <2> QED BY <1>0, <1>t, <2>1, <2>2, <2>3, <2>4, GoToKeeps DEF Places, CasePlaces, Calls
<1>2. CASE Ensure
  <2> DEFINE place == IF Manifest \in store THEN "load" ELSE "download"
  <2>1. /\ pc = "ensure" /\ pc' = place /\ UNCHANGED <<at, prepared, results, outcome, outage, store, cut, temp>>
        /\ place = "load" => store # {}
    BY <1>2 DEF Ensure, GoTo, cache
  <2>2. place \in {"load", "download"}
    OBVIOUS
  <2> HIDE DEF place
  <2>3. CacheWhole'
    BY <1>0, <2>1, <2>2 DEF ExecInv, CacheWhole, CasePlaces, Calls
  <2>4. PassedSoFar'
    BY <1>0, <2>1, <2>2 DEF ExecInv, PassedSoFar, CasePlaces, Calls
  <2> QED BY <1>0, <1>t, <2>1, <2>2, <2>3, <2>4, GoToKeeps DEF Places
<1>3. CASE Download
  <2>1. /\ pc = "download" /\ pc' = "extract" /\ temp' = {}
        /\ UNCHANGED <<at, prepared, results, outcome, outage, store, cut>>
    BY <1>3 DEF Download, GoTo
  <2>3. CacheWhole'
    BY <1>0, <1>t, <2>1 DEF ExecInv, CacheWhole, CasePlaces, Calls
  <2>4. PassedSoFar'
    BY <1>0, <2>1 DEF ExecInv, PassedSoFar, CasePlaces, Calls
  <2> QED BY <1>0, <1>t, <2>1, <2>3, <2>4, GoToKeeps DEF Places
<1>4. CASE DownloadFails
  <2>1. /\ pc = "download" /\ outage' = TRUE /\ pc' = "done" /\ outcome' = "IE"
        /\ UNCHANGED <<cache, at, tries, prepared, results>>
    BY <1>4 DEF DownloadFails
  <2> QED BY <1>0, <2>1, FailKeeps
<1>5. CASE Extract
  <2>1. CASE archive.crowded
    <3>1. Submitted
      BY <1>5 DEF Extract, ExecInv, PassedSoFar
    <3>2. Expected = <<"IE">>
      BY <2>1, <3>1, NotJudged DEF Judgeable, ExecInv
    <3> QED BY <1>0, <1>5, <1>t, <2>1, <3>1, <3>2, FailKeeps DEF Extract, Fail
  <2>2. CASE ~archive.crowded
    <3> DEFINE place == IF temp' = Paths THEN "publish" ELSE "extract"
    <3>1. /\ pc = "extract" /\ pc' = place /\ temp' \subseteq Paths
          /\ UNCHANGED <<at, prepared, results, outcome, outage, store, cut>>
      BY <1>5, <1>t, <2>2 DEF Extract, GoTo
    <3>2. place \in {"publish", "extract"} /\ (place = "publish" <=> temp' = Paths)
      OBVIOUS
    <3> HIDE DEF place
    <3>3. CacheWhole'
      BY <1>0, <1>t, <2>2, <3>1, <3>2 DEF ExecInv, CacheWhole, CasePlaces, Calls
    <3>4. PassedSoFar'
      BY <1>0, <3>1, <3>2 DEF ExecInv, PassedSoFar, CasePlaces, Calls
    <3> QED BY <1>0, <1>t, <3>1, <3>2, <3>3, <3>4, GoToKeeps DEF Places
  <2> QED BY <2>1, <2>2
<1>6. CASE Publish
  <2>0. pc = "publish" /\ Submitted /\ temp = Paths /\ ~archive.crowded
    BY <1>6 DEF Publish, ExecInv, PassedSoFar, CacheWhole
  <2>1. CASE store # {} /\ Manifest \notin store
    <3>1. (~outage /\ Expected = <<"IE">>) \/ outage' \/ cut
      BY <1>6, <1>m, <1>t, <2>0, <2>1, NotJudged DEF Judgeable, ExecInv, Publish
    <3>2. pc' = "done" /\ outcome' = "IE" /\ UNCHANGED <<cache, inputs, at, prepared, results, outage>>
      BY <1>6, <2>1 DEF Publish, cache, Fail
    <3> QED BY <1>t, <2>0, <3>1, <3>2, FailKeeps
  <2>2. CASE store = {} \/ Manifest \in store
    <3>1. /\ pc' = "load" /\ store' = (IF store = {} THEN Whole ELSE store)
          /\ UNCHANGED <<at, prepared, results, outcome, outage, cut, temp>>
      BY <1>6, <1>t, <2>0, <2>2 DEF Publish, GoTo
    <3>2. store' \subseteq Whole /\ store' # {} /\ (store' \in {{}, Whole} \/ cut)
      BY <1>t, <3>1 DEF ExecInv, CacheWhole
    <3>3. CacheWhole'
      BY <1>0, <1>t, <2>0, <3>1, <3>2 DEF CacheWhole, CasePlaces, Calls
    <3>4. PassedSoFar'
      BY <1>0, <2>0, <3>1 DEF ExecInv, PassedSoFar, CasePlaces, Calls
    <3> QED BY <1>0, <1>t, <2>0, <3>1, <3>3, <3>4, GoToKeeps DEF Places
  <2> QED BY <2>1, <2>2
<1>7. CASE Load
  <2>0. pc = "load" /\ Submitted /\ store # {}
    BY <1>7 DEF Load, ExecInv, PassedSoFar, CacheWhole
  <2>1. CASE Manifest \notin store
    <3>1. (~outage /\ Expected = <<"IE">>) \/ outage' \/ cut
      BY <1>7, <1>m, <1>t, <2>0, <2>1, NotJudged DEF Judgeable, ExecInv, Load
    <3>2. pc' = "done" /\ outcome' = "IE" /\ UNCHANGED <<cache, inputs, at, prepared, results, outage>>
      BY <1>7, <2>1 DEF Load, Fail
    <3> QED BY <1>t, <2>0, <3>1, <3>2, FailKeeps
  <2>2. CASE Manifest \in store
    <3> DEFINE place == IF archive.validator = "none" THEN "read" ELSE "validator"
    <3>1. /\ pc' = place /\ UNCHANGED <<at, prepared, results, outcome, outage, store, cut, temp>>
      BY <1>7, <2>2 DEF Load, GoTo, cache
    <3>2. place \in {"read", "validator"} /\ (place = "read" <=> archive.validator = "none")
      OBVIOUS
    <3> HIDE DEF place
    <3>3. CacheWhole'
      BY <1>0, <2>0, <3>1, <3>2 DEF ExecInv, CacheWhole, CasePlaces, Calls
    <3>4. PassedSoFar'
      BY <1>0, <1>m, <2>0, <2>2, <3>1, <3>2 DEF ExecInv, PassedSoFar, CasePlaces, Calls
    <3> QED BY <1>0, <1>t, <2>0, <3>1, <3>2, <3>3, <3>4, GoToKeeps DEF Places, CasePlaces, Calls
  <2> QED BY <2>1, <2>2
<1> QED BY <1>1, <1>2, <1>3, <1>4, <1>5, <1>6, <1>7

\* The places from which every way on is a case of GoToKeeps: what that lemma asks for.
LEMMA PlaceKeeps ==
  ASSUME ExecInv, pc \in CasePlaces, NEW place \in CasePlaces \ {"validator"}, pc' = place,
         UNCHANGED <<inputs, cache, at, results, outcome, outage>>,
         prepared' \in BOOLEAN, prepared' => prepared \/ archive.tool # "broken",
         ~Submitted => place \in {"compile", "run"},
         Submitted => archive.validator # "broken",
         Submitted /\ place # "read" => AnswersFound(archive),
         Submitted /\ place \notin {"read", "validate"} => archive.bad # at,
         place \in {"interactor", "interact"} => Interactive,
         Submitted /\ place \in {"run", "checker", "check"} => ~Interactive,
         Submitted /\ place \in {"compile", "interact"} => CompilesSubmission,
         place \in {"run", "interact", "checker", "check"} => program.compiles /\ program.language # "other",
         place \in {"checker", "check"} => Prints(Behaviour) /\ CheckerUsed(archive) = "testlib"
  PROVE  ExecInv'
<1>1. /\ Submitted' = Submitted /\ CompilesSubmission' = CompilesSubmission
      /\ Paths' = Paths /\ Whole' = Whole /\ Interactive' = Interactive
      /\ UNCHANGED <<archive, program, job, store, cut, temp>>
  BY InputsKept DEF cache
<1>2. CacheWhole'
  BY <1>1 DEF ExecInv, CacheWhole, CasePlaces, Calls
<1>3. Behaviour' = Behaviour
  BY <1>1 DEF Behaviour
<1>4. PassedSoFar'
  BY <1>1, <1>3 DEF ExecInv, PassedSoFar, CasePlaces, Calls
<1>5. temp' \subseteq Paths
  BY <1>1 DEF ExecInv, RunTyped
<1> QED BY <1>2, <1>4, <1>5, GoToKeeps DEF Places, CasePlaces, Calls

\* readPackageFile.
LEMMA ReadStep ==
  ASSUME ExecInv, Read
  PROVE  ExecInv'
<1>1. pc = "read" /\ Submitted /\ store # {} /\ archive.manifest /\ archive.validator # "broken"
  BY DEF Read, ExecInv, PassedSoFar, CacheWhole, CasePlaces, Calls
<1>2. CASE at \notin store \/ ~AnswersFound(archive)
  <2>1. at \in Whole
    BY DEF ExecInv, InputsTyped, Refused, RunTyped, Whole, Paths
  <2>2. ~AnswersFound(archive) \/ cut
    BY <1>1, <1>2, <2>1 DEF ExecInv, CacheWhole
  <2>3. ~AnswersFound(archive) => Expected = <<"IE">>
    BY <1>1, NotJudged DEF ExecInv, Judgeable
  <2>4. /\ pc' = "done" /\ outcome' = "IE" /\ UNCHANGED <<cache, inputs, at, prepared, results, outage>>
        /\ outage \in BOOLEAN
    BY <1>2 DEF Read, Fail, ExecInv, RunTyped
  <2> QED BY <1>1, <2>2, <2>3, <2>4, FailKeeps
<1>3. CASE ~(at \notin store \/ ~AnswersFound(archive))
  <2> DEFINE place == IF archive.validator # "none" THEN "validate"
                      ELSE IF Interactive THEN "interactor" ELSE "compile"
  <2>1. pc' = place /\ UNCHANGED <<inputs, cache, at, prepared, results, outcome, outage>>
    BY <1>3 DEF Read, GoTo
  <2>2. /\ place \in {"validate", "interactor", "compile"}
        /\ place # "validate" => archive.validator = "none"
        /\ place = "interactor" => Interactive
        /\ place = "compile" => ~Interactive
    OBVIOUS
  <2>3. place # "validate" => archive.bad # at
    BY <2>2 DEF ExecInv, InputsTyped, IsArchive, RunTyped
  <2> HIDE DEF place
  <2>4. CompilesSubmission \/ place # "compile"
    BY <2>2 DEF CompilesSubmission
  <2> QED BY <1>1, <1>3, <2>1, <2>2, <2>3, <2>4, PlaceKeeps DEF CasePlaces, Calls, ExecInv, RunTyped
<1> QED BY <1>2, <1>3

\* Two flags.
LEMMA PreparedTyped == ASSUME ExecInv PROVE prepared \in BOOLEAN /\ outage \in BOOLEAN
BY DEF ExecInv, RunTyped

\* A submission that compiled goes on to run, or to its interactor.
LEMMA Compiled ==
  ASSUME ExecInv, pc = "compile", program.compiles, program.language # "other",
         GoTo(IF Interactive /\ job.mode # "run" THEN "interact" ELSE "run"),
         UNCHANGED <<inputs, cache, outage>>
  PROVE  ExecInv'
<1> DEFINE place == IF Interactive /\ job.mode # "run" THEN "interact" ELSE "run"
<1>1. pc' = place /\ UNCHANGED <<at, prepared, results, outcome>>
  BY DEF GoTo
<1>2. /\ place \in {"interact", "run"}
      /\ Submitted <=> job.mode # "run"
      /\ place = "interact" => Interactive /\ Submitted
      /\ place = "run" /\ Submitted => ~Interactive
  BY DEF ExecInv, InputsTyped, IsJob, Submitted
<1> HIDE DEF place
<1>3. Submitted => /\ archive.validator # "broken" /\ AnswersFound(archive)
                   /\ archive.bad # at /\ CompilesSubmission
  BY DEF ExecInv, PassedSoFar, CasePlaces, Calls
<1> QED BY <1>1, <1>2, <1>3, PreparedTyped, PlaceKeeps DEF CasePlaces, Calls

\* go-judge has answered.
LEMMA AnsweredStep ==
  ASSUME ExecInv, Answered
  PROVE  ExecInv'
<1>0. UNCHANGED <<inputs, cache, outage>> /\ Asks /\ pc \in Calls /\ pc \in CasePlaces
      /\ prepared \in BOOLEAN /\ outage \in BOOLEAN
  BY PreparedTyped DEF Answered, Asks, CasePlaces
<1>1. CASE pc = "validator"
  <2>0. CompileValidator /\ Submitted /\ at = 1
    BY <1>1 DEF Answered, ExecInv, PassedSoFar
  <2>1. CASE archive.validator = "broken"
    BY <1>0, <1>1, <2>0, <2>1, NotJudged, FailKeeps DEF CompileValidator, Fail, ExecInv
  <2>2. CASE archive.validator # "broken"
    <3>1. pc' = "read" /\ UNCHANGED <<at, prepared, results, outcome>>
      BY <2>0, <2>2 DEF CompileValidator, GoTo
    <3> QED BY <1>0, <2>0, <2>2, <3>1, PlaceKeeps DEF CasePlaces, Calls
  <2> QED BY <2>1, <2>2
<1>2. CASE pc = "validate"
  <2>0. /\ Validate /\ Submitted /\ archive.validator # "broken" /\ AnswersFound(archive)
    BY <1>2 DEF Answered, ExecInv, PassedSoFar, CasePlaces, Calls
  <2>1. CASE archive.bad = at
    BY <1>0, <1>2, <2>0, <2>1, RejectedInput, FailKeeps DEF Validate, Fail
  <2>2. CASE archive.bad # at
    <3> DEFINE place == IF Interactive THEN "interactor" ELSE "compile"
    <3>1. pc' = place /\ UNCHANGED <<at, prepared, results, outcome>>
      BY <2>0, <2>2 DEF Validate, GoTo
    <3>2. place \in {"interactor", "compile"} /\ (place = "interactor" <=> Interactive)
      OBVIOUS
    <3> HIDE DEF place
    <3>3. place = "compile" => CompilesSubmission
      BY <3>2 DEF CompilesSubmission
    <3> QED BY <1>0, <2>0, <2>2, <3>1, <3>2, <3>3, PlaceKeeps DEF CasePlaces, Calls
  <2> QED BY <2>1, <2>2
<1>3. CASE pc = "interactor"
  <2>0. /\ CompileInteractor /\ Submitted /\ Interactive /\ archive.validator # "broken"
        /\ AnswersFound(archive) /\ archive.bad # at
    BY <1>3 DEF Answered, ExecInv, PassedSoFar, CasePlaces, Calls
  <2>1. CASE archive.tool = "broken"
    <3>1. Deserved(at) = "IE" /\ ~CompilesSubmission
      BY <2>0, <2>1 DEF Deserved, CaseVerdict, Interactive, CompilesSubmission
    <3> QED BY <1>0, <1>3, <2>0, <2>1, <3>1, RecordKeeps DEF CompileInteractor
  <2>2. CASE archive.tool # "broken"
    <3>1. pc' = "compile" /\ UNCHANGED <<at, prepared, results, outcome>>
      BY <2>0, <2>2 DEF CompileInteractor, GoTo
    <3>2. CompilesSubmission
      BY <2>2 DEF CompilesSubmission
    <3> QED BY <1>0, <2>0, <3>1, <3>2, PlaceKeeps DEF CasePlaces, Calls
  <2> QED BY <2>1, <2>2
<1>4. CASE pc = "compile"
  <2>0. Compile /\ program.language = "CPP17"
    BY <1>4 DEF Answered, Asks
  <2>1. CASE ~program.compiles
    BY <1>0, <1>4, <2>0, <2>1, NotCompiled, FailKeeps DEF Compile, Fail
  <2>2. CASE program.compiles
    BY <1>0, <1>4, <2>0, <2>2, Compiled DEF Compile
  <2> QED BY <2>1, <2>2
<1>5. CASE pc = "run"
  <2>0. /\ Run /\ program.compiles /\ program.language # "other"
        /\ Submitted <=> job.mode # "run"
        /\ Submitted => /\ ~Interactive /\ archive.validator # "broken"
                        /\ AnswersFound(archive) /\ archive.bad # at
    BY <1>5 DEF Answered, ExecInv, PassedSoFar, CasePlaces, Calls, InputsTyped, IsJob, Submitted
  <2>1. CASE job.mode = "run"
    BY <1>0, <1>5, <2>0, <2>1, VerdictsTyped, CustomKeeps DEF Run, ExecInv
  <2>2. CASE job.mode # "run" /\ ~Prints(Behaviour)
    <3>1. Deserved(at) = RunStatus(Behaviour)
      BY <2>0, <2>2 DEF Deserved, CaseVerdict, Interactive, Behaviour
    <3> QED BY <1>0, <1>5, <2>0, <2>2, <3>1, RecordKeeps DEF Run
  <2>3. CASE job.mode # "run" /\ Prints(Behaviour) /\ CheckerUsed(archive) \in {"exact", "none"}
    <3>1. Deserved(at) = CheckVerdict(archive, Behaviour)
      BY <2>0, <2>3 DEF Deserved, CaseVerdict, Interactive, Behaviour
    <3> QED BY <1>0, <1>5, <2>0, <2>3, <3>1, RecordKeeps DEF Run
  <2>4. CASE job.mode # "run" /\ Prints(Behaviour) /\ CheckerUsed(archive) \notin {"exact", "none"}
    <3> DEFINE place == IF prepared THEN "check" ELSE "checker"
    <3>1. pc' = place /\ UNCHANGED <<at, prepared, results, outcome>>
      BY <2>0, <2>4 DEF Run, GoTo
    <3>2. place \in {"check", "checker"}
      OBVIOUS
    <3> HIDE DEF place
    <3>3. CheckerUsed(archive) = "testlib"
      BY <2>0, <2>4 DEF CheckerUsed, CheckerTypes, Interactive
    <3> QED BY <1>0, <2>0, <2>4, <3>1, <3>2, <3>3, PlaceKeeps DEF CasePlaces, Calls
  <2> QED BY <2>1, <2>2, <2>3, <2>4
<1>6. CASE pc = "checker" \/ pc = "check" \/ pc = "interact"
  <2>0. /\ Submitted /\ archive.validator # "broken" /\ AnswersFound(archive) /\ archive.bad # at
        /\ program.compiles /\ program.language # "other"
    BY <1>6 DEF ExecInv, PassedSoFar, CasePlaces, Calls
  <2>1. CASE pc = "checker"
    <3>0. /\ CompileChecker /\ ~Interactive /\ Prints(Behaviour) /\ CheckerUsed(archive) = "testlib"
      BY <2>0, <2>1 DEF Answered, ExecInv, PassedSoFar
    <3>1. CASE archive.tool = "broken"
      <4>1. Deserved(at) = "IE"
        BY <3>0, <3>1 DEF Deserved, CaseVerdict, CheckVerdict, ToolVerdict, Behaviour
      <4> QED BY <1>0, <2>0, <2>1, <3>0, <3>1, <4>1, RecordKeeps DEF CompileChecker
    <3>2. CASE archive.tool # "broken"
      <4>1. pc' = "check" /\ prepared' = TRUE /\ UNCHANGED <<at, results, outcome>>
        BY <3>0, <3>2 DEF CompileChecker
      <4> QED BY <1>0, <2>0, <3>0, <3>2, <4>1, PlaceKeeps DEF CasePlaces, Calls
    <3> QED BY <3>1, <3>2
  <2>2. CASE pc = "check"
    <3>0. Check /\ Prints(Behaviour) /\ CheckerUsed(archive) = "testlib"
      BY <2>2 DEF Answered, ExecInv, PassedSoFar
    <3>1. Deserved(at) = CheckVerdict(archive, Behaviour)
      BY <3>0 DEF Deserved, CaseVerdict, Behaviour
    <3> QED BY <1>0, <2>0, <2>2, <3>0, <3>1, RecordKeeps DEF Check
  <2>3. CASE pc = "interact"
    <3>0. Interact /\ CompilesSubmission /\ Interactive
      BY <2>0, <2>3 DEF Answered, ExecInv, PassedSoFar
    <3>1. Deserved(at) = IF ~Prints(Behaviour) THEN RunStatus(Behaviour) ELSE CheckVerdict(archive, Behaviour)
      BY <3>0 DEF Deserved, CaseVerdict, Behaviour, CompilesSubmission, Interactive
    <3>2. Record(Deserved(at))
      BY <3>0, <3>1 DEF Interact
    <3> QED BY <1>0, <2>0, <2>3, <3>2, RecordKeeps
  <2> QED BY <1>6, <2>1, <2>2, <2>3
<1> QED BY <1>0, <1>1, <1>2, <1>3, <1>4, <1>5, <1>6 DEF Calls

\* A language without a compiler.
LEMMA InterpretStep ==
  ASSUME ExecInv, Interpret
  PROVE  ExecInv'
<1>0. pc = "compile" /\ program.language # "CPP17" /\ UNCHANGED <<inputs, cache, outage>>
  BY DEF Interpret
<1>1. CASE program.language # "PY3"
  <2>1. program.language = "other"
    BY <1>0, <1>1 DEF ExecInv, InputsTyped, IsProgram
  <2> QED BY <1>0, <1>1, <2>1, NotCompiled, PreparedTyped, FailKeeps DEF Interpret, Fail
<1>2. CASE program.language = "PY3"
  <2>1. program.compiles /\ program.language # "other"
    BY <1>2 DEF ExecInv, InputsTyped, IsProgram
  <2> QED BY <1>0, <1>2, <2>1, Compiled DEF Interpret
<1> QED BY <1>1, <1>2

\* Whatever ExecInv speaks of is unchanged.
LEMMA StutterKeeps ==
  ASSUME ExecInv, UNCHANGED <<inputs, cache, pc, at, prepared, results, outcome, outage>>
  PROVE  ExecInv'
<1>1. /\ InputsTyped' = InputsTyped /\ Paths' = Paths /\ Whole' = Whole /\ Interactive' = Interactive
      /\ Submitted' = Submitted /\ CompilesSubmission' = CompilesSubmission
      /\ Expected' = Expected /\ (\A c : Deserved(c)' = Deserved(c))
      /\ UNCHANGED <<archive, program, job>>
  BY InputsKept
<1>2. UNCHANGED <<store, cut, temp>>
  BY DEF cache
<1>3. RunTyped'
  BY <1>1, <1>2 DEF ExecInv, RunTyped
<1>4. CacheWhole'
  BY <1>1, <1>2 DEF ExecInv, CacheWhole
<1>5. Behaviour' = Behaviour
  BY <1>1 DEF Behaviour
<1>6. PassedSoFar'
  BY <1>1, <1>5 DEF ExecInv, PassedSoFar
<1>7. ResultsTrue'
  <2>1. AnswersFound(archive)' = AnswersFound(archive) /\ Ending' = Ending
    BY <1>1 DEF Ending
  <2>2. \A c \in DOMAIN results : Deserved(c)' = Deserved(c)
    BY <1>1
  <2> QED BY <1>1, <1>2, <2>1, <2>2 DEF ExecInv, ResultsTrue
<1> QED BY <1>1, <1>3, <1>4, <1>6, <1>7 DEF ExecInv

\* The first lost request changes nothing.
LEMMA LoseStep ==
  ASSUME ExecInv, Lose
  PROVE  ExecInv'
BY StutterKeeps DEF Lose

\* After the second one the step counts as an outage, and every failure will do.
LEMMA LoseAgainStep ==
  ASSUME ExecInv, LoseAgain
  PROVE  ExecInv'
<1>0. UNCHANGED <<inputs, cache>> /\ Asks /\ pc \in Calls /\ Unanswered /\ outage' = TRUE
  BY DEF LoseAgain, Asks
<1>1. CASE pc \in {"validator", "validate"}
  BY <1>0, <1>1, FailKeeps DEF Unanswered, Fail
<1>2. CASE pc = "compile"
  BY <1>0, <1>2, FailKeeps DEF Unanswered, Fail
<1>3. CASE pc \notin {"validator", "validate", "compile"}
  <2>1. Record("IE")
    BY <1>0, <1>3 DEF Unanswered
  <2>2. CASE Submitted
    BY <1>0, <1>3, <2>1, <2>2, RecordKeeps DEF CasePlaces, Calls
  <2>3. CASE ~Submitted
    <3>1. pc = "run"
      BY <1>0, <1>3, <2>3 DEF ExecInv, PassedSoFar, Calls
    <3> QED BY <1>0, <2>1, <2>3, <3>1, CustomKeeps DEF Verdicts
  <2> QED BY <2>2, <2>3
<1> QED BY <1>1, <1>2, <1>3

\* Between executions nothing is left but the cache.
LEMMA RestKeeps ==
  ASSUME ExecInv, Rest, UNCHANGED inputs, temp' \subseteq Paths, store' \subseteq store,
         cut' \in BOOLEAN, store' \in {{}, Whole} \/ cut'
  PROVE  ExecInv'
<1>1. /\ InputsTyped' = InputsTyped /\ Paths' = Paths /\ Whole' = Whole /\ Submitted' = Submitted
      /\ UNCHANGED <<archive, program, job>>
  BY InputsKept
<1>2. /\ pc' = "idle" /\ at' = 1 /\ prepared' = FALSE /\ results' = <<>>
      /\ outcome' = "none" /\ outage' = FALSE
  BY DEF Rest
<1>3. archive.cases \in Nat /\ archive.cases >= 1
  BY DEF ExecInv, InputsTyped, Refused
<1>4. RunTyped'
  <2>1. results' \in Seq(Verdicts)
    BY <1>2
  <2>2. pc' \in Places
    BY <1>2 DEF Places
  <2>3. (at \in 1 .. archive.cases /\ temp \subseteq Paths)'
    BY <1>1, <1>2, <1>3
  <2>4. (prepared \in BOOLEAN /\ outcome \in {"none", "CE", "IE", "cases"} /\ outage \in BOOLEAN)'
    BY <1>2
  <2> QED BY ONLY <2>1, <2>2, <2>3, <2>4 DEF RunTyped
<1>5. CacheWhole'
  BY <1>1, <1>2 DEF ExecInv, CacheWhole, CasePlaces, Calls
<1>6. PassedSoFar'
  BY <1>1, <1>2 DEF PassedSoFar, CasePlaces, Calls
<1>7. ResultsTrue'
  <2>1. Len(results') = at' - 1 /\ DOMAIN results' = {}
    BY <1>2
  <2>2. archive.bad' \notin 1 .. (at' - 1)
    BY <1>2
  <2> QED BY <1>2, <2>1, <2>2 DEF ResultsTrue
<1> QED BY <1>1, <1>4, <1>5, <1>6, <1>7 DEF ExecInv

\* Every step of the worker.
LEMMA ExecutionStep ==
  ASSUME ExecInv, [Next]_vars
  PROVE  ExecInv'
<1>1. CASE Begin \/ Ensure \/ Download \/ DownloadFails \/ Extract \/ Publish \/ Load
  BY <1>1, CacheSteps
<1>2. CASE Read
  BY <1>2, ReadStep
<1>3. CASE Answered
  BY <1>3, AnsweredStep
<1>4. CASE Interpret
  BY <1>4, InterpretStep
<1>5. CASE Lose
  BY <1>5, LoseStep
<1>6. CASE LoseAgain
  BY <1>6, LoseAgainStep
<1>7. CASE Again
  BY <1>7, RestKeeps DEF Again, cache, ExecInv, RunTyped, CacheWhole
<1>8. CASE Crash
  <2>1. /\ Rest /\ UNCHANGED inputs /\ temp' = {} /\ store' \subseteq store
        /\ cut' = (store' # {} /\ (cut \/ store' # store))
    BY <1>8 DEF Crash, Remains
  <2>2. cut' \in BOOLEAN /\ (store' \in {{}, Whole} \/ cut')
    BY <2>1 DEF ExecInv, CacheWhole
  <2> QED BY <2>1, <2>2, RestKeeps
<1>9. CASE UNCHANGED vars
  BY <1>9, StutterKeeps DEF vars, run
<1> QED BY <1>1, <1>2, <1>3, <1>4, <1>5, <1>6, <1>7, <1>8, <1>9 DEF Next

-----------------------------------------------------------------------------
(* The build, and the execution of what was built *)

\* What a specification is.
IsSpec(s) ==
  /\ s.tool \in Tools
  /\ s.bad \in Nat /\ (s.validator = "none" => s.bad = 0)
  /\ IsProgram(s.solution)

\* What Build writes is what import_zip takes.
LEMMA PackagedIsAccepted ==
  ASSUME NEW s, IsSpec(s), Valid(s)
  PROVE  IsArchive(Packaged(s)) /\ ~Refused(Packaged(s))
BY DEF IsSpec, Valid, Packaged, IsArchive, Refused, CheckerTypes, Lower

\* Nothing has been executed and nothing cached.
LEMMA FreshInv ==
  ASSUME InputsTyped, store = {}, cut = FALSE, temp = {}, pc \in {"off", "idle"}, at = 1, prepared = FALSE,
         results = <<>>, outcome = "none", outage = FALSE
  PROVE  ExecInv
<1>1. archive.cases \in Nat /\ archive.cases >= 1
  BY DEF InputsTyped, Refused
<1>2. RunTyped
  <2>1. results \in Seq(Verdicts)
    OBVIOUS
  <2>2. pc \in Places
    BY DEF Places
  <2>3. at \in 1 .. archive.cases /\ temp \subseteq Paths
    BY <1>1
  <2>4. prepared \in BOOLEAN /\ outcome \in {"none", "CE", "IE", "cases"} /\ outage \in BOOLEAN
    OBVIOUS
  <2> QED BY ONLY <2>1, <2>2, <2>3, <2>4 DEF RunTyped
<1>3. CacheWhole
  BY <1>1 DEF CacheWhole, CasePlaces, Calls
<1>4. PassedSoFar
  BY DEF PassedSoFar, CasePlaces, Calls
<1>5. ResultsTrue
  <2>1. Len(results) = at - 1 /\ DOMAIN results = {} /\ archive.bad \notin 1 .. (at - 1)
    OBVIOUS
  <2> QED BY <2>1 DEF ResultsTrue
<1> QED BY <1>2, <1>3, <1>4, <1>5 DEF ExecInv

\* What may be executed, or built.
WellFormed ==
  /\ \A a \in Archives : IsArchive(a)
  /\ \A p \in Programs : IsProgram(p)
  /\ \A k \in JobKinds : IsJob(k)
  /\ \A s \in BuildSpecs : IsSpec(s)

\* The invariant holds at the start.
LEMMA ExecutionInit ==
  ASSUME WellFormed, AInit
  PROVE  ExecInv
<1>1. CASE Init
  BY <1>1, FreshInv DEF WellFormed, Init, Start, InputsTyped
<1>2. CASE ~Init
  <2>1. /\ spec \in BuildSpecs /\ Valid(spec) /\ archive = Packaged(spec) /\ program = spec.solution
        /\ job \in JobKinds
    BY <1>2 DEF AInit
  <2>2. InputsTyped
    BY <2>1, PackagedIsAccepted DEF WellFormed, InputsTyped, IsSpec
  <2> QED BY <1>2, <2>2, FreshInv DEF AInit
<1> QED BY <1>1, <1>2

\* Nothing was executed before the upload.
LEMMA UploadStep ==
  ASSUME ExecInv, Upload
  PROVE  ExecInv'
<1>1. /\ InputsTyped' = InputsTyped /\ Paths' = Paths /\ Whole' = Whole /\ Submitted' = Submitted
      /\ UNCHANGED <<archive, program, job>> /\ (\A c : Deserved(c)' = Deserved(c))
      /\ CompilesSubmission' = CompilesSubmission
  BY InputsKept DEF Upload
<1>2. pc = "off" /\ pc' = "idle" /\ UNCHANGED <<store, cut, temp, at, prepared, results, outcome, outage>>
  BY DEF Upload, cache
<1>3. RunTyped'
  BY <1>1, <1>2 DEF ExecInv, RunTyped, Places
<1>4. CacheWhole'
  BY <1>1, <1>2 DEF ExecInv, CacheWhole, CasePlaces, Calls
<1>5. PassedSoFar'
  BY <1>1, <1>2 DEF ExecInv, PassedSoFar, CasePlaces, Calls
<1>6. ResultsTrue'
  <2>1. AnswersFound(archive)' = AnswersFound(archive)
    BY <1>1
  <2>2. \A c \in DOMAIN results : Deserved(c)' = Deserved(c)
    BY <1>1
  <2> QED BY <1>1, <1>2, <2>1, <2>2 DEF ExecInv, ResultsTrue
<1> QED BY <1>1, <1>3, <1>4, <1>5, <1>6 DEF ExecInv

\* Every step of the builder, and of the worker after it.
LEMMA BuilderStep ==
  ASSUME ExecInv, [ANext]_avars
  PROVE  ExecInv'
<1>1. CASE Next
  BY <1>1, ExecutionStep
<1>2. CASE Upload
  BY <1>2, UploadStep
<1>3. CASE BuildStage \/ BuildFails \/ WritePackage \/ Measure \/ UNCHANGED avars
  BY <1>3, ExecutionStep DEF BuildStage, BuildFails, WritePackage, Measure, avars
<1> QED BY <1>1, <1>2, <1>3 DEF ANext

\* What the invariant says of an execution holds at every step of it: Execute,
\* Store.Ensure and the calls to go-judge.
THEOREM ExecutionHolds ==
  ASSUME WellFormed
  PROVE  ASpec => []ExecInv
<1>1. AInit => ExecInv
  BY ExecutionInit
<1>2. ExecInv /\ [ANext]_avars => ExecInv'
  BY BuilderStep
<1> QED BY <1>1, <1>2, PTL DEF ASpec

\* FaultsDecideNothing: an execution that got an answer to each call ends as the
\* inputs say, whatever was lost or killed before, or fails (IE) on a package whose
\* removal was cut; and every case that is reported has the verdict it deserves, or IE.
THEOREM FaultsHold ==
  ASSUME WellFormed
  PROVE  ASpec => []FaultsDecideNothing
<1>1. ExecInv => FaultsDecideNothing
  BY DEF ExecInv, ResultsTrue, FaultsDecideNothing, Deserved, Submitted
<1> QED BY <1>1, ExecutionHolds, PTL

\* PublishedIsComplete: what lies under a digest in the package cache is the whole
\* package, wherever the process was killed while it unpacked one; only a removal
\* that was cut leaves a part of it there.
THEOREM CacheHolds ==
  ASSUME WellFormed
  PROVE  ASpec => []PublishedIsComplete
<1>1. ExecInv => PublishedIsComplete
  BY DEF ExecInv, CacheWhole, PublishedIsComplete
<1> QED BY <1>1, ExecutionHolds, PTL

-----------------------------------------------------------------------------
(* The model solution *)

\* How many stages a build has.
StageCount(s) == Len(Compiling) + 4 * s.cases

\* A build is about the specification it began with, and every stage it has
\* behind it has succeeded.
BuildTrue ==
  build # "none" =>
    /\ spec \in BuildSpecs /\ Valid(spec)
    /\ archive = Packaged(spec) /\ program = spec.solution /\ Submitted
    /\ step \in 0 .. StageCount(spec)
    /\ \A i \in 1 .. step : Succeeds(spec, Stages(spec)[i], CaseAt(i))
    /\ build \in {"written", "ok"} => step = StageCount(spec)

\* Sequences.
LEMMA FunctionIsSeq ==
  ASSUME NEW T, NEW n \in Nat, NEW f \in [1 .. n -> T]
  PROVE  f \in Seq(T) /\ Len(f) = n
OBVIOUS

LEMMA Joined ==
  ASSUME NEW T, NEW a \in Seq(T), NEW b \in Seq(T)
  PROVE  /\ Len(a \o b) = Len(a) + Len(b)
         /\ \A i \in 1 .. Len(a) : (a \o b)[i] = a[i]
         /\ \A i \in 1 .. Len(b) : (a \o b)[Len(a) + i] = b[i]
<1>1. Len(a \o b) = Len(a) + Len(b) /\ Len(a) \in Nat /\ Len(b) \in Nat
  OBVIOUS
<1>2. \A i \in 1 .. Len(a) : (a \o b)[i] = a[i]
  OBVIOUS
<1>3. ASSUME NEW i \in 1 .. Len(b) PROVE (a \o b)[Len(a) + i] = b[i]
  <2>1. Len(a) + i \in 1 .. (Len(a) + Len(b)) /\ ~(Len(a) + i <= Len(a)) /\ Len(a) + i - Len(a) = i
    BY <1>1
  <2> QED BY <2>1
<1> QED BY <1>1, <1>2, <1>3

\* The stages of a build, and the cases they are about.
LEMMA StagesOf ==
  ASSUME NEW s, s.cases \in Nat
  PROVE  /\ Len(Stages(s)) = StageCount(s) /\ StageCount(s) = 3 + 4 * s.cases
         /\ Stages(s)[2] = "solution" /\ Stages(s)[3] = "validator"
         /\ \A c \in 1 .. s.cases :
              /\ 3 + 4 * c - 2 \in 1 .. StageCount(s) /\ 3 + 4 * c - 1 \in 1 .. StageCount(s)
              /\ 3 + 4 * c \in 1 .. StageCount(s)
              /\ Stages(s)[3 + 4 * c - 2] = "validate" /\ CaseAt(3 + 4 * c - 2) = c
              /\ Stages(s)[3 + 4 * c - 1] = "solve" /\ CaseAt(3 + 4 * c - 1) = c
              /\ Stages(s)[3 + 4 * c] = "check" /\ CaseAt(3 + 4 * c) = c
<1> DEFINE f == [i \in 1 .. 4 * s.cases |-> CaseStages[((i - 1) % 4) + 1]]
           T == {"generator", "solution", "validator", "generate", "validate", "solve", "check"}
<1>1. \A i \in 1 .. 4 * s.cases : ((i - 1) % 4) + 1 \in 1 .. 4
  OBVIOUS
<1>2. \A i \in 1 .. 4 : CaseStages[i] \in T
  BY DEF CaseStages
<1>3. f \in [1 .. 4 * s.cases -> T] /\ 4 * s.cases \in Nat
  BY <1>1, <1>2
<1>4. f \in Seq(T) /\ Len(f) = 4 * s.cases
  <2> HIDE DEF f, T
  <2> QED BY <1>3, FunctionIsSeq
<1>5. Compiling \in Seq(T) /\ Len(Compiling) = 3
      /\ Compiling[2] = "solution" /\ Compiling[3] = "validator"
  BY DEF Compiling
<1>6. \A c \in 1 .. s.cases :
        /\ 4 * c - 2 \in 1 .. 4 * s.cases /\ 4 * c - 1 \in 1 .. 4 * s.cases /\ 4 * c \in 1 .. 4 * s.cases
        /\ f[4 * c - 2] = "validate" /\ f[4 * c - 1] = "solve" /\ f[4 * c] = "check"
  <2> SUFFICES ASSUME NEW c \in 1 .. s.cases
               PROVE  /\ 4 * c - 2 \in 1 .. 4 * s.cases /\ 4 * c - 1 \in 1 .. 4 * s.cases /\ 4 * c \in 1 .. 4 * s.cases
                      /\ f[4 * c - 2] = "validate" /\ f[4 * c - 1] = "solve" /\ f[4 * c] = "check"
    OBVIOUS
  <2>1. 4 * c - 2 \in 1 .. 4 * s.cases /\ 4 * c - 1 \in 1 .. 4 * s.cases /\ 4 * c \in 1 .. 4 * s.cases
    OBVIOUS
  <2>2. ((4 * c - 2 - 1) % 4) + 1 = 2 /\ ((4 * c - 1 - 1) % 4) + 1 = 3 /\ ((4 * c - 1) % 4) + 1 = 4
    OBVIOUS
  <2> QED BY <2>1, <2>2 DEF CaseStages
<1>7. Stages(s) = Compiling \o f
  BY DEF Stages
<1> HIDE DEF f, T
<1>8. /\ Len(Stages(s)) = 3 + 4 * s.cases
      /\ \A i \in 1 .. 3 : Stages(s)[i] = Compiling[i]
      /\ \A i \in 1 .. 4 * s.cases : Stages(s)[3 + i] = f[i]
  <2> DEFINE w == Compiling \o f
             n == 4 * s.cases
  <2>0. Compiling \in Seq(T) /\ f \in Seq(T)
    BY <1>4, <1>5
  <2>1. /\ Len(w) = Len(Compiling) + Len(f)
        /\ \A i \in 1 .. Len(Compiling) : w[i] = Compiling[i]
        /\ \A i \in 1 .. Len(f) : w[Len(Compiling) + i] = f[i]
    BY ONLY <2>0, Joined
  <2>2. Len(f) = n /\ n = 4 * s.cases /\ Len(Compiling) = 3 /\ Stages(s) = w
    BY <1>4, <1>5, <1>7
  <2> HIDE DEF w, n
  <2>3. Len(w) = 3 + n /\ (\A i \in 1 .. 3 : w[i] = Compiling[i]) /\ (\A i \in 1 .. n : w[3 + i] = f[i])
    BY <2>1, <2>2
  <2> QED BY <2>2, <2>3
<1>9. StageCount(s) = 3 + 4 * s.cases
  BY <1>5 DEF StageCount
<1>10. \A c \in 1 .. s.cases : /\ CaseAt(3 + 4 * c - 2) = c /\ CaseAt(3 + 4 * c - 1) = c
                               /\ CaseAt(3 + 4 * c) = c
  BY <1>5 DEF CaseAt
<1>11. \A c \in 1 .. s.cases : /\ Stages(s)[3 + (4 * c - 2)] = "validate"
                               /\ Stages(s)[3 + (4 * c - 1)] = "solve"
                               /\ Stages(s)[3 + 4 * c] = "check"
  BY <1>6, <1>8
<1>12. \A c \in 1 .. s.cases : 3 + 4 * c - 2 = 3 + (4 * c - 2) /\ 3 + 4 * c - 1 = 3 + (4 * c - 1)
                               /\ 3 + 4 * c - 2 \in 1 .. StageCount(s) /\ 3 + 4 * c - 1 \in 1 .. StageCount(s)
                               /\ 3 + 4 * c \in 1 .. StageCount(s)
  BY <1>9
<1> QED BY <1>5, <1>8, <1>9, <1>10, <1>11, <1>12

\* A build begins with nothing behind it.
LEMMA BuildInit ==
  ASSUME WellFormed, AInit
  PROVE  BuildTrue
<1> SUFFICES ASSUME build # "none" PROVE BuildTrue
  BY DEF BuildTrue
<1>1. /\ spec \in BuildSpecs /\ Valid(spec) /\ build = "running" /\ step = 0
      /\ archive = Packaged(spec) /\ program = spec.solution /\ job.mode = "submit"
  BY DEF AInit
<1>2. StageCount(spec) \in Nat
  BY <1>1, StagesOf DEF Valid
<1> QED BY <1>1, <1>2 DEF BuildTrue, Submitted

\* Every stage adds one.
LEMMA BuildStep ==
  ASSUME BuildTrue, [ANext]_avars
  PROVE  BuildTrue'
<1>1. CASE pc # "off" /\ Next /\ UNCHANGED builder
  <2>1. UNCHANGED <<spec, build, step, archive, program, job>>
    BY <1>1 DEF builder, Next, Begin, Ensure, Download, DownloadFails, Extract, Publish, Load, Read,
         Answered, Interpret, Lose, LoseAgain, Again, Crash, inputs
  <2> QED BY <2>1 DEF BuildTrue, Submitted
<1>2. CASE BuildFails \/ Upload \/ UNCHANGED avars
  <2>1. UNCHANGED <<spec, step, archive, program, job>> /\ (build' = build \/ (build = "running" /\ build' = "failed"))
    BY <1>2 DEF BuildFails, Upload, avars, builder, vars, inputs
  <2> QED BY <2>1 DEF BuildTrue, Submitted
<1>3. CASE BuildStage
  <2>1. /\ UNCHANGED <<spec, build, archive, program, job>> /\ build = "running"
        /\ step < Len(Stages(spec)) /\ step' = step + 1
        /\ Succeeds(spec, Stages(spec)[step + 1], CaseAt(step + 1))
    BY <1>3 DEF BuildStage, vars, inputs
  <2>2. /\ step \in 0 .. StageCount(spec) /\ \A i \in 1 .. step : Succeeds(spec, Stages(spec)[i], CaseAt(i))
        /\ Valid(spec)
    BY <2>1 DEF BuildTrue
  <2>3. Len(Stages(spec)) = StageCount(spec) /\ StageCount(spec) \in Nat
    BY <2>2, StagesOf DEF Valid
  <2>4. step + 1 \in 0 .. StageCount(spec)
    BY <2>1, <2>2, <2>3
  <2>5. \A i \in 1 .. (step + 1) : i \in 1 .. step \/ i = step + 1
    BY <2>2
  <2>6. \A i \in 1 .. (step + 1) : Succeeds(spec, Stages(spec)[i], CaseAt(i))
    BY <2>1, <2>2, <2>5
  <2> QED BY <2>1, <2>4, <2>6 DEF BuildTrue, Submitted
<1>4. CASE WritePackage
  <2>1. /\ UNCHANGED <<spec, step, archive, program, job>> /\ build = "running"
        /\ step = Len(Stages(spec))
    BY <1>4 DEF WritePackage, vars, inputs
  <2>2. Len(Stages(spec)) = StageCount(spec)
    BY <2>1, StagesOf DEF Valid, BuildTrue
  <2> QED BY <2>1, <2>2 DEF BuildTrue, Submitted
<1>5. CASE Measure
  <2>1. /\ UNCHANGED <<spec, step, archive, program, job>> /\ build = "written"
    BY <1>5 DEF Measure, vars, inputs
  <2> QED BY <2>1 DEF BuildTrue, Submitted
<1> QED BY <1>1, <1>2, <1>3, <1>4, <1>5 DEF ANext

\* A model solution prints the answers, by definition, and is in a language that
\* validateProgram accepts.
ModelSolutions ==
  \A s \in BuildSpecs :
    /\ s.solution.language \in {"CPP17", "PY3"}
    /\ \A c \in 1 .. s.cases : s.solution.does[c] \in {"right", "crash", "slow"}

\* What the stages of a finished build have shown.
LEMMA SolvedInBuild ==
  ASSUME ExecInv, BuildTrue, build = "ok", ModelSolutions
  PROVE  /\ Judgeable /\ archive.validator # "broken" /\ program.compiles /\ program.language # "other"
         /\ Submitted /\ archive.cases \in Nat
         /\ \A c \in 1 .. archive.cases : archive.bad # c /\ Deserved(c) = "AC"
<1>1. /\ spec \in BuildSpecs /\ Valid(spec) /\ Submitted /\ step = StageCount(spec)
      /\ archive = Packaged(spec) /\ program = spec.solution
      /\ \A i \in 1 .. step : Succeeds(spec, Stages(spec)[i], CaseAt(i))
  BY DEF BuildTrue
<1>2. /\ archive.cases = spec.cases /\ archive.bad = spec.bad /\ archive.validator = spec.validator
      /\ archive.manifest /\ ~archive.crowded /\ archive.listing = "answer"
      /\ CheckerUsed(archive) \in {"exact", "testlib", "none"}
      /\ spec.cases \in 1 .. MaxCases
  BY <1>1 DEF Packaged, Valid, CheckerUsed, CheckerTypes
<1>3. spec.cases \in Nat /\ spec.cases >= 1
  BY <1>2
<1>4. /\ 2 \in 1 .. step /\ 3 \in 1 .. step /\ Stages(spec)[2] = "solution" /\ Stages(spec)[3] = "validator"
      /\ StageCount(spec) \in Nat
  <2>1. /\ Stages(spec)[2] = "solution" /\ Stages(spec)[3] = "validator"
        /\ StageCount(spec) = 3 + 4 * spec.cases
    BY ONLY <1>3, StagesOf
  <2>2. StageCount(spec) \in Nat /\ StageCount(spec) >= 3
    BY ONLY <1>3, <2>1
  <2> QED BY <1>1, <2>1, <2>2
<1>5. spec.solution.compiles /\ spec.validator # "broken"
  BY <1>1, <1>4 DEF Succeeds
<1>6. ASSUME NEW c \in 1 .. spec.cases PROVE archive.bad # c /\ Deserved(c) = "AC"
  <2> DEFINE n == 3 + 4 * c
  <2>1. /\ n - 2 \in 1 .. step /\ n - 1 \in 1 .. step /\ n \in 1 .. step
        /\ Stages(spec)[n - 2] = "validate" /\ CaseAt(n - 2) = c
        /\ Stages(spec)[n - 1] = "solve" /\ CaseAt(n - 1) = c
        /\ Stages(spec)[n] = "check" /\ CaseAt(n) = c
    BY <1>1, <1>3, StagesOf
  <2> HIDE DEF n
  <2>2. Succeeds(spec, "validate", c) /\ Succeeds(spec, "solve", c) /\ Succeeds(spec, "check", c)
    BY <1>1, <2>1
  <2>3. spec.validator = "none" \/ spec.bad # c
    BY <2>2 DEF Succeeds
  <2>4. archive.bad # c
    BY <1>2, <2>3 DEF ExecInv, InputsTyped, IsArchive
  <2>5. Prints(program.does[c])
    BY <1>1, <2>2 DEF Succeeds
  <2>6. program.does[c] = "right"
    BY <1>1, <1>2, <2>5 DEF ModelSolutions, Prints
  <2>7. CheckVerdict(archive, "right") = "AC"
    BY <1>1, <2>2 DEF Succeeds
  <2>8. Deserved(c) = "AC"
    BY <1>2, <2>5, <2>6, <2>7 DEF Deserved, CaseVerdict
  <2> QED BY <2>4, <2>8
<1>7. program.language # "other"
  BY <1>1 DEF ModelSolutions
<1> QED BY <1>1, <1>2, <1>3, <1>5, <1>6, <1>7 DEF Judgeable, AnswersFound

\* ModelSolutionPasses: a package that was built is accepted by the importer,
\* and the solution it was built with passes every case of it, whatever was lost
\* or killed on the way, unless the sandbox could not be reached or the package's
\* removal was cut.
THEOREM ModelSolutionHolds ==
  ASSUME WellFormed, ModelSolutions
  PROVE  ASpec => []ModelSolutionPasses
<1>1. AInit => BuildTrue
  BY BuildInit
<1>2. BuildTrue /\ [ANext]_avars => BuildTrue'
  BY BuildStep
<1>3. ExecInv /\ BuildTrue => ModelSolutionPasses
  <2> SUFFICES ASSUME ExecInv, BuildTrue, build = "ok" PROVE ModelSolutionPasses
    BY DEF ModelSolutionPasses
  <2>1. ~Refused(archive)
    BY DEF ExecInv, InputsTyped
  <2>2. ASSUME pc = "done", ~outage
        PROVE  Ending = <<"cases", [c \in 1 .. archive.cases |-> "AC"]>> \/ (cut /\ Ending = <<"IE">>)
    <3>1. Ending = Expected \/ (cut /\ Ending = <<"IE">>)
      BY <2>2 DEF ExecInv, ResultsTrue
    <3>2. /\ Judgeable /\ archive.validator # "broken" /\ program.compiles /\ program.language # "other"
          /\ Submitted /\ archive.cases \in Nat /\ archive.cases >= 1
          /\ \A c \in 1 .. archive.cases : archive.bad # c /\ Deserved(c) = "AC"
      BY SolvedInBuild DEF ExecInv, InputsTyped, Refused
    <3>3. LastCase = archive.cases
      BY <3>2 DEF LastCase, Deserved
    <3>4. archive.bad # 1 /\ archive.bad \notin 1 .. LastCase
      BY <3>2, <3>3
    <3>5. Expected = <<"cases", [c \in 1 .. archive.cases |-> Deserved(c)]>>
      BY <3>2, <3>3, <3>4 DEF Expected, Submitted, Deserved
    <3>6. [c \in 1 .. archive.cases |-> Deserved(c)] = [c \in 1 .. archive.cases |-> "AC"]
      BY <3>2
    <3> QED BY <3>1, <3>5, <3>6
  <2> QED BY <2>1, <2>2 DEF ModelSolutionPasses
<1> QED BY <1>1, <1>2, <1>3, ExecutionHolds, PTL DEF ASpec

-----------------------------------------------------------------------------
(* Scores *)

\* A manifest as the importer leaves it.
Proper(m) ==
  /\ IsFiniteSet(CasesOf(m)) /\ CasesOf(m) # {}
  /\ IsFiniteSet(GroupsOf(m))
  /\ m.points \in [CasesOf(m) -> Nat]
  /\ m.group \in [CasesOf(m) -> GroupsOf(m)]
  /\ m.cap \in [GroupsOf(m) -> Nat]
  /\ m.mode \in [GroupsOf(m) -> {"sum", "min"}]
  /\ m.partial \in BOOLEAN

\* Rows that judges may have reported for it.
Reported(m, rs) ==
  /\ DOMAIN rs \subseteq CasesOf(m)
  /\ \A c \in DOMAIN rs : rs[c].points \in Int /\ rs[c].total \in Int

LEMMA RoundingIsMonotone ==
  /\ \A x \in Int : RoundToCent(x) \in Int /\ RoundToCent(x) % Cent = 0
  /\ \A x, y \in Int : x <= y => RoundToCent(x) <= RoundToCent(y)
  /\ \A x \in Int : x % Cent = 0 => RoundToCent(x) = x
  /\ \A x \in Nat : RoundToCent(x) \in Nat
  BY DEF RoundToCent, Cent

LEMMA SmallerOfTwo ==
  ASSUME NEW x \in Nat, NEW y \in Nat
  PROVE  Min({x, y}) = IF x <= y THEN x ELSE y
  BY SmallestOfNaturals

\* A share of nothing is nothing, of everything everything, and never more.
LEMMA ShareIsPart ==
  ASSUME NEW p \in Nat, NEW total \in Nat \ {0}, NEW part \in 0 .. total
  PROVE  /\ Share(p, part, total) \in Nat
         /\ Share(p, part, total) <= p
         /\ part = total => Share(p, part, total) = p
<1> DEFINE top == 2 * p * part + total
           by == 2 * total
<1>1. p * part \in Nat /\ p * total \in Nat /\ p * part <= p * total
  OBVIOUS
<1>2. /\ top \in Nat /\ by \in Nat \ {0} /\ total < by
      /\ top <= by * p + total
      /\ part = total => top = by * p + total
  <2>1. top = 2 * (p * part) + total /\ by * p = 2 * (p * total)
    BY <1>1
  <2>2. by \in Nat \ {0} /\ total < by
    OBVIOUS
  <2>3. part = total => p * part = p * total
    OBVIOUS
  <2> HIDE DEF top, by
  <2> QED BY <1>1, <2>1, <2>2, <2>3
<1>3. top \div by \in Nat /\ by * (top \div by) <= top /\ top < by * (top \div by) + by
  <2> HIDE DEF top, by
  <2> QED BY <1>2
<1>4. top \div by <= p
  <2>1. SUFFICES ASSUME top \div by >= p + 1 PROVE FALSE
    BY <1>3
  <2>2. by * (top \div by) >= by * (p + 1)
    BY <1>2, <1>3, <2>1
  <2>3. by * (p + 1) = by * p + by
    BY <1>2
  <2>4. by * p \in Nat
    BY <1>2
  <2> HIDE DEF by, top
  <2> QED BY <1>2, <1>3, <2>2, <2>3, <2>4
<1>5. ASSUME part = total PROVE top \div by >= p
  <2>1. SUFFICES ASSUME top \div by + 1 <= p PROVE FALSE
    BY <1>3
  <2>2. by * (top \div by + 1) <= by * p
    BY <1>2, <1>3, <2>1
  <2>3. by * (top \div by + 1) = by * (top \div by) + by
    BY <1>2, <1>3
  <2>4. by * p \in Nat /\ by * (top \div by) \in Nat
    BY <1>2, <1>3
  <2> HIDE DEF by, top
  <2> QED BY <1>2, <1>3, <1>5, <2>2, <2>3, <2>4
<1>6. Share(p, part, total) = top \div by
  BY DEF Share
<1> HIDE DEF top, by
<1> QED BY <1>3, <1>4, <1>5, <1>6

LEMMA PackagesAreProper == \A m \in Declared \cup Undeclared : Proper(m)
<1>1. ASSUME NEW m \in Declared PROVE Proper(m)
  <2>0. PICK n \in CaseCounts : m \in
          {[points |-> [c \in 1 .. n |-> IF p[c] = Omitted THEN DefaultPoints(n) ELSE p[c]],
            group |-> g, cap |-> cap, mode |-> mode, partial |-> partial] :
             p \in [1 .. n -> CasePoints], g \in [1 .. n -> GroupIds], cap \in [GroupIds -> GroupPoints],
             mode \in [GroupIds -> Modes], partial \in BOOLEAN}
    BY DEF Declared
  <2>1. PICK p \in [1 .. n -> CasePoints], g \in [1 .. n -> GroupIds],
             cap \in [GroupIds -> GroupPoints], mode \in [GroupIds -> Modes], partial \in BOOLEAN :
          m = [points |-> [c \in 1 .. n |-> IF p[c] = Omitted THEN DefaultPoints(n) ELSE p[c]],
               group |-> g, cap |-> cap, mode |-> mode, partial |-> partial]
    BY <2>0
  <2>2. n \in Nat \ {0} /\ IsFiniteSet(1 .. n) /\ 1 .. n # {}
    <3>1. n \in Nat \ {0}
      BY ScoringAssumption
    <3>2. IsFiniteSet(1 .. n) /\ 1 \in 1 .. n
      BY <3>1, FS_Interval
    <3> QED BY <3>1, <3>2
  <2>3. DefaultPoints(n) \in Nat
    <3>1. FullPoints \div n \in Nat
      BY <2>2, ScoringAssumption
    <3> QED BY <3>1, RoundingIsMonotone DEF DefaultPoints
  <2>4. [c \in 1 .. n |-> IF p[c] = Omitted THEN DefaultPoints(n) ELSE p[c]] \in [1 .. n -> Nat]
    BY <2>3, ScoringAssumption
  <2>5. cap \in [GroupIds -> Nat] /\ mode \in [GroupIds -> {"sum", "min"}] /\ IsFiniteSet(GroupIds)
    BY ScoringAssumption
  <2> QED BY <2>1, <2>2, <2>4, <2>5 DEF Proper, CasesOf, GroupsOf
<1>2. ASSUME NEW m \in Undeclared PROVE Proper(m)
  <2>1. PICK d \in Declared, partial \in BOOLEAN :
          m = [points |-> d.points, group |-> [c \in DOMAIN d.points |-> "default"],
               cap |-> [g \in {"default"} |-> RoundToCent(SumFunction(d.points))],
               mode |-> [g \in {"default"} |-> "sum"], partial |-> partial]
    BY DEF Undeclared
  <2> DEFINE C == DOMAIN d.points
  <2>2. IsFiniteSet(C) /\ C # {} /\ d.points \in [C -> Nat]
    BY <1>1 DEF Proper, CasesOf
  <2>3. SumFunction(d.points) \in Nat
    BY <2>2, SumNat
  <2>4. [g \in {"default"} |-> RoundToCent(SumFunction(d.points))] \in [{"default"} -> Nat]
    BY <2>3, RoundingIsMonotone
  <2>5. IsFiniteSet({"default"})
    BY FS_Singleton
  <2> HIDE DEF C
  <2> QED BY <2>1, <2>2, <2>4, <2>5 DEF Proper, CasesOf, GroupsOf, C
<1> QED BY <1>1, <1>2

\* A case never earns more than its points, and an accepted case that claims all
\* or nothing earns all of them.
LEMMA CaseScoreBounded ==
  ASSUME NEW m, Proper(m), NEW c \in CasesOf(m), NEW r, r.points \in Int, r.total \in Int
  PROVE  /\ CaseScore(m, c, r) \in Nat
         /\ CaseScore(m, c, r) <= m.points[c]
         /\ r.status = "AC" /\ (r.points <= 0 \/ r.points >= Total(m, c, r)) =>
              CaseScore(m, c, r) = m.points[c]
<1> DEFINE p == m.points[c]
           total == Total(m, c, r)
           claimed == IF r.status \in {"AC", "PT"} THEN r.points ELSE 0
           earned == IF r.status = "AC" /\ claimed <= 0 THEN total ELSE claimed
           part == Clamp(earned, 0, total)
<1>1. p \in Nat /\ total \in Int /\ claimed \in Int /\ earned \in Int
  BY DEF Proper, Total
<1>2. total > 0 => part \in 0 .. total
  <2> HIDE DEF total, claimed, earned
  <2> QED BY <1>1 DEF Clamp
<1>3. r.status = "AC" /\ (r.points <= 0 \/ r.points >= total) /\ total > 0 => part = total
  <2> HIDE DEF total
  <2> QED BY <1>1 DEF Clamp
<1>4. CaseScore(m, c, r) = IF total > 0 THEN Share(p, part, total)
                           ELSE IF r.status = "AC" THEN p ELSE 0
  BY DEF CaseScore
<1> HIDE DEF p, total, part, claimed, earned
<1>5. total > 0 => /\ Share(p, part, total) \in Nat /\ Share(p, part, total) <= p
                   /\ part = total => Share(p, part, total) = p
  BY <1>1, <1>2, ShareIsPart
<1> QED BY <1>1, <1>3, <1>4, <1>5 DEF p, total

\* The score of a case by its number; nothing for a case that is not reported.
Earned(m, rs) == [c \in CasesOf(m) |-> IF c \in DOMAIN rs THEN CaseScore(m, c, rs[c]) ELSE 0]

LEMMA EarnedBounded ==
  ASSUME NEW m, Proper(m), NEW rs, Reported(m, rs)
  PROVE  /\ Earned(m, rs) \in [CasesOf(m) -> Nat]
         /\ \A c \in CasesOf(m) : Earned(m, rs)[c] <= m.points[c]
  <1>1. ASSUME NEW c \in CasesOf(m)
        PROVE  Earned(m, rs)[c] \in Nat /\ Earned(m, rs)[c] <= m.points[c]
    <2>1. m.points[c] \in Nat
      BY DEF Proper
    <2>2. CASE c \in DOMAIN rs
      BY <2>2, CaseScoreBounded DEF Earned, Reported
    <2> QED BY <2>1, <2>2 DEF Earned
  <1> QED BY <1>1 DEF Earned

\* The raw score of a group, before its cap.
RawScore(m, s, g) ==
  IF InGroup(m, g) = {} THEN 0
  ELSE IF m.mode[g] = "min" THEN Min({s[c] : c \in InGroup(m, g)})
  ELSE SumFunction([c \in InGroup(m, g) |-> s[c]])

LEMMA GroupScoreIs ==
  ASSUME NEW m, NEW rs, NEW g
  PROVE  GroupScore(m, rs, g) = Min({RawScore(m, Earned(m, rs), g), m.cap[g]})
<1> DEFINE s == [c \in InGroup(m, g) |-> IF c \in DOMAIN rs THEN CaseScore(m, c, rs[c]) ELSE 0]
           t == [c \in InGroup(m, g) |-> Earned(m, rs)[c]]
<1>1. InGroup(m, g) \subseteq CasesOf(m)
  BY DEF InGroup
<1>2. s = t
  BY <1>1 DEF Earned
<1>3. {s[c] : c \in DOMAIN s} = {Earned(m, rs)[c] : c \in InGroup(m, g)}
  BY <1>2
<1>4. GroupScore(m, rs, g) =
        Min({IF InGroup(m, g) = {} THEN 0
             ELSE IF m.mode[g] = "min" THEN Min({s[c] : c \in DOMAIN s}) ELSE SumFunction(s), m.cap[g]})
  BY DEF GroupScore
<1> HIDE DEF s
<1> QED BY <1>2, <1>3, <1>4 DEF RawScore

LEMMA RawScoreBounded ==
  ASSUME NEW m, Proper(m), NEW s \in [CasesOf(m) -> Nat], NEW g \in GroupsOf(m)
  PROVE  RawScore(m, s, g) \in Nat
<1> DEFINE I == InGroup(m, g)
<1>1. I \subseteq CasesOf(m) /\ IsFiniteSet(I)
  BY FS_Subset DEF InGroup, Proper
<1>2. [c \in I |-> s[c]] \in [I -> Nat] /\ {s[c] : c \in I} \in SUBSET Nat
  BY <1>1
<1>3. SumFunction([c \in I |-> s[c]]) \in Nat
  <2> HIDE DEF I
  <2> QED BY <1>1, <1>2, SumNat
<1>4. I # {} => Min({s[c] : c \in I}) \in Nat
  BY <1>2, SmallestOfNaturals
<1> QED BY <1>3, <1>4 DEF RawScore

LEMMA RawScoreIsMonotone ==
  ASSUME NEW m, Proper(m), NEW s \in [CasesOf(m) -> Nat], NEW t \in [CasesOf(m) -> Nat],
         \A c \in CasesOf(m) : s[c] <= t[c], NEW g \in GroupsOf(m)
  PROVE  RawScore(m, s, g) <= RawScore(m, t, g)
<1> DEFINE I == InGroup(m, g)
           si == [c \in I |-> s[c]]
           ti == [c \in I |-> t[c]]
<1>1. I \subseteq CasesOf(m) /\ IsFiniteSet(I)
  BY FS_Subset DEF InGroup, Proper
<1>2. si \in [I -> Int] /\ ti \in [I -> Int] /\ \A c \in I : si[c] <= ti[c]
  BY <1>1
<1>3. SumFunction(si) <= SumFunction(ti)
  <2> HIDE DEF I, si, ti
  <2> QED BY <1>1, <1>2, SumsCompare
<1>4. ASSUME I # {} PROVE Min({s[c] : c \in I}) <= Min({t[c] : c \in I})
  <2> DEFINE low == {s[c] : c \in I}
             high == {t[c] : c \in I}
  <2>1. low \in SUBSET Nat /\ high \in SUBSET Nat /\ low # {} /\ high # {}
    BY <1>1, <1>4
  <2>2. PICK c \in I : Min(high) = t[c]
    BY <2>1, SmallestOfNaturals
  <2>3. Min(low) \in Nat /\ Min(low) <= s[c]
    <3>1. s[c] \in low
      OBVIOUS
    <3> HIDE DEF low, high
    <3> QED BY <2>1, <3>1, SmallestOfNaturals
  <2>4. s[c] \in Nat /\ t[c] \in Nat /\ s[c] <= t[c]
    BY <1>1
  <2> HIDE DEF low, high
  <2>5. Min(low) <= Min(high)
    BY <2>2, <2>3, <2>4
  <2> QED BY <2>5 DEF low, high
<1> HIDE DEF si, ti
<1> QED BY <1>3, <1>4 DEF RawScore, si, ti

LEMMA GroupScoreBounded ==
  ASSUME NEW m, Proper(m), NEW rs, Reported(m, rs), NEW g \in GroupsOf(m)
  PROVE  GroupScore(m, rs, g) \in Nat /\ GroupScore(m, rs, g) <= m.cap[g]
<1>1. RawScore(m, Earned(m, rs), g) \in Nat /\ m.cap[g] \in Nat
  BY RawScoreBounded, EarnedBounded DEF Proper
<1> DEFINE raw == RawScore(m, Earned(m, rs), g)
<1>2. Min({raw, m.cap[g]}) = IF raw <= m.cap[g] THEN raw ELSE m.cap[g]
  BY <1>1, SmallerOfTwo
<1>3. GroupScore(m, rs, g) = Min({raw, m.cap[g]})
  BY GroupScoreIs
<1> HIDE DEF raw
<1> QED BY <1>1, <1>2, <1>3 DEF raw

\* No score falls when no case's does.
LEMMA GroupScoreIsMonotone ==
  ASSUME NEW m, Proper(m), NEW rs, Reported(m, rs), NEW rs2, Reported(m, rs2),
         \A c \in CasesOf(m) : Earned(m, rs)[c] <= Earned(m, rs2)[c], NEW g \in GroupsOf(m)
  PROVE  GroupScore(m, rs, g) <= GroupScore(m, rs2, g)
<1>1. Earned(m, rs) \in [CasesOf(m) -> Nat] /\ Earned(m, rs2) \in [CasesOf(m) -> Nat]
  BY EarnedBounded
<1>2. /\ RawScore(m, Earned(m, rs), g) \in Nat /\ RawScore(m, Earned(m, rs2), g) \in Nat
      /\ RawScore(m, Earned(m, rs), g) <= RawScore(m, Earned(m, rs2), g)
      /\ m.cap[g] \in Nat
  BY <1>1, RawScoreBounded, RawScoreIsMonotone DEF Proper
<1> DEFINE raw == RawScore(m, Earned(m, rs), g)
           raw2 == RawScore(m, Earned(m, rs2), g)
<1>3. /\ Min({raw, m.cap[g]}) = IF raw <= m.cap[g] THEN raw ELSE m.cap[g]
      /\ Min({raw2, m.cap[g]}) = IF raw2 <= m.cap[g] THEN raw2 ELSE m.cap[g]
  BY <1>2, SmallerOfTwo
<1>4. GroupScore(m, rs, g) = Min({raw, m.cap[g]}) /\ GroupScore(m, rs2, g) = Min({raw2, m.cap[g]})
  BY GroupScoreIs
<1> HIDE DEF raw, raw2
<1> QED BY <1>2, <1>3, <1>4 DEF raw, raw2

GroupScores(m, rs) == [g \in GroupsOf(m) |-> GroupScore(m, rs, g)]

LEMMA PointsBounded ==
  ASSUME NEW m, Proper(m), NEW rs, Reported(m, rs)
  PROVE  /\ GroupScores(m, rs) \in [GroupsOf(m) -> Int]
         /\ SumFunction(GroupScores(m, rs)) \in Nat
         /\ RawPoints(m, rs) = RoundToCent(SumFunction(GroupScores(m, rs)))
         /\ RawPoints(m, rs) \in Nat
<1>1. GroupScores(m, rs) \in [GroupsOf(m) -> Nat] /\ IsFiniteSet(GroupsOf(m))
  BY GroupScoreBounded DEF GroupScores, Proper
<1>2. SumFunction(GroupScores(m, rs)) \in Nat
  BY <1>1, SumNat
<1>3. RawPoints(m, rs) = RoundToCent(SumFunction(GroupScores(m, rs)))
  BY DEF RawPoints, GroupScores
<1> QED BY <1>1, <1>2, <1>3, RoundingIsMonotone

LEMMA PointsAreMonotone ==
  ASSUME NEW m, Proper(m), NEW rs, Reported(m, rs), NEW rs2, Reported(m, rs2),
         \A c \in CasesOf(m) : Earned(m, rs)[c] <= Earned(m, rs2)[c]
  PROVE  RawPoints(m, rs) <= RawPoints(m, rs2)
<1>1. \A g \in GroupsOf(m) : GroupScores(m, rs)[g] <= GroupScores(m, rs2)[g]
  BY GroupScoreIsMonotone DEF GroupScores
<1>2. IsFiniteSet(GroupsOf(m))
  BY DEF Proper
<1>3. SumFunction(GroupScores(m, rs)) <= SumFunction(GroupScores(m, rs2))
  BY <1>1, <1>2, PointsBounded, SumsCompare
<1> QED BY <1>3, PointsBounded, RoundingIsMonotone

-----------------------------------------------------------------------------
(* Verdicts *)

LEMMA VerdictOfTheWorst ==
  ASSUME NEW rs, Worst(rs) # {}
  PROVE  /\ Severity[Min(Worst(rs))] # "AC"
         /\ Severity[Min(Worst(rs))] \in Errors => HasError(rs)
<1>1. DOMAIN Severity = 1 .. 6 /\ \A i \in 1 .. 6 : Severity[i] # "AC"
  BY DEF Severity
<1>2. Worst(rs) \in SUBSET Nat
  BY <1>1 DEF Worst
<1>3. Min(Worst(rs)) \in Worst(rs)
  BY <1>2, SmallestOfNaturals
<1>4. PICK c \in DOMAIN rs : rs[c].status = Severity[Min(Worst(rs))]
  BY <1>3 DEF Worst
<1>5. Min(Worst(rs)) \in 1 .. 6
  BY <1>1, <1>3 DEF Worst
<1> QED BY <1>1, <1>4, <1>5 DEF HasError

LEMMA NoneIsWorse ==
  ASSUME NEW rs
  PROVE  Worst(rs) = {} <=> \A c \in DOMAIN rs, i \in DOMAIN Severity : rs[c].status # Severity[i]
  BY DEF Worst

\* When a submission is accepted.
LEMMA AcceptedIs ==
  ASSUME NEW m, NEW rs, DOMAIN rs \subseteq CasesOf(m)
  PROVE  /\ Result(m, rs) = "AC" <=> Aggregate(m, rs) = "AC"
         /\ Aggregate(m, rs) = "AC" <=>
              /\ Passed(rs) = CasesOf(m)
              /\ TotalPossible(m) <= 0 \/ Reaches(m, RawPoints(m, rs))
<1>1. Result(m, rs) = "AC" <=> Aggregate(m, rs) = "AC"
  BY DEF Result, AllOrNothing
<1>2. Passed(rs) = CasesOf(m) => Worst(rs) = {}
  <2>1. \A i \in DOMAIN Severity : Severity[i] # "AC"
    BY DEF Severity
  <2> QED BY <2>1, NoneIsWorse DEF Passed
<1>3. Worst(rs) # {} => Aggregate(m, rs) # "AC"
  BY VerdictOfTheWorst DEF Aggregate
<1> DEFINE Enough == TotalPossible(m) <= 0 \/ Reaches(m, RawPoints(m, rs))
<1>4. Worst(rs) = {} => (Aggregate(m, rs) = "AC" <=> Passed(rs) = CasesOf(m) /\ Enough)
  BY DEF Aggregate
<1> HIDE DEF Enough
<1>5. Aggregate(m, rs) = "AC" <=> Passed(rs) = CasesOf(m) /\ Enough
  BY <1>2, <1>3, <1>4
<1> QED BY <1>1, <1>5 DEF Enough

LEMMA PointsAre ==
  ASSUME NEW m, Proper(m), NEW rs, ~HasError(rs)
  PROVE  Points(m, rs) = IF m.partial \/ Aggregate(m, rs) = "AC" THEN RawPoints(m, rs) ELSE 0
<1>1. Aggregate(m, rs) \notin Errors
  <2>1. CASE Worst(rs) = {}
    BY <2>1 DEF Aggregate, Errors
  <2>2. CASE Worst(rs) # {}
    BY <2>2, VerdictOfTheWorst DEF Aggregate
  <2> QED BY <2>1, <2>2
<1>2. m.partial \in BOOLEAN
  BY DEF Proper
<1> QED BY <1>1, <1>2 DEF Points, AllOrNothing, Errors

-----------------------------------------------------------------------------
(* Theorems *)

\* The rows of a submission are reports on the cases of its package.
Graded ==
  /\ package \in Declared \cup Undeclared
  /\ DOMAIN rows \subseteq CasesOf(package)
  /\ \A c \in DOMAIN rows : rows[c] \in Reports

LEMMA GradedRows == Graded => Proper(package) /\ Reported(package, rows)
  BY PackagesAreProper, ScoringAssumption DEF Graded, Reported

LEMMA GradeStarts == GradeInit => Graded
  BY DEF GradeInit, Graded

LEMMA GradeStep == Graded /\ [GradeNext]_gradeVars => Graded'
<1> SUFFICES ASSUME Graded, [GradeNext]_gradeVars PROVE Graded'
  OBVIOUS
<1>1. ASSUME NEW c \in CasesOf(package), NEW r \in Reports, Post(c, r) PROVE Graded'
  <2>1. package' = package /\ rows' = [d \in DOMAIN rows \cup {c} |-> IF d = c THEN r ELSE rows[d]]
    BY <1>1 DEF Post
  <2>2. CasesOf(package)' = CasesOf(package)
    BY <2>1 DEF CasesOf
  <2>3. DOMAIN rows' = DOMAIN rows \cup {c}
    BY <2>1
  <2>4. \A d \in DOMAIN rows' : rows'[d] \in Reports
    BY <2>1, <2>3 DEF Graded
  <2> QED BY <2>1, <2>2, <2>3, <2>4 DEF Graded
<1>2. CASE UNCHANGED gradeVars
  BY <1>2 DEF gradeVars, Graded, CasesOf
<1> QED BY <1>1, <1>2 DEF GradeNext

\* The rows that are scored are reports on cases of the manifest (record_cases
\* has no other rows for the importer's packages).
THEOREM GradeHolds == GradeSpec => []Graded
  BY GradeStarts, GradeStep, PTL DEF GradeSpec

LEMMA AcceptingCostsNothing ==
  ASSUME Graded, Graded', package' = package
  PROVE  AcceptingStep
<1> SUFFICES ASSUME NEW c \in CasesOf(package), BecomesAccepted(c)
             PROVE  /\ Points(package, rows') >= Points(package, rows)
                    /\ Result(package, rows) = "AC" => Result(package, rows') = "AC"
  BY DEF AcceptingStep
<1> PICK m : m = package
  OBVIOUS
<1> PICK rs : rs = rows
  OBVIOUS
<1> PICK rs2 : rs2 = rows'
  OBVIOUS
<1>1. Proper(m) /\ Reported(m, rs) /\ Reported(m, rs2)
  <2>1. Reported(package, rows) /\ Proper(package)
    BY GradedRows
  <2>2. DOMAIN rows' \subseteq CasesOf(package) /\ \A d \in DOMAIN rows' : rows'[d] \in Reports
    BY DEF Graded, CasesOf
  <2>3. Reported(package, rows')
    BY <2>2, ScoringAssumption DEF Reported
  <2> QED BY <2>1, <2>3
<1>2. /\ ~HasError(rs) /\ c \in DOMAIN rs2 /\ rs2[c].status = "AC"
      /\ rs2[c].points <= 0 \/ rs2[c].points >= Total(m, c, rs2[c])
      /\ \A d \in CasesOf(m) \ {c} :
           (d \in DOMAIN rs <=> d \in DOMAIN rs2) /\ (d \in DOMAIN rs => rs2[d] = rs[d])
  BY DEF BecomesAccepted
<1>3. DOMAIN rs \subseteq CasesOf(m) /\ DOMAIN rs2 \subseteq CasesOf(m)
  BY <1>1 DEF Reported
<1>4. \A d \in CasesOf(m) : Earned(m, rs)[d] <= Earned(m, rs2)[d]
  <2>1. Earned(m, rs2)[c] = m.points[c]
    BY <1>1, <1>2, CaseScoreBounded DEF Earned, Reported
  <2>2. ASSUME NEW d \in CasesOf(m) \ {c} PROVE Earned(m, rs2)[d] = Earned(m, rs)[d]
    BY <1>2 DEF Earned
  <2>3. \A d \in CasesOf(m) : Earned(m, rs)[d] \in Nat /\ Earned(m, rs)[d] <= m.points[d]
    BY <1>1, EarnedBounded
  <2> QED BY <2>1, <2>2, <2>3
<1>5. /\ RawPoints(m, rs) <= RawPoints(m, rs2)
      /\ RawPoints(m, rs) \in Nat /\ RawPoints(m, rs2) \in Nat
  BY <1>1, <1>4, PointsAreMonotone, PointsBounded
<1>6. TotalPossible(m) \in Int
  BY <1>1, SumNat DEF Proper, TotalPossible
<1>7. Passed(rs) = CasesOf(m) => Passed(rs2) = CasesOf(m)
  BY <1>2, <1>3 DEF Passed
<1>8. Aggregate(m, rs) = "AC" => Aggregate(m, rs2) = "AC"
  <2>1. /\ Aggregate(m, rs) = "AC" => Passed(rs) = CasesOf(m)
        /\ Aggregate(m, rs) = "AC" => TotalPossible(m) <= 0 \/ Reaches(m, RawPoints(m, rs))
    BY <1>3, AcceptedIs
  <2>2. Aggregate(m, rs2) = "AC" <=>
          Passed(rs2) = CasesOf(m) /\ (TotalPossible(m) <= 0 \/ Reaches(m, RawPoints(m, rs2)))
    BY <1>3, AcceptedIs
  <2>3. Reaches(m, RawPoints(m, rs)) => Reaches(m, RawPoints(m, rs2))
    BY <1>5, <1>6 DEF Reaches
  <2> QED BY <1>7, <2>1, <2>2, <2>3
<1>9. ~HasError(rs2)
  BY <1>2, <1>3 DEF HasError, Errors
<1>10. Points(m, rs2) >= Points(m, rs)
  <2>1. /\ Points(m, rs) = IF m.partial \/ Aggregate(m, rs) = "AC" THEN RawPoints(m, rs) ELSE 0
        /\ Points(m, rs2) = IF m.partial \/ Aggregate(m, rs2) = "AC" THEN RawPoints(m, rs2) ELSE 0
    BY <1>1, <1>2, <1>9, PointsAre
  <2> QED BY <1>5, <1>8, <2>1
<1>11. Result(m, rs) = "AC" => Result(m, rs2) = "AC"
  BY <1>3, <1>8, AcceptedIs
<1> QED BY <1>10, <1>11

\* A judge that reports one more case as accepted, with all of its points, never
\* lowers the score nor takes the verdict away: rounding, caps, groups that count
\* their worst case and packages without partial scores included.
THEOREM AcceptingHolds == GradeSpec => AcceptingNeverCosts
<1>1. Graded /\ Graded' /\ [GradeNext]_gradeVars => [AcceptingStep]_gradeVars
  <2> SUFFICES ASSUME Graded, Graded', GradeNext PROVE AcceptingStep
    OBVIOUS
  <2>1. package' = package
    BY DEF GradeNext, Post
  <2> QED BY <2>1, AcceptingCostsNothing
<1> QED BY <1>1, GradeHolds, PTL DEF GradeSpec, AcceptingNeverCosts

\* Groups are worth whole hundredths of a point, and so is what an accepted case
\* earns; else the rounding of the sum can hide what a group lacks.
WholeHundredths == \A m \in Declared \cup Undeclared :
  /\ \A g \in GroupsOf(m) : m.cap[g] % Cent = 0
  /\ \A c \in CasesOf(m), r \in Reports : r.status = "AC" => CaseScore(m, c, r) % Cent = 0

LEMMA WholeRawScore ==
  ASSUME NEW m, Proper(m), NEW s \in [CasesOf(m) -> Nat], NEW g \in GroupsOf(m),
         \A c \in CasesOf(m) : s[c] % Cent = 0
  PROVE  RawScore(m, s, g) % Cent = 0
<1> DEFINE I == InGroup(m, g)
           si == [c \in I |-> s[c]]
           points == {s[c] : c \in I}
<1>1. I \subseteq CasesOf(m) /\ IsFiniteSet(I)
  BY FS_Subset DEF InGroup, Proper
<1>2. si \in [I -> Int] /\ \A c \in I : si[c] % Cent = 0
  BY <1>1
<1>3. SumFunction(si) % Cent = 0
  <2>1. Cent \in Nat \ {0}
    BY DEF Cent
  <2> HIDE DEF I, si
  <2> QED BY <1>1, <1>2, <2>1, SumOfMultiples
<1>4. ASSUME I # {} PROVE Min(points) % Cent = 0
  <2>1. points \in SUBSET Nat /\ points # {} /\ \A x \in points : x % Cent = 0
    BY <1>1, <1>4
  <2> HIDE DEF points
  <2> QED BY <2>1, SmallestOfNaturals
<1>5. 0 % Cent = 0
  BY DEF Cent
<1> HIDE DEF si, points
<1> QED BY <1>3, <1>4, <1>5 DEF RawScore, si, points

LEMMA FullAndAccepted ==
  ASSUME WholeHundredths, Graded
  PROVE  AcceptedIffFull
<1> PICK m : m = package
  OBVIOUS
<1> PICK rs : rs = rows
  OBVIOUS
<1>1. /\ Proper(m) /\ Reported(m, rs) /\ m \in Declared \cup Undeclared
      /\ DOMAIN rs \subseteq CasesOf(m) /\ \A c \in DOMAIN rs : rs[c] \in Reports
  BY GradedRows DEF Graded
<1> DEFINE Total0 == TotalPossible(m)
           sum == SumFunction(GroupScores(m, rs))
           Full == \A g \in GroupsOf(m) : GroupScore(m, rs, g) = m.cap[g]
<1>2. /\ Total0 = SumFunction(m.cap) /\ m.cap \in [GroupsOf(m) -> Int] /\ Total0 \in Nat
      /\ IsFiniteSet(GroupsOf(m))
  BY <1>1, SumNat DEF Proper, TotalPossible
<1>3. /\ GroupScores(m, rs) \in [GroupsOf(m) -> Int] /\ sum \in Nat
      /\ RawPoints(m, rs) = RoundToCent(sum)
  BY <1>1, PointsBounded
<1>4. \A g \in GroupsOf(m) : GroupScores(m, rs)[g] <= m.cap[g]
  BY <1>1, GroupScoreBounded DEF GroupScores
<1>5. sum <= Total0 /\ (sum = Total0 => \A g \in GroupsOf(m) : GroupScores(m, rs)[g] = m.cap[g])
  BY <1>2, <1>3, <1>4, SumsCompare
<1>6. sum = Total0 => Full
  BY <1>5 DEF GroupScores
<1>7. Full => sum = Total0
  <2>1. Full => GroupScores(m, rs) = m.cap
    BY <1>2 DEF GroupScores
  <2> QED BY <1>2, <2>1
<1>8. Total0 % Cent = 0
  <2>1. \A g \in GroupsOf(m) : m.cap[g] % Cent = 0
    BY <1>1 DEF WholeHundredths
  <2>2. Cent \in Nat \ {0}
    BY DEF Cent
  <2> QED BY <1>2, <2>1, <2>2, SumOfMultiples
<1>9. ASSUME Passed(rs) = CasesOf(m) PROVE sum % Cent = 0
  <2>1. \A c \in CasesOf(m) : c \in DOMAIN rs /\ rs[c].status = "AC"
    BY <1>9 DEF Passed
  <2>2. \A c \in CasesOf(m) : Earned(m, rs)[c] % Cent = 0
    BY <1>1, <2>1 DEF Earned, WholeHundredths
  <2>3. Earned(m, rs) \in [CasesOf(m) -> Nat]
    BY <1>1, EarnedBounded
  <2>4. ASSUME NEW g \in GroupsOf(m) PROVE GroupScore(m, rs, g) % Cent = 0
    <3> DEFINE raw == RawScore(m, Earned(m, rs), g)
    <3>1. raw % Cent = 0 /\ raw \in Nat
      BY <1>1, <2>2, <2>3, WholeRawScore, RawScoreBounded
    <3>2. m.cap[g] % Cent = 0 /\ m.cap[g] \in Nat
      BY <1>1 DEF WholeHundredths, Proper
    <3>3. Min({raw, m.cap[g]}) = IF raw <= m.cap[g] THEN raw ELSE m.cap[g]
      BY <3>1, <3>2, SmallerOfTwo
    <3>4. GroupScore(m, rs, g) = Min({raw, m.cap[g]})
      BY GroupScoreIs
    <3> HIDE DEF raw
    <3> QED BY <3>1, <3>2, <3>3, <3>4
  <2>5. \A g \in GroupsOf(m) : GroupScores(m, rs)[g] % Cent = 0
    BY <2>4 DEF GroupScores
  <2>6. Cent \in Nat \ {0}
    BY DEF Cent
  <2> QED BY <1>2, <1>3, <2>5, <2>6, SumOfMultiples
\* Nothing adds up to more than itself if it adds up to 0.
<1>10. m.cap \in Above => Total0 > 0
  <2> SUFFICES ASSUME m.cap \in Above PROVE Total0 # 0
    BY <1>2
  <2>1. PICK g \in DOMAIN m.cap : m.cap[g] > 0
    BY ScoringAssumption
  <2> DEFINE zero == [h \in GroupsOf(m) |-> 0]
  <2>2. zero \in [GroupsOf(m) -> Int] /\ (\A h \in GroupsOf(m) : zero[h] <= m.cap[h])
    BY <1>1 DEF Proper
  <2>3. g \in GroupsOf(m) /\ zero[g] # m.cap[g]
    BY <2>1 DEF GroupsOf
  <2>4. SumFunction(zero) = 0
    BY <1>2, SumZero
  <2> HIDE DEF zero
  <2> QED BY <1>2, <2>2, <2>3, <2>4, SumsCompare
<1> HIDE DEF Total0, sum, Full
<1>11. ASSUME Passed(rs) = CasesOf(m)
       PROVE  (Total0 <= 0 \/ Reaches(m, RawPoints(m, rs))) <=> Full /\ m.cap \notin Above
  <2>1. RawPoints(m, rs) = sum
    BY <1>3, <1>9, <1>11, RoundingIsMonotone
  <2>2. Reaches(m, sum) <=> sum > Total0 \/ (sum = Total0 /\ m.cap \notin Above)
    BY DEF Reaches, Total0
  <2> QED BY <1>2, <1>3, <1>5, <1>6, <1>7, <1>10, <2>1, <2>2
<1>12. Result(m, rs) = "AC" <=> Passed(rs) = CasesOf(m) /\ (Total0 <= 0 \/ Reaches(m, RawPoints(m, rs)))
  BY <1>1, AcceptedIs DEF Total0
<1>13. Result(m, rs) = "AC" <=> Passed(rs) = CasesOf(m) /\ Full /\ m.cap \notin Above
  BY <1>11, <1>12
<1> QED BY <1>13 DEF AcceptedIffFull, Full

\* Where points are whole hundredths, a submission is accepted exactly when every
\* case is and every group has all of its points: comparing the sum of the groups
\* with the sum of their caps compares each group with its cap.  Packages whose
\* points add up to more in floats accept nothing.
THEOREM AcceptedHolds == ASSUME WholeHundredths PROVE GradeSpec => []AcceptedIffFull
<1>1. Graded => AcceptedIffFull
  BY FullAndAccepted
<1> QED BY <1>1, GradeHolds, PTL

=============================================================================
