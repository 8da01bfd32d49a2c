-------------------------- MODULE ShadowReplayProofs --------------------------
(***************************************************************************)
(* Proofs about shadow replays, for any number of replays, workers and     *)
(* upsets: a verdict is that of one execution (OneReplay), and only upsets *)
(* repeat a replay (AttemptsExplained).                                    *)
(*                                                                         *)
(* The server believes a caller for its name.  Unless a call of an earlier *)
(* round came in between, a worker that the row names works under the      *)
(* latest claim (LatestClaim), since nobody works under a claim still to   *)
(* come (PastClaims).  So the cases are of the latest claim when a finish  *)
(* of the latest claim is sent, and stay so (CasesFirst).                  *)
(*                                                                         *)
(* An attempt is explained by what ended the one before: the upset of its  *)
(* worker, or the one that left a poll on its way.  Only the attempt that  *)
(* a live worker holds, or that ended the replay, is not (Explained).      *)
(***************************************************************************)
EXTENDS ShadowReplay, FiniteSetTheorems, TLAPS

Resting == {"idle", "claim", "down"}

Row == [status : {"absent", "queued"} \cup Active \cup Final, by : Workers \cup {Nobody},
        target : Workers \cup {Nobody}, lease : Nat, attempts : Nat, cases : Reports,
        result : Verdicts \cup {"none", "CE", "IE"}]
Loop == [pc : Calls \cup Resting \cup {"exec"}, job : Replays \cup {NoReplay},
         report : Reports, under : Nat]
Message == [call : Calls \cup {"claim"}, by : Workers, job : Replays \cup {NoReplay},
            report : Reports, under : Nat]

STypeOK ==
  /\ replay \in [Replays -> Row]
  /\ worker \in [Workers -> Loop]
  /\ late \subseteq Message
  /\ claims \in [Replays -> Nat]

\* What is true of a call, and of a worker about to make it: it is about a replay,
\* under a claim that was made, and its cases are of that claim.
CallOK(c) ==
  /\ c.job \in Replays
  /\ c.under <= claims[c.job]
  /\ c.call = "cases" => c.report.under = c.under

WorkerOK(l) ==
  /\ (l.pc \in Resting) <=> (l.job = NoReplay)
  /\ l.job # NoReplay => l.under <= claims[l.job]
  /\ l.pc = "cases" => l.report.under = l.under

PastClaims ==
  /\ \A w \in Workers : WorkerOK(worker[w])
  /\ \A m \in late : m.call # "claim" => CallOK(m)

LatestClaim ==
  \A w \in Workers, r \in Replays \ overtaken :
    worker[w].job = r /\ replay[r].by = w => worker[w].under = claims[r]

OfLatest(r) == replay[r].cases.under = claims[r]

CasesFirst ==
  /\ \A w \in Workers, r \in Replays \ overtaken :
       worker[w].pc = "finish" /\ worker[w].job = r /\ worker[w].under = claims[r] => OfLatest(r)
  /\ \A m \in late, r \in Replays \ overtaken :
       m.call = "finish" /\ m.job = r /\ m.under = claims[r] => OfLatest(r)

SInv == STypeOK /\ PastClaims /\ LatestClaim /\ CasesFirst /\ OneExecutionPerReplay

-----------------------------------------------------------------------------
(* What the server does to the rows *)

\* The row r is as it was, or free again.
AtMostFreed(r) ==
  /\ replay'[r].cases = replay[r].cases
  /\ replay'[r].result = replay[r].result
  /\ replay'[r].by \in {replay[r].by, Nobody}
  /\ replay'[r].status = "succeeded" => replay[r].status = "succeeded"

\* The sweep frees rows and does nothing else to them.
LEMMA SweptFrees ==
  ASSUME STypeOK, NEW r \in Replays
  PROVE  /\ Swept(r) \in Row
         /\ Swept(r).cases = replay[r].cases
         /\ Swept(r).result = replay[r].result
         /\ Swept(r).by \in {replay[r].by, Nobody}
         /\ Swept(r).status = "succeeded" => replay[r].status = "succeeded"
<1>1. replay[r] \in Row
  BY DEF STypeOK
<1> QED BY <1>1 DEF Swept, Row

\* A claim names one worker in one row and counts itself.
LEMMA ClaimEffect ==
  ASSUME STypeOK, NEW r \in Replays, NEW w \in Workers, Claim(r, w)
  PROVE  /\ replay' \in [Replays -> Row]
         /\ \A q \in Replays \ {r} : AtMostFreed(q)
         /\ replay'[r].by = w /\ replay'[r].status = "claimed"
         /\ claims' \in [Replays -> Nat]
         /\ claims'[r] = claims[r] + 1
         /\ \A q \in Replays \ {r} : claims'[q] = claims[q]
<1>1. \A q \in Replays : Swept(q) \in Row
  BY SweptFrees
<1> DEFINE old == Swept(r)
           new == [old EXCEPT !.status = "claimed", !.by = w,
                              !.attempts = @ + 1, !.lease = LeaseTicks]
<1>2. new \in Row /\ new.by = w /\ new.status = "claimed"
  <2>1. old \in Row
    BY <1>1
  <2> HIDE DEF old
  <2> DEFINE n == old.attempts + 1
  <2>2. n \in Nat /\ LeaseTicks \in Nat
    BY <2>1, ReplayAssumption DEF Row
  <2>3. new = [old EXCEPT !.status = "claimed", !.by = w, !.attempts = n, !.lease = LeaseTicks]
    OBVIOUS
  <2> HIDE DEF n
  <2> QED BY <2>1, <2>2, <2>3 DEF Row, Active
<1>3. replay' = [q \in Replays |-> IF q = r THEN new ELSE Swept(q)]
  BY DEF Claim
<1> HIDE DEF new
<1>4. \A q \in Replays \ {r} : AtMostFreed(q)
  BY <1>3, SweptFrees DEF AtMostFreed
<1>5. /\ claims' \in [Replays -> Nat]
      /\ claims'[r] = claims[r] + 1
      /\ \A q \in Replays \ {r} : claims'[q] = claims[q]
  BY DEF Claim, STypeOK
<1> QED BY <1>1, <1>2, <1>3, <1>4, <1>5

\* A claim that finds nothing only frees rows.
LEMMA NothingEffect ==
  ASSUME STypeOK, NEW w \in Workers, ClaimNothing(w)
  PROVE  replay' \in [Replays -> Row] /\ claims' = claims /\ \A q \in Replays : AtMostFreed(q)
BY SweptFrees DEF ClaimNothing, AtMostFreed

\* An accepted call changes the row it is about: only "cases" writes the cases, and
\* only "finish" makes the row succeed, with the verdict of its cases.
LEMMA AcceptEffect ==
  ASSUME STypeOK, NEW m, m.job \in Replays, m.report \in Reports, Accept(m)
  PROVE  /\ replay' \in [Replays -> Row]
         /\ claims' = claims
         /\ \A q \in Replays \ {m.job} : replay'[q] = replay[q]
         /\ replay[m.job].by = m.by
         /\ replay'[m.job].by = m.by
         /\ replay'[m.job].cases = IF m.call = "cases" THEN m.report ELSE replay[m.job].cases
         /\ replay'[m.job].status = "succeeded" =>
              m.call = "finish" /\ replay'[m.job].result = replay'[m.job].cases.verdict
<1>1. replay[m.job] \in Row /\ claims' = claims /\ replay[m.job].by = m.by
  BY DEF STypeOK, Accept, Owns
<1> DEFINE Good(row) ==
      /\ row \in Row
      /\ row.by = replay[m.job].by
      /\ row.cases = IF m.call = "cases" THEN m.report ELSE replay[m.job].cases
      /\ row.status = "succeeded" => m.call = "finish" /\ row.result = row.cases.verdict
<1>2. PICK row : replay' = [replay EXCEPT ![m.job] = row] /\ Good(row)
  <2>1. CASE m.call = "start"
    <3>1. replay' = [replay EXCEPT ![m.job] = Started(replay[m.job])]
      BY <2>1 DEF Accept
    <3>2. Good(Started(replay[m.job]))
      BY <1>1, <2>1, ReplayAssumption DEF Started, Row, Active
    <3> QED BY <3>1, <3>2
  <2>2. CASE m.call = "cases"
    <3>1. replay' = [replay EXCEPT ![m.job] = Recorded(replay[m.job], m.report)]
      BY <2>2 DEF Accept
    <3>2. Good(Recorded(replay[m.job], m.report))
      BY <1>1, <2>2, ReplayAssumption DEF Recorded, Started, Row, Active
    <3> QED BY <3>1, <3>2
  <2>3. CASE m.call = "finish"
    <3>1. replay' = [replay EXCEPT ![m.job] = Finished(replay[m.job])]
      BY <2>3 DEF Accept
    <3>2. replay[m.job].cases.verdict \in Verdicts \cup {"none"}
      BY <1>1 DEF Row, Reports
    <3>3. Good(Finished(replay[m.job]))
      BY <1>1, <2>3, <3>2 DEF Finished, Row, Final
    <3> QED BY <3>1, <3>3
  <2>4. CASE m.call = "fail"
    <3>1. PICK code \in {"CE", "IE"} :
                 replay' = [replay EXCEPT ![m.job] = FailedWith(replay[m.job], code)]
      BY <2>4 DEF Accept
    <3>2. Good(FailedWith(replay[m.job], code))
      BY <1>1, <2>4 DEF FailedWith, Row, Final
    <3> QED BY <3>1, <3>2
  <2> HIDE DEF Good
  <2> QED BY <2>1, <2>2, <2>3, <2>4 DEF Accept
<1>3. replay'[m.job] = row /\ \A q \in Replays \ {m.job} : replay'[q] = replay[q]
  BY <1>2 DEF STypeOK
<1>4. replay' \in [Replays -> Row]
  BY <1>2 DEF STypeOK
<1> QED BY <1>1, <1>2, <1>3, <1>4

-----------------------------------------------------------------------------
(* The steps *)

\* The rows keep what has been proved of them while they are at most freed.
LEMMA RowsKeep ==
  ASSUME SInv, \A q \in Replays : AtMostFreed(q), claims' = claims, overtaken' = overtaken
  PROVE  OneExecutionPerReplay' /\ \A r \in Replays : OfLatest(r) => OfLatest(r)'
BY DEF SInv, OneExecutionPerReplay, AtMostFreed, OfLatest

\* A worker gives up what it does and rests; its call may stay on its way.
LEMMA RestKeeps ==
  ASSUME SInv, NEW w \in Workers, NEW l \in Loop, l.pc \in Resting, l.job = NoReplay,
         worker' = [worker EXCEPT ![w] = l],
         \/ late' = late
         \/ worker[w].pc \in Calls \cup {"claim"} /\ late' = late \cup {InFlight(w)},
         replay' \in [Replays -> Row], \A q \in Replays : AtMostFreed(q),
         claims' = claims, overtaken' = overtaken
  PROVE  SInv'
<1> USE DEF SInv
<1>1. worker[w] \in Loop /\ WorkerOK(worker[w])
  BY DEF STypeOK, PastClaims
<1>2. worker'[w] = l /\ \A x \in Workers : x # w => worker'[x] = worker[x]
  BY DEF STypeOK
<1>3. \A m \in late' : \/ m \in late
                       \/ worker[w].pc \in Calls \cup {"claim"} /\ m = InFlight(w)
  OBVIOUS
<1>4. worker[w].pc \in Calls \cup {"claim"} => InFlight(w) \in Message
  BY <1>1 DEF InFlight, Message, Loop
<1>5. STypeOK'
  BY <1>2, <1>3, <1>4 DEF STypeOK
<1>6. PastClaims'
  <2>1. ASSUME NEW x \in Workers PROVE WorkerOK(worker[x])'
    <3>1. CASE x = w
      BY <1>2, <3>1 DEF WorkerOK, Resting
    <3>2. CASE x # w
      BY <1>2, <3>2 DEF WorkerOK, PastClaims
    <3> QED BY <3>1, <3>2
  <2>2. ASSUME NEW m \in late', m.call # "claim" PROVE CallOK(m)'
    <3>1. CASE m \in late
      BY <2>2, <3>1 DEF CallOK, PastClaims
    <3>2. CASE worker[w].pc \in Calls /\ m = InFlight(w)
      <4>1. worker[w].job \in Replays
        BY <1>1, <3>2 DEF WorkerOK, Calls, Resting, Loop
      <4> QED BY <1>1, <3>2, <4>1, ReplayAssumption DEF WorkerOK, InFlight, CallOK
    <3> QED BY <1>3, <2>2, <3>1, <3>2 DEF InFlight
  <2> QED BY <2>1, <2>2 DEF PastClaims
<1>7. LatestClaim'
  BY <1>2, ReplayAssumption DEF LatestClaim, AtMostFreed
<1>8. \A r \in Replays : OfLatest(r) => OfLatest(r)'
  BY RowsKeep
<1>9. CasesFirst'
  <2>1. \A x \in Workers, r \in Replays \ overtaken' :
          worker'[x].pc = "finish" /\ worker'[x].job = r /\ worker'[x].under = claims'[r]
            => OfLatest(r)'
    BY <1>2, <1>8 DEF CasesFirst, Resting
  <2>2. \A m \in late', r \in Replays \ overtaken' :
          m.call = "finish" /\ m.job = r /\ m.under = claims'[r] => OfLatest(r)'
    BY <1>3, <1>8 DEF CasesFirst, InFlight
  <2> QED BY <2>1, <2>2 DEF CasesFirst
<1> QED BY <1>5, <1>6, <1>7, <1>9, RowsKeep

\* A claim, whether its worker still waits for it or not.
LEMMA ClaimKeeps ==
  ASSUME SInv, NEW r \in Replays, NEW w \in Workers, Claim(r, w),
         late' \subseteq late,
         \/ /\ worker' = [worker EXCEPT ![w].pc = "start", ![w].job = r, ![w].under = claims[r] + 1]
            /\ overtaken' = overtaken
         \/ /\ worker' = worker
            /\ overtaken' = IF worker[w].job = r THEN overtaken \cup {r} ELSE overtaken
  PROVE  SInv'
<1> USE DEF SInv
<1>1. /\ replay' \in [Replays -> Row]
      /\ \A q \in Replays \ {r} : AtMostFreed(q) /\ claims'[q] = claims[q]
      /\ replay'[r].by = w /\ replay'[r].status = "claimed"
      /\ claims' \in [Replays -> Nat]
      /\ claims'[r] = claims[r] + 1
  BY ClaimEffect
<1>2. \A x \in Workers : worker[x] \in Loop /\ WorkerOK(worker[x])
  BY DEF STypeOK, PastClaims
<1>3. claims \in [Replays -> Nat] /\ \A m \in late : m \in Message /\ (m.call # "claim" => CallOK(m))
  BY DEF STypeOK, PastClaims
<1>4. /\ worker' \in [Workers -> Loop]
      /\ \A x \in Workers \ {w} : worker'[x] = worker[x]
      /\ \/ worker'[w] = worker[w] /\ (worker[w].job = r => r \in overtaken')
         \/ worker'[w].pc = "start" /\ worker'[w].job = r /\ worker'[w].under = claims'[r]
      /\ overtaken \subseteq overtaken'
  <2>1. CASE /\ worker' = worker
             /\ overtaken' = IF worker[w].job = r THEN overtaken \cup {r} ELSE overtaken
    BY <2>1 DEF STypeOK
  <2>2. CASE /\ worker' = [worker EXCEPT ![w].pc = "start", ![w].job = r,
                                         ![w].under = claims[r] + 1]
             /\ overtaken' = overtaken
    <3> DEFINE l == [worker[w] EXCEPT !.pc = "start", !.job = r, !.under = claims[r] + 1]
    <3>1. l \in Loop /\ l.pc = "start" /\ l.job = r /\ l.under = claims[r] + 1
      <4>1. worker[w] \in Loop /\ claims[r] + 1 \in Nat
        BY <1>2, <1>3
      <4> QED BY <4>1 DEF Loop, Calls
    <3>2. worker' = [worker EXCEPT ![w] = l] /\ overtaken' = overtaken
      BY <2>2, <1>2 DEF STypeOK, Loop
    <3> HIDE DEF l
    <3> QED BY <3>1, <3>2, <1>1 DEF STypeOK
  <2> QED BY <2>1, <2>2
<1>5. STypeOK'
  BY <1>1, <1>4 DEF STypeOK
<1>6. PastClaims'
  <2>1. \A q \in Replays : claims[q] <= claims'[q]
    BY <1>1, <1>3
  <2>2. ASSUME NEW x \in Workers PROVE WorkerOK(worker[x])'
    <3>1. CASE worker'[x] = worker[x]
      <4>1. worker[x].job # NoReplay => worker[x].job \in Replays /\ worker[x].under \in Nat
        BY <1>2 DEF Loop
      <4> QED BY <1>1, <1>2, <1>3, <2>1, <3>1, <4>1 DEF WorkerOK
    <3>2. CASE worker'[x].pc = "start" /\ worker'[x].job = r /\ worker'[x].under = claims'[r]
      BY <1>1, <1>3, <3>2, ReplayAssumption DEF WorkerOK, Resting
    <3> QED BY <1>4, <3>1, <3>2
  <2>3. ASSUME NEW m \in late', m.call # "claim" PROVE CallOK(m)'
    <3>1. CallOK(m) /\ m.under \in Nat
      BY <1>3, <2>3 DEF Message
    <3> QED BY <1>1, <1>3, <2>1, <3>1 DEF CallOK
  <2> QED BY <2>2, <2>3 DEF PastClaims
<1>7. LatestClaim'
  <2> SUFFICES ASSUME NEW x \in Workers, NEW q \in Replays \ overtaken',
                      worker'[x].job = q, replay'[q].by = x
               PROVE  worker'[x].under = claims'[q]
    BY DEF LatestClaim
  <2>1. CASE q = r
    BY <1>1, <1>4, <2>1
  <2>2. CASE q # r
    <3>1. worker'[x] = worker[x]
      BY <1>4, <2>2
    <3>2. replay[q].by = x
      BY <1>1, <2>2, ReplayAssumption DEF AtMostFreed
    <3> QED BY <1>1, <1>4, <2>2, <3>1, <3>2 DEF LatestClaim
  <2> QED BY <2>1, <2>2
<1>8. \A q \in Replays \ {r} : OfLatest(q) => OfLatest(q)'
  BY <1>1 DEF OfLatest, AtMostFreed
<1>9. CasesFirst'
  <2>1. ASSUME NEW x \in Workers, NEW q \in Replays \ overtaken',
               worker'[x].pc = "finish", worker'[x].job = q, worker'[x].under = claims'[q]
        PROVE  OfLatest(q)'
    <3>1. worker'[x] = worker[x]
      BY <1>4, <2>1
    <3>2. q # r
      BY <1>1, <1>2, <1>3, <2>1, <3>1, ReplayAssumption DEF WorkerOK, Loop
    <3> QED BY <1>1, <1>4, <1>8, <2>1, <3>1, <3>2 DEF CasesFirst
  <2>2. ASSUME NEW m \in late', NEW q \in Replays \ overtaken',
               m.call = "finish", m.job = q, m.under = claims'[q]
        PROVE  OfLatest(q)'
    <3>1. q # r
      BY <1>1, <1>3, <2>2 DEF CallOK, Message
    <3> QED BY <1>1, <1>4, <1>8, <2>2, <3>1 DEF CasesFirst
  <2> QED BY <2>1, <2>2 DEF CasesFirst
<1>10. OneExecutionPerReplay'
  BY <1>1, <1>4 DEF OneExecutionPerReplay, AtMostFreed
<1> QED BY <1>5, <1>6, <1>7, <1>9, <1>10

\* An accepted call of the latest claim, or one that is marked as overtaking.
LEMMA AcceptKeeps ==
  ASSUME SInv, NEW m \in Message, CallOK(m), Accept(m),
         worker' \in [Workers -> Loop],
         \A x \in Workers :
           \/ worker'[x] = worker[x]
           \/ worker'[x].pc \in Resting /\ worker'[x].job = NoReplay
           \/ /\ worker'[x].pc \in {"exec", "finish"}
              /\ worker'[x].job = worker[x].job /\ worker'[x].under = worker[x].under
              /\ worker[x].job = m.job
              /\ worker'[x].pc = "finish" => m.call = "cases",
         late' \subseteq late,
         m.under # claims[m.job] => m.job \in overtaken',
         overtaken \subseteq overtaken',
         m.call = "finish" /\ m.job \notin overtaken' => OfLatest(m.job)
  PROVE  SInv'
<1> USE DEF SInv
<1>1. /\ replay' \in [Replays -> Row]
      /\ claims' = claims
      /\ \A q \in Replays \ {m.job} : replay'[q] = replay[q]
      /\ replay[m.job].by = m.by
      /\ replay'[m.job].by = m.by
      /\ replay'[m.job].cases = IF m.call = "cases" THEN m.report ELSE replay[m.job].cases
      /\ replay'[m.job].status = "succeeded" =>
           m.call = "finish" /\ replay'[m.job].result = replay'[m.job].cases.verdict
  BY AcceptEffect DEF Message, CallOK
<1>2. m.job \in Replays /\ (m.call = "cases" => m.report.under = m.under)
  BY DEF CallOK
<1>3. STypeOK'
  BY <1>1 DEF STypeOK
<1>4. \A x \in Workers : worker[x] \in Loop /\ WorkerOK(worker[x])
  BY DEF STypeOK, PastClaims
<1>5. PastClaims'
  <2>1. ASSUME NEW x \in Workers PROVE WorkerOK(worker[x])'
    <3>1. CASE worker'[x] = worker[x]
      BY <1>1, <1>4, <3>1 DEF WorkerOK
    <3>2. CASE worker'[x].pc \in Resting /\ worker'[x].job = NoReplay
      BY <3>2 DEF WorkerOK, Resting
    <3>3. CASE /\ worker'[x].pc \in {"exec", "finish"}
               /\ worker'[x].job = worker[x].job /\ worker'[x].under = worker[x].under
               /\ worker[x].job = m.job
      BY <1>1, <1>2, <1>4, <3>3, ReplayAssumption DEF WorkerOK, Resting
    <3> QED BY <3>1, <3>2, <3>3
  <2>2. ASSUME NEW c \in late', c.call # "claim" PROVE CallOK(c)'
    BY <1>1, <2>2 DEF PastClaims, CallOK
  <2> QED BY <2>1, <2>2 DEF PastClaims
<1>6. LatestClaim'
  <2> SUFFICES ASSUME NEW x \in Workers, NEW q \in Replays \ overtaken',
                      worker'[x].job = q, replay'[q].by = x
               PROVE  worker'[x].under = claims'[q]
    BY DEF LatestClaim
  <2>1. replay[q].by = x
    BY <1>1, <1>2
  <2>2. worker[x].job = q /\ worker'[x].under = worker[x].under
    BY ReplayAssumption
  <2> QED BY <1>1, <2>1, <2>2 DEF LatestClaim
<1>7. \A q \in Replays \ overtaken' : OfLatest(q) => OfLatest(q)'
  BY <1>1, <1>2 DEF OfLatest
<1>8. m.call = "cases" /\ m.job \notin overtaken' => OfLatest(m.job)'
  BY <1>1, <1>2 DEF OfLatest
<1>9. CasesFirst'
  <2>1. ASSUME NEW x \in Workers, NEW q \in Replays \ overtaken',
               worker'[x].pc = "finish", worker'[x].job = q, worker'[x].under = claims'[q]
        PROVE  OfLatest(q)'
    <3>1. CASE worker'[x] = worker[x]
      BY <1>1, <1>7, <2>1, <3>1 DEF CasesFirst
    <3>2. CASE worker'[x] # worker[x]
      BY <1>8, <2>1, <3>2 DEF Resting
    <3> QED BY <3>1, <3>2
  <2>2. ASSUME NEW c \in late', NEW q \in Replays \ overtaken',
               c.call = "finish", c.job = q, c.under = claims'[q]
        PROVE  OfLatest(q)'
    BY <1>1, <1>7, <2>2 DEF CasesFirst
  <2> QED BY <2>1, <2>2 DEF CasesFirst
<1>10. OneExecutionPerReplay'
  <2> SUFFICES ASSUME NEW q \in Replays \ overtaken', replay'[q].status = "succeeded"
               PROVE  OfLatest(q)' /\ replay'[q].result = replay'[q].cases.verdict
    BY DEF OneExecutionPerReplay, OfLatest
  <2>1. CASE q = m.job
    BY <1>1, <1>7, <2>1
  <2>2. CASE q # m.job
    BY <1>1, <2>2 DEF OneExecutionPerReplay, OfLatest
  <2> QED BY <2>1, <2>2
<1> QED BY <1>3, <1>5, <1>6, <1>9, <1>10

-----------------------------------------------------------------------------
(* The theorem *)

\* The first state has no claims and no calls.
LEMMA SInvInit == Init => SInv
<1> SUFFICES ASSUME Init PROVE SInv
  OBVIOUS
<1>1. STypeOK
  BY DEF Init, STypeOK, Row, Loop, Absent, Idle, NoReport, Reports, Resting
<1>2. PastClaims
  BY DEF Init, PastClaims, WorkerOK, Idle, Resting
<1>3. LatestClaim /\ CasesFirst
  BY ReplayAssumption DEF Init, LatestClaim, CasesFirst, Idle
<1>4. OneExecutionPerReplay
  BY DEF Init, OneExecutionPerReplay, Absent
<1> QED BY <1>1, <1>2, <1>3, <1>4 DEF SInv

\* Each step keeps the invariant.
LEMMA SInvStep == SInv /\ [Next]_vars => SInv'
<1> SUFFICES ASSUME SInv, [Next]_vars PROVE SInv'
  OBVIOUS
<1>types. STypeOK /\ \A w \in Workers : worker[w] \in Loop /\ WorkerOK(worker[w])
  BY DEF SInv, STypeOK, PastClaims
<1>idle. Idle \in Loop /\ Idle.pc \in Resting /\ Idle.job = NoReplay
  BY DEF Idle, Loop, NoReport, Reports, Resting
<1>same. replay' = replay => replay' \in [Replays -> Row] /\ \A q \in Replays : AtMostFreed(q)
  BY <1>types DEF STypeOK, AtMostFreed
<1>1. ASSUME NEW w \in Workers, Poll(w) PROVE SInv'
  <2> DEFINE l == [worker[w] EXCEPT !.pc = "claim"]
  <2>1. l \in Loop /\ l.pc \in Resting /\ l.job = NoReplay /\ worker' = [worker EXCEPT ![w] = l]
    BY <1>1, <1>types DEF Poll, Loop, WorkerOK, Resting
  <2> HIDE DEF l
  <2> QED BY <1>1, <1>same, <2>1, RestKeeps DEF Poll
<1>2. ASSUME NEW w \in Workers, Claimed(w) PROVE SInv'
  <2>1. CASE ClaimNothing(w) /\ worker' = [worker EXCEPT ![w] = Idle]
    <3>1. replay' \in [Replays -> Row] /\ claims' = claims /\ \A q \in Replays : AtMostFreed(q)
      BY <1>types, <2>1, NothingEffect
    <3> QED BY <1>2, <1>idle, <2>1, <3>1, RestKeeps DEF Claimed
  <2>2. ASSUME NEW r \in Replays, Claim(r, w),
               worker' = [worker EXCEPT ![w].pc = "start", ![w].job = r, ![w].under = claims[r] + 1]
        PROVE  SInv'
    BY <1>2, <2>2, ClaimKeeps DEF Claimed
  <2> QED BY <1>2, <2>1, <2>2 DEF Claimed
<1>3. ASSUME NEW w \in Workers, Execute(w) PROVE SInv'
  <2>1. PICK l \in Loop : /\ worker' = [worker EXCEPT ![w] = l]
                          /\ l.pc \in {"cases", "fail"}
                          /\ l.job = worker[w].job /\ l.under = worker[w].under
                          /\ l.pc = "cases" => l.report.under = l.under
    <3>1. CASE worker' = [worker EXCEPT ![w].pc = "fail"]
      <4> DEFINE l == [worker[w] EXCEPT !.pc = "fail"]
      <4>1. l \in Loop /\ l.pc = "fail" /\ l.job = worker[w].job /\ l.under = worker[w].under
        BY <1>types DEF Loop, Calls
      <4>2. worker' = [worker EXCEPT ![w] = l]
        BY <3>1
      <4> HIDE DEF l
      <4> QED BY <4>1, <4>2
    <3>2. ASSUME NEW v \in Verdicts,
                 worker' = [worker EXCEPT ![w].pc = "cases",
                              ![w].report = [verdict |-> v, under |-> worker[w].under]]
          PROVE  \E l \in Loop : /\ worker' = [worker EXCEPT ![w] = l]
                                 /\ l.pc \in {"cases", "fail"}
                                 /\ l.job = worker[w].job /\ l.under = worker[w].under
                                 /\ l.pc = "cases" => l.report.under = l.under
      <4> DEFINE p == [verdict |-> v, under |-> worker[w].under]
                 l == [worker[w] EXCEPT !.pc = "cases", !.report = p]
      <4>1. p \in Reports /\ p.under = worker[w].under
        BY <1>types DEF Loop, Reports
      <4> HIDE DEF p
      <4>2. l \in Loop /\ l.pc = "cases" /\ l.report = p /\ l.job = worker[w].job
              /\ l.under = worker[w].under
        BY <1>types, <4>1 DEF Loop, Calls
      <4>3. worker' = [worker EXCEPT ![w] = l]
        BY <1>types, <3>2 DEF STypeOK, Loop, p
      <4> HIDE DEF l
      <4> QED BY <4>1, <4>2, <4>3
    <3> QED BY <1>3, <3>1, <3>2 DEF Execute
  <2>2. worker'[w] = l /\ \A x \in Workers : x # w => worker'[x] = worker[x]
    BY <2>1, <1>types DEF STypeOK
  <2>3. UNCHANGED <<replay, late, claims, overtaken>> /\ worker[w].pc = "exec"
    BY <1>3 DEF Execute
  <2>4. STypeOK'
    BY <1>types, <2>1, <2>3 DEF STypeOK
  <2>5. PastClaims'
    <3>1. WorkerOK(l)
      BY <1>types, <2>1, <2>3 DEF WorkerOK, Resting
    <3>2. \A x \in Workers : WorkerOK(worker[x])'
      BY <1>types, <2>2, <2>3, <3>1 DEF WorkerOK
    <3> QED BY <2>3, <3>2 DEF SInv, PastClaims, CallOK
  <2>6. LatestClaim'
    BY <2>1, <2>2, <2>3 DEF SInv, LatestClaim
  <2>7. CasesFirst'
    BY <2>1, <2>2, <2>3 DEF SInv, CasesFirst, OfLatest
  <2>8. OneExecutionPerReplay'
    BY <2>3 DEF SInv, OneExecutionPerReplay
  <2> QED BY <2>4, <2>5, <2>6, <2>7, <2>8 DEF SInv
<1>4. ASSUME NEW w \in Workers, Answered(w) PROVE SInv'
  <2> DEFINE m == InFlight(w)
  <2>1. /\ worker[w].pc \in Calls /\ Accept(m) /\ UNCHANGED <<late, overtaken>>
        /\ worker[w].job \in Replays
    BY <1>4, <1>types DEF Answered, WorkerOK, Loop, Calls, Resting
  <2>2. /\ m \in Message /\ m.job = worker[w].job /\ m.by = w
        /\ m.under = worker[w].under /\ m.call = worker[w].pc /\ m.report = worker[w].report
    BY <1>types, <2>1 DEF InFlight, Message, Loop
  <2>3. CallOK(m)
    BY <1>types, <2>1, <2>2, ReplayAssumption DEF CallOK, WorkerOK
  <2> HIDE DEF m
  <2>4. PICK l \in Loop :
          /\ worker' = [worker EXCEPT ![w] = l]
          /\ \/ l = Idle
             \/ /\ l.pc \in {"exec", "finish"}
                /\ l.job = worker[w].job /\ l.under = worker[w].under
                /\ l.pc = "finish" => worker[w].pc = "cases"
    <3>1. CASE worker[w].pc = "start"
      <4> DEFINE l == [worker[w] EXCEPT !.pc = "exec"]
      <4>1. l \in Loop /\ l.pc = "exec" /\ l.job = worker[w].job /\ l.under = worker[w].under
        BY <1>types DEF Loop
      <4>2. worker' = [worker EXCEPT ![w] = l]
        BY <1>4, <3>1 DEF Answered
      <4> HIDE DEF l
      <4> QED BY <4>1, <4>2
    <3>2. CASE worker[w].pc = "cases"
      <4> DEFINE l == [worker[w] EXCEPT !.pc = "finish"]
      <4>1. l \in Loop /\ l.pc = "finish" /\ l.job = worker[w].job /\ l.under = worker[w].under
        BY <1>types DEF Loop, Calls
      <4>2. worker' = [worker EXCEPT ![w] = l]
        BY <1>4, <3>2 DEF Answered
      <4> HIDE DEF l
      <4> QED BY <3>2, <4>1, <4>2
    <3>3. CASE worker[w].pc \notin {"start", "cases"}
      <4>1. worker' = [worker EXCEPT ![w] = Idle]
        BY <1>4, <3>3 DEF Answered
      <4> QED BY <4>1, <1>idle
    <3> QED BY <3>1, <3>2, <3>3
  <2>5. worker'[w] = l /\ \A x \in Workers : x # w => worker'[x] = worker[x]
    BY <2>4, <1>types DEF STypeOK
  <2>6. worker' \in [Workers -> Loop]
    BY <2>4, <1>types DEF STypeOK
  <2>7. \A x \in Workers :
           \/ worker'[x] = worker[x]
           \/ worker'[x].pc \in Resting /\ worker'[x].job = NoReplay
           \/ /\ worker'[x].pc \in {"exec", "finish"}
              /\ worker'[x].job = worker[x].job /\ worker'[x].under = worker[x].under
              /\ worker[x].job = m.job
              /\ worker'[x].pc = "finish" => m.call = "cases"
    BY <1>idle, <2>2, <2>4, <2>5
  \* A worker that is believed works under the latest claim.
  <2>8. m.job \notin overtaken => m.under = claims[m.job]
    <3>1. replay[m.job].by = w
      BY <2>1, <2>2 DEF Accept, Owns
    <3> QED BY <2>1, <2>2, <3>1 DEF SInv, LatestClaim
  <2>9. m.call = "finish" /\ m.job \notin overtaken => OfLatest(m.job)
    BY <2>1, <2>2, <2>8 DEF SInv, CasesFirst
  <2> QED BY <2>1, <2>2, <2>3, <2>6, <2>7, <2>8, <2>9, AcceptKeeps
<1>5. ASSUME NEW w \in Workers, Refused(w) \/ Restart(w) PROVE SInv'
  BY <1>5, <1>idle, <1>same, RestKeeps DEF Refused, Restart
<1>6. ASSUME NEW w \in Workers, Fault(w) PROVE SInv'
  BY <1>6, <1>idle, <1>same, RestKeeps DEF Fault, Abandon
<1>7. ASSUME NEW w \in Workers, Crash(w) PROVE SInv'
  <2> DEFINE l == [Idle EXCEPT !.pc = "down"]
  <2>1. l \in Loop /\ l.pc \in Resting /\ l.job = NoReplay
    BY DEF Idle, Loop, NoReport, Reports, Resting
  <2>2. worker' = [worker EXCEPT ![w] = l]
    BY <1>7 DEF Crash
  <2> HIDE DEF l
  <2> QED BY <1>7, <1>same, <2>1, <2>2, RestKeeps DEF Crash, Abandon
\* What changes rows without anybody's claim or call.
<1>quiet. ASSUME replay' \in [Replays -> Row], \A q \in Replays : AtMostFreed(q),
                 UNCHANGED <<worker, claims, overtaken>>, late' \subseteq late
          PROVE  SInv'
  <2>1. STypeOK'
    BY <1>types, <1>quiet DEF STypeOK
  <2>2. PastClaims'
    BY <1>quiet DEF SInv, PastClaims, WorkerOK, CallOK
  <2>3. LatestClaim'
    BY <1>quiet, ReplayAssumption DEF SInv, LatestClaim, AtMostFreed
  <2>4. OneExecutionPerReplay' /\ \A r \in Replays : OfLatest(r) => OfLatest(r)'
    BY <1>quiet, RowsKeep
  <2>5. CasesFirst'
    BY <1>quiet, <2>4 DEF SInv, CasesFirst
  <2> QED BY <2>1, <2>2, <2>3, <2>4, <2>5 DEF SInv
<1>8. ASSUME NEW m \in late, Deliver(m) PROVE SInv'
  <2>1. late' \subseteq late /\ worker' = worker /\ m \in Message /\ (m.call # "claim" => CallOK(m))
    BY <1>8 DEF Deliver, SInv, STypeOK, PastClaims
  <2>2. m.by \in Workers /\ worker' \in [Workers -> Loop]
    BY <2>1, <1>types DEF Message, STypeOK
  <2>3. ASSUME NEW r \in Replays, Claim(r, m.by),
               overtaken' = IF worker[m.by].job = r THEN overtaken \cup {r} ELSE overtaken
        PROVE  SInv'
    BY <2>1, <2>2, <2>3, ClaimKeeps
  <2>4. CASE m.call = "claim" /\ ClaimNothing(m.by) /\ UNCHANGED overtaken
    BY <1>types, <1>quiet, <2>1, <2>2, <2>4, NothingEffect
  <2>5. CASE UNCHANGED <<replay, claims, overtaken>>
    BY <1>same, <1>quiet, <2>1, <2>5
  <2>6. CASE /\ m.call # "claim"
             /\ Accept(m)
             /\ overtaken' = IF m.under # claims[m.job] THEN overtaken \cup {m.job} ELSE overtaken
    <3>1. m.under # claims[m.job] => m.job \in overtaken'
      BY <2>6
    <3>2. overtaken \subseteq overtaken'
      BY <2>6
    <3>3. m.call = "finish" /\ m.job \notin overtaken' => OfLatest(m.job)
      BY <2>1, <2>6, <3>1, <3>2 DEF SInv, CasesFirst, CallOK
    <3> QED BY <2>1, <2>2, <2>6, <3>1, <3>2, <3>3, AcceptKeeps
  <2> QED BY <1>8, <2>3, <2>4, <2>5, <2>6 DEF Deliver
<1>9. ASSUME NEW r \in Replays, Create(r) PROVE SInv'
  <2>1. PICK t \in Workers \cup {Nobody} :
               replay' = [replay EXCEPT ![r].status = "queued", ![r].target = t]
    BY <1>9 DEF Create
  <2>2. replay[r] \in Row
    BY <1>types DEF STypeOK
  <2> DEFINE row == [replay[r] EXCEPT !.status = "queued", !.target = t]
  <2>3. /\ row \in Row /\ row.status = "queued"
        /\ row.cases = replay[r].cases /\ row.result = replay[r].result /\ row.by = replay[r].by
    BY <2>2 DEF Row
  <2>4. replay' = [replay EXCEPT ![r] = row]
    BY <1>types, <2>1, <2>2 DEF STypeOK, Row
  <2> HIDE DEF row
  <2>5. replay' \in [Replays -> Row] /\ \A q \in Replays : AtMostFreed(q)
    BY <1>types, <2>3, <2>4 DEF STypeOK, AtMostFreed
  <2> QED BY <1>9, <1>quiet, <2>5 DEF Create
<1>10. ASSUME Tick PROVE SInv'
  <2> DEFINE left(q) == IF replay[q].lease > 0 THEN replay[q].lease - 1 ELSE 0
  <2>1. ASSUME NEW q \in Replays
        PROVE  LET row == [replay[q] EXCEPT !.lease = left(q)]
               IN  /\ row \in Row
                   /\ row.cases = replay[q].cases /\ row.result = replay[q].result
                   /\ row.by = replay[q].by /\ row.status = replay[q].status
    <3>1. replay[q] \in Row
      BY <1>types DEF STypeOK
    <3>2. left(q) \in Nat
      BY <3>1 DEF Row
    <3> HIDE DEF left
    <3> QED BY <3>1, <3>2 DEF Row
  <2>2. replay' = [q \in Replays |-> [replay[q] EXCEPT !.lease = left(q)]]
    BY <1>10 DEF Tick
  <2> HIDE DEF left
  <2>3. replay' \in [Replays -> Row] /\ \A q \in Replays : AtMostFreed(q)
    BY <2>1, <2>2 DEF AtMostFreed
  <2> QED BY <1>10, <1>quiet, <2>3 DEF Tick
<1>11. ASSUME UNCHANGED vars PROVE SInv'
  BY <1>11, <1>quiet, <1>same DEF vars
<1> QED BY <1>1, <1>2, <1>3, <1>4, <1>5, <1>6, <1>7, <1>8, <1>9, <1>10, <1>11 DEF Next, LoopStep

\* The verdict of a replay is that of the execution made under the claim that
\* finished it, for any number of replays, workers, crashes, lost calls and
\* slow executions (OneExecutionPerReplay).
THEOREM OneReplay == Spec => []OneExecutionPerReplay
<1>1. SInv => OneExecutionPerReplay
  BY DEF SInv
<1> QED BY <1>1, SInvInit, SInvStep, PTL DEF Spec

-----------------------------------------------------------------------------
(* Attempts *)

\* A live worker has replay r, and the lease for it.
Held(r) == \E w \in Workers : worker[w].job = r /\ Owns(r, w)

\* Polls that are still on their way although their worker gave them up.
LateClaims == {m \in late : m.call = "claim"}

\* Upsets explain the attempts there are, and those that the polls on their way may
\* still make; the last attempt needs no explanation while it lasts or once it ended.
Explained(r) ==
  /\ replay[r].attempts + Cardinality(LateClaims) <= 1 + upsets
  /\ replay[r].status \notin Final /\ ~Held(r) =>
       replay[r].attempts + Cardinality(LateClaims) <= upsets

AInv ==
  /\ IsFiniteSet(late) /\ upsets \in Nat
  /\ \A r \in Replays : Explained(r)

\* Nobody's hold on row r is broken, and it does not come back from its end.
Untouched(r) ==
  /\ replay'[r].attempts = replay[r].attempts
  /\ replay[r].status \in Final => replay'[r].status \in Final
  /\ \A w \in Workers : Owns(r, w) => Owns(r, w)' \/ replay'[r].status \in Final

\* The polls on their way are finitely many, so they can be counted.
LEMMA LateCount ==
  ASSUME AInv
  PROVE  IsFiniteSet(LateClaims) /\ Cardinality(LateClaims) \in Nat
BY FS_Subset, FS_CardinalityType DEF AInv, LateClaims

\* A row stays explained while its attempts do not change and either its holder
\* keeps it, or one more upset than polls has been counted.
LEMMA RowStaysExplained ==
  ASSUME STypeOK, AInv, NEW r \in Replays,
         replay'[r].attempts = replay[r].attempts,
         replay[r].status \in Final => replay'[r].status \in Final,
         upsets' \in Nat, Cardinality(LateClaims') \in Nat,
         Cardinality(LateClaims') + upsets <= Cardinality(LateClaims) + upsets',
         \/ Held(r) => Held(r)' \/ replay'[r].status \in Final
         \/ Cardinality(LateClaims') + upsets + 1 <= Cardinality(LateClaims) + upsets'
  PROVE  Explained(r)'
<1>1. Cardinality(LateClaims) \in Nat /\ upsets \in Nat /\ Explained(r)
  BY LateCount DEF AInv
<1>2. replay[r].attempts \in Nat
  <2>1. replay[r] \in Row
    BY DEF STypeOK
  <2> QED BY <2>1 DEF Row
<1>3. replay'[r].attempts + Cardinality(LateClaims') <= 1 + upsets'
  BY <1>1, <1>2 DEF Explained
<1>4. ASSUME replay'[r].status \notin Final, ~Held(r)'
      PROVE  replay'[r].attempts + Cardinality(LateClaims') <= upsets'
  <2>1. CASE ~Held(r)
    BY <1>1, <1>2, <1>4, <2>1 DEF Explained
  <2>2. CASE Held(r)
    <3>1. Cardinality(LateClaims') + upsets + 1 <= Cardinality(LateClaims) + upsets'
      BY <1>4, <2>2
    <3> QED BY <1>1, <1>2, <3>1 DEF Explained
  <2> QED BY <2>1, <2>2
<1> QED BY <1>3, <1>4 DEF Explained

\* The sweep takes a replay from nobody who holds it.
LEMMA SweepUntouched ==
  ASSUME STypeOK, NEW r \in Replays, replay'[r] = Swept(r) PROVE Untouched(r)
<1>1. replay[r] \in Row
  BY DEF STypeOK
<1>2. CASE Stale(r)
  <2>1. replay'[r] = [replay[r] EXCEPT !.status = "queued", !.by = Nobody]
    BY <1>2 DEF Swept
  <2>2. replay'[r].attempts = replay[r].attempts
    BY <1>1, <2>1 DEF Row
  <2> QED BY <1>2, <2>2 DEF Untouched, Stale, Owns, Active, Final
<1>3. CASE ~Stale(r)
  BY <1>3 DEF Swept, Untouched, Owns
<1> QED BY <1>2, <1>3

\* What a claim may take is held by nobody.
LEMMA ClaimableIsFree ==
  ASSUME STypeOK, NEW r \in Replays, NEW w \in Workers, ForWorker(r, w)
  PROVE  replay[r].status \notin Final /\ ~Held(r)
BY DEF ForWorker, Swept, Stale, Held, Owns, Active, Final

\* A claim is one more attempt, at one replay.
LEMMA ClaimCounts ==
  ASSUME STypeOK, NEW r \in Replays, NEW w \in Workers, Claim(r, w)
  PROVE  /\ replay'[r].attempts = replay[r].attempts + 1
         /\ Owns(r, w)'
         /\ \A q \in Replays \ {r} : Untouched(q)
<1> DEFINE old == Swept(r)
           new == [old EXCEPT !.status = "claimed", !.by = w,
                              !.attempts = @ + 1, !.lease = LeaseTicks]
<1>1. old \in Row /\ old.attempts = replay[r].attempts
  <2>1. replay[r] \in Row
    BY DEF STypeOK
  <2> QED BY <2>1, SweptFrees DEF Swept, Row
<1>2. /\ new.attempts = old.attempts + 1 /\ new.by = w
      /\ new.status = "claimed" /\ new.lease = LeaseTicks
  <2> HIDE DEF old
  <2> DEFINE n == old.attempts + 1
  <2>1. new = [old EXCEPT !.status = "claimed", !.by = w, !.attempts = n, !.lease = LeaseTicks]
    OBVIOUS
  <2> HIDE DEF n
  <2>2. new.attempts = n /\ new.by = w /\ new.status = "claimed" /\ new.lease = LeaseTicks
    BY <1>1, <2>1 DEF Row
  <2> QED BY <2>2 DEF n
<1>3. replay' = [q \in Replays |-> IF q = r THEN new ELSE Swept(q)]
  BY DEF Claim
<1> HIDE DEF new
<1>4. replay'[r].attempts = replay[r].attempts + 1 /\ Owns(r, w)'
  BY <1>1, <1>2, <1>3, ReplayAssumption DEF Owns, Active
<1>5. \A q \in Replays \ {r} : Untouched(q)
  BY <1>3, SweepUntouched
<1> QED BY <1>4, <1>5

\* An accepted call is no attempt, and its worker keeps the replay or ends it.
LEMMA AcceptUntouched ==
  ASSUME STypeOK, NEW m, m.job \in Replays, m.report \in Reports, Accept(m)
  PROVE  /\ \A q \in Replays : Untouched(q)
         /\ m.call \in {"start", "cases"} => Owns(m.job, m.by)'
         /\ m.call \in {"finish", "fail"} => replay'[m.job].status \in Final
<1>1. replay[m.job] \in Row /\ replay[m.job].by = m.by /\ replay[m.job].status \in Active
  BY DEF STypeOK, Accept, Owns
<1> DEFINE Good(row) ==
      /\ row.attempts = replay[m.job].attempts
      /\ row.by = m.by
      /\ m.call \in {"start", "cases"} => row.status \in Active /\ row.lease > 0
      /\ m.call \in {"finish", "fail"} => row.status \in Final
<1>2. PICK row : replay' = [replay EXCEPT ![m.job] = row] /\ Good(row)
  <2>1. CASE m.call = "start"
    <3>1. replay' = [replay EXCEPT ![m.job] = Started(replay[m.job])]
      BY <2>1 DEF Accept
    <3>2. Good(Started(replay[m.job]))
      BY <1>1, <2>1, ReplayAssumption DEF Started, Row, Active
    <3> QED BY <3>1, <3>2
  <2>2. CASE m.call = "cases"
    <3>1. replay' = [replay EXCEPT ![m.job] = Recorded(replay[m.job], m.report)]
      BY <2>2 DEF Accept
    <3>2. Good(Recorded(replay[m.job], m.report))
      BY <1>1, <2>2, ReplayAssumption DEF Recorded, Started, Row, Active
    <3> QED BY <3>1, <3>2
  <2>3. CASE m.call = "finish"
    <3>1. replay' = [replay EXCEPT ![m.job] = Finished(replay[m.job])]
      BY <2>3 DEF Accept
    <3>2. Good(Finished(replay[m.job]))
      BY <1>1, <2>3 DEF Finished, Row, Final
    <3> QED BY <3>1, <3>2
  <2>4. CASE m.call = "fail"
    <3>1. PICK code \in {"CE", "IE"} :
                 replay' = [replay EXCEPT ![m.job] = FailedWith(replay[m.job], code)]
      BY <2>4 DEF Accept
    <3>2. Good(FailedWith(replay[m.job], code))
      BY <1>1, <2>4 DEF FailedWith, Row, Final
    <3> QED BY <3>1, <3>2
  <2> HIDE DEF Good
  <2> QED BY <2>1, <2>2, <2>3, <2>4 DEF Accept
<1>3. replay'[m.job] = row /\ \A q \in Replays \ {m.job} : replay'[q] = replay[q]
  BY <1>2 DEF STypeOK
<1>4. m.call \in {"start", "cases", "finish", "fail"}
  BY DEF Accept
<1>5. \A q \in Replays : Untouched(q)
  <2>1. ASSUME NEW q \in Replays \ {m.job} PROVE Untouched(q)
    BY <1>3, <2>1 DEF Untouched, Owns
  <2>2. Untouched(m.job)
    BY <1>1, <1>2, <1>3, <1>4 DEF Untouched, Owns, Active, Final
  <2> QED BY <2>1, <2>2
<1> QED BY <1>2, <1>3, <1>5 DEF Owns

\* The first state has no attempts.
LEMMA AInvInit == Init => AInv
<1> SUFFICES ASSUME Init PROVE AInv
  OBVIOUS
<1>1. late = {} /\ LateClaims = {} /\ upsets = 0
  BY DEF Init, LateClaims
<1>2. IsFiniteSet(late) /\ Cardinality(LateClaims) = 0
  BY <1>1, FS_EmptySet
<1>3. \A r \in Replays : replay[r].attempts = 0
  BY DEF Init, Absent
<1> QED BY <1>1, <1>2, <1>3 DEF AInv, Explained


\* Steps without an upset, and a poll given up with one, in which whoever holds a
\* replay keeps it or ends it.
LEMMA HoldersKeep ==
  ASSUME STypeOK, AInv, IsFiniteSet(late'), \A q \in Replays : Untouched(q),
         \A w \in Workers, q \in Replays : worker[w].job = q /\ Owns(q, w) =>
           worker'[w].job = q \/ replay'[q].status \in Final,
         \/ LateClaims' \subseteq LateClaims /\ upsets' = upsets
         \/ (\E x : LateClaims' = LateClaims \cup {x}) /\ upsets' = upsets + 1
  PROVE  AInv'
<1>1. IsFiniteSet(LateClaims) /\ Cardinality(LateClaims) \in Nat /\ upsets \in Nat
  BY LateCount DEF AInv
<1>2. Cardinality(LateClaims') \in Nat
      /\ upsets' \in Nat
      /\ Cardinality(LateClaims') + upsets <= Cardinality(LateClaims) + upsets'
  <2>1. CASE LateClaims' \subseteq LateClaims /\ upsets' = upsets
    <3>1. IsFiniteSet(LateClaims') /\ Cardinality(LateClaims') <= Cardinality(LateClaims)
      BY <1>1, <2>1, FS_Subset
    <3>2. Cardinality(LateClaims') \in Nat
      BY <3>1, FS_CardinalityType
    <3> QED BY <1>1, <2>1, <3>1, <3>2
  <2>2. ASSUME NEW x, LateClaims' = LateClaims \cup {x}, upsets' = upsets + 1
        PROVE  /\ Cardinality(LateClaims') \in Nat
               /\ upsets' \in Nat
               /\ Cardinality(LateClaims') + upsets <= Cardinality(LateClaims) + upsets'
    <3>1. Cardinality(LateClaims') \in {Cardinality(LateClaims), Cardinality(LateClaims) + 1}
      BY <1>1, <2>2, FS_AddElement
    <3> QED BY <1>1, <2>2, <3>1
  <2> QED BY <2>1, <2>2
<1>3. ASSUME NEW q \in Replays PROVE Explained(q)'
  <2>1. Untouched(q)
    OBVIOUS
  <2>2. Held(q) => Held(q)' \/ replay'[q].status \in Final
    BY <2>1 DEF Held, Untouched
  <2> QED BY <1>2, <2>1, <2>2, RowStaysExplained DEF Untouched
<1> QED BY <1>2, <1>3 DEF AInv

\* An upset may break every hold.
LEMMA UpsetExplains ==
  ASSUME STypeOK, AInv, IsFiniteSet(late'), LateClaims' = LateClaims, upsets' = upsets + 1,
         \A q \in Replays : /\ replay'[q].attempts = replay[q].attempts
                            /\ replay[q].status \in Final => replay'[q].status \in Final
  PROVE  AInv'
<1>1. Cardinality(LateClaims) \in Nat /\ upsets \in Nat /\ upsets' \in Nat
  BY LateCount DEF AInv
<1>2. ASSUME NEW q \in Replays PROVE Explained(q)'
  BY <1>1, RowStaysExplained
<1> QED BY <1>1, <1>2 DEF AInv

\* A claim of a live worker is held by it; one of a poll given up has been counted.
LEMMA ClaimExplained ==
  ASSUME STypeOK, AInv, NEW r \in Replays, NEW w \in Workers, Claim(r, w), upsets' = upsets,
         \/ /\ late' = late /\ worker'[w].job = r /\ worker[w].job = NoReplay
         \/ \E m \in late : m.call = "claim" /\ late' = late \ {m} /\ worker'[w].job = worker[w].job,
         \A x \in Workers \ {w} : worker'[x].job = worker[x].job
  PROVE  AInv'
<1>1. /\ replay'[r].attempts = replay[r].attempts + 1 /\ Owns(r, w)'
      /\ \A q \in Replays \ {r} : Untouched(q)
  BY ClaimCounts
<1>2. replay[r].status \notin Final /\ ~Held(r)
  BY ClaimableIsFree DEF Claim
<1>3. IsFiniteSet(LateClaims) /\ Cardinality(LateClaims) \in Nat /\ upsets \in Nat
  BY LateCount DEF AInv
<1>4. replay[r].attempts \in Nat /\ replay[r].attempts + Cardinality(LateClaims) <= upsets
  <2>1. replay[r] \in Row
    BY DEF STypeOK
  <2> QED BY <1>2, <2>1 DEF Row, AInv, Explained
<1>5. ASSUME NEW q \in Replays \ {r},
             Cardinality(LateClaims') \in Nat, Cardinality(LateClaims') <= Cardinality(LateClaims)
      PROVE  Explained(q)'
  <2>1. Untouched(q)
    BY <1>1
  <2>2. Held(q) => Held(q)' \/ replay'[q].status \in Final
    <3> SUFFICES ASSUME NEW x \in Workers, worker[x].job = q, Owns(q, x)
                 PROVE  Held(q)' \/ replay'[q].status \in Final
      BY DEF Held
    <3>1. worker'[x].job = q
      BY ReplayAssumption
    <3> QED BY <2>1, <3>1 DEF Held, Untouched
  <2> QED BY <1>3, <1>5, <2>1, <2>2, RowStaysExplained DEF Untouched
<1>6. CASE late' = late /\ worker'[w].job = r /\ worker[w].job = NoReplay
  <2>1. LateClaims' = LateClaims /\ IsFiniteSet(late')
    BY <1>6 DEF LateClaims, AInv
  <2>2. Held(r)'
    BY <1>1, <1>6 DEF Held
  <2>3. Explained(r)'
    BY <1>1, <1>3, <1>4, <2>1, <2>2 DEF Explained
  <2> QED BY <1>3, <1>5, <2>1, <2>3 DEF AInv
<1>7. ASSUME NEW m \in late, m.call = "claim", late' = late \ {m}
      PROVE  AInv'
  <2>1. LateClaims' = LateClaims \ {m} /\ m \in LateClaims /\ IsFiniteSet(late')
    BY <1>7, FS_RemoveElement DEF LateClaims, AInv
  <2>2. Cardinality(LateClaims') = Cardinality(LateClaims) - 1
        /\ Cardinality(LateClaims') \in Nat
    BY <1>3, <2>1, FS_RemoveElement, FS_CardinalityType
  <2>3. Explained(r)'
    BY <1>1, <1>3, <1>4, <2>2 DEF Explained
  <2> QED BY <1>3, <1>5, <2>1, <2>2, <2>3 DEF AInv
<1> QED BY <1>6, <1>7

\* Each step keeps the attempts explained.
LEMMA AInvStep == SInv /\ AInv /\ [Next]_vars => AInv'
<1> SUFFICES ASSUME SInv, AInv, [Next]_vars PROVE AInv'
  OBVIOUS
<1>types. STypeOK /\ \A w \in Workers : worker[w] \in Loop /\ WorkerOK(worker[w])
  BY DEF SInv, STypeOK, PastClaims
<1>finite. IsFiniteSet(late)
  BY DEF AInv
<1>same. replay' = replay => \A q \in Replays : Untouched(q)
  BY DEF Untouched, Owns
<1>resting. \A w \in Workers, q \in Replays : worker[w].pc \in Resting => worker[w].job # q
  BY <1>types, ReplayAssumption DEF WorkerOK
<1>kept. late' = late => LateClaims' = LateClaims /\ IsFiniteSet(late')
  BY <1>finite DEF LateClaims
\* One worker moves: it does not give up what it holds, unless that has ended.
<1>moves. ASSUME NEW w \in Workers, NEW l, worker' = [worker EXCEPT ![w] = l],
                 \A q \in Replays : worker[w].job = q /\ Owns(q, w) =>
                   l.job = q \/ replay'[q].status \in Final,
                 \A q \in Replays : Untouched(q), UNCHANGED <<late, upsets>>
          PROVE  AInv'
  <2>1. worker'[w] = l /\ \A x \in Workers : x # w => worker'[x] = worker[x]
    BY <1>types, <1>moves DEF STypeOK
  <2>2. \A x \in Workers, q \in Replays : worker[x].job = q /\ Owns(q, x) =>
          worker'[x].job = q \/ replay'[q].status \in Final
    BY <1>moves, <2>1
  <2> QED BY <1>types, <1>kept, <1>moves, <2>2, HoldersKeep
<1>1. ASSUME NEW w \in Workers, Poll(w) PROVE AInv'
  <2> DEFINE l == [worker[w] EXCEPT !.pc = "claim"]
  <2>1. l.job = worker[w].job /\ worker' = [worker EXCEPT ![w] = l]
    BY <1>1, <1>types DEF Poll, Loop
  <2> HIDE DEF l
  <2> QED BY <1>1, <1>same, <1>moves, <2>1 DEF Poll
<1>2. ASSUME NEW w \in Workers, Claimed(w) PROVE AInv'
  <2>1. worker[w].job = NoReplay
    BY <1>2, <1>types DEF Claimed, WorkerOK, Resting
  <2>2. CASE ClaimNothing(w) /\ worker' = [worker EXCEPT ![w] = Idle]
    <3>1. \A q \in Replays : Untouched(q)
      BY <1>types, <2>2, SweepUntouched DEF ClaimNothing
    <3> QED BY <1>2, <1>moves, <2>1, <2>2, <3>1, ReplayAssumption DEF Claimed
  <2>3. ASSUME NEW r \in Replays, Claim(r, w),
               worker' = [worker EXCEPT ![w].pc = "start", ![w].job = r, ![w].under = claims[r] + 1]
        PROVE  AInv'
    <3>1. worker'[w].job = r /\ \A x \in Workers \ {w} : worker'[x].job = worker[x].job
      BY <1>types, <2>3 DEF STypeOK, Loop
    <3> QED BY <1>2, <1>types, <2>1, <2>3, <3>1, ClaimExplained DEF Claimed
  <2> QED BY <1>2, <2>2, <2>3 DEF Claimed
<1>3. ASSUME NEW w \in Workers, Execute(w) PROVE AInv'
  <2>1. \A x \in Workers : worker'[x].job = worker[x].job
    BY <1>3, <1>types DEF Execute, STypeOK, Loop
  <2> QED BY <1>3, <1>types, <1>same, <1>kept, <2>1, HoldersKeep DEF Execute
<1>4. ASSUME NEW w \in Workers, Answered(w) PROVE AInv'
  <2> DEFINE m == InFlight(w)
  <2>1. /\ worker[w].pc \in Calls /\ Accept(m) /\ UNCHANGED <<late, upsets>>
        /\ worker[w].job \in Replays
    BY <1>4, <1>types DEF Answered, WorkerOK, Loop, Calls, Resting
  <2>2. m.job = worker[w].job /\ m.by = w /\ m.call = worker[w].pc /\ m.report \in Reports
    BY <1>types DEF InFlight, Loop
  <2> HIDE DEF m
  <2>3. /\ \A q \in Replays : Untouched(q)
        /\ m.call \in {"finish", "fail"} => replay'[m.job].status \in Final
    BY <1>types, <2>1, <2>2, AcceptUntouched
  <2>4. PICK l : /\ worker' = [worker EXCEPT ![w] = l]
                 /\ m.call \in {"start", "cases"} => l.job = worker[w].job
    <3>1. CASE worker[w].pc = "start"
      <4> DEFINE l == [worker[w] EXCEPT !.pc = "exec"]
      <4>1. l.job = worker[w].job
        BY <1>types DEF Loop
      <4>2. worker' = [worker EXCEPT ![w] = l]
        BY <1>4, <3>1 DEF Answered
      <4> HIDE DEF l
      <4> QED BY <4>1, <4>2
    <3>2. CASE worker[w].pc = "cases"
      <4> DEFINE l == [worker[w] EXCEPT !.pc = "finish"]
      <4>1. l.job = worker[w].job
        BY <1>types DEF Loop
      <4>2. worker' = [worker EXCEPT ![w] = l]
        BY <1>4, <3>2 DEF Answered
      <4> HIDE DEF l
      <4> QED BY <4>1, <4>2
    <3>3. CASE worker[w].pc \notin {"start", "cases"}
      <4>1. worker' = [worker EXCEPT ![w] = Idle]
        BY <1>4, <3>3 DEF Answered
      <4> QED BY <2>2, <3>3, <4>1
    <3> QED BY <3>1, <3>2, <3>3
  <2>5. m.call \in {"start", "cases", "finish", "fail"}
    BY <2>1, <2>2 DEF Calls
  <2> QED BY <1>moves, <2>1, <2>2, <2>3, <2>4, <2>5
<1>5. ASSUME NEW w \in Workers, Refused(w) PROVE AInv'
  BY <1>5, <1>same, <1>moves DEF Refused
<1>6. ASSUME NEW w \in Workers, Restart(w) PROVE AInv'
  BY <1>6, <1>same, <1>moves, <1>resting DEF Restart, Resting
<1>7. ASSUME NEW w \in Workers, Fault(w) \/ Crash(w) PROVE AInv'
  <2>1. /\ replay' = replay /\ upsets' = upsets + 1 /\ Abandon(w)
        /\ \A x \in Workers : x # w => worker'[x] = worker[x]
    BY <1>7, <1>types DEF Fault, Crash, Upset, STypeOK
  <2>2. IsFiniteSet(late')
    BY <1>finite, <2>1, FS_AddElement DEF Abandon
  <2>3. CASE worker[w].pc = "claim" /\ late' = late \cup {InFlight(w)}
    <3>1. LateClaims' = LateClaims \cup {InFlight(w)}
      BY <2>3 DEF LateClaims, InFlight
    <3>2. \A q \in Replays : worker[w].job # q
      BY <1>resting, <2>3 DEF Resting
    <3> QED BY <1>types, <1>same, <2>1, <2>2, <3>1, <3>2, HoldersKeep
  <2>4. CASE late' = late \/ worker[w].pc # "claim"
    <3>1. LateClaims' = LateClaims
      BY <2>1, <2>4 DEF Abandon, LateClaims, InFlight
    <3> QED BY <1>types, <2>1, <2>2, <3>1, UpsetExplains
  <2> QED BY <2>1, <2>3, <2>4 DEF Abandon
<1>8. ASSUME NEW m \in late, Deliver(m) PROVE AInv'
  <2>1. /\ late' = late \ {m} /\ UNCHANGED <<worker, upsets>>
        /\ m \in Message /\ (m.call # "claim" => CallOK(m))
    BY <1>8 DEF Deliver, SInv, STypeOK, PastClaims
  <2>2. m.by \in Workers /\ m.report \in Reports /\ IsFiniteSet(late')
        /\ LateClaims' \subseteq LateClaims
    BY <1>finite, <2>1, FS_RemoveElement DEF Message, LateClaims
  <2>3. ASSUME NEW r \in Replays, m.call = "claim", Claim(r, m.by) PROVE AInv'
    BY <1>types, <2>1, <2>2, <2>3, ClaimExplained
  <2>4. ASSUME \A q \in Replays : Untouched(q) PROVE AInv'
    BY <1>types, <2>1, <2>2, <2>4, HoldersKeep
  <2>5. CASE ClaimNothing(m.by)
    BY <1>types, <2>4, <2>5, SweepUntouched DEF ClaimNothing
  <2>6. CASE m.call # "claim" /\ Accept(m)
    BY <1>types, <2>1, <2>2, <2>4, <2>6, AcceptUntouched DEF CallOK
  <2>7. CASE UNCHANGED replay
    BY <1>same, <2>4, <2>7
  <2> QED BY <1>8, <2>3, <2>5, <2>6, <2>7 DEF Deliver
<1>9. ASSUME NEW r \in Replays, Create(r) PROVE AInv'
  <2>1. PICK t \in Workers \cup {Nobody} :
               replay' = [replay EXCEPT ![r].status = "queued", ![r].target = t]
    BY <1>9 DEF Create
  <2>2. replay[r] \in Row /\ replay[r].status = "absent"
    BY <1>9, <1>types DEF STypeOK, Create
  <2>3. replay'[r].attempts = replay[r].attempts /\ \A q \in Replays \ {r} : replay'[q] = replay[q]
    BY <1>types, <2>1, <2>2 DEF STypeOK, Row
  <2>4. \A q \in Replays : Untouched(q)
    BY <2>2, <2>3 DEF Untouched, Owns, Active, Final
  <2> QED BY <1>9, <1>types, <1>kept, <2>4, HoldersKeep DEF Create
<1>10. ASSUME Tick PROVE AInv'
  <2> DEFINE left(q) == IF replay[q].lease > 0 THEN replay[q].lease - 1 ELSE 0
  <2>1. replay' = [q \in Replays |-> [replay[q] EXCEPT !.lease = left(q)]]
    BY <1>10 DEF Tick
  <2>2. \A q \in Replays : replay[q] \in Row
    BY <1>types DEF STypeOK
  <2> HIDE DEF left
  <2>3. ASSUME NEW q \in Replays
        PROVE  /\ replay'[q].attempts = replay[q].attempts /\ replay'[q].status = replay[q].status
               /\ replay'[q].by = replay[q].by /\ replay'[q].lease = left(q)
    BY <2>1, <2>2 DEF Row
  <2>4. CASE Slow
    BY <1>10, <1>types, <1>kept, <2>3, <2>4, UpsetExplains DEF Tick, Upset
  <2>5. CASE ~Slow
    <3>1. ASSUME NEW q \in Replays PROVE Held(q) => Held(q)'
      <4> SUFFICES ASSUME NEW w \in Workers, worker[w].job = q, Owns(q, w) PROVE Held(q)'
        BY DEF Held
      <4>1. replay[q].lease \in Nat /\ replay[q].lease > 0 /\ replay[q].lease # 1
        BY <2>2, <2>5 DEF Row, Owns, Slow
      <4>2. left(q) > 0
        BY <4>1 DEF left
      <4> QED BY <1>10, <2>3, <4>2 DEF Tick, Held, Owns
    <3>2. upsets' = upsets /\ LateClaims' = LateClaims /\ IsFiniteSet(late')
      BY <1>10, <1>kept, <2>5 DEF Tick
    <3>3. Cardinality(LateClaims) \in Nat /\ upsets \in Nat
      BY LateCount DEF AInv
    <3>4. \A q \in Replays : Explained(q)'
      BY <1>types, <2>3, <3>1, <3>2, <3>3, RowStaysExplained
    <3> QED BY <3>2, <3>3, <3>4 DEF AInv
  <2> QED BY <2>4, <2>5
<1>11. CASE UNCHANGED vars
  BY <1>11, <1>types, <1>same, <1>kept, HoldersKeep DEF vars
<1> QED BY <1>1, <1>2, <1>3, <1>4, <1>5, <1>6, <1>7, <1>8, <1>9, <1>10, <1>11 DEF Next, LoopStep

\* However many replays, judges and upsets there are: each attempt at a replay but
\* one is explained by a crash, a lost call or a slow execution of its own, although
\* nothing reads max_attempts (AttemptsAreExplained).
THEOREM AttemptsExplained == Spec => []AttemptsAreExplained
<1>1. SInv /\ AInv => AttemptsAreExplained
  <2> SUFFICES ASSUME SInv, AInv, NEW r \in Replays PROVE replay[r].attempts <= 1 + upsets
    BY DEF AttemptsAreExplained
  <2>1. replay[r] \in Row
    BY DEF SInv, STypeOK
  <2> QED BY <2>1, LateCount DEF AInv, Explained, Row
<1>2. Init => SInv /\ AInv
  BY SInvInit, AInvInit
<1>3. SInv /\ AInv /\ [Next]_vars => (SInv /\ AInv)'
  BY SInvStep, AInvStep
<1> QED BY <1>1, <1>2, <1>3, PTL DEF Spec

=============================================================================
