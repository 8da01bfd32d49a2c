---------------------------- MODULE RecordsProofs ----------------------------
(***************************************************************************)
(* Proofs about the records that requests share: the members of an         *)
(* organization, the registry of the legacy bridge, the packages of a      *)
(* problem, the comments of a post, and the tokens and feeds of a user,    *)
(* for any number of each and of the requests that overlap.                *)
(*                                                                         *)
(* A request that works from what it has read is safe as long as that is   *)
(* still so when it writes, or the overlap is on record.  The invariants   *)
(* say what a request under way knows (Grounded, Informed, Aware, Dated)   *)
(* and the proofs that the steps of the others leave it true.              *)
(***************************************************************************)
EXTENDS Organizations, LegacyBridge, PackageRegistry, Community, Accounts,
        SumLemmas, FiniteSetTheorems, WellFoundedInduction, TLAPS

-----------------------------------------------------------------------------
(* The members of an organization *)

People == OrgUsers \cup OrgStaff
Verdicts == {"approved", "rejected"}
JoinRow == [user : OrgUsers, status : {"pending"} \cup Verdicts, by : People]

\* The writes that plans consist of.
OrgWrite == {<<"create">>} \cup ({"enter", "promote"} \X OrgStaff) \cup ({"ask"} \X OrgUsers)
              \cup ({"admit"} \X Nat) \cup ({"note"} \X Nat \X Verdicts \X People)

OrgTypes ==
  /\ admins \subseteq OrgStaff
  /\ joins \in Seq(JoinRow)
  /\ writes \in [OrgRequests -> Seq(OrgWrite)]

\* What a write that is still to come, as write i of plan, knows: the row it is about,
\* and that its user has been added, or is right before it, when it will say so.
Grounded(plan, i) ==
  /\ plan[i][1] \in {"admit", "note"} => plan[i][2] \in DOMAIN joins
  /\ plan[i][1] = "admit" =>
       i = 1 /\ Len(plan) = 2 /\ plan[2][1] = "note" /\ plan[2][2] = plan[1][2] /\ plan[2][3] = "approved"
  /\ plan[i][1] = "note" /\ plan[i][3] = "approved" =>
       \/ i = 1 /\ joins[plan[i][2]].user \in members
       \/ i = 2 /\ plan[1][1] = "admit"

OrgInv ==
  /\ OrgTypes
  /\ \A t \in OrgRequests : \A i \in DOMAIN writes[t] : Grounded(writes[t], i)
  /\ Membership

\* What the parts of a write are.
LEMMA WriteParts ==
  ASSUME NEW w \in OrgWrite
  PROVE  /\ w[1] \in {"create", "enter", "promote", "ask", "admit", "note"}
         /\ w[1] \in {"enter", "promote"} => w[2] \in OrgStaff
         /\ w[1] = "ask" => w[2] \in OrgUsers
         /\ w[1] = "admit" => w[2] \in Nat
         /\ w[1] = "note" => w[2] \in Nat /\ w[3] \in Verdicts /\ w[4] \in People
<1>1. CASE w = <<"create">> BY <1>1
<1>2. CASE w \in {"enter", "promote"} \X OrgStaff BY <1>2
<1>3. CASE w \in {"ask"} \X OrgUsers BY <1>3
<1>4. CASE w \in {"admit"} \X Nat BY <1>4
<1>5. CASE w \in {"note"} \X Nat \X Verdicts \X People BY <1>5
<1> QED BY <1>1, <1>2, <1>3, <1>4, <1>5 DEF OrgWrite

\* A plan is made of writes, and grounded in what its request has read.
LEMMA PlanGrounded ==
  ASSUME OrgTypes, NEW plan \in Plans
  PROVE  plan \in Seq(OrgWrite) /\ \A i \in DOMAIN plan : Grounded(plan, i)
<1>1. ASSUME NEW u \in OrgStaff, plan = <<<<"create">>, <<"enter", u>>, <<"promote", u>>>>
      PROVE  plan \in Seq(OrgWrite) /\ \A i \in DOMAIN plan : Grounded(plan, i)
  <2> DEFINE a == <<"create">>   b == <<"enter", u>>   c == <<"promote", u>>
  <2>1. {a, b, c} \subseteq OrgWrite /\ a[1] = "create" /\ b[1] = "enter" /\ c[1] = "promote"
    BY DEF OrgWrite
  <2>2. plan = <<a, b, c>> BY <1>1
  <2> HIDE DEF a, b, c
  <2> QED BY <2>1, <2>2 DEF Grounded
<1>2. ASSUME NEW u \in OrgUsers, plan = <<<<"ask", u>>>>
      PROVE  plan \in Seq(OrgWrite) /\ \A i \in DOMAIN plan : Grounded(plan, i)
  <2> DEFINE a == <<"ask", u>>
  <2>1. a \in OrgWrite /\ a[1] = "ask" BY DEF OrgWrite
  <2>2. plan = <<a>> BY <1>2
  <2> HIDE DEF a
  <2> QED BY <2>1, <2>2 DEF Grounded
<1>3. ASSUME NEW r \in DOMAIN joins, NEW v \in Verdicts, NEW p \in OrgStaff \cup admins,
             plan = Review(r, v, p)
      PROVE  plan \in Seq(OrgWrite) /\ \A i \in DOMAIN plan : Grounded(plan, i)
  <2> DEFINE a == <<"admit", r>>   b == <<"note", r, v, p>>
  <2>1. r \in Nat /\ p \in People BY DEF OrgTypes, People
  <2>2. a \in OrgWrite /\ b \in OrgWrite BY <2>1 DEF OrgWrite
  <2>3. a[1] = "admit" /\ a[2] = r /\ b[1] = "note" /\ b[2] = r /\ b[3] = v OBVIOUS
  <2>4. plan = IF v = "approved" THEN <<a, b>> ELSE <<b>> BY <1>3 DEF Review
  <2> HIDE DEF a, b
  <2>5. CASE v = "approved" BY <2>2, <2>3, <2>4, <2>5 DEF Grounded
  <2>6. CASE v # "approved" BY <2>2, <2>3, <2>4, <2>6 DEF Grounded
  <2> QED BY <2>5, <2>6
<1> QED
  <2>1. \/ \E u \in OrgStaff : plan = <<<<"create">>, <<"enter", u>>, <<"promote", u>>>>
        \/ \E u \in OrgUsers : plan = <<<<"ask", u>>>>
        \/ \E r \in DOMAIN joins, v \in Verdicts, p \in OrgStaff \cup admins : plan = Review(r, v, p)
    BY DEF Plans, Verdicts
  <2> QED BY <1>1, <1>2, <1>3, <2>1

\* What every action keeps of the rows and the members.
RecordKept ==
  /\ DOMAIN joins \subseteq DOMAIN joins' /\ members \subseteq members'
  /\ \A r \in DOMAIN joins : joins'[r].user = joins[r].user

\* What a write knows stays known while no row is lost and nobody loses membership.
LEMMA KeptGrounded ==
  ASSUME RecordKept, NEW plan, NEW i, Grounded(plan, i)
  PROVE  Grounded(plan, i)'
BY DEF RecordKept, Grounded

\* What is left of a plan when its first write has been made is still grounded.
LEMMA RestGrounded ==
  ASSUME RecordKept, NEW plan \in Seq(OrgWrite), plan # << >>, \A i \in DOMAIN plan : Grounded(plan, i),
         plan[1][1] = "admit" => joins[plan[1][2]].user \in members'
  PROVE  Tail(plan) \in Seq(OrgWrite) /\ \A i \in DOMAIN Tail(plan) : Grounded(Tail(plan), i)'
<1>1. Tail(plan) \in Seq(OrgWrite) /\ Len(Tail(plan)) = Len(plan) - 1 OBVIOUS
<1>2. ASSUME NEW i \in DOMAIN Tail(plan) PROVE Grounded(Tail(plan), i)'
  <2>1. Tail(plan)[i] = plan[i + 1] /\ i \in 1..(Len(plan) - 1) /\ i + 1 \in DOMAIN plan BY <1>1
  <2>2. Grounded(plan, i + 1) /\ Grounded(plan, 1) BY <2>1
  <2>3. Tail(plan)[i][1] # "admit" BY <2>1, <2>2 DEF Grounded
  <2>4. Tail(plan)[i][1] = "note" => Tail(plan)[i][2] \in DOMAIN joins
    BY <2>1, <2>2 DEF Grounded
  <2>5. ASSUME Tail(plan)[i][1] = "note", Tail(plan)[i][3] = "approved"
        PROVE  i = 1 /\ joins[Tail(plan)[i][2]].user \in members'
    <3>1. i = 1 /\ plan[1][1] = "admit" BY <2>1, <2>2, <2>5 DEF Grounded
    <3> QED BY <2>1, <2>2, <3>1 DEF Grounded
  <2> QED BY <2>3, <2>4, <2>5 DEF Grounded, RecordKept
<1> QED BY <1>1, <1>2

\* The requests' plans after a write: the others' are as they were, and t's are cut
\* short, done with its first write, or new.
LEMMA PlansKept ==
  ASSUME OrgInv, RecordKept, NEW t \in OrgRequests, NEW rest,
         rest \in Seq(OrgWrite) /\ \A i \in DOMAIN rest : Grounded(rest, i)',
         writes' = [writes EXCEPT ![t] = rest]
  PROVE  /\ writes' \in [OrgRequests -> Seq(OrgWrite)]
         /\ \A u \in OrgRequests : \A i \in DOMAIN writes'[u] : Grounded(writes[u], i)'
<1>1. writes' \in [OrgRequests -> Seq(OrgWrite)] BY DEF OrgInv, OrgTypes
<1>2. ASSUME NEW u \in OrgRequests, NEW i \in DOMAIN writes'[u] PROVE Grounded(writes[u], i)'
  <2>1. CASE u = t
    <3>1. writes'[u] = rest BY <2>1 DEF OrgInv, OrgTypes
    <3>2. Grounded(rest, i)' BY <3>1
    <3> QED BY <3>1, <3>2 DEF Grounded
  <2>2. CASE u # t
    <3>1. writes'[u] = writes[u] BY <2>2 DEF OrgInv, OrgTypes
    <3>2. Grounded(writes[u], i) BY <3>1 DEF OrgInv
    <3> QED BY <3>1, <3>2 DEF RecordKept, Grounded
  <2> QED BY <2>1, <2>2
<1> QED BY <1>1, <1>2

\* No row changes, and t, which is not about to note a review, lets staff in, or the user
\* of a row whose approval it notes next.
LEMMA MembershipKept ==
  ASSUME Membership, NEW t \in OrgRequests, ~Writes(t, "note"),
         \A u \in OrgRequests \ {t} : writes'[u] = writes[u],
         UNCHANGED <<joins, muddled>>, members \subseteq members',
         \A u \in members' \ members :
           u \in OrgStaff \/ \E r \in DOMAIN joins : joins[r].user = u /\ Approving(t, r)'
  PROVE  Membership'
<1>1. ASSUME NEW r, NEW u \in OrgRequests, Approving(u, r) PROVE Approving(u, r)'
  BY <1>1 DEF Approving, Writes
<1>2. ASSUME NEW u \in members' \ OrgStaff
      PROVE  \E r \in DOMAIN joins :
               /\ joins[r].user = u
               /\ joins[r].status = "approved" \/ r \in muddled \/ \E v \in OrgRequests : Approving(v, r)'
  <2>1. CASE u \in members BY <1>1, <2>1 DEF Membership
  <2>2. CASE u \notin members BY <2>2
  <2> QED BY <2>1, <2>2
<1> QED BY <1>2 DEF Membership

\* What the next write of a request is.
LEMMA NextWrite ==
  ASSUME OrgInv, NEW t \in OrgRequests, writes[t] # << >>
  PROVE  /\ writes[t] \in Seq(OrgWrite) /\ 1 \in DOMAIN writes[t]
         /\ Head(writes[t]) = writes[t][1] /\ writes[t][1] \in OrgWrite /\ Grounded(writes[t], 1)
<1>1. writes[t] \in Seq(OrgWrite) BY DEF OrgInv, OrgTypes
<1>2. 1 \in DOMAIN writes[t] /\ Head(writes[t]) = writes[t][1] /\ writes[t][1] \in OrgWrite
  BY <1>1
<1> QED BY <1>1, <1>2 DEF OrgInv

\* A request that has made its next write keeps the rest of its plan.
LEMMA SecondOfTwo ==
  ASSUME NEW plan \in Seq(OrgWrite), Len(plan) = 2
  PROVE  Tail(plan) # << >> /\ Head(Tail(plan)) = plan[2]
<1>1. plan # << >> OBVIOUS
<1>2. Tail(plan) \in Seq(OrgWrite) BY <1>1
<1>3. Len(Tail(plan)) = 1 BY <1>1
<1>4. Tail(plan)[1] = plan[2] BY <1>1
<1>5. \A rest \in Seq(OrgWrite) : Len(rest) = 1 => rest # << >> OBVIOUS
<1>6. Tail(plan) # << >> BY <1>2, <1>3, <1>5, Zenon
<1> QED BY <1>2, <1>4, <1>6

\* A request that gives up its plan keeps nothing.
LEMMA NothingKept ==
  ASSUME OrgInv, RecordKept, NEW t \in OrgRequests, writes' = [writes EXCEPT ![t] = << >>]
  PROVE  /\ writes' \in [OrgRequests -> Seq(OrgWrite)]
         /\ \A u \in OrgRequests : \A i \in DOMAIN writes'[u] : Grounded(writes[u], i)'
<1>1. PICK rest : rest = << >> OBVIOUS
<1>2. rest \in Seq(OrgWrite) /\ DOMAIN rest = {} BY <1>1
<1>3. \A i \in DOMAIN rest : Grounded(rest, i)' BY <1>2
<1> QED BY <1>1, <1>2, <1>3, PlansKept

\* A request that makes a write and goes on keeps the rest of its plan.
LEMMA RestKept ==
  ASSUME OrgInv, RecordKept, NEW t \in OrgRequests, writes[t] # << >>, Written(t),
         writes[t][1][1] = "admit" => joins[writes[t][1][2]].user \in members'
  PROVE  /\ writes' \in [OrgRequests -> Seq(OrgWrite)]
         /\ \A u \in OrgRequests : \A i \in DOMAIN writes'[u] : Grounded(writes[u], i)'
<1>1. PICK plan \in Seq(OrgWrite) : plan = writes[t] BY NextWrite
<1>2. plan # << >> /\ \A i \in DOMAIN plan : Grounded(plan, i)
  BY <1>1 DEF OrgInv, Grounded
<1>3. Tail(plan) \in Seq(OrgWrite) /\ \A i \in DOMAIN Tail(plan) : Grounded(Tail(plan), i)'
  BY <1>1, <1>2, RestGrounded
<1>4. PICK rest : rest = Tail(plan) OBVIOUS
<1>5. rest \in Seq(OrgWrite) /\ \A i \in DOMAIN rest : Grounded(rest, i)' BY <1>3, <1>4
<1>6. writes' = [writes EXCEPT ![t] = rest] BY <1>1, <1>4 DEF Written
<1> QED BY <1>5, <1>6, PlansKept

\* Every write of a request keeps the invariant.
LEMMA OrgStep == OrgInv /\ [ONext]_orgVars => OrgInv'
<1> SUFFICES ASSUME OrgInv, [ONext]_orgVars PROVE OrgInv' OBVIOUS
<1>0. OrgTypes /\ Membership BY DEF OrgInv
<1>1. ASSUME NEW t \in OrgRequests, CheckRequest(t) PROVE OrgInv'
  <2>1. PICK plan \in Plans : writes' = [writes EXCEPT ![t] = plan] BY <1>1 DEF CheckRequest
  <2>2. RecordKept BY <1>1 DEF CheckRequest, RecordKept
  <2>3. plan \in Seq(OrgWrite) /\ \A i \in DOMAIN plan : Grounded(plan, i) BY <1>0, PlanGrounded
  <2>4. \A i \in DOMAIN plan : Grounded(plan, i)' BY <2>2, <2>3, KeptGrounded
  <2>5. /\ writes' \in [OrgRequests -> Seq(OrgWrite)]
        /\ \A u \in OrgRequests : \A i \in DOMAIN writes'[u] : Grounded(writes[u], i)'
    BY <2>1, <2>2, <2>3, <2>4, PlansKept
  <2>6. Membership'
    <3>1. ~Writes(t, "note") BY <1>1 DEF CheckRequest, Writes
    <3> QED BY <1>0, <1>1, <3>1, MembershipKept DEF CheckRequest, OrgTypes
  <2> QED BY <1>0, <1>1, <2>5, <2>6 DEF CheckRequest, OrgInv, OrgTypes
<1>2. ASSUME NEW t \in OrgRequests, CreateOrganization(t) \/ Enter(t) \/ Promote(t) PROVE OrgInv'
  <2> USE DEF CreateOrganization, Enter, Promote, Writes
  <2>0. writes[t] # << >> BY <1>2
  <2>1. /\ Head(writes[t]) = writes[t][1] /\ writes[t][1] \in OrgWrite
        /\ writes[t][1][1] \in {"create", "enter", "promote"}
    BY <1>2, <2>0, NextWrite
  <2>2. RecordKept BY <1>2 DEF RecordKept
  <2>3. /\ writes' \in [OrgRequests -> Seq(OrgWrite)]
        /\ \A u \in OrgRequests : \A i \in DOMAIN writes'[u] : Grounded(writes[u], i)'
    <3>1. CASE Written(t) BY <2>0, <2>1, <2>2, <3>1, RestKept
    <3>2. CASE ~Written(t)
      <4>1. writes' = [writes EXCEPT ![t] = << >>] BY <1>2, <3>2
      <4> QED BY <2>2, <4>1, NothingKept
    <3> QED BY <3>1, <3>2
  <2>4. Membership'
    <3>1. ~Writes(t, "note") BY <2>1
    <3>2. \A u \in members' \ members : u \in OrgStaff BY <1>2, <2>1, WriteParts
    <3>3. \A u \in OrgRequests \ {t} : writes'[u] = writes[u]
      BY <1>0, <1>2 DEF OrgTypes, Written
    <3> QED BY <1>0, <1>2, <3>1, <3>2, <3>3, MembershipKept
  <2>5. admins' \subseteq OrgStaff BY <1>0, <1>2, <2>1, WriteParts DEF OrgTypes
  <2> QED BY <1>0, <1>2, <2>3, <2>4, <2>5 DEF OrgInv, OrgTypes
<1>3. ASSUME NEW t \in OrgRequests, Admit(t) PROVE OrgInv'
  <2> PICK r : r = writes[t][1][2] OBVIOUS
  <2>0. writes[t] # << >> BY <1>3 DEF Admit, Writes
  <2>1. /\ Head(writes[t]) = writes[t][1] /\ writes[t][1] \in OrgWrite /\ writes[t][1][1] = "admit"
        /\ Grounded(writes[t], 1)
    BY <1>3, <2>0, NextWrite DEF Admit, Writes
  <2>2. /\ r \in DOMAIN joins /\ Len(writes[t]) = 2
        /\ writes[t][2][1] = "note" /\ writes[t][2][2] = r /\ writes[t][2][3] = "approved"
    BY <2>1 DEF Grounded
  <2>3. members' = members \cup {joins[r].user} /\ Written(t) /\ UNCHANGED <<exists, admins, joins, muddled>>
    BY <1>3, <2>1 DEF Admit
  <2>4. RecordKept BY <2>3 DEF RecordKept
  <2>5. /\ writes' \in [OrgRequests -> Seq(OrgWrite)]
        /\ \A u \in OrgRequests : \A i \in DOMAIN writes'[u] : Grounded(writes[u], i)'
    BY <2>0, <2>3, <2>4, RestKept
  <2>6. Approving(t, r)'
    <3>1. writes[t] \in Seq(OrgWrite) /\ writes'[t] = Tail(writes[t])
      BY <1>0, <2>3 DEF Written, OrgTypes
    <3>2. writes'[t] # << >> /\ Head(writes'[t]) = writes[t][2] BY <2>2, <3>1, SecondOfTwo
    <3> QED BY <2>2, <3>2 DEF Approving, Writes
  <2>7. Membership'
    <3>1. ~Writes(t, "note") BY <2>1 DEF Writes
    <3>2. \A u \in OrgRequests \ {t} : writes'[u] = writes[u]
      BY <1>0, <2>3 DEF OrgTypes, Written
    <3>3. \A u \in members' \ members : \E q \in DOMAIN joins : joins[q].user = u /\ Approving(t, q)'
      BY <2>2, <2>3, <2>6
    <3> QED BY <1>0, <2>3, <3>1, <3>2, <3>3, MembershipKept
  <2> QED BY <1>0, <2>3, <2>5, <2>7 DEF OrgInv, OrgTypes
<1>4. ASSUME NEW t \in OrgRequests, RequestMembership(t) PROVE OrgInv'
  <2> DEFINE u == Head(writes[t])[2]
             row == [user |-> u, status |-> "pending", by |-> u]
  <2>0. writes[t] # << >> BY <1>4 DEF RequestMembership, Writes
  <2>1. /\ Head(writes[t]) = writes[t][1] /\ writes[t][1] \in OrgWrite /\ writes[t][1][1] = "ask"
        /\ u \in OrgUsers
    BY <1>4, <2>0, NextWrite, WriteParts DEF RequestMembership, Writes
  <2>2. /\ joins' = IF Pending(u) THEN joins ELSE Append(joins, row)
        /\ Written(t) /\ UNCHANGED <<exists, members, admins, muddled>>
    BY <1>4 DEF RequestMembership
  <2>3. row \in JoinRow /\ row.user = u /\ row.status = "pending" BY <2>1 DEF JoinRow, People
  <2>4. joins \in Seq(JoinRow) BY <1>0 DEF OrgTypes
  <2> HIDE DEF u, row
  <2>5. /\ joins' \in Seq(JoinRow) /\ DOMAIN joins \subseteq DOMAIN joins'
        /\ \A r \in DOMAIN joins : joins'[r] = joins[r]
        /\ \A r \in DOMAIN joins' \ DOMAIN joins : joins'[r] = row /\ ~Pending(u) /\ r = Len(joins) + 1
    BY <2>2, <2>3, <2>4
  <2>6. RecordKept BY <2>2, <2>5 DEF RecordKept
  <2>7. /\ writes' \in [OrgRequests -> Seq(OrgWrite)]
        /\ \A v \in OrgRequests : \A i \in DOMAIN writes'[v] : Grounded(writes[v], i)'
    BY <2>0, <2>1, <2>2, <2>6, RestKept
  <2>8. Membership'
    <3>1. ASSUME NEW r, NEW v \in OrgRequests, Approving(v, r) PROVE Approving(v, r)'
      <4>1. v # t BY <2>1, <3>1 DEF Approving, Writes
      <4>2. writes'[v] = writes[v] BY <1>0, <2>2, <4>1 DEF Written, OrgTypes
      <4> QED BY <3>1, <4>2 DEF Approving, Writes
    <3>2. \A r, s \in DOMAIN joins' :
            joins'[r].user = joins'[s].user /\ joins'[r].status = "pending" /\ joins'[s].status = "pending" => r = s
      BY <1>0, <2>3, <2>5 DEF Membership, Pending
    <3>3. \A r \in DOMAIN joins' : joins'[r].status = "approved" => joins'[r].user \in members'
      BY <1>0, <2>2, <2>3, <2>5 DEF Membership
    <3>4. ASSUME NEW m \in members' \ OrgStaff
          PROVE  \E r \in DOMAIN joins' :
                   /\ joins'[r].user = m
                   /\ joins'[r].status = "approved" \/ r \in muddled' \/ \E v \in OrgRequests : Approving(v, r)'
      <4>1. PICK r \in DOMAIN joins :
              /\ joins[r].user = m
              /\ joins[r].status = "approved" \/ r \in muddled \/ \E v \in OrgRequests : Approving(v, r)
        BY <1>0, <2>2 DEF Membership
      <4> QED BY <2>2, <2>5, <3>1, <4>1
    <3> QED BY <3>2, <3>3, <3>4 DEF Membership
  <2> QED BY <1>0, <2>2, <2>5, <2>7, <2>8 DEF OrgInv, OrgTypes
<1>5. ASSUME NEW t \in OrgRequests, Note(t) PROVE OrgInv'
  <2> DEFINE r == Head(writes[t])[2]
             verdict == Head(writes[t])[3]
             by == Head(writes[t])[4]
  <2>0. writes[t] # << >> BY <1>5 DEF Note, Writes
  <2>1. /\ Head(writes[t]) = writes[t][1] /\ writes[t][1] \in OrgWrite /\ writes[t][1][1] = "note"
        /\ Grounded(writes[t], 1) /\ verdict \in Verdicts /\ by \in People
    BY <1>5, <2>0, NextWrite, WriteParts DEF Note, Writes
  <2>2. r \in DOMAIN joins /\ (verdict = "approved" => joins[r].user \in members)
    BY <2>1 DEF Grounded
  <2>3. /\ muddled' = IF joins[r].status = "pending" THEN muddled ELSE muddled \cup {r}
        /\ joins' = [joins EXCEPT ![r].status = verdict, ![r].by = by]
        /\ Written(t) /\ UNCHANGED <<exists, members, admins>>
    BY <1>5 DEF Note
  <2>4. \A v \in OrgRequests : \A q : Approving(v, q) /\ v = t => q = r /\ verdict = "approved"
    BY DEF Approving
  <2> HIDE DEF r, verdict, by
  <2>5. /\ joins' \in Seq(JoinRow) /\ DOMAIN joins' = DOMAIN joins
        /\ \A q \in DOMAIN joins : joins'[q].user = joins[q].user
        /\ \A q \in DOMAIN joins \ {r} : joins'[q] = joins[q]
        /\ joins'[r].status = verdict
    <3>1. joins \in Seq(JoinRow) /\ joins[r] \in JoinRow BY <1>0, <2>2 DEF OrgTypes
    <3> DEFINE row == [joins[r] EXCEPT !.status = verdict, !.by = by]
    <3>2. row \in JoinRow /\ row.user = joins[r].user /\ row.status = verdict
      BY <2>1, <3>1 DEF JoinRow
    <3>3. joins' = [joins EXCEPT ![r] = row] BY <2>3, <3>1, <2>2 DEF JoinRow
    <3> HIDE DEF row
    <3> QED BY <2>2, <3>1, <3>2, <3>3
  <2>6. RecordKept BY <2>3, <2>5 DEF RecordKept
  <2>7. /\ writes' \in [OrgRequests -> Seq(OrgWrite)]
        /\ \A v \in OrgRequests : \A i \in DOMAIN writes'[v] : Grounded(writes[v], i)'
    BY <2>0, <2>1, <2>3, <2>6, RestKept
  <2>8. Membership'
    <3>1. ASSUME NEW q, NEW v \in OrgRequests, Approving(v, q), v # t PROVE Approving(v, q)'
      <4>1. writes'[v] = writes[v] BY <1>0, <2>3, <3>1 DEF Written, OrgTypes
      <4> QED BY <3>1, <4>1 DEF Approving, Writes
    <3>2. \A q, s \in DOMAIN joins' :
            joins'[q].user = joins'[s].user /\ joins'[q].status = "pending" /\ joins'[s].status = "pending" => q = s
      BY <1>0, <2>1, <2>5 DEF Membership, Verdicts
    <3>3. \A q \in DOMAIN joins' : joins'[q].status = "approved" => joins'[q].user \in members'
      BY <1>0, <2>2, <2>3, <2>5 DEF Membership
    <3>4. ASSUME NEW m \in members' \ OrgStaff
          PROVE  \E q \in DOMAIN joins' :
                   /\ joins'[q].user = m
                   /\ joins'[q].status = "approved" \/ q \in muddled' \/ \E v \in OrgRequests : Approving(v, q)'
      <4>1. PICK q \in DOMAIN joins :
              /\ joins[q].user = m
              /\ joins[q].status = "approved" \/ q \in muddled \/ \E v \in OrgRequests : Approving(v, q)
        BY <1>0, <2>3 DEF Membership
      <4>2. CASE q # r BY <2>3, <2>4, <2>5, <3>1, <4>1, <4>2
      <4>3. CASE q = r
        <5>1. CASE verdict = "approved" BY <2>5, <4>1, <4>3, <5>1
        <5>2. CASE verdict # "approved"
          <6>1. joins[q].status = "approved" => q \in muddled' BY <2>3, <4>3
          <6>2. q \in muddled => q \in muddled' BY <2>3
          <6>3. \A v \in OrgRequests : Approving(v, q) => Approving(v, q)' BY <2>4, <3>1, <5>2
          <6> QED BY <2>5, <4>1, <6>1, <6>2, <6>3
        <5> QED BY <5>1, <5>2
      <4> QED BY <4>2, <4>3
    <3> QED BY <3>2, <3>3, <3>4 DEF Membership
  <2> QED BY <1>0, <2>3, <2>5, <2>7, <2>8 DEF OrgInv, OrgTypes
<1>6. ASSUME NEW t \in OrgRequests, Cut(t) PROVE OrgInv'
  <2>1. RecordKept BY <1>6 DEF Cut, RecordKept
  <2>2. /\ writes' \in [OrgRequests -> Seq(OrgWrite)]
        /\ \A u \in OrgRequests : \A i \in DOMAIN writes'[u] : Grounded(writes[u], i)'
    BY <1>6, <2>1, NothingKept DEF Cut
  <2>3. \A r \in DOMAIN joins, v \in OrgRequests : Approving(v, r) => r \in muddled' \/ Approving(v, r)'
    <3>1. \A v \in OrgRequests \ {t} : writes'[v] = writes[v] BY <1>0, <1>6 DEF Cut, OrgTypes
    <3> QED BY <1>6, <3>1 DEF Cut, Approving, Writes
  <2>4. Membership' BY <1>0, <1>6, <2>3 DEF Cut, Membership
  <2> QED BY <1>0, <1>6, <2>2, <2>4 DEF Cut, OrgInv, OrgTypes
<1>7. CASE UNCHANGED orgVars
  BY <1>7 DEF orgVars, OrgInv, OrgTypes, Grounded, Membership, Approving, Writes
<1> QED BY <1>1, <1>2, <1>3, <1>4, <1>5, <1>6, <1>7 DEF ONext

\* Membership (OrganizationService): whom the organization admits is on record, for any
\* users and requests, whatever order their writes come in and wherever one ends.
THEOREM MembershipHolds == OSpec => []Membership
<1>1. OInit => OrgInv
  BY DEF OInit, OrgInv, OrgTypes, Membership
<1>2. OrgInv /\ [ONext]_orgVars => OrgInv' BY OrgStep
<1> QED BY <1>1, <1>2, PTL DEF OSpec, OrgInv

-----------------------------------------------------------------------------
(* The registry of the legacy bridge *)

BridgeTypes ==
  /\ handler \in [Connections -> {"new", "greeted", "open", "leaving", "closed"}]
  /\ registry \in [Names -> Connections \cup {None}]
  /\ online \in [Names -> BOOLEAN]

\* Two connections of one judge are rivals.
RivalsKnown == \A c, d \in Connections :
  c # d /\ NameOf[c] = NameOf[d] /\ {handler[c], handler[d]} \subseteq Linked => NameOf[c] \in rivals

\* Without a rival a judge is online from the greeting of its connection.
GreetedIsOnline == \A c \in Connections :
  handler[c] \in {"greeted", "open"} /\ NameOf[c] \notin rivals => online[NameOf[c]]

BridgeInv == BridgeTypes /\ RivalsKnown /\ GreetedIsOnline /\ RegistryIsLive

\* Every step of a connection keeps the invariant; what happens to submissions leaves the
\* registry alone.
LEMMA BridgeStep == BridgeInv /\ [BNext]_bridgeVars => BridgeInv'
<1> SUFFICES ASSUME BridgeInv, [BNext]_bridgeVars PROVE BridgeInv' OBVIOUS
<1> USE BridgeAssumption DEF BridgeInv, Linked
<1>1. ASSUME NEW c \in Connections, Greet(c) PROVE BridgeInv'
  <2>1. BridgeTypes' BY <1>1 DEF Greet, BridgeTypes
  <2>2. RivalsKnown' BY <1>1 DEF Greet, BridgeTypes, RivalsKnown
  <2>3. GreetedIsOnline' BY <1>1 DEF Greet, BridgeTypes, GreetedIsOnline
  <2>4. RegistryIsLive' BY <1>1 DEF Greet, BridgeTypes, RegistryIsLive
  <2> QED BY <2>1, <2>2, <2>3, <2>4
<1>2. ASSUME NEW c \in Connections, Register(c) PROVE BridgeInv'
  <2>1. BridgeTypes' BY <1>2 DEF Register, BridgeTypes
  <2>2. RivalsKnown' BY <1>2 DEF Register, BridgeTypes, RivalsKnown
  <2>3. GreetedIsOnline' BY <1>2 DEF Register, BridgeTypes, GreetedIsOnline
  <2>4. RegistryIsLive'
    BY <1>2 DEF Register, BridgeTypes, RegistryIsLive, RivalsKnown, GreetedIsOnline
  <2> QED BY <2>1, <2>2, <2>3, <2>4
<1>3. ASSUME NEW c \in Connections, Leave(c) PROVE BridgeInv'
  <2>1. BridgeTypes' BY <1>3 DEF Leave, BridgeTypes
  <2>2. RivalsKnown' BY <1>3 DEF Leave, BridgeTypes, RivalsKnown
  <2>3. GreetedIsOnline' BY <1>3 DEF Leave, BridgeTypes, GreetedIsOnline, RivalsKnown
  <2>4. RegistryIsLive' BY <1>3 DEF Leave, BridgeTypes, RegistryIsLive, RivalsKnown
  <2> QED BY <2>1, <2>2, <2>3, <2>4
<1>4. ASSUME NEW c \in Connections, Unregister(c) PROVE BridgeInv'
  <2>1. BridgeTypes' BY <1>4 DEF Unregister, BridgeTypes
  <2>2. RivalsKnown' BY <1>4 DEF Unregister, BridgeTypes, RivalsKnown
  <2>3. GreetedIsOnline' BY <1>4 DEF Unregister, BridgeTypes, GreetedIsOnline
  <2>4. RegistryIsLive' BY <1>4 DEF Unregister, BridgeTypes, RegistryIsLive, RivalsKnown
  <2> QED BY <2>1, <2>2, <2>3, <2>4
<1>5. ASSUME Restart PROVE BridgeInv'
  BY <1>5 DEF Restart, BridgeTypes, RivalsKnown, GreetedIsOnline, RegistryIsLive
<1>6. ASSUME UNCHANGED linkVars PROVE BridgeInv'
  BY <1>6 DEF linkVars, BridgeTypes, RivalsKnown, GreetedIsOnline, RegistryIsLive
<1>7. ASSUME NEW s \in Submissions, NEW c \in Connections,
             Unsent(s) \/ Mark(s) \/ Choose(s, c) \/ CaseResult(c, s) \/ SubmissionResult(c, s)
      PROVE  UNCHANGED linkVars
  BY <1>7 DEF Unsent, Mark, Choose, CaseResult, SubmissionResult
<1>8. ASSUME NEW s \in Submissions, Unsent(s) \/ Mark(s) PROVE UNCHANGED linkVars
  BY <1>8 DEF Unsent, Mark
<1> QED BY <1>1, <1>2, <1>3, <1>4, <1>5, <1>6, <1>7, <1>8 DEF BNext, bridgeVars

\* RegistryIsLive (the legacy bridge): whatever the registry holds is connected or just
\* leaving, and an open connection without a rival is in it and its judge online, for any
\* judges, connections and restarts.
THEOREM RegistrySafe == BSpec => []RegistryIsLive
<1>1. BInit => BridgeInv
  BY BridgeAssumption
  DEF BInit, BridgeInv, BridgeTypes, RivalsKnown, GreetedIsOnline, RegistryIsLive, Linked
<1>2. BridgeInv /\ [BNext]_bridgeVars => BridgeInv' BY BridgeStep
<1> QED BY <1>1, <1>2, PTL DEF BSpec, BridgeInv

-----------------------------------------------------------------------------
(* The packages of a problem *)

Package == [version : Nat, active : BOOLEAN]
Writing == {"locking", "write", "commit"}
Transacting == {"version", "clear"} \cup Writing

PackageTask ==
  [stage : {"free", "admin", "admin save"} \cup Transacting, digest : Digests \cup {Free},
   activate : BOOLEAN, import : BOOLEAN, version : Nat,
   todo : SUBSET Digests, off : SUBSET Digests, list : SUBSET Digests, lone : BOOLEAN]

\* What a task knows of the packages.  An activation that has read them is going to switch
\* off all the others, or an import has committed since; what runs alone switches off
\* whatever is active.
Informed(j) ==
  /\ j.stage \in Transacting => j.digest \in Digests
  /\ j.stage = "version" => j.import
  /\ j.stage \in Transacting \ {"version"} =>
       IF j.import THEN j.version > 0 ELSE j.activate /\ j.digest \in Stored
  /\ j.stage \in {"write", "commit"} /\ j.activate => j.todo = {}
  /\ j.stage \in Writing /\ ~j.import /\ (~raced \/ j.lone) =>
       Stored \ {j.digest} \subseteq j.todo \cup j.off
  /\ j.stage \in Writing /\ j.import /\ j.activate /\ j.lone =>
       ActivePackages \ {j.digest} \subseteq j.todo \cup j.off
  /\ j.stage \in {"admin", "admin save"} => j.list \subseteq Stored
  /\ j.stage = "admin save" => j.digest \in Stored /\ (j.lone => ActivePackages \subseteq {j.digest})

RegistryTypes ==
  /\ packages \in [Digests -> Package]
  /\ task \in [PackageTasks -> PackageTask]
  /\ ActivePackages \subseteq Stored

\* Who runs alone is the only one who runs.
LoneRuns == \A t, u \in Running : task[t].lone => t = u

RegistryInv ==
  /\ RegistryTypes
  /\ LoneRuns
  /\ \A t \in PackageTasks : Informed(task[t])
  /\ raced \/ \A d, e \in ActivePackages : d = e

\* The fields of a task, and of a row.
LEMMA TaskFields ==
  /\ \A j \in PackageTask : j.stage \in {"free", "admin", "admin save"} \cup Transacting
                            /\ j.version \in Nat /\ j.todo \subseteq Digests /\ j.off \subseteq Digests
                            /\ j.list \subseteq Digests /\ j.digest \in Digests \cup {Free}
                            /\ j.activate \in BOOLEAN /\ j.import \in BOOLEAN /\ j.lone \in BOOLEAN
  /\ NoTask \in PackageTask /\ NoTask.stage = "free"
BY DEF PackageTask, NoTask

\* A task that goes on keeps what it is.
LEMMA TaskGoesOn ==
  ASSUME NEW j \in PackageTask, NEW s \in Transacting, NEW v \in Nat,
         NEW a \in SUBSET Digests, NEW b \in SUBSET Digests, NEW d \in Digests
  PROVE  /\ [j EXCEPT !.version = v, !.stage = s] \in PackageTask
         /\ [j EXCEPT !.todo = a, !.stage = s] \in PackageTask
         /\ [j EXCEPT !.todo = a, !.off = b] \in PackageTask
         /\ [j EXCEPT !.stage = s] \in PackageTask
         /\ [j EXCEPT !.lone = FALSE] \in PackageTask
         /\ [j EXCEPT !.lone = TRUE] \in PackageTask
         /\ [j EXCEPT !.stage = "admin"] \in PackageTask
         /\ [j EXCEPT !.digest = d, !.list = a, !.stage = "admin save"] \in PackageTask
BY DEF PackageTask, Transacting

\* The highest version in use is a number, 0 if none is.
LEMMA VersionPositive ==
  ASSUME RegistryTypes, Digests # {}
  PROVE  Max({packages[d].version : d \in Digests}) \in Nat
<1> DEFINE S == {packages[d].version : d \in Digests}
<1>1. S \in SUBSET Nat /\ S # {} BY DEF RegistryTypes, Package
<1>2. IsFiniteSet(S)
  <2> DEFINE f == [d \in Digests |-> packages[d].version]
  <2>1. IsFiniteSet(DOMAIN f) /\ S = {f[d] : d \in DOMAIN f} BY RegistryAssumption
  <2> HIDE DEF f, S
  <2> QED BY <2>1, FinitelyManyValues
<1> HIDE DEF S
<1>3. Max(S) \in S BY <1>1, <1>2, GreatestOfNaturals
<1> QED BY <1>1, <1>3 DEF S

\* While t runs, the other tasks that run are not alone: what they know still holds when t
\* has not stored a package, or the race is on record.
LEMMA OthersInformed ==
  ASSUME RegistryInv, NEW t \in PackageTasks, task[t].stage # "free",
         NEW u \in PackageTasks, u # t, task'[u] = task[u],
         Stored \subseteq Stored', Stored' # Stored => raced' \/ task[t].lone,
         raced => raced' \/ task[t].lone
  PROVE  Informed(task[u])'
<1>1. CASE task[u].stage = "free" BY <1>1 DEF Informed, Writing, Transacting
<1>2. CASE task[u].stage # "free"
  <2>1. ~task[u].lone /\ ~task[t].lone BY <1>2 DEF RegistryInv, LoneRuns, Running
  <2>2. Informed(task[u]) BY DEF RegistryInv
  <2>3. raced' \/ (~raced /\ Stored' = Stored) BY <2>1
  <2> QED BY <2>1, <2>2, <2>3 DEF Informed
<1> QED BY <1>1, <1>2

\* What a task knows depends on what is stored, what is active and the race only.
LEMMA SameKnowledge ==
  ASSUME NEW u, Informed(task'[u]), raced' = raced, Stored' = Stored, ActivePackages' = ActivePackages
  PROVE  Informed(task[u])'
BY ZenonT(30) DEF Informed

\* A step of t that leaves the packages alone.
LEMMA TaskStep ==
  ASSUME RegistryInv, NEW t \in PackageTasks, task[t].stage # "free", NEW new \in PackageTask,
         task' = [task EXCEPT ![t] = new], new.stage # "free" => new.lone = task[t].lone,
         UNCHANGED <<packages, raced>>, Informed(new)
  PROVE  RegistryInv'
<1>1. UNCHANGED <<Stored, ActivePackages>> BY DEF Stored, ActivePackages
<1>2. RegistryTypes' BY <1>1 DEF RegistryInv, RegistryTypes
<1>3. LoneRuns' BY DEF RegistryInv, RegistryTypes, LoneRuns, Running
<1>4. ASSUME NEW u \in PackageTasks PROVE Informed(task[u])'
  <2>1. CASE u = t
    <3>1. task'[u] = new BY <2>1 DEF RegistryInv, RegistryTypes
    <3>2. raced' = raced /\ Stored' = Stored /\ ActivePackages' = ActivePackages BY <1>1
    <3>3. Informed(task'[u]) BY <3>1
    <3> QED BY <3>2, <3>3, SameKnowledge
  <2>2. CASE u # t
    <3>1. task'[u] = task[u] BY <2>2 DEF RegistryInv, RegistryTypes
    <3> QED BY <1>1, <2>2, <3>1, OthersInformed
  <2> QED BY <2>1, <2>2
<1> QED BY <1>1, <1>2, <1>3, <1>4 DEF RegistryInv

\* A request that begins.
LEMMA BeginStep ==
  ASSUME RegistryInv, NEW t \in PackageTasks, NEW new \in PackageTask, RBegin(t, new),
         new.stage \in {"version", "clear", "admin"}, Informed(new)
  PROVE  RegistryInv'
<1> DEFINE n == [new EXCEPT !.lone = Running = {}]
<1>1. /\ n \in PackageTask /\ n.lone = (Running = {}) /\ n.stage = new.stage /\ n.digest = new.digest
      /\ n.import = new.import /\ n.version = new.version /\ n.activate = new.activate /\ n.list = new.list
  BY DEF PackageTask
<1>2. /\ task[t].stage = "free" /\ UNCHANGED <<packages, raced>>
      /\ task' = [u \in PackageTasks |->
                   IF u = t THEN n
                   ELSE IF u \in Running THEN [task[u] EXCEPT !.lone = FALSE] ELSE task[u]]
  BY DEF RBegin
<1> HIDE DEF n
<1>3. UNCHANGED <<Stored, ActivePackages>> BY <1>2 DEF Stored, ActivePackages
<1>4. ASSUME NEW j \in PackageTask, NEW k, k = [j EXCEPT !.lone = FALSE]
      PROVE  /\ k \in PackageTask /\ ~k.lone /\ k.stage = j.stage /\ k.digest = j.digest
             /\ k.import = j.import /\ k.version = j.version /\ k.activate = j.activate
             /\ k.list = j.list /\ k.todo = j.todo /\ k.off = j.off
  BY <1>4 DEF PackageTask
<1>5. ASSUME NEW u \in PackageTasks, u # t
      PROVE  /\ task'[u] \in PackageTask /\ task'[u].stage = task[u].stage
             /\ task[u].stage # "free" => ~task'[u].lone
             /\ Informed(task[u])'
  <2>1. task[u] \in PackageTask /\ Informed(task[u]) BY DEF RegistryInv, RegistryTypes
  <2>2. CASE u \in Running
    <3>1. task'[u] = [task[u] EXCEPT !.lone = FALSE] BY <1>2, <1>5, <2>2
    <3> DEFINE j == task[u]
               k == task'[u]
    <3>2. /\ k \in PackageTask /\ ~k.lone /\ k.stage = j.stage /\ k.digest = j.digest
          /\ k.import = j.import /\ k.version = j.version /\ k.activate = j.activate
          /\ k.list = j.list /\ k.todo = j.todo /\ k.off = j.off
      BY <1>4, <2>1, <3>1
    <3>3. Informed(j) BY <2>1
    <3>4. raced' = raced /\ Stored' = Stored /\ ActivePackages' = ActivePackages BY <1>2, <1>3
    <3> HIDE DEF j
    <3>5. Informed(k) BY <3>2, <3>3 DEF Informed
    <3>6. Informed(task[u])' BY <3>4, <3>5, SameKnowledge
    <3> QED BY <3>2, <3>6 DEF j
  <2>3. CASE u \notin Running
    <3>1. task'[u] = task[u] BY <1>2, <1>5, <2>3
    <3> QED BY <1>2, <1>3, <2>1, <2>3, <3>1 DEF Informed, Running
  <2> QED BY <2>2, <2>3
<1>6. task'[t] = n /\ Informed(task[t])'
  <2>1. task'[t] = n BY <1>2
  <2> QED BY <1>1, <1>3, <2>1 DEF Informed, Writing, Transacting
<1>7. RegistryTypes'
  <2>1. task' \in [PackageTasks -> PackageTask] BY <1>1, <1>2, <1>5, <1>6
  <2> QED BY <1>2, <1>3, <2>1 DEF RegistryInv, RegistryTypes
<1>8. LoneRuns' BY <1>1, <1>2, <1>5, <1>6 DEF LoneRuns, Running
<1>9. \A u \in PackageTasks : Informed(task[u])' BY <1>5, <1>6
<1> QED BY <1>2, <1>3, <1>7, <1>8, <1>9 DEF RegistryInv

\* A transaction that goes on without a commit.
LEMMA TransactionStep ==
  ASSUME RegistryInv, NEW t \in PackageTasks,
         BeginImport(t) \/ ReadVersion(t) \/ Clear(t) \/ ClearRow(t) \/ Cleared(t) \/ RWrite(t) \/ RAbort(t)
  PROVE  RegistryInv'
<1> DEFINE j == task[t]
<1>0. j \in PackageTask /\ Informed(j) BY DEF RegistryInv, RegistryTypes
<1>1. CASE BeginImport(t)
  <2>1. PICK d \in Digests, activate \in BOOLEAN :
          LET new == [NoTask EXCEPT !.digest = d, !.activate = activate]
          IN \/ d \notin Stored /\ RBegin(t, [new EXCEPT !.stage = "version", !.import = TRUE])
             \/ d \in Stored /\ activate /\ RBegin(t, [new EXCEPT !.stage = "clear"])
    BY <1>1 DEF BeginImport
  <2> DEFINE new == [NoTask EXCEPT !.digest = d, !.activate = activate]
             one == [new EXCEPT !.stage = "version", !.import = TRUE]
             two == [new EXCEPT !.stage = "clear"]
  <2>2. new \in PackageTask /\ new.digest = d /\ new.activate = activate /\ ~new.import
    BY DEF NoTask, PackageTask
  <2>3. RBegin(t, one) \/ (d \in Stored /\ activate /\ RBegin(t, two)) BY <2>1
  <2> HIDE DEF new
  <2>4. one \in PackageTask /\ one.stage = "version" /\ one.import /\ one.digest = d
    BY <2>2 DEF PackageTask, Transacting
  <2>5. two \in PackageTask /\ two.stage = "clear" /\ ~two.import /\ two.digest = d /\ two.activate = activate
    BY <2>2 DEF PackageTask, Transacting
  <2> HIDE DEF one, two
  <2>6. CASE RBegin(t, one)
    <3>1. Informed(one) BY <2>4 DEF Informed, Transacting, Writing
    <3> QED BY <2>4, <2>6, <3>1, BeginStep
  <2>7. CASE d \in Stored /\ activate /\ RBegin(t, two)
    <3>1. Informed(two) BY <2>5, <2>7 DEF Informed, Transacting, Writing
    <3> QED BY <2>5, <2>7, <3>1, BeginStep
  <2> QED BY <2>3, <2>6, <2>7
<1>2. CASE ReadVersion(t)
  <2> DEFINE top == Max({packages[d].version : d \in Digests})
             s == IF j.activate THEN "clear" ELSE "write"
             new == [j EXCEPT !.version = top + 1, !.stage = s]
  <2>1. j.stage = "version" /\ To(t, new) /\ UNCHANGED <<packages, raced>>
    BY <1>2 DEF ReadVersion
  <2>2. j.digest \in Digests /\ j.import BY <1>0, <2>1 DEF Informed, Transacting
  <2>3. top \in Nat BY <2>2, VersionPositive DEF RegistryInv
  <2> HIDE DEF top
  <2>4. /\ new \in PackageTask /\ new.version > 0 /\ new.stage = s /\ new.digest = j.digest
        /\ new.import = j.import /\ new.activate = j.activate /\ new.lone = j.lone
    <3>1. PICK v \in Nat : v = top + 1 /\ v > 0 BY <2>3
    <3>2. new = [j EXCEPT !.version = v, !.stage = s] BY <3>1
    <3>3. s \in {"clear", "write"} OBVIOUS
    <3> HIDE DEF new, s, j
    <3> QED BY <1>0, <3>1, <3>2, <3>3 DEF PackageTask, Transacting, Writing
  <2> HIDE DEF new
  <2>5. Informed(new) BY <2>2, <2>4 DEF Informed, Transacting, Writing
  <2> QED BY <2>1, <2>4, <2>5, TaskStep DEF To
<1>3. CASE Clear(t)
  <2> DEFINE new == [j EXCEPT !.todo = ToClear(t), !.stage = "locking"]
  <2>1. j.stage = "clear" /\ To(t, new) /\ UNCHANGED <<packages, raced>> BY <1>3 DEF Clear
  <2>2. ToClear(t) \in SUBSET Digests BY DEF ToClear, ActivePackages, Stored
  <2>3. /\ new \in PackageTask /\ new.stage = "locking" /\ new.todo = ToClear(t) /\ new.digest = j.digest
        /\ new.import = j.import /\ new.activate = j.activate /\ new.lone = j.lone /\ new.version = j.version
    <3> HIDE DEF j
    <3> QED BY <1>0, <2>2 DEF PackageTask, Transacting, Writing
  <2> HIDE DEF new
  <2>4. Informed(new) BY <1>0, <2>1, <2>3 DEF Informed, Transacting, Writing, ToClear
  <2> QED BY <2>1, <2>3, <2>4, TaskStep DEF To
<1>4. CASE ClearRow(t)
  <2>1. PICK d \in j.todo :
          /\ j.stage = "locking" /\ To(t, [j EXCEPT !.todo = @ \ {d}, !.off = @ \cup {d}])
          /\ UNCHANGED <<packages, raced>>
    BY <1>4 DEF ClearRow
  <2> DEFINE new == [j EXCEPT !.todo = @ \ {d}, !.off = @ \cup {d}]
  <2>2. To(t, new) BY <2>1
  <2>3. /\ new \in PackageTask /\ new.stage = "locking" /\ new.digest = j.digest
        /\ new.todo \cup new.off = j.todo \cup j.off
        /\ new.import = j.import /\ new.activate = j.activate /\ new.lone = j.lone /\ new.version = j.version
    <3>1. j.todo \subseteq Digests /\ j.off \subseteq Digests BY <1>0, TaskFields
    <3> HIDE DEF j
    <3> QED BY <1>0, <2>1, <3>1 DEF PackageTask
  <2> HIDE DEF new
  <2>4. Informed(new) BY <1>0, <2>1, <2>3 DEF Informed, Transacting, Writing
  <2> QED BY <2>1, <2>2, <2>3, <2>4, TaskStep DEF To
<1>5. CASE Cleared(t) \/ RWrite(t)
  <2> DEFINE s == IF j.stage = "locking" THEN "write" ELSE "commit"
             new == [j EXCEPT !.stage = s]
  <2>1. /\ j.stage \in {"locking", "write"} /\ To(t, new) /\ UNCHANGED <<packages, raced>>
        /\ j.stage = "locking" => j.todo = {}
    BY <1>5 DEF Cleared, RWrite
  <2>2. /\ new \in PackageTask /\ new.stage = s /\ new.todo = j.todo /\ new.off = j.off
        /\ new.digest = j.digest /\ new.version = j.version
        /\ new.import = j.import /\ new.activate = j.activate /\ new.lone = j.lone
    <3>1. s \in {"write", "commit"} OBVIOUS
    <3> HIDE DEF j, s
    <3> QED BY <1>0, <3>1 DEF PackageTask, Transacting, Writing
  <2> HIDE DEF new
  <2>3. Informed(new) BY <1>0, <2>1, <2>2 DEF Informed, Transacting, Writing
  <2> QED BY <2>1, <2>2, <2>3, TaskStep DEF To
<1>6. CASE RAbort(t)
  <2>1. Informed(NoTask) BY TaskFields DEF Informed, Transacting, Writing
  <2> QED BY <1>6, <2>1, TaskStep, TaskFields DEF RAbort, To
<1> QED BY <1>1, <1>2, <1>3, <1>4, <1>5, <1>6

\* A commit.  That of an activation leaves its package alone active; that of an import does
\* too when it ran alone, and is on record as a race otherwise.
LEMMA CommitStep ==
  ASSUME RegistryInv, NEW t \in PackageTasks, RCommit(t)
  PROVE  RegistryInv'
<1> DEFINE j == task[t]
           d == j.digest
           old == packages[d]
           row == [version |-> IF j.import THEN j.version ELSE old.version,
                   active |-> IF j.activate THEN TRUE ELSE old.active]
<1>1. j \in PackageTask /\ Informed(j) /\ j.stage = "commit" /\ d \in Digests
  BY DEF RegistryInv, RegistryTypes, RCommit, Informed, Transacting, Writing
<1>2. /\ packages' = [e \in Digests |-> IF e = d THEN row
                        ELSE IF e \in j.off THEN [packages[e] EXCEPT !.active = FALSE] ELSE packages[e]]
      /\ raced' = IF j.activate /\ j.lone THEN FALSE ELSE raced \/ (j.import /\ ~j.lone)
      /\ task' = [task EXCEPT ![t] = NoTask]
  BY DEF RCommit, To
<1>3. /\ j.import => j.version > 0
      /\ ~j.import => j.activate /\ d \in Stored
      /\ j.activate => j.todo = {}
      /\ ~j.import /\ (~raced \/ j.lone) => Stored \ {d} \subseteq j.off
      /\ j.import /\ j.activate /\ j.lone => ActivePackages \ {d} \subseteq j.off
  BY <1>1 DEF Informed, Transacting, Writing
<1>4. \A e \in Digests : packages[e] \in Package BY DEF RegistryInv, RegistryTypes
<1>5. row \in Package /\ row.version > 0 /\ (j.activate => row.active) /\ (~j.activate => row.active = old.active)
  <2>1. j.version \in Nat BY <1>1, TaskFields
  <2>2. old \in Package /\ (~j.import => old.version > 0) BY <1>1, <1>3, <1>4 DEF Stored
  <2> HIDE DEF j, old
  <2> QED BY <1>3, <2>1, <2>2 DEF Package
<1> HIDE DEF row
<1>6. \A e \in Digests \ {d} :
        /\ packages'[e] \in Package /\ packages'[e].version = packages[e].version
        /\ e \in j.off => ~packages'[e].active
        /\ e \notin j.off => packages'[e] = packages[e]
  <2> SUFFICES ASSUME NEW e \in Digests \ {d}
               PROVE  /\ packages'[e] \in Package /\ packages'[e].version = packages[e].version
                      /\ e \in j.off => ~packages'[e].active
                      /\ e \notin j.off => packages'[e] = packages[e]
    OBVIOUS
  <2>1. packages'[e] = IF e \in j.off THEN [packages[e] EXCEPT !.active = FALSE] ELSE packages[e]
    BY <1>2
  <2>2. packages[e] \in Package BY <1>4
  <2> DEFINE p == packages[e]
  <2>3. [p EXCEPT !.active = FALSE] \in Package /\ [p EXCEPT !.active = FALSE].version = p.version
        /\ ~[p EXCEPT !.active = FALSE].active
    BY <2>2 DEF Package
  <2> QED BY <2>1, <2>2, <2>3
<1>7. packages'[d] = row BY <1>1, <1>2
<1>8. packages' \in [Digests -> Package] BY <1>2, <1>5, <1>6, <1>7
<1>9. /\ Stored' = Stored \cup {d}
      /\ ActivePackages' \subseteq (ActivePackages \ j.off) \cup {d}
      /\ ~j.activate => ActivePackages' \subseteq ActivePackages
  BY <1>1, <1>5, <1>6, <1>7 DEF Stored, ActivePackages
<1>10. RegistryTypes'
  <2>1. task' \in [PackageTasks -> PackageTask]
    BY <1>2, TaskFields DEF RegistryInv, RegistryTypes
  <2>2. ActivePackages' \subseteq Stored' BY <1>9 DEF RegistryInv, RegistryTypes
  <2> QED BY <1>8, <2>1, <2>2 DEF RegistryTypes
<1>11. LoneRuns' BY <1>2, TaskFields DEF RegistryInv, RegistryTypes, LoneRuns, Running
<1>12. ASSUME NEW u \in PackageTasks PROVE Informed(task[u])'
  <2>1. CASE u = t
    <3>1. task'[u].stage = "free" BY <1>2, <2>1, TaskFields DEF RegistryInv, RegistryTypes
    <3> QED BY <3>1 DEF Informed, Transacting, Writing
  <2>2. CASE u # t
    <3>1. task'[u] = task[u] BY <1>2, <2>2 DEF RegistryInv, RegistryTypes
    <3>2. Stored' # Stored => raced' \/ j.lone BY <1>2, <1>3, <1>9
    <3>3. raced => raced' \/ j.lone BY <1>2
    <3> QED BY <1>1, <1>9, <2>2, <3>1, <3>2, <3>3, OthersInformed
  <2> QED BY <2>1, <2>2
<1>13. raced' \/ \A e, f \in ActivePackages' : e = f
  <2>1. CASE j.activate /\ (j.lone \/ ~raced) /\ ~(j.import /\ ~j.lone)
    <3>1. ActivePackages' \subseteq {d} BY <1>3, <1>9, <2>1 DEF RegistryInv, RegistryTypes
    <3> QED BY <3>1
  <2>2. CASE ~j.activate /\ ~raced
    BY <1>9, <2>2 DEF RegistryInv
  <2> QED BY <1>2, <2>1, <2>2
<1> QED BY <1>10, <1>11, <1>12, <1>13 DEF RegistryInv

\* The admin action switches all others off, then its package on; alone it leaves that one
\* active, and with others it is on record as a race.
LEMMA AdminStep ==
  ASSUME RegistryInv, NEW t \in PackageTasks, BeginAdmin(t) \/ AdminClear(t) \/ AdminSave(t)
  PROVE  RegistryInv'
<1> DEFINE j == task[t]
<1>0. /\ j \in PackageTask /\ Informed(j) /\ packages \in [Digests -> Package]
      /\ ActivePackages \subseteq Stored /\ task \in [PackageTasks -> PackageTask]
  BY DEF RegistryInv, RegistryTypes
<1>1. CASE BeginAdmin(t)
  <2>1. PICK chosen \in SUBSET Stored :
          RBegin(t, [NoTask EXCEPT !.stage = "admin", !.list = chosen, !.off = ActivePackages,
                                   !.activate = TRUE])
    BY <1>1 DEF BeginAdmin
  <2> DEFINE new == [NoTask EXCEPT !.stage = "admin", !.list = chosen, !.off = ActivePackages,
                                   !.activate = TRUE]
  <2>2. RBegin(t, new) BY <2>1
  <2>3. new \in PackageTask /\ new.stage = "admin" /\ new.list = chosen
    <3>1. chosen \in SUBSET Digests /\ ActivePackages \in SUBSET Digests
      BY DEF Stored, ActivePackages
    <3> QED BY <3>1 DEF NoTask, PackageTask, Transacting, Writing
  <2> HIDE DEF new
  <2>4. Informed(new) BY <2>3 DEF Informed, Transacting, Writing
  <2> QED BY <2>2, <2>3, <2>4, BeginStep
<1>2. CASE AdminClear(t)
  <2>1. PICK d \in j.list :
          /\ j.stage = "admin"
          /\ packages' = [e \in Digests |-> IF e # d THEN [packages[e] EXCEPT !.active = FALSE] ELSE packages[e]]
          /\ To(t, [j EXCEPT !.digest = d, !.list = @ \ {d}, !.stage = "admin save"])
          /\ UNCHANGED raced
    BY <1>2 DEF AdminClear
  <2> DEFINE new == [j EXCEPT !.digest = d, !.list = @ \ {d}, !.stage = "admin save"]
  <2>2. task' = [task EXCEPT ![t] = new] BY <2>1 DEF To
  <2>3. j.list \subseteq Stored /\ d \in Stored /\ d \in Digests
    BY <1>0, <2>1 DEF Informed, Stored
  <2>4. /\ new \in PackageTask /\ new.stage = "admin save" /\ new.digest = d
        /\ new.list \subseteq Stored /\ new.lone = j.lone
    <3>1. j.list \ {d} \in SUBSET Digests BY <2>3 DEF Stored
    <3> HIDE DEF j
    <3> QED BY <1>0, <2>3, <3>1 DEF PackageTask
  <2> HIDE DEF new
  <2>5. \A e \in Digests :
          /\ packages'[e] \in Package /\ packages'[e].version = packages[e].version
          /\ e # d => ~packages'[e].active
          /\ e = d => packages'[e] = packages[e]
    <3> SUFFICES ASSUME NEW e \in Digests
                 PROVE  /\ packages'[e] \in Package /\ packages'[e].version = packages[e].version
                        /\ e # d => ~packages'[e].active
                        /\ e = d => packages'[e] = packages[e]
      OBVIOUS
    <3> DEFINE p == packages[e]
    <3>1. p \in Package BY <1>0
    <3>2. [p EXCEPT !.active = FALSE] \in Package /\ [p EXCEPT !.active = FALSE].version = p.version
          /\ ~[p EXCEPT !.active = FALSE].active
      BY <3>1 DEF Package
    <3> QED BY <2>1, <3>1, <3>2
  <2>6. packages' \in [Digests -> Package] BY <2>1, <2>5
  <2>7. Stored' = Stored /\ ActivePackages' \subseteq ActivePackages \cap {d}
    BY <2>5 DEF Stored, ActivePackages
  <2>8. RegistryTypes' BY <1>0, <2>2, <2>4, <2>6, <2>7 DEF RegistryTypes
  <2>9. LoneRuns' BY <1>0, <2>1, <2>2, <2>4 DEF RegistryInv, LoneRuns, Running
  <2>10. ASSUME NEW u \in PackageTasks PROVE Informed(task[u])'
    <3>1. CASE u = t
      <4>1. task'[u] = new BY <1>0, <2>2, <3>1
      <4> QED BY <2>3, <2>4, <2>7, <4>1 DEF Informed, Transacting, Writing
    <3>2. CASE u # t
      <4>1. task'[u] = task[u] BY <1>0, <2>2, <3>2
      <4> QED BY <2>1, <2>7, <3>2, <4>1, OthersInformed
    <3> QED BY <3>1, <3>2
  <2> QED BY <2>7, <2>8, <2>9, <2>10 DEF RegistryInv
<1>3. CASE AdminSave(t)
  <2> DEFINE d == j.digest
             new == IF j.list = {} THEN NoTask ELSE [j EXCEPT !.stage = "admin"]
  <2>1. /\ j.stage = "admin save" /\ task' = [task EXCEPT ![t] = new]
        /\ packages' = IF d \in j.off THEN packages ELSE [packages EXCEPT ![d].active = TRUE]
        /\ raced' = (raced \/ ~j.lone)
    BY <1>3 DEF AdminSave, To
  <2>2. j.list \subseteq Stored /\ d \in Stored /\ (j.lone => ActivePackages \subseteq {d}) /\ d \in Digests
    BY <1>0, <2>1 DEF Informed, Stored
  <2>3. /\ new \in PackageTask /\ new.stage \in {"free", "admin"} /\ new.list \subseteq Stored
        /\ new.stage # "free" => new.lone = j.lone
    <3>1. NoTask \in PackageTask /\ NoTask.stage = "free" /\ NoTask.list = {}
      BY TaskFields DEF NoTask
    <3> HIDE DEF j
    <3>2. [j EXCEPT !.stage = "admin"] \in PackageTask BY <1>0 DEF PackageTask
    <3> QED BY <1>0, <2>2, <3>1, <3>2 DEF PackageTask
  <2> HIDE DEF new
  <2>4. /\ packages' \in [Digests -> Package]
        /\ \A e \in Digests : packages'[e].version = packages[e].version
        /\ \A e \in Digests \ {d} : packages'[e] = packages[e]
    <3> DEFINE p == packages[d]
    <3>1. p \in Package BY <1>0, <2>2
    <3>2. [p EXCEPT !.active = TRUE] \in Package /\ [p EXCEPT !.active = TRUE].version = p.version
      BY <3>1 DEF Package
    <3> HIDE DEF d
    <3>3. CASE packages' = packages BY <1>0, <3>3
    <3>4. CASE packages' = [packages EXCEPT ![d] = [p EXCEPT !.active = TRUE]]
      BY <1>0, <2>2, <3>2, <3>4
    <3> QED BY <2>1, <3>3, <3>4
  <2>5. Stored' = Stored /\ ActivePackages' \subseteq ActivePackages \cup {d}
    BY <2>4 DEF Stored, ActivePackages
  <2>6. RegistryTypes' BY <1>0, <2>1, <2>2, <2>3, <2>4, <2>5 DEF RegistryTypes
  <2>7. LoneRuns' BY <1>0, <2>1, <2>3 DEF RegistryInv, LoneRuns, Running
  <2>8. ASSUME NEW u \in PackageTasks PROVE Informed(task[u])'
    <3>1. CASE u = t
      <4>1. task'[u] = new BY <1>0, <2>1, <3>1
      <4> QED BY <2>3, <2>5, <4>1 DEF Informed, Transacting, Writing
    <3>2. CASE u # t
      <4>1. task'[u] = task[u] BY <1>0, <2>1, <3>2
      <4> QED BY <2>1, <2>5, <3>2, <4>1, OthersInformed
    <3> QED BY <3>1, <3>2
  <2>9. raced' \/ \A e, f \in ActivePackages' : e = f
    BY <2>1, <2>2, <2>5
  <2> QED BY <2>6, <2>7, <2>8, <2>9 DEF RegistryInv
<1> QED BY <1>1, <1>2, <1>3

\* OneActivePackage (the importer, activate and the admin action): two packages of a
\* problem are active only after a race that is on record, for any number of packages and
\* of requests.
THEOREM PackagesSafe == RSpec => []OneActivePackage
<1>1. RInit => RegistryInv
  <2> SUFFICES ASSUME RInit PROVE RegistryInv OBVIOUS
  <2>1. ActivePackages = {} /\ Running = {} BY TaskFields DEF RInit, ActivePackages, Running
  <2>2. packages \in [Digests -> Package] BY DEF RInit, Package
  <2>3. task \in [PackageTasks -> PackageTask] BY TaskFields DEF RInit
  <2>4. \A t \in PackageTasks : Informed(task[t])
    BY TaskFields DEF RInit, Informed, Transacting, Writing
  <2> QED BY <2>1, <2>2, <2>3, <2>4 DEF RegistryInv, RegistryTypes, LoneRuns
<1>2. RegistryInv /\ [RNext]_rvars => RegistryInv'
  <2> SUFFICES ASSUME RegistryInv, [RNext]_rvars PROVE RegistryInv' OBVIOUS
  <2>1. CASE UNCHANGED rvars
    BY <2>1 DEF rvars, RegistryInv, RegistryTypes, LoneRuns, Running, Informed, Stored,
       ActivePackages
  <2> QED BY <2>1, TransactionStep, CommitStep, AdminStep DEF RNext
<1>3. RegistryInv => OneActivePackage
  <2> SUFFICES ASSUME RegistryInv, ~raced PROVE ~(Cardinality(ActivePackages) > 1)
    BY DEF OneActivePackage
  <2>1. CASE ActivePackages = {} BY <2>1, FS_EmptySet
  <2>2. CASE ActivePackages # {}
    <3>1. PICK d : ActivePackages = {d} BY <2>2 DEF RegistryInv
    <3> QED BY <3>1, FS_Singleton
  <2> QED BY <2>1, <2>2
<1> QED BY <1>1, <1>2, <1>3, PTL DEF RSpec

-----------------------------------------------------------------------------
(* The places of comments *)

Comment == [parent : Nat, path : Seq(Nat), deleted : BOOLEAN, score : Int, overlapped : BOOLEAN]
Creating == {"locking", "locked", "full"}
Voting == {"voting", "voted"}
Work == [stage : {"resting"} \cup Creating \cup Voting, by : Authors \cup {"none"}, at : Nat,
         seen : SUBSET Nat, value : Int, score : Int, overlapped : BOOLEAN]

PostTypes ==
  /\ comments \in Seq(Comment)
  /\ ballots \in [(1..MaxActs) \X Authors -> Int]
  /\ work \in [Writers -> Work]
  /\ cast \in Nat /\ Len(comments) + cast <= MaxActs

NumberOf(c) == comments[c].path[Len(comments[c].path)]

\* A comment's path is its parent's and a number.
Placed(c) ==
  /\ comments[c].parent \in Rows \cup {Root}
  /\ \E n \in Nat : comments[c].path = Append(PathOf(comments[c].parent), n)

\* A comment that no other overlapped has a greater number than the siblings before it.
Numbered == \A b, c \in Rows :
  b < c /\ comments[b].parent = comments[c].parent /\ ~comments[c].overlapped => NumberOf(b) < NumberOf(c)

\* A creation has read siblings, and all there are, unless one was created since; a
\* vote is on a comment that is there.
Aware(q) ==
  /\ q.stage \in Creating =>
       /\ q.at \in Rows \cup {Root} /\ q.seen \subseteq Siblings(q.at)
       /\ q.overlapped \/ q.seen = Siblings(q.at)
  /\ q.stage \in Voting => q.at \in Rows /\ q.by \in Authors

CommunityInv ==
  /\ PostTypes
  /\ \A c \in Rows : Placed(c)
  /\ Numbered
  /\ \A w \in Writers : Aware(work[w])

\* A path that is one number longer than another one determines both.
LEMMA AppendLast ==
  ASSUME NEW p \in Seq(Nat), NEW n \in Nat
  PROVE  LET r == Append(p, n) IN r \in Seq(Nat) /\ Len(r) = Len(p) + 1 /\ r[Len(r)] = n
OBVIOUS

\* Two paths made by one number each are the same only for one parent path and one number.
LEMMA AppendInjective ==
  ASSUME NEW p \in Seq(Nat), NEW q \in Seq(Nat), NEW m \in Nat, NEW n \in Nat,
         Append(p, m) = Append(q, n)
  PROVE  p = q /\ m = n
<1>1. m = n /\ Len(p) = Len(q) BY AppendLast
<1>2. \A i \in 1..Len(p) : p[i] = q[i]
  <2>1. \A i \in 1..Len(p) : Append(p, m)[i] = p[i] OBVIOUS
  <2>2. \A i \in 1..Len(q) : Append(q, n)[i] = q[i] OBVIOUS
  <2> QED BY <1>1, <2>1, <2>2
<1>3. p = [i \in 1..Len(p) |-> p[i]] /\ q = [i \in 1..Len(q) |-> q[i]] OBVIOUS
<1>4. p = q BY <1>1, <1>2, <1>3
<1> QED BY <1>1, <1>4

\* The fields of comments and requests.
LEMMA CommentFields ==
  /\ \A r \in Comment : r.parent \in Nat /\ r.path \in Seq(Nat) /\ r.score \in Int
  /\ \A q \in Work : q.at \in Nat /\ q.value \in Int /\ q.overlapped \in BOOLEAN /\ q.seen \subseteq Nat
                     /\ q.stage \in {"resting"} \cup Creating \cup Voting
  /\ Resting \in Work /\ Resting.stage = "resting" /\ ~Resting.overlapped
BY DEF Comment, Work, Resting, Root

\* The next number is above that of every sibling that was read.
LEMMA NextIsGreater ==
  ASSUME PostTypes, \A c \in Rows : Placed(c), NEW seen \in SUBSET Rows
  PROVE  NextSegment(seen) \in Nat /\ \A c \in seen : NumberOf(c) < NextSegment(seen)
<1> DEFINE S == {0} \cup {comments[c].path[Len(comments[c].path)] : c \in seen}
<1>1. \A c \in Rows : NumberOf(c) \in Nat
  <2> SUFFICES ASSUME NEW c \in Rows PROVE NumberOf(c) \in Nat OBVIOUS
  <2>1. comments[c] \in Comment BY DEF PostTypes, Rows
  <2>2. comments[c].path \in Seq(Nat) BY <2>1, CommentFields
  <2>3. PICK n \in Nat : comments[c].path = Append(PathOf(comments[c].parent), n) BY DEF Placed
  <2>4. PathOf(comments[c].parent) \in Seq(Nat)
    <3>1. comments[c].parent \in Rows \cup {Root} BY DEF Placed
    <3>2. \A b \in Rows : comments[b] \in Comment BY DEF PostTypes, Rows
    <3> QED BY <3>1, <3>2, CommentFields DEF PathOf
  <2> QED BY <2>3, <2>4, AppendLast DEF NumberOf
<1>2. S = {0} \cup {NumberOf(c) : c \in seen} BY DEF NumberOf
<1>3. S \in SUBSET Nat /\ S # {}
  <2> HIDE DEF S
  <2> QED BY <1>1, <1>2
<1>4. IsFiniteSet(S)
  <2>1. Rows = 1..Len(comments) /\ Len(comments) \in Nat BY DEF PostTypes, Rows
  <2>2. IsFiniteSet(seen)
    <3>1. IsFiniteSet(1..Len(comments)) BY <2>1, FS_Interval
    <3> QED BY <2>1, <3>1, FS_Subset
  <2> DEFINE f == [c \in seen |-> NumberOf(c)]
  <2>3. IsFiniteSet(DOMAIN f) /\ S = {0} \cup {f[c] : c \in DOMAIN f} BY <1>2, <2>2
  <2> HIDE DEF f, S
  <2>4. IsFiniteSet({f[c] : c \in DOMAIN f}) BY <2>3, FinitelyManyValues
  <2> QED BY <2>3, <2>4, FS_AddElement
<1>5. NextSegment(seen) = 1 + Max(S) BY DEF NextSegment
<1> HIDE DEF S
<1>6. Max(S) \in S /\ \A x \in S : x <= Max(S) BY <1>3, <1>4, GreatestOfNaturals
<1>7. PICK top \in Nat : top = Max(S) BY <1>3, <1>6
<1>8. ASSUME NEW c \in seen PROVE NumberOf(c) \in Nat /\ NumberOf(c) <= top
  <2>1. NumberOf(c) \in S BY <1>2
  <2> QED BY <1>1, <1>6, <1>7, <2>1
<1> QED BY <1>5, <1>7, <1>8

\* What places and creations depend on: who is there, whose child, where, and how created.
LEMMA PlacesKept ==
  ASSUME CommunityInv, Rows' = Rows,
         \A c \in Rows : /\ comments'[c].parent = comments[c].parent
                         /\ comments'[c].path = comments[c].path
                         /\ comments'[c].overlapped = comments[c].overlapped
  PROVE  /\ \A c \in Rows' : Placed(c)'
         /\ Numbered'
         /\ \A p : Siblings(p)' = Siblings(p)
<1>1. \A p : Siblings(p)' = Siblings(p) BY DEF Siblings
<1>2. ASSUME NEW c \in Rows' PROVE Placed(c)'
  <2>1. Placed(c) /\ comments[c].parent \in Rows \cup {Root} BY DEF CommunityInv, Placed
  <2>2. PathOf(comments[c].parent)' = PathOf(comments[c].parent) BY <2>1 DEF PathOf
  <2> QED BY <2>1, <2>2 DEF Placed
<1>3. Numbered' BY DEF CommunityInv, Numbered, NumberOf
<1> QED BY <1>1, <1>2, <1>3

\* A request goes on, and the comments stay as they are.
LEMMA WorkStep ==
  ASSUME CommunityInv, NEW w \in Writers, NEW new \in Work, Aware(new),
         work' = [work EXCEPT ![w] = new], UNCHANGED <<comments, ballots>>,
         cast' \in Nat, Len(comments) + cast' <= MaxActs
  PROVE  CommunityInv'
<1>1. Rows' = Rows BY DEF Rows
<1>2. /\ \A c \in Rows' : Placed(c)'
      /\ Numbered'
      /\ \A p : Siblings(p)' = Siblings(p)
  BY <1>1, PlacesKept
<1>3. PostTypes' BY DEF CommunityInv, PostTypes
<1>4. ASSUME NEW v \in Writers PROVE Aware(work[v])'
  <2>1. Aware(work'[v]) BY DEF CommunityInv, PostTypes
  <2> QED BY <1>1, <1>2, <2>1 DEF Aware
<1> QED BY <1>2, <1>3, <1>4 DEF CommunityInv

\* A step of a request that leaves the comments alone keeps the invariant.
LEMMA PostRequestStep ==
  ASSUME CommunityInv, NEW w \in Writers,
         BeginComment(w) \/ LockSiblings(w) \/ RefuseComment(w) \/ BeginVote(w) \/ LockBallot(w) \/ AbortWork(w)
  PROVE  CommunityInv'
<1> DEFINE q == work[w]
<1>0. q \in Work /\ Aware(q) /\ cast \in Nat /\ Len(comments) + cast <= MaxActs /\ Len(comments) \in Nat
  BY DEF CommunityInv, PostTypes
<1>1. CASE BeginComment(w)
  <2>1. PICK parent \in Rows \cup {Root} :
          /\ work' = [work EXCEPT ![w] = [Resting EXCEPT !.stage = "locking", !.at = parent,
                                                         !.seen = Siblings(parent)]]
          /\ UNCHANGED <<comments, ballots, cast>>
    BY <1>1 DEF BeginComment
  <2> DEFINE new == [Resting EXCEPT !.stage = "locking", !.at = parent, !.seen = Siblings(parent)]
  <2>2. work' = [work EXCEPT ![w] = new] BY <2>1
  <2>3. /\ new \in Work /\ new.stage = "locking" /\ new.at = parent
        /\ new.seen = Siblings(parent)
    <3>1. parent \in Nat /\ Siblings(parent) \in SUBSET Nat
      BY DEF CommunityInv, PostTypes, Rows, Root, Siblings
    <3> QED BY <3>1, CommentFields DEF Work, Creating
  <2> HIDE DEF new
  <2>4. Aware(new) BY <2>3 DEF Aware, Voting
  <2> QED BY <1>0, <2>1, <2>2, <2>3, <2>4, WorkStep
<1>2. CASE LockSiblings(w) \/ LockBallot(w)
  <2> DEFINE s == IF q.stage = "voting" THEN "voted"
                  ELSE IF NextSegment(q.seen) > MaxSegment THEN "full" ELSE "locked"
             new == [q EXCEPT !.stage = s]
  <2>1. /\ q.stage \in {"locking", "voting"} /\ UNCHANGED <<comments, ballots, cast>>
        /\ work' = [work EXCEPT ![w] = new]
    BY <1>2 DEF LockSiblings, LockBallot, CommunityInv, PostTypes
  <2>2. /\ new \in Work /\ new.stage = s /\ new.at = q.at /\ new.seen = q.seen /\ new.by = q.by
        /\ new.overlapped = q.overlapped
    <3>1. s \in {"voted", "full", "locked"} OBVIOUS
    <3> HIDE DEF s, q
    <3> QED BY <1>0, <3>1 DEF Work, Creating, Voting
  <2> HIDE DEF new
  <2>3. Aware(new)
    <3>1. q.stage = "voting" => s = "voted" OBVIOUS
    <3>2. q.stage = "locking" => s \in {"full", "locked"} OBVIOUS
    <3> HIDE DEF s, q
    <3> QED BY <1>0, <2>1, <2>2, <3>1, <3>2 DEF Aware, Creating, Voting
  <2> QED BY <1>0, <2>1, <2>2, <2>3, WorkStep
<1>3. CASE RefuseComment(w) \/ AbortWork(w)
  <2>1. Aware(Resting) BY CommentFields DEF Aware, Creating, Voting
  <2> QED BY <1>0, <1>3, <2>1, CommentFields, WorkStep DEF RefuseComment, AbortWork
<1>4. CASE BeginVote(w)
  <2>1. PICK u \in Authors, c \in Rows, value \in {1, -1} :
          /\ cast' = cast + 1 /\ Len(comments) + cast < MaxActs
          /\ work' = [work EXCEPT ![w] = [Resting EXCEPT !.stage = "voting", !.by = u, !.at = c, !.value = value,
                                                         !.score = comments[c].score]]
          /\ UNCHANGED <<comments, ballots>>
    BY <1>4 DEF BeginVote
  <2> DEFINE new == [Resting EXCEPT !.stage = "voting", !.by = u, !.at = c, !.value = value,
                                    !.score = comments[c].score]
  <2>2. work' = [work EXCEPT ![w] = new] BY <2>1
  <2>3. new \in Work /\ new.stage = "voting" /\ new.at = c /\ new.by = u
    <3>1. c \in Nat /\ comments[c].score \in Int /\ value \in Int
      BY CommentFields DEF CommunityInv, PostTypes, Rows
    <3> QED BY <3>1, CommentFields DEF Work, Voting
  <2> HIDE DEF new
  <2>4. Aware(new) BY <2>3 DEF Aware, Creating
  <2>5. cast' \in Nat /\ Len(comments) + cast' <= MaxActs BY <1>0, <2>1, CommunityAssumption
  <2> QED BY <2>1, <2>2, <2>3, <2>4, <2>5, WorkStep
<1> QED BY <1>1, <1>2, <1>3, <1>4

\* A comment is deleted, or a vote is committed: one row changes, and keeps its place.
LEMMA RowStep ==
  ASSUME CommunityInv, (\E c \in Rows : DeleteComment(c)) \/ (\E w \in Writers : CommitVote(w))
  PROVE  CommunityInv'
<1>0. /\ comments \in Seq(Comment) /\ work \in [Writers -> Work] /\ cast \in Nat
      /\ Len(comments) + cast <= MaxActs /\ Len(comments) \in Nat
      /\ ballots \in [(1..MaxActs) \X Authors -> Int]
  BY DEF CommunityInv, PostTypes
<1>1. ASSUME NEW c \in Rows, NEW row \in Comment, comments' = [comments EXCEPT ![c] = row],
             row.parent = comments[c].parent, row.path = comments[c].path,
             row.overlapped = comments[c].overlapped, UNCHANGED cast,
             ballots' \in [(1..MaxActs) \X Authors -> Int],
             \A v \in Writers : work'[v] = work[v] \/ work'[v] = Resting, work' \in [Writers -> Work]
      PROVE  CommunityInv'
  <2>1. comments' \in Seq(Comment) /\ Len(comments') = Len(comments) /\ Rows' = Rows
    BY <1>0, <1>1 DEF Rows
  <2>2. PostTypes' BY <1>0, <1>1, <2>1 DEF PostTypes
  <2>3. \A b \in Rows : /\ comments'[b].parent = comments[b].parent
                        /\ comments'[b].path = comments[b].path
                        /\ comments'[b].overlapped = comments[b].overlapped
    BY <1>0, <1>1 DEF Rows
  <2>4. /\ \A b \in Rows' : Placed(b)'
        /\ Numbered'
        /\ \A p : Siblings(p)' = Siblings(p)
    BY <2>1, <2>3, PlacesKept
  <2>5. ASSUME NEW v \in Writers PROVE Aware(work[v])'
    <3>1. Aware(work'[v])
      <4>1. Aware(Resting) BY CommentFields DEF Aware, Creating, Voting
      <4> QED BY <1>1, <4>1 DEF CommunityInv
    <3> QED BY <2>1, <2>4, <3>1 DEF Aware
  <2> QED BY <2>2, <2>4, <2>5 DEF CommunityInv
<1>2. ASSUME NEW c \in Rows, DeleteComment(c) PROVE CommunityInv'
  <2> DEFINE r == comments[c]
             row == [r EXCEPT !.deleted = TRUE]
  <2>1. r \in Comment BY <1>0 DEF Rows
  <2>2. row \in Comment /\ row.parent = r.parent /\ row.path = r.path /\ row.overlapped = r.overlapped
    <3> HIDE DEF r
    <3> QED BY <2>1 DEF Comment
  <2>3. comments' = [comments EXCEPT ![c] = row] /\ UNCHANGED <<ballots, work, cast>>
    BY <1>0, <1>2 DEF DeleteComment, Rows
  <2> HIDE DEF row
  <2> QED BY <1>0, <1>1, <2>2, <2>3
<1>3. ASSUME NEW w \in Writers, CommitVote(w) PROVE CommunityInv'
  <2> DEFINE q == work[w]
             delta == q.value - ballots[<<q.at, q.by>>]
             r == comments[q.at]
             row == [r EXCEPT !.score = r.score + delta]
  <2>1. /\ q.stage = "voted" /\ ballots' = [ballots EXCEPT ![<<q.at, q.by>>] = q.value]
        /\ comments' = [comments EXCEPT ![q.at].score = NewScore(q, delta)]
        /\ work' = [work EXCEPT ![w] = Resting] /\ UNCHANGED cast
    BY <1>3 DEF CommitVote
  <2>2. q \in Work /\ q.at \in Rows /\ q.by \in Authors /\ q.value \in Int
    BY <1>0, <2>1, CommentFields DEF CommunityInv, Aware, Voting
  <2>3. <<q.at, q.by>> \in (1..MaxActs) \X Authors
    BY <1>0, <2>2, CommunityAssumption DEF Rows
  <2>4. r \in Comment /\ delta \in Int
    <3>1. r \in Comment BY <1>0, <2>2 DEF Rows
    <3> HIDE DEF q
    <3>2. ballots[<<q.at, q.by>>] \in Int BY <1>0, <2>3
    <3> QED BY <2>2, <3>1, <3>2
  <2>5. row \in Comment /\ row.parent = r.parent /\ row.path = r.path /\ row.overlapped = r.overlapped
    <3>0. r.score \in Int BY <2>4, CommentFields
    <3>1. PICK n \in Int : n = r.score + delta
      <4> HIDE DEF r, delta
      <4> QED BY <2>4, <3>0
    <3>2. row = [r EXCEPT !.score = n] BY <3>1
    <3> HIDE DEF r, row, delta
    <3> QED BY <2>4, <3>1, <3>2 DEF Comment
  <2>6. comments' = [comments EXCEPT ![q.at] = row] BY <2>1 DEF NewScore
  <2>7. ballots' \in [(1..MaxActs) \X Authors -> Int]
    <3> HIDE DEF q
    <3> QED BY <1>0, <2>1, <2>2
  <2>8. /\ work' \in [Writers -> Work]
        /\ \A v \in Writers : work'[v] = work[v] \/ work'[v] = Resting
    BY <1>0, <2>1, CommentFields
  <2> HIDE DEF row, q, delta
  <2> QED BY <1>1, <2>1, <2>2, <2>5, <2>6, <2>7, <2>8
<1> QED BY <1>2, <1>3

\* A comment is created.  If nobody was faster, it counts on from all its siblings.
LEMMA CreationStep ==
  ASSUME CommunityInv, NEW w \in Writers, CommitComment(w)
  PROVE  CommunityInv'
<1> DEFINE q == work[w]
           c == Len(comments) + 1
           n == NextSegment(q.seen)
           row == [parent |-> q.at, path |-> Append(PathOf(q.at), n),
                   deleted |-> FALSE, score |-> 0, overlapped |-> q.overlapped]
<1>0. /\ comments \in Seq(Comment) /\ work \in [Writers -> Work] /\ cast \in Nat
      /\ Len(comments) \in Nat /\ Rows = 1..Len(comments)
      /\ ballots \in [(1..MaxActs) \X Authors -> Int]
  BY DEF CommunityInv, PostTypes, Rows
<1>1. /\ q.stage = "locked" /\ Len(comments) + cast < MaxActs
      /\ comments' = Append(comments, row)
      /\ work' = [v \in Writers |->
           IF v = w THEN Resting
           ELSE IF work[v].stage \in Creating /\ work[v].at = q.at
                THEN [work[v] EXCEPT !.overlapped = TRUE] ELSE work[v]]
      /\ UNCHANGED <<ballots, cast>>
  BY DEF CommitComment, Creating
<1>2. /\ q \in Work /\ q.at \in Rows \cup {Root} /\ q.seen \subseteq Siblings(q.at)
      /\ q.overlapped \/ q.seen = Siblings(q.at)
  BY <1>0, <1>1 DEF CommunityInv, Aware, Creating
<1>3. /\ \A b \in Rows : comments[b] \in Comment /\ comments[b].path \in Seq(Nat)
      /\ PathOf(q.at) \in Seq(Nat)
  <2>1. \A b \in Rows : comments[b] \in Comment BY <1>0
  <2>2. \A b \in Rows : comments[b].path \in Seq(Nat) BY <2>1, CommentFields
  <2> HIDE DEF q
  <2> QED BY <1>2, <2>1, <2>2 DEF PathOf
<1>4. n \in Nat /\ \A b \in q.seen : NumberOf(b) < n
  <2>1. q.seen \in SUBSET Rows BY <1>2 DEF Siblings
  <2> HIDE DEF q
  <2> QED BY <2>1, NextIsGreater DEF CommunityInv
<1> HIDE DEF n
<1>5. row \in Comment /\ row.parent = q.at /\ row.path = Append(PathOf(q.at), n) /\ row.overlapped = q.overlapped
  <2>1. q.at \in Nat /\ q.overlapped \in BOOLEAN /\ Append(PathOf(q.at), n) \in Seq(Nat)
    BY <1>2, <1>3, <1>4, CommentFields
  <2> QED BY <2>1 DEF Comment
<1> HIDE DEF row, q
<1>6. /\ comments' \in Seq(Comment) /\ Len(comments') = Len(comments) + 1 /\ Rows' = Rows \cup {c}
      /\ comments'[c] = row /\ c \notin Rows /\ c # Root
      /\ \A b \in Rows : comments'[b] = comments[b] /\ b < c /\ b # Root
  BY <1>0, <1>1, <1>5 DEF Rows, Root
<1>7. \A p \in Rows \cup {Root} : PathOf(p)' = PathOf(p) BY <1>6 DEF PathOf
<1>8. /\ \A p : p # q.at => Siblings(p)' = Siblings(p)
      /\ \A p : Siblings(p) \subseteq Siblings(p)'
  BY <1>5, <1>6 DEF Siblings
<1>9. ASSUME NEW b \in Rows' PROVE Placed(b)'
  <2>1. CASE b = c
    <3>1. PICK at \in Rows \cup {Root} : at = q.at BY <1>2
    <3>2. /\ comments'[b].parent = at /\ PathOf(at)' = PathOf(at)
          /\ comments'[b].path = Append(PathOf(at), n)
      BY <1>5, <1>6, <1>7, <2>1, <3>1
    <3>3. PathOf(comments[b].parent)' = PathOf(at) BY <3>2 DEF PathOf
    <3> QED BY <1>4, <1>6, <3>2, <3>3 DEF Placed
  <2>2. CASE b # c
    <3>1. b \in Rows /\ Placed(b) /\ comments[b].parent \in Rows \cup {Root}
      BY <1>6, <2>2 DEF CommunityInv, Placed
    <3>2. comments'[b] = comments[b] BY <1>6, <3>1
    <3>3. PathOf(comments[b].parent)' = PathOf(comments[b].parent) BY <1>7, <3>1, <3>2
    <3> QED BY <1>6, <3>1, <3>2, <3>3 DEF Placed
  <2> QED BY <2>1, <2>2
<1>10. Numbered'
  <2> SUFFICES ASSUME NEW a \in Rows', NEW b \in Rows', a < b,
                      comments'[a].parent = comments'[b].parent, ~comments'[b].overlapped
               PROVE  NumberOf(a)' < NumberOf(b)'
    BY DEF Numbered
  <2>1. a \in Rows
    BY <1>0, <1>6
  <2>2. NumberOf(a)' = NumberOf(a) BY <1>6, <2>1 DEF NumberOf
  <2>3. CASE b = c
    <3>1. NumberOf(b)' = n BY <1>3, <1>4, <1>5, <1>6, <2>3, AppendLast DEF NumberOf
    <3>2. a \in q.seen BY <1>2, <1>5, <1>6, <2>1, <2>3 DEF Siblings
    <3> QED BY <1>4, <2>2, <3>1, <3>2
  <2>4. CASE b # c
    <3>1. b \in Rows /\ comments'[b] = comments[b] /\ comments'[a] = comments[a]
      BY <1>6, <2>1, <2>4
    <3>2. NumberOf(b)' = NumberOf(b) BY <3>1 DEF NumberOf
    <3>3. NumberOf(a) < NumberOf(b) BY <2>1, <3>1 DEF CommunityInv, Numbered
    <3> QED BY <2>2, <3>2, <3>3
  <2> QED BY <2>3, <2>4
<1>11. ASSUME NEW v \in Writers PROVE work'[v] \in Work /\ Aware(work[v])'
  <2>1. CASE v = w
    <3>1. work'[v] = Resting BY <1>1, <2>1
    <3> QED BY <3>1, CommentFields DEF Aware, Creating, Voting
  <2>2. CASE v # w /\ work[v].stage \in Creating /\ work[v].at = q.at
    <3> DEFINE j == work[v]
               k == [j EXCEPT !.overlapped = TRUE]
    <3>1. j \in Work /\ Aware(j) BY <1>0 DEF CommunityInv
    <3>2. k \in Work /\ k.overlapped /\ k.stage = j.stage /\ k.at = j.at /\ k.seen = j.seen
      <4> HIDE DEF j
      <4> QED BY <3>1 DEF Work
    <3>3. work'[v] = k BY <1>1, <2>2
    <3>4. j.at \in Rows \cup {Root} /\ j.seen \subseteq Siblings(j.at) BY <2>2, <3>1 DEF Aware
    <3>5. k.stage \notin Voting BY <2>2, <3>2 DEF Creating, Voting
    <3>6. PICK at : at = j.at OBVIOUS
    <3>7. work'[v].at = at /\ work'[v].seen = j.seen /\ work'[v].overlapped BY <3>2, <3>3, <3>6
    <3>8. at \in Rows' \cup {Root} /\ work'[v].seen \subseteq Siblings(at)'
      BY <1>6, <1>8, <3>4, <3>6, <3>7
    <3>9. work'[v].stage \notin Voting BY <3>3, <3>5
    <3>10. Siblings(work[v].at)' = Siblings(at)' BY <3>7 DEF Siblings
    <3>11. Aware(work[v])' BY <3>7, <3>8, <3>9, <3>10 DEF Aware
    <3> QED BY <3>2, <3>3, <3>11
  <2>3. CASE v # w /\ ~(work[v].stage \in Creating /\ work[v].at = q.at)
    <3>1. work'[v] = work[v] /\ work[v] \in Work /\ Aware(work[v])
      BY <1>0, <1>1, <2>3 DEF CommunityInv
    <3> QED BY <1>6, <1>8, <2>3, <3>1 DEF Aware
  <2> QED BY <2>1, <2>2, <2>3
<1>12. PostTypes'
  <2>1. work' \in [Writers -> Work] BY <1>1, <1>11
  <2>2. Len(comments') + cast' <= MaxActs BY <1>0, <1>1, <1>6, CommunityAssumption
  <2> QED BY <1>0, <1>1, <1>6, <2>1, <2>2 DEF PostTypes
<1> QED BY <1>9, <1>10, <1>11, <1>12 DEF CommunityInv

LEMMA CommunityHolds == CSpec => []CommunityInv
<1>1. CInit => CommunityInv
  <2> SUFFICES ASSUME CInit PROVE CommunityInv OBVIOUS
  <2>1. comments = << >> /\ Rows = {} /\ cast = 0 BY DEF CInit, Rows
  <2>2. work \in [Writers -> Work] /\ \A w \in Writers : Aware(work[w])
    BY CommentFields DEF CInit, Aware, Creating, Voting
  <2>3. ballots \in [(1..MaxActs) \X Authors -> Int] BY DEF CInit
  <2>4. PostTypes
    <3>1. comments \in Seq(Comment) /\ Len(comments) = 0 BY <2>1
    <3> QED BY <2>1, <2>2, <2>3, <3>1, CommunityAssumption DEF PostTypes
  <2> QED BY <2>1, <2>2, <2>4 DEF CommunityInv, Numbered
<1>2. CommunityInv /\ [CNext]_cvars => CommunityInv'
  <2> SUFFICES ASSUME CommunityInv, [CNext]_cvars PROVE CommunityInv' OBVIOUS
  <2>1. CASE UNCHANGED cvars
    BY <2>1 DEF cvars, CommunityInv, PostTypes, Placed, Numbered, NumberOf, Aware, Siblings,
       Rows, PathOf
  <2> QED BY <2>1, PostRequestStep, RowStep, CreationStep DEF CNext
<1> QED BY <1>1, <1>2, PTL DEF CSpec

\* OwnPlaces (CommentService.create_comment): a comment has a place of its own, unless it
\* was created beside another one or its parent's place is not its own; for any number of
\* authors, comments and deletions.
THEOREM PlacesSafe == CSpec => []OwnPlaces
<1>1. CommunityInv => OwnPlaces
  <2> SUFFICES ASSUME CommunityInv, NEW b \in Rows, NEW c \in Rows, b < c,
                      comments[b].path = comments[c].path, ~comments[c].overlapped
               PROVE  /\ comments[b].parent # comments[c].parent
                      /\ PathOf(comments[b].parent) = PathOf(comments[c].parent)
    BY DEF OwnPlaces
  <2>1. NumberOf(b) = NumberOf(c) BY DEF NumberOf
  <2>2. ASSUME NEW a \in Rows
        PROVE  /\ PathOf(comments[a].parent) \in Seq(Nat)
               /\ \E n \in Nat : comments[a].path = Append(PathOf(comments[a].parent), n) /\ NumberOf(a) = n
    <3>1. Placed(a) BY DEF CommunityInv
    <3>2. \A d \in Rows : comments[d].path \in Seq(Nat)
      BY CommentFields DEF CommunityInv, PostTypes, Rows
    <3>3. PathOf(comments[a].parent) \in Seq(Nat) BY <3>1, <3>2 DEF Placed, PathOf
    <3> QED BY <3>1, <3>3, AppendLast DEF Placed, NumberOf
  <2>3. comments[b].parent # comments[c].parent
    <3>1. NumberOf(b) \in Nat BY <2>2
    <3> QED BY <2>1, <3>1 DEF CommunityInv, Numbered
  <2>4. PathOf(comments[b].parent) = PathOf(comments[c].parent)
    <3>1. PICK m \in Nat : comments[b].path = Append(PathOf(comments[b].parent), m) BY <2>2
    <3>2. PICK n \in Nat : comments[c].path = Append(PathOf(comments[c].parent), n) BY <2>2
    <3>3. Append(PathOf(comments[b].parent), m) = Append(PathOf(comments[c].parent), n)
      BY <3>1, <3>2
    <3> QED BY <2>2, <3>3, AppendInjective
  <2> QED BY <2>3, <2>4
<1> QED BY <1>1, CommunityHolds, PTL

-----------------------------------------------------------------------------
(* The score of a comment *)

VotesOn(c) == [u \in Authors |-> ballots[<<c, u>>]]

\* There is no vote on a comment that is yet to be made, and each score is the sum of
\* the votes on its comment.
Tallied ==
  /\ \A c \in (1..MaxActs) \ Rows, u \in Authors : ballots[<<c, u>>] = 0
  /\ ScoreIsSumOfVotes

LEMMA VotesTyped ==
  ASSUME CommunityInv
  PROVE  /\ Rows \subseteq 1..MaxActs
         /\ \A c \in 1..MaxActs : VotesOn(c) \in [Authors -> Int]
<1>1. /\ Rows = 1..Len(comments) /\ Len(comments) \in Nat /\ cast \in Nat
      /\ Len(comments) + cast <= MaxActs /\ MaxActs \in Nat
  BY CommunityAssumption DEF CommunityInv, PostTypes, Rows
<1>2. ballots \in [(1..MaxActs) \X Authors -> Int]
  BY DEF CommunityInv, PostTypes
<1> QED BY <1>1, <1>2 DEF VotesOn

\* Where neither the comments' scores nor the votes change, nothing changes.
LEMMA TallyKept ==
  ASSUME Tallied, Rows' = Rows, UNCHANGED ballots, \A c \in Rows : comments'[c].score = comments[c].score
  PROVE  Tallied'
<1>1. ScoreIsSumOfVotes'
  BY DEF Tallied, ScoreIsSumOfVotes
<1> QED BY <1>1 DEF Tallied

\* A vote replaces the one that its author had, and the score moves by the difference.
LEMMA VoteCounts ==
  ASSUME CommunityInv, Tallied, NEW w \in Writers, CommitVote(w)
  PROVE  Tallied'
<1> DEFINE q == work[w]
<1>1. q \in Work /\ q.at \in Rows /\ q.by \in Authors /\ q.value \in Int
  <2>1. q \in Work /\ Aware(q) /\ q.stage = "voted"
    BY DEF CommunityInv, PostTypes, CommitVote
  <2> QED BY <2>1, CommentFields DEF Aware, Voting
<1> PICK at \in Rows : at = q.at
  BY <1>1
<1> PICK by \in Authors : by = q.by
  BY <1>1
<1> PICK value \in Int : value = q.value
  BY <1>1
<1>2. /\ ballots' = [ballots EXCEPT ![<<at, by>>] = value]
      /\ comments' = [comments EXCEPT ![at].score = comments[at].score + (value - ballots[<<at, by>>])]
  BY DEF CommitVote, NewScore
<1> HIDE DEF q
<1>3. /\ comments \in Seq(Comment) /\ ballots \in [(1..MaxActs) \X Authors -> Int]
      /\ Rows = 1..Len(comments) /\ Len(comments) \in Nat
  BY DEF CommunityInv, PostTypes, Rows
<1>4. Rows \subseteq 1..MaxActs /\ \A c \in 1..MaxActs : VotesOn(c) \in [Authors -> Int]
  BY VotesTyped
<1>5. \A c \in 1..MaxActs, u \in Authors :
        ballots'[<<c, u>>] = IF c = at /\ u = by THEN value ELSE ballots[<<c, u>>]
  BY <1>2, <1>3
<1>6. /\ Rows' = Rows
      /\ \A c \in Rows \ {at} : comments'[c] = comments[c]
      /\ comments'[at].score = comments[at].score + (value - ballots[<<at, by>>])
  <2>1. comments[at] \in Comment
    BY <1>3
  <2>2. comments'[at] = [comments[at] EXCEPT !.score = comments[at].score + (value - ballots[<<at, by>>])]
    BY <1>2, <1>3
  <2>3. Rows' = Rows /\ \A c \in Rows \ {at} : comments'[c] = comments[c]
    BY <1>2, <1>3 DEF Rows
  <2> QED BY <2>1, <2>2, <2>3 DEF Comment
<1>7. ASSUME NEW c \in (1..MaxActs) \ Rows', NEW u \in Authors PROVE ballots'[<<c, u>>] = 0
  <2>1. c \in (1..MaxActs) \ Rows /\ c # at
    BY <1>6
  <2>2. ballots'[<<c, u>>] = ballots[<<c, u>>]
    BY <1>5, <2>1
  <2> QED BY <2>1, <2>2 DEF Tallied
<1>8. ASSUME NEW c \in Rows
      PROVE  comments'[c].score = SumFunction([u \in Authors |-> ballots'[<<c, u>>]])
  <2> DEFINE old == VotesOn(c)
             new == [u \in Authors |-> ballots'[<<c, u>>]]
  <2>1. c \in 1..MaxActs /\ comments[c].score = SumFunction(old)
    BY <1>4 DEF Tallied, ScoreIsSumOfVotes, VotesOn
  <2>2. CASE c # at
    <3>1. new = old
      BY <1>5, <2>1, <2>2 DEF VotesOn
    <3> HIDE DEF new, old
    <3> QED BY <1>6, <2>1, <2>2, <3>1 DEF new
  <2>3. CASE c = at
    <3>1. old \in [Authors -> Int] /\ new \in [Authors -> Int] /\ IsFiniteSet(Authors)
      BY <1>4, <1>5, <2>1, CommunityAssumption DEF VotesOn
    <3>2. \A u \in Authors \ {by} : old[u] = new[u]
      BY <1>5, <2>1 DEF VotesOn
    <3>3. new[by] = value /\ old[by] = ballots[<<at, by>>]
      BY <1>5, <2>1, <2>3 DEF VotesOn
    <3> HIDE DEF new, old
    <3>4. SumFunction(new) = SumFunction(old) + (new[by] - old[by])
      BY <3>1, <3>2, SumsDiffer
    <3>5. comments'[c].score = SumFunction(new)
      BY <1>6, <2>1, <2>3, <3>3, <3>4
    <3> QED BY <3>5 DEF new
  <2> QED BY <2>2, <2>3
<1>9. ScoreIsSumOfVotes'
  BY <1>6, <1>8 DEF ScoreIsSumOfVotes
<1> QED BY <1>7, <1>9 DEF Tallied

\* A new comment has no votes.
LEMMA NewIsUnvoted ==
  ASSUME CommunityInv, Tallied, NEW w \in Writers, CommitComment(w)
  PROVE  Tallied'
<1> DEFINE c == Len(comments) + 1
<1>1. /\ comments \in Seq(Comment) /\ Rows = 1..Len(comments) /\ Len(comments) \in Nat
      /\ cast \in Nat /\ MaxActs \in Nat /\ Len(comments) + cast < MaxActs
  BY CommunityAssumption DEF CommunityInv, PostTypes, Rows, CommitComment
<1>2. PICK row : comments' = Append(comments, row) /\ row.score = 0
  BY DEF CommitComment
<1>3. /\ Rows' = Rows \cup {c} /\ c \in (1..MaxActs) \ Rows /\ comments'[c] = row
      /\ \A b \in Rows : comments'[b] = comments[b]
  BY <1>1, <1>2 DEF Rows
<1>4. UNCHANGED ballots
  BY DEF CommitComment
<1> HIDE DEF c
<1>5. ASSUME NEW b \in Rows'
      PROVE  comments'[b].score = SumFunction([u \in Authors |-> ballots'[<<b, u>>]])
  <2>1. CASE b \in Rows
    BY <1>3, <1>4, <2>1 DEF Tallied, ScoreIsSumOfVotes
  <2>2. CASE b = c
    <3> DEFINE none == [u \in Authors |-> ballots'[<<c, u>>]]
    <3>1. DOMAIN none = Authors /\ \A u \in Authors : none[u] = 0
      BY <1>3, <1>4 DEF Tallied
    <3>2. SumFunction(none) = 0
      <4> HIDE DEF none
      <4> QED BY <3>1, SumZero, CommunityAssumption
    <3> QED BY <1>2, <1>3, <2>2, <3>2
  <2> QED BY <1>3, <2>1, <2>2
<1>6. ScoreIsSumOfVotes'
  BY <1>5 DEF ScoreIsSumOfVotes
<1>7. \A b \in (1..MaxActs) \ Rows', u \in Authors : ballots'[<<b, u>>] = 0
  BY <1>3, <1>4 DEF Tallied
<1> QED BY <1>6, <1>7 DEF Tallied

LEMMA TallyStep == CommunityInv /\ Tallied /\ [CNext]_cvars => Tallied'
<1> SUFFICES ASSUME CommunityInv, Tallied, [CNext]_cvars PROVE Tallied'
  OBVIOUS
<1>1. ASSUME UNCHANGED <<comments, ballots>> PROVE Tallied'
  <2>1. Rows' = Rows
    BY <1>1 DEF Rows
  <2> QED BY <1>1, <2>1, TallyKept
<1>2. ASSUME NEW c \in Rows, DeleteComment(c) PROVE Tallied'
  <2>1. comments \in Seq(Comment) /\ comments[c] \in Comment
    BY DEF CommunityInv, PostTypes, Rows
  <2>2. comments' = [comments EXCEPT ![c].deleted = TRUE] /\ UNCHANGED ballots
    BY <1>2 DEF DeleteComment
  <2>3. comments'[c] = [comments[c] EXCEPT !.deleted = TRUE] /\ Rows' = Rows
        /\ \A b \in Rows \ {c} : comments'[b] = comments[b]
    BY <2>1, <2>2 DEF Rows
  <2>4. comments'[c].score = comments[c].score
    BY <2>1, <2>3 DEF Comment
  <2> QED BY <2>2, <2>3, <2>4, TallyKept
<1>3. ASSUME NEW w \in Writers,
             BeginComment(w) \/ LockSiblings(w) \/ RefuseComment(w) \/ BeginVote(w) \/ LockBallot(w) \/ AbortWork(w)
      PROVE  Tallied'
  BY <1>1, <1>3 DEF BeginComment, LockSiblings, RefuseComment, BeginVote, LockBallot, AbortWork
<1>4. ASSUME UNCHANGED cvars PROVE Tallied'
  BY <1>1, <1>4 DEF cvars
<1> QED BY <1>2, <1>3, <1>4, VoteCounts, NewIsUnvoted DEF CNext

\* ScoreIsSumOfVotes (VoteService.vote): the score of a comment is the sum of the votes
\* on it, for any number of users whose votes overlap, change or are given up.
THEOREM ScoresHold == CSpec => []ScoreIsSumOfVotes
<1>1. CInit => Tallied
  <2> SUFFICES ASSUME CInit PROVE Tallied
    OBVIOUS
  <2>1. Rows = {} /\ ballots = [ballot \in (1..MaxActs) \X Authors |-> 0]
    BY DEF CInit, Rows
  <2> QED BY <2>1 DEF Tallied, ScoreIsSumOfVotes
<1>2. Tallied => ScoreIsSumOfVotes
  BY DEF Tallied
<1> QED BY <1>1, <1>2, TallyStep, CommunityHolds, PTL DEF CSpec

-----------------------------------------------------------------------------
(* Tokens and feeds of a user *)

Job == [stage : {"free", "sign", "save", "disconnect"},
        change : {"none", "revoke", "password", "ban", "unban"},
        version : Nat, session : Nat, auth : Int]

UserRow == [version : Nat, banned : BOOLEAN]
Token == [session : Nat, version : Nat, left : Int, auth : Int]

AccountTypes ==
  /\ user \in UserRow
  /\ jobs \in [AccountTasks -> Job]
  /\ \A t \in AccountTasks : jobs[t].stage = "save" => jobs[t].change # "none"
  /\ tokens \subseteq Token
  /\ logins \in Nat
  /\ feeds \in [Feeds -> {"off", "checked", "open"}]

\* What has a session and a version, a token or the copy a token is signed from, is of
\* a session that has begun and of a version the user has had: of an earlier one, once
\* the session has been put an end to.
Dated(k) ==
  /\ k.version <= user.version
  /\ k.session \in ended => k.version < user.version

SessionsDated ==
  \/ overtaken
  \/ /\ ended \subseteq Started
     /\ \A k \in tokens : k.session \in Started /\ Dated(k)
     /\ \A t \in AccountTasks : jobs[t].stage = "sign" => jobs[t].session <= logins /\ Dated(jobs[t])

\* A ban is still to be announced, or every feed that is left was there too early or
\* too late for it.
BanReaches ==
  \/ ~user.banned
  \/ \E t \in AccountTasks : jobs[t].stage = "disconnect"
  \/ \A f \in Feeds : feeds[f] # "off" => f \in missed

AccountInv == AccountTypes /\ SessionsDated /\ BanReaches

\* The types of a job's and a token's fields.
LEMMA JobFields ==
  /\ NoJob \in Job /\ NoJob.stage = "free"
  /\ \A j \in Job : j.version \in Nat /\ j.session \in Nat /\ j.auth \in Int
  /\ \A k \in Token : k.version \in Nat /\ k.session \in Nat /\ k.auth \in Int
BY DEF NoJob, Job, Token

\* What a request turns its record into when it has read the row.
LEMMA ReadJob ==
  ASSUME NEW j \in Job, NEW v \in Nat, NEW s \in Nat, NEW a \in Int,
         NEW c \in {"revoke", "password", "ban", "unban"}
  PROVE  /\ [j EXCEPT !.stage = "sign", !.version = v] \in Job
         /\ [j EXCEPT !.stage = "sign", !.version = v, !.session = s, !.auth = a] \in Job
         /\ [j EXCEPT !.stage = "save", !.change = c, !.version = v] \in Job
         /\ [j EXCEPT !.stage = "disconnect"] \in Job
BY DEF Job

\* What a change turns the user's row into.
LEMMA ChangedRow ==
  ASSUME NEW row \in UserRow, NEW v \in Nat
  PROVE  /\ Revoked(row, v) \in UserRow /\ Revoked(row, v).version = v + 1
         /\ PasswordChanged(row, v) \in UserRow /\ PasswordChanged(row, v).version = v + 1
         /\ UserBanned(row, v) \in UserRow /\ UserBanned(row, v).version = v + 1
         /\ Unbanned(row, v) \in UserRow /\ Unbanned(row, v).version = row.version
         /\ ~Unbanned(row, v).banned
<1> DEFINE w == v + 1
<1>1. w \in Nat OBVIOUS
<1>2. /\ Revoked(row, v) = [row EXCEPT !.version = w]
      /\ PasswordChanged(row, v) = [row EXCEPT !.version = w]
      /\ UserBanned(row, v) = [row EXCEPT !.version = w, !.banned = TRUE]
  BY DEF Revoked, PasswordChanged, UserBanned
<1> HIDE DEF w
<1>3. Revoked(row, v) \in UserRow /\ PasswordChanged(row, v) \in UserRow /\ UserBanned(row, v) \in UserRow
  BY <1>1, <1>2 DEF UserRow
<1>4. Revoked(row, v).version = w /\ PasswordChanged(row, v).version = w /\ UserBanned(row, v).version = w
  BY <1>1, <1>2 DEF UserRow
<1>5. Unbanned(row, v) \in UserRow BY DEF UserRow, Unbanned
<1>6. Unbanned(row, v).version = row.version /\ ~Unbanned(row, v).banned
  BY DEF UserRow, Unbanned
<1> QED BY <1>3, <1>4, <1>5, <1>6 DEF w

\* A tick changes what a token has left, not whose it is.
LEMMA AgedToken ==
  ASSUME NEW old \in Token, NEW k, k = [old EXCEPT !.left = @ - 1, !.auth = @ + 1]
  PROVE  k \in Token /\ k.session = old.session /\ k.version = old.version
<1>1. old.left - 1 \in Int /\ old.auth + 1 \in Int BY DEF Token
<1> DEFINE l == old.left - 1   a == old.auth + 1
<1>2. l \in Int /\ a \in Int /\ k = [old EXCEPT !.left = l, !.auth = a] BY <1>1
<1> HIDE DEF l, a
<1> QED BY <1>2 DEF Token

\* The first state has no session, no token and no feed.
LEMMA AccountInit == AInit => AccountInv
<1> SUFFICES ASSUME AInit PROVE AccountInv OBVIOUS
<1>1. user \in UserRow BY DEF AInit, UserRow
<1> QED BY <1>1, JobFields
        DEF AInit, AccountInv, AccountTypes, SessionsDated, BanReaches, Started

\* Every step of a request, of a feed and of the clock keeps the invariant: the interesting
\* one is SaveChange, which ends sessions and raises the version.
LEMMA AccountStep ==
  ASSUME AccountInv, [ANext]_avars
  PROVE  AccountInv'
<1> USE DEF AccountInv
<1>0. /\ user \in UserRow /\ user.version \in Nat /\ logins \in Nat
      /\ \A t \in AccountTasks : jobs[t] \in Job /\ jobs[t].version \in Nat /\ jobs[t].session \in Nat
      /\ \A k \in tokens : k.version \in Nat /\ k.session \in Nat
  BY JobFields DEF AccountTypes, UserRow
<1>1. ASSUME NEW t \in AccountTasks, Login(t) PROVE AccountInv'
  <2> DEFINE new == [NoJob EXCEPT !.stage = "sign", !.version = user.version]
  <2>1. new \in Job /\ new.stage = "sign" /\ new.version = user.version /\ new.session = 0
    <3>1. new \in Job BY <1>0, JobFields, ReadJob
    <3> QED BY <3>1 DEF NoJob
  <2>2. jobs' = [jobs EXCEPT ![t] = new] /\ jobs[t].stage = "free" BY <1>1 DEF Login
  <2> HIDE DEF new
  <2>3. AccountTypes' BY <1>1, <2>1, <2>2 DEF Login, AccountTypes
  <2>4. SessionsDated'
    <3>1. ~overtaken => new.session <= logins /\ Dated(new)
      BY <1>0, <2>1 DEF SessionsDated, Dated, Started
    <3> QED BY <1>1, <2>2, <3>1 DEF Login, AccountTypes, SessionsDated, Dated, Started
  <2>5. BanReaches' BY <1>1 DEF Login, BanReaches
  <2> QED BY <2>3, <2>4, <2>5
<1>2. ASSUME NEW t \in AccountTasks, Refresh(t) PROVE AccountInv'
  <2>0. PICK k \in tokens :
          /\ jobs[t].stage = "free" /\ Authenticates(k)
          /\ jobs' = [jobs EXCEPT ![t] = [NoJob EXCEPT !.stage = "sign", !.version = user.version,
                                                       !.session = k.session, !.auth = k.auth]]
          /\ UNCHANGED <<user, tokens, logins, feeds, missed, ended, overtaken, changes>>
    BY <1>2 DEF Refresh
  <2> DEFINE new == [NoJob EXCEPT !.stage = "sign", !.version = user.version,
                                  !.session = k.session, !.auth = k.auth]
  <2>1. /\ new \in Job /\ new.stage = "sign" /\ new.version = user.version /\ new.session = k.session
    <3>1. new \in Job BY <1>0, JobFields, ReadJob DEF AccountTypes
    <3> QED BY <3>1 DEF NoJob
  <2>2. jobs' = [jobs EXCEPT ![t] = new] BY <2>0
  <2> HIDE DEF new
  <2>3. AccountTypes' BY <2>0, <2>1, <2>2 DEF AccountTypes
  <2>4. SessionsDated'
    BY <1>0, <2>0, <2>1, <2>2 DEF Authenticates, AccountTypes, SessionsDated, Dated, Started
  <2>5. BanReaches' BY <2>0 DEF BanReaches, Authenticates
  <2> QED BY <2>3, <2>4, <2>5
<1>3. ASSUME NEW t \in AccountTasks, Sign(t) PROVE AccountInv'
  <2>0. PICK s \in Sessions :
          /\ s = IF jobs[t].session = 0 THEN logins + 1 ELSE jobs[t].session
          /\ tokens' = tokens \cup {Signed(t, s)}
    BY <1>3 DEF Sign
  <2> DEFINE k == Signed(t, s)
  <2>1. k \in Token /\ k.session = s /\ k.version = jobs[t].version
    <3>1. s \in Nat /\ jobs[t].version \in Nat /\ jobs[t].auth \in Int /\ AccessTicks \in Int
      BY <1>0, <2>0, JobFields, AccountAssumption
    <3> QED BY <3>1 DEF Signed, Token
  <2>2. tokens' = tokens \cup {k} BY <2>0
  <2> HIDE DEF k
  <2>3. AccountTypes' BY <1>3, <2>1, <2>2, JobFields DEF Sign, AccountTypes
  <2>4. SessionsDated'
    <3>1. UNCHANGED <<user, ended, overtaken>> /\ logins' \in {logins, logins + 1}
      BY <1>3 DEF Sign
    <3>2. \A u \in AccountTasks : jobs'[u].stage = "sign" => jobs'[u] = jobs[u]
      BY <1>3, JobFields DEF Sign, AccountTypes
    <3>3. ASSUME ~overtaken PROVE s \in Started' /\ (s \in ended => k.version < user.version)
                                  /\ k.version <= user.version
      BY <1>0, <1>3, <2>0, <2>1, <3>3 DEF Sign, SessionsDated, Dated, Started
    <3> QED BY <1>0, <2>1, <2>2, <3>1, <3>2, <3>3 DEF SessionsDated, Dated, Started
  <2>5. BanReaches' BY <1>3 DEF Sign, BanReaches, AccountTypes
  <2> QED BY <2>3, <2>4, <2>5
<1>4. ASSUME NEW t \in AccountTasks, BeginChange(t) PROVE AccountInv'
  <2>0. PICK change \in {"revoke", "password", "ban", "unban"} :
          jobs' = [jobs EXCEPT ![t] = [NoJob EXCEPT !.stage = "save", !.change = change,
                                                    !.version = user.version]]
    BY <1>4 DEF BeginChange
  <2> DEFINE new == [NoJob EXCEPT !.stage = "save", !.change = change, !.version = user.version]
  <2>1. new \in Job /\ new.stage = "save" /\ new.change = change
    <3>1. new \in Job BY <1>0, JobFields, ReadJob
    <3> QED BY <3>1 DEF NoJob
  <2>2. jobs' = [jobs EXCEPT ![t] = new] /\ jobs[t].stage = "free" BY <1>4, <2>0 DEF BeginChange
  <2> HIDE DEF new
  <2>3. AccountTypes' BY <1>4, <2>1, <2>2 DEF BeginChange, AccountTypes
  <2>4. SessionsDated'
    BY <1>4, <2>1, <2>2 DEF BeginChange, AccountTypes, SessionsDated, Dated, Started
  <2>5. BanReaches' BY <1>4, <2>2 DEF BeginChange, BanReaches, AccountTypes
  <2> QED BY <2>3, <2>4, <2>5
<1>5. ASSUME NEW t \in AccountTasks, SaveChange(t) PROVE AccountInv'
  <2> DEFINE bumps == jobs[t].change # "unban"
             new == IF bumps THEN [jobs[t] EXCEPT !.stage = "disconnect"] ELSE NoJob
             v == jobs[t].version
  <2>1. /\ jobs[t].change \in {"revoke", "password", "ban", "unban"}
        /\ jobs[t].stage = "save" /\ v \in Nat
    BY <1>0, <1>5 DEF SaveChange, AccountTypes, Job
  <2>2. new \in Job /\ new.stage = IF bumps THEN "disconnect" ELSE "free"
    <3>1. jobs[t] \in Job BY <1>0
    <3>2. [jobs[t] EXCEPT !.stage = "disconnect"] \in Job BY <3>1 DEF Job
    <3>3. [jobs[t] EXCEPT !.stage = "disconnect"].stage = "disconnect" BY <3>1 DEF Job
    <3> QED BY <3>2, <3>3, JobFields
  <2>3. /\ user' \in UserRow
        /\ user'.version = IF bumps THEN v + 1 ELSE user.version
        /\ ~bumps => ~user'.banned
    BY <1>0, <1>5, <2>1, ChangedRow DEF SaveChange
  <2>4. /\ jobs' = [jobs EXCEPT ![t] = new]
        /\ ended' = IF bumps THEN ended \cup Started ELSE ended
        /\ overtaken' = (overtaken \/ (bumps /\ user.version # v))
        /\ UNCHANGED <<tokens, logins, feeds, missed>>
    BY <1>5 DEF SaveChange
  <2> HIDE DEF bumps, new, v
  <2>5. AccountTypes' BY <2>2, <2>3, <2>4 DEF AccountTypes
  <2>6. SessionsDated'
    <3>1. \A u \in AccountTasks : jobs'[u].stage = "sign" => jobs'[u] = jobs[u]
      BY <2>2, <2>4 DEF AccountTypes
    <3>2. ASSUME ~overtaken'
          PROVE  /\ ~overtaken /\ user.version <= user'.version
                 /\ bumps => user.version < user'.version
                 /\ ~bumps => ended' = ended
      <4>1. ~overtaken /\ (bumps => user.version = v) BY <2>4, <3>2
      <4>2. CASE bumps BY <1>0, <2>3, <4>1, <4>2
      <4>3. CASE ~bumps BY <1>0, <2>3, <2>4, <4>1, <4>3
      <4> QED BY <4>2, <4>3
    <3>3. ASSUME ~overtaken' PROVE ended' \subseteq Started'
      BY <2>4, <3>2, <3>3 DEF SessionsDated, Started
    <3>4. ASSUME ~overtaken', NEW k, k.version \in Nat, Dated(k) PROVE Dated(k)'
      BY <1>0, <2>1, <2>3, <2>4, <3>2, <3>4 DEF Dated
    <3>5. ASSUME ~overtaken', NEW k \in tokens' PROVE k.session \in Started' /\ Dated(k)'
      BY <1>0, <2>4, <3>2, <3>4, <3>5 DEF SessionsDated, Started
    <3>6. ASSUME ~overtaken', NEW u \in AccountTasks, jobs'[u].stage = "sign"
          PROVE  jobs'[u].session <= logins' /\ Dated(jobs[u])'
      BY <1>0, <2>4, <3>1, <3>2, <3>4, <3>6 DEF SessionsDated
    <3> QED BY <3>3, <3>5, <3>6 DEF SessionsDated
  <2>7. BanReaches'
    <3>1. CASE bumps BY <2>2, <2>4, <3>1 DEF AccountTypes, BanReaches
    <3>2. CASE ~bumps BY <2>3, <3>2 DEF BanReaches
    <3> QED BY <3>1, <3>2
  <2> QED BY <2>5, <2>6, <2>7
<1>6. ASSUME NEW t \in AccountTasks, Disconnect(t) \/ DisconnectFails(t) PROVE AccountInv'
  <2> USE DEF Disconnect, DisconnectFails
  <2>1. AccountTypes' BY <1>6, JobFields DEF AccountTypes
  <2>2. SessionsDated' BY <1>6, JobFields DEF AccountTypes, SessionsDated, Dated, Started
  <2>3. BanReaches' BY <1>6 DEF BanReaches, AccountTypes
  <2> QED BY <2>1, <2>2, <2>3
<1>7. ASSUME NEW f \in Feeds, CheckFeed(f) \/ JoinFeed(f) \/ CloseFeed(f) PROVE AccountInv'
  <2> USE DEF CheckFeed, JoinFeed, CloseFeed
  <2>1. AccountTypes' BY <1>7 DEF AccountTypes
  <2>2. SessionsDated' BY <1>7 DEF SessionsDated, Dated, Started
  <2>3. BanReaches' BY <1>7 DEF BanReaches, AccountTypes, SessionUser
  <2> QED BY <2>1, <2>2, <2>3
<1>8. ASSUME ATick PROVE AccountInv'
  <2>1. \A k \in tokens' : \E old \in tokens :
          k = [old EXCEPT !.left = @ - 1, !.auth = @ + 1]
    BY <1>8 DEF ATick
  <2>2. \A k \in tokens' : \E old \in tokens :
          k \in Token /\ k.session = old.session /\ k.version = old.version
    <3> SUFFICES ASSUME NEW k \in tokens' PROVE \E old \in tokens :
                   k \in Token /\ k.session = old.session /\ k.version = old.version
      OBVIOUS
    <3>1. PICK old \in tokens : k = [old EXCEPT !.left = @ - 1, !.auth = @ + 1] BY <2>1
    <3>2. old \in Token BY DEF AccountTypes
    <3> QED BY <3>1, <3>2, AgedToken
  <2>3. AccountTypes' BY <1>8, <2>2 DEF ATick, AccountTypes
  <2>4. SessionsDated' BY <1>8, <2>2 DEF ATick, SessionsDated, Dated, Started
  <2>5. BanReaches' BY <1>8 DEF ATick, BanReaches
  <2> QED BY <2>3, <2>4, <2>5
<1>9. CASE UNCHANGED avars
  BY <1>9 DEF avars, AccountTypes, SessionsDated, Dated, Started, BanReaches
<1> QED BY <1>1, <1>2, <1>3, <1>4, <1>5, <1>6, <1>7, <1>8, <1>9 DEF ANext

\* What the invariant says of the tokens and of the feeds.
LEMMA AccountsKept == ASpec => [](RevokedStaysRevoked /\ BannedIsCutOff)
<1>1. AInit => AccountInv BY AccountInit
<1>2. AccountInv /\ [ANext]_avars => AccountInv' BY AccountStep
<1>3. AccountInv => RevokedStaysRevoked
  <2> SUFFICES ASSUME AccountInv, ~overtaken, NEW k \in tokens, k.session \in ended
               PROVE  ~Authenticates(k)
    BY DEF RevokedStaysRevoked
  <2>1. k.version < user.version /\ k.version \in Nat /\ user.version \in Nat
    BY JobFields DEF AccountInv, SessionsDated, Dated, AccountTypes, UserRow
  <2> QED BY <2>1 DEF Authenticates
<1>4. AccountInv => BannedIsCutOff BY DEF AccountInv, BanReaches, BannedIsCutOff
<1> QED BY <1>1, <1>2, <1>3, <1>4, PTL DEF ASpec

\* RevokedStaysRevoked (logout, change_password, ban_user, refresh): a session that was put
\* an end to stays ended, for any number of requests and copies of the user's row, unless
\* two changes of the version overtook each other.
THEOREM RevocationHolds == ASpec => []RevokedStaysRevoked
BY AccountsKept, PTL

\* BannedIsCutOff (ban_user and the consumers): an announced ban leaves no feed open that
\* had joined when it was announced, or that was checked later.
THEOREM BanHolds == ASpec => []BannedIsCutOff
BY AccountsKept, PTL

=============================================================================
