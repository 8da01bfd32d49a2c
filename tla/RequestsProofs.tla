---------------------------- MODULE RequestsProofs ----------------------------
(***************************************************************************)
(* Proofs about WebRequests: the properties of four of its parts, the      *)
(* contests, the rate limit of the API, the submission desk, and the       *)
(* pages, for any users, requests, limits and numbers of rows; that each   *)
(* part keeps to its own specification; and so that what is proved of the  *)
(* parts, here and in RecordsProofs, holds of the whole.                   *)
(*                                                                         *)
(* A limit that is checked in one step and used up in another holds        *)
(* because what was counted cannot disappear before it is used.  A request *)
(* that was allowed to submit to a contest holds the lock of its           *)
(* participation, and nobody else inserts under that; the key of a rate    *)
(* window outlives the window; and the clean-up of the desk spares the     *)
(* rows a limit still counts, where overlapping requests add as many rows  *)
(* as have passed the check and not yet inserted.                          *)
(***************************************************************************)
EXTENDS WebRequests, RecordsProofs, FiniteSetTheorems, TLAPS

-----------------------------------------------------------------------------
(* Contests: the limit of submissions *)


Entry == [user : Users, status : {Live, Virtual}, began : Nat, score : Nat, out : BOOLEAN]

Steps == {"join", "virtual", "submit", "edit", "create", "locked", "allowed"}

HasFields(q) ==
  q \in [step : {q.step}, user : {q.user}, row : {q.row}, what : {q.what}, entry : {q.entry}]

\* What a request looks like on its way.
IsRequest(q) ==
  /\ HasFields(q)
  /\ q.step \in Steps
  /\ q.user \in Users
  /\ q.step = "join" => q.what = Live
  /\ q.step = "virtual" => q.what = Virtual
  /\ q.step = "create" => q.what \in {Live, Virtual}
  /\ q.step \in {"submit", "locked", "allowed"} => q.what \in Problems

Holds(q) == q.step \in {"locked", "allowed"}

RowsTyped ==
  /\ now \in Nat
  /\ entries \in Seq(Entry)
  /\ used \in Seq([Problems -> 0..Limit])
  /\ Len(entries) = Len(used)

AsksTyped ==
  /\ DOMAIN ask = Requests
  /\ \A r \in Requests : ask[r] = NoAsk \/ IsRequest(ask[r])

\* A lock is on a participation that exists, and one request has it.
LocksHeld ==
  /\ \A r \in Requests : Holds(ask[r]) => ask[r].entry \in 1..Len(used)
  /\ \A r, s \in Requests :
       Holds(ask[r]) /\ Holds(ask[s]) /\ ask[r].entry = ask[s].entry => r = s

\* What an allowed request saw is still so.
RoomLeft ==
  \A r \in Requests : ask[r].step = "allowed" => used[ask[r].entry][ask[r].what] < Limit

CInv == RowsTyped /\ AsksTyped /\ LocksHeld /\ RoomLeft

\* A request goes on to a step that needs no lock: nothing else changes.
LEMMA GoKeeps ==
  ASSUME Limit \in Nat, CInv, NEW r \in Requests, NEW q,
         q = NoAsk \/ IsRequest(q),
         ~Holds(q),
         ask' = [ask EXCEPT ![r] = q]
  PROVE  AsksTyped' /\ \A s \in Requests : Holds(ask'[s]) => s # r /\ ask'[s] = ask[s]
BY DEF CInv, AsksTyped

\* The locks and the counts under them stay as they were, but for what was let go.
LEMMA FewerLocks ==
  ASSUME CInv, AsksTyped',
         \A s \in Requests : Holds(ask'[s]) => ask'[s] = ask[s],
         Len(used') = Len(used),
         \A s \in Requests : ask'[s].step = "allowed" => 
            used'[ask[s].entry] = used[ask[s].entry]
  PROVE  LocksHeld' /\ RoomLeft'
<1>1. LocksHeld'
  BY DEF CInv, LocksHeld
<1>2. RoomLeft'
  BY DEF CInv, RoomLeft, Holds
<1> QED BY <1>1, <1>2

\* The first state has no participation and no request.
LEMMA CInvInit == ASSUME Limit \in Nat, Init PROVE CInv
<1>1. \A r \in Requests : ~Holds(ask[r]) /\ ask[r].step = "none"
  BY DEF Init, NoAsk, Holds
<1>2. RowsTyped
  BY DEF Init, RowsTyped
<1>3. AsksTyped
  BY DEF Init, AsksTyped
<1> QED BY <1>1, <1>2, <1>3 DEF CInv, LocksHeld, RoomLeft

\* Each step of a request, of the staff, of the judges and of the clock keeps the
\* invariant: the interesting ones are CheckLimit, which counts, and Insert.
LEMMA CInvStep == ASSUME Limit \in Nat, CInv, [Next]_vars PROVE CInv'
<1> USE DEF CInv
<1>rows. ASSUME UNCHANGED <<now, entries, used>> PROVE RowsTyped'
  BY <1>rows DEF RowsTyped
<1>same. ASSUME UNCHANGED <<ask, used>>
         PROVE  AsksTyped' /\ LocksHeld' /\ RoomLeft'
  BY <1>same DEF AsksTyped, LocksHeld, RoomLeft
<1>quiet. ASSUME NEW r \in Requests, NEW q, q = NoAsk \/ IsRequest(q), ~Holds(q),
                 ask' = [ask EXCEPT ![r] = q], UNCHANGED used
          PROVE  AsksTyped' /\ LocksHeld' /\ RoomLeft'
  <2>1. AsksTyped' /\ \A s \in Requests : Holds(ask'[s]) => s # r /\ ask'[s] = ask[s]
    BY <1>quiet, GoKeeps
  <2> QED BY <1>quiet, <2>1, FewerLocks
<1>done. ASSUME NEW r \in Requests, Done(r), UNCHANGED used
         PROVE  AsksTyped' /\ LocksHeld' /\ RoomLeft'
  <2>1. ~Holds(NoAsk)
    BY DEF Holds, NoAsk
  <2> QED BY <1>done, <1>quiet, <2>1 DEF Done
<1>1. ASSUME NEW r \in Requests, NEW u \in Users, NEW op, NEW what, Arrive(r, u, op, what),
             \/ op = "join" /\ what = Live
             \/ op = "virtual" /\ what = Virtual
             \/ op = "submit" /\ what \in Problems
             \/ op = "edit"
      PROVE  CInv'
  <2> DEFINE q == [step |-> op, user |-> u, row |-> contest, what |-> what, entry |-> 0]
  <2>1. IsRequest(q) /\ ~Holds(q)
    BY <1>1 DEF IsRequest, HasFields, Steps, Holds
  <2>2. ask' = [ask EXCEPT ![r] = q] /\ UNCHANGED <<now, entries, used>>
    BY <1>1 DEF Arrive
  <2> HIDE DEF q
  <2> QED BY <2>1, <2>2, <1>rows, <1>quiet
<1>2. ASSUME NEW r \in Requests, RequestStep(r) PROVE CInv'
  <2>go. ASSUME ask[r].step \in {"join", "virtual"}, Go(r, "create")
         PROVE  \E q : IsRequest(q) /\ ~Holds(q) /\ ask' = [ask EXCEPT ![r] = q]
    <3> DEFINE q == [ask[r] EXCEPT !.step = "create"]
    <3>1. IsRequest(ask[r])
      BY <2>go DEF AsksTyped, NoAsk
    <3>2. IsRequest(q) /\ ~Holds(q)
      BY <2>go, <3>1 DEF IsRequest, HasFields, Steps, Holds
    <3>3. ask' = [ask EXCEPT ![r] = q]
      BY <2>go DEF Go
    <3> HIDE DEF q
    <3> QED BY <3>2, <3>3
  <2>1. CASE Join(r)
    <3>1. ask[r].step = "join" /\ Unentered /\ (Go(r, "create") \/ Done(r))
      BY <2>1 DEF Join
    <3> QED BY <3>1, <2>go, <1>quiet, <1>done, <1>rows DEF Unentered
  <2>2. CASE StartVirtual(r)
    <3>1. ask[r].step = "virtual" /\ Unentered /\ (Go(r, "create") \/ Done(r))
      BY <2>2 DEF StartVirtual
    <3> QED BY <3>1, <2>go, <1>quiet, <1>done, <1>rows DEF Unentered
  <2>3. CASE Create(r)
    <3>1. IsRequest(ask[r]) /\ ask[r].what \in {Live, Virtual} /\ ask[r].user \in Users
      BY <2>3 DEF Create, AsksTyped, NoAsk, IsRequest
    <3> DEFINE e == [user |-> ask[r].user, status |-> ask[r].what,
                     began |-> now, score |-> 0, out |-> FALSE]
               c == [p \in Problems |-> 0]
    <3>2. e \in Entry /\ c \in [Problems -> 0..Limit]
      BY <3>1 DEF Entry, RowsTyped
    <3>3. entries' = Append(entries, e) /\ used' = Append(used, c) /\ now' = now /\ Done(r)
      BY <2>3 DEF Create
    <3> HIDE DEF e, c
    <3>4. RowsTyped' /\ Len(used') = Len(used) + 1 /\ \A i \in 1..Len(used) : used'[i] = used[i]
      BY <3>2, <3>3 DEF RowsTyped
    <3>5. AsksTyped' /\ \A s \in Requests : Holds(ask'[s]) => s # r /\ ask'[s] = ask[s]
      <4>1. ~Holds(NoAsk)
        BY DEF Holds, NoAsk
      <4> QED BY <3>3, <4>1, GoKeeps DEF Done
    <3>6. Len(used) \in Nat
      BY DEF RowsTyped
    <3>7. LocksHeld'
      BY <3>4, <3>5, <3>6 DEF LocksHeld
    <3>8. RoomLeft'
      BY <3>4, <3>5 DEF RoomLeft, LocksHeld, Holds
    <3> QED BY <3>4, <3>5, <3>7, <3>8
  <2>4. CASE LockEntry(r)
    <3>1. PICK i \in DOMAIN entries :
                 /\ ~EntryLocked(i)
                 /\ ask' = [ask EXCEPT ![r].step = "locked", ![r].entry = i]
      BY <2>4 DEF LockEntry, FirstOf, EntriesOf
    <3>2. ask[r].step = "submit" /\ UNCHANGED <<now, entries, used>>
      BY <2>4 DEF LockEntry, Unentered
    <3>3. IsRequest(ask[r])
      BY <3>2 DEF AsksTyped, NoAsk
    <3>4. i \in 1..Len(used)
      BY DEF RowsTyped
    <3> DEFINE q == [ask[r] EXCEPT !.step = "locked", !.entry = i]
    <3>5. IsRequest(q) /\ q.step = "locked" /\ q.entry = i
      BY <3>2, <3>3 DEF IsRequest, HasFields, Steps
    <3>6. ask' = [ask EXCEPT ![r] = q]
      BY <3>1, <3>3 DEF IsRequest, HasFields, AsksTyped
    <3> HIDE DEF q
    <3>7. AsksTyped'
      BY <3>5, <3>6 DEF AsksTyped
    <3>8. ask'[r] = q /\ \A s \in Requests : s # r => ask'[s] = ask[s]
      BY <3>6 DEF AsksTyped
    <3>9. \A s \in Requests : s # r /\ Holds(ask[s]) => ask[s].entry # i
      BY <3>1 DEF EntryLocked, Holding, Holds
    <3>10. LocksHeld'
      BY <3>2, <3>4, <3>5, <3>8, <3>9 DEF LocksHeld
    <3>11. RoomLeft'
      BY <3>2, <3>5, <3>8 DEF RoomLeft
    <3> QED BY <3>2, <3>7, <3>10, <3>11, <1>rows
  <2>5. CASE NotJoined(r)
    BY <2>5, <1>done, <1>rows DEF NotJoined, Unentered
  <2>6. CASE CheckLimit(r)
    <3>1. ask[r].step = "locked" /\ UNCHANGED <<now, entries, used>>
      BY <2>6 DEF CheckLimit, Unentered
    <3>2. CASE Done(r)
      BY <3>1, <3>2, <1>done, <1>rows
    <3>3. CASE Go(r, "allowed") /\ UnderLimit(ask[r].entry, ask[r].what)
      <4>1. IsRequest(ask[r])
        BY <3>1 DEF AsksTyped, NoAsk
      <4> DEFINE q == [ask[r] EXCEPT !.step = "allowed"]
      <4>2. IsRequest(q) /\ q.step = "allowed" /\ q.entry = ask[r].entry /\ q.what = ask[r].what
        BY <3>1, <4>1 DEF IsRequest, HasFields, Steps
      <4>3. ask' = [ask EXCEPT ![r] = q]
        BY <3>3 DEF Go
      <4> HIDE DEF q
      <4>4. AsksTyped'
        BY <4>2, <4>3 DEF AsksTyped
      <4>5. ask'[r] = q /\ \A s \in Requests : s # r => ask'[s] = ask[s]
        BY <4>3 DEF AsksTyped
      <4>6. LocksHeld'
        BY <3>1, <4>2, <4>5 DEF LocksHeld, Holds
      <4>7. RoomLeft'
        BY <3>1, <3>3, <4>2, <4>5 DEF RoomLeft, UnderLimit
      <4> QED BY <3>1, <4>4, <4>6, <4>7, <1>rows
    <3> QED BY <2>6, <3>2, <3>3 DEF CheckLimit
  <2>7. CASE Insert(r)
    <3> DEFINE i == ask[r].entry
               p == ask[r].what
    <3>1. ask[r].step = "allowed" /\ UNCHANGED <<now, entries>> /\ Done(r)
      BY <2>7 DEF Insert
    <3>2. i \in 1..Len(used) /\ p \in Problems
      BY <3>1 DEF AsksTyped, NoAsk, IsRequest, LocksHeld, Holds
    <3>3. used[i][p] < Limit
      BY <3>1 DEF RoomLeft
    <3> DEFINE c == [used[i] EXCEPT ![p] = @ + 1]
    <3>4. used' = [used EXCEPT ![i] = c]
      BY <2>7 DEF Insert
    <3>5. used[i] \in [Problems -> 0..Limit]
      BY <3>2 DEF RowsTyped
    <3>6. c \in [Problems -> 0..Limit]
      BY <3>2, <3>3, <3>5
    <3> HIDE DEF c
    <3>7. RowsTyped' /\ Len(used') = Len(used) /\ \A j \in 1..Len(used) : j # i => used'[j] = used[j]
      BY <3>1, <3>2, <3>4, <3>6 DEF RowsTyped
    <3>8. AsksTyped' /\ \A s \in Requests : Holds(ask'[s]) => s # r /\ ask'[s] = ask[s]
      <4>1. ~Holds(NoAsk)
        BY DEF Holds, NoAsk
      <4> QED BY <3>1, <4>1, GoKeeps DEF Done
    <3>9. \A s \in Requests : ask'[s].step = "allowed" => used'[ask[s].entry] = used[ask[s].entry]
      BY <3>1, <3>7, <3>8 DEF LocksHeld, Holds
    <3> HIDE DEF i, p
    <3> QED BY <3>7, <3>8, <3>9, FewerLocks
  <2>8. CASE Save(r)
    BY <2>8, <1>done, <1>rows DEF Save
  <2> QED BY <1>2, <2>1, <2>2, <2>3, <2>4, <2>5, <2>6, <2>7, <2>8 DEF RequestStep
<1>3. ASSUME NEW u \in Users, NEW out \in BOOLEAN, SetOut(u, out) PROVE CInv'
  <2>1. UNCHANGED <<ask, used, now>>
    BY <1>3 DEF SetOut
  <2>2. \A i \in 1..Len(entries) : entries[i] \in Entry
    BY DEF RowsTyped
  <2>3. \A e \in Entry : [e EXCEPT !.out = out] \in Entry
    BY DEF Entry
  <2>4. Len(entries) \in Nat /\ DOMAIN entries = 1..Len(entries)
    BY DEF RowsTyped
  <2>5. entries' \in [1..Len(entries) -> Entry]
    BY <1>3, <2>2, <2>3, <2>4 DEF SetOut
  <2>6. entries' \in Seq(Entry) /\ Len(entries') = Len(entries)
    BY <2>4, <2>5
  <2>7. RowsTyped'
    BY <2>1, <2>6 DEF RowsTyped
  <2> QED BY <2>1, <2>7, <1>same
<1>4. ASSUME NEW p \in Problems, AddProblem(p) \/ RemoveProblem(p) PROVE CInv'
  BY <1>4, <1>rows, <1>same DEF AddProblem, RemoveProblem
<1>5. ASSUME NEW i \in DOMAIN entries, Scored(i) PROVE CInv'
  <2>1. UNCHANGED <<ask, used, now>> /\ entries' = [entries EXCEPT ![i].score = 1]
    BY <1>5 DEF Scored
  <2> DEFINE e == [entries[i] EXCEPT !.score = 1]
  <2>2. entries[i] \in Entry
    BY <1>5 DEF RowsTyped
  <2>3. e \in Entry /\ entries' = [entries EXCEPT ![i] = e]
    BY <2>1, <2>2 DEF Entry
  <2> HIDE DEF e
  <2>4. RowsTyped'
    BY <2>1, <2>3 DEF RowsTyped
  <2> QED BY <2>1, <2>4, <1>same
<1>6. ASSUME Tick PROVE CInv'
  <2>1. RowsTyped'
    BY <1>6 DEF Tick, RowsTyped
  <2> QED BY <1>6, <2>1, <1>same DEF Tick
<1>7. ASSUME UNCHANGED vars PROVE CInv'
  BY <1>7, <1>rows, <1>same DEF vars
<1>8. ASSUME NEW r \in Requests, NEW u \in Users,
             \/ AskToJoin(r, u)
             \/ AskForVirtual(r, u)
             \/ \E p \in Problems : AskToSubmit(r, u, p)
             \/ \E e \in Edits : AskToEdit(r, u, e)
      PROVE  CInv'
  BY <1>8, <1>1 DEF AskToJoin, AskForVirtual, AskToSubmit, AskToEdit
<1>9. ASSUME NEW u \in Users, Disqualify(u) \/ Undisqualify(u) PROVE CInv'
  BY <1>9, <1>3 DEF Disqualify, Undisqualify
<1> HIDE DEF CInv
<1> QED BY <1>2, <1>4, <1>5, <1>6, <1>7, <1>8, <1>9 DEF Next

\* submit_to_contest never lets a participation have more submissions to a problem
\* than max_submissions, for any number of overlapping requests (LimitHolds).
THEOREM LimitKept == ASSUME Limit \in Nat PROVE Spec => []LimitHolds
<1>1. Init => CInv
  BY CInvInit
<1>2. CInv /\ [Next]_vars => CInv'
  BY CInvStep
<1>3. CInv => LimitHolds
  BY DEF CInv, RowsTyped, LimitHolds
<1> QED BY <1>1, <1>2, <1>3, PTL DEF Spec

-----------------------------------------------------------------------------
(* Who is in was let in *)

\* Whom the row lets in of itself, the history has noted.
Noted(row) == \A u \in Users : Welcomes(row, u) => u \in welcomed

\* Every copy of the row is a state the row has had; whoever is about to enter was
\* let in by one.
BInv ==
  /\ Noted(contest)
  /\ \A r \in Requests : ask[r] # NoAsk => Noted(ask[r].row)
  /\ \A r \in Requests : ask[r].step = "create" => ask[r].user \in welcomed
  /\ NoBootstrap

\* A user who passes can_join with a copy was let in by it, or has entered before.
LEMMA JoinersNoted ==
  ASSUME BInv, NEW u \in Users, NEW row, NEW late \in BOOLEAN, Noted(row), CanJoin(u, row, late)
  PROVE  u \in welcomed
<1>1. CASE Welcomes(row, u)
  BY <1>1 DEF Noted
<1>2. CASE EntriesOf(u) # {}
  BY <1>2 DEF EntriesOf, BInv, NoBootstrap
<1> QED BY <1>1, <1>2 DEF CanJoin, CanSee, Welcomes

\* A step adds to the history what the row says then, and never takes from it.
LEMMA BInvStep == ASSUME CInv, BInv, [Next]_vars PROVE BInv'
<1> USE DEF BInv
<1>asks. \A r \in Requests : ask[r] = NoAsk \/ IsRequest(ask[r])
  BY DEF CInv, AsksTyped
<1>keep. ASSUME UNCHANGED <<contest, ask, welcomed>>, NoBootstrap' PROVE BInv'
  BY <1>keep DEF Noted, Welcomes
\* One request goes on; the history and the row may only grow.
<1>go. ASSUME NEW r \in Requests, NEW q, ask' = [ask EXCEPT ![r] = q],
              q # NoAsk => Noted(q.row), q.step = "create" => q.user \in welcomed,
              UNCHANGED <<contest, welcomed>>, NoBootstrap'
       PROVE  BInv'
  <2>1. \A s \in Requests : ask'[s] = IF s = r THEN q ELSE ask[s]
    BY <1>go DEF CInv, AsksTyped
  <2>2. \A row : Noted(row) => Noted(row)'
    BY <1>go DEF Noted, Welcomes
  <2> QED BY <1>go, <2>1, <2>2
<1>stay. ASSUME UNCHANGED <<entries, welcomed>> PROVE NoBootstrap'
  BY <1>stay DEF NoBootstrap
<1>none. NoAsk.step # "create"
  BY DEF NoAsk
\* A request goes on to a step that is not "create", with the same copy.
<1>on. ASSUME NEW r \in Requests, NEW step, Go(r, step), step # "create", ask[r] # NoAsk,
              UNCHANGED <<entries, contest, welcomed>>
       PROVE  BInv'
  <2> DEFINE q == [ask[r] EXCEPT !.step = step]
  <2>1. q.row = ask[r].row /\ q.step = step
    BY <1>asks, <1>on DEF IsRequest, HasFields
  <2>2. ask' = [ask EXCEPT ![r] = q]
    BY <1>on DEF Go
  <2> HIDE DEF q
  <2> QED BY <1>on, <1>go, <1>stay, <2>1, <2>2
<1>over. ASSUME NEW r \in Requests, Done(r), UNCHANGED <<entries, contest, welcomed>> PROVE BInv'
  BY <1>over, <1>go, <1>stay, <1>none DEF Done
<1>1. ASSUME NEW r \in Requests, NEW u \in Users, NEW op, NEW what, Arrive(r, u, op, what),
             op # "create"
      PROVE  BInv'
  <2> DEFINE q == [step |-> op, user |-> u, row |-> contest, what |-> what, entry |-> 0]
  <2>1. q.row = contest /\ q.step = op
    OBVIOUS
  <2>2. ask' = [ask EXCEPT ![r] = q] /\ UNCHANGED <<contest, entries, welcomed>>
    BY <1>1 DEF Arrive
  <2> HIDE DEF q
  <2> QED BY <1>1, <1>go, <1>stay, <2>1, <2>2
\* A user passes can_join and goes on to create a participation.
<1>2. ASSUME NEW r \in Requests, NEW late \in BOOLEAN, ask[r] # NoAsk,
             CanJoin(ask[r].user, ask[r].row, late), Go(r, "create"),
             UNCHANGED <<entries, contest, welcomed>>
      PROVE  BInv'
  <2> DEFINE q == [ask[r] EXCEPT !.step = "create"]
  <2>1. q.row = ask[r].row /\ q.user = ask[r].user /\ ask[r].user \in Users
    BY <1>asks, <1>2 DEF IsRequest, HasFields
  <2>2. ask' = [ask EXCEPT ![r] = q]
    BY <1>2 DEF Go
  <2>3. ask[r].user \in welcomed
    BY <1>2, <2>1, JoinersNoted
  <2> HIDE DEF q
  <2> QED BY <1>2, <1>go, <1>stay, <2>1, <2>2, <2>3
<1>3. ASSUME NEW r \in Requests, RequestStep(r) PROVE BInv'
  <2>1. CASE Join(r)
    <3>1. ask[r] # NoAsk /\ UNCHANGED <<entries, contest, welcomed>>
      BY <2>1 DEF Join, Unentered, NoAsk
    <3>2. \/ CanJoin(ask[r].user, ask[r].row, FALSE) /\ Go(r, "create")
          \/ Done(r)
      BY <2>1, Zenon DEF Join
    <3> QED BY <3>1, <3>2, <1>2, <1>over
  <2>2. CASE StartVirtual(r)
    <3>1. ask[r] # NoAsk /\ UNCHANGED <<entries, contest, welcomed>>
      BY <2>2 DEF StartVirtual, Unentered, NoAsk
    <3>2. \/ CanJoin(ask[r].user, ask[r].row, TRUE) /\ Go(r, "create")
          \/ Done(r)
      BY <2>2, Zenon DEF StartVirtual
    <3> QED BY <3>1, <3>2, <1>2, <1>over
  <2>3. CASE Create(r)
    <3> DEFINE e == [user |-> ask[r].user, status |-> ask[r].what,
                     began |-> now, score |-> 0, out |-> FALSE]
    <3>1. /\ entries' = Append(entries, e) /\ e.user = ask[r].user /\ ask[r].step = "create"
          /\ Done(r) /\ UNCHANGED <<contest, welcomed>>
      BY <2>3 DEF Create
    <3> HIDE DEF e
    <3>2. e.user \in welcomed
      BY <3>1
    <3>3. \A i \in DOMAIN entries' :
                   \/ entries'[i] = e
                   \/ i \in DOMAIN entries /\ entries'[i] = entries[i]
      BY <3>1 DEF CInv, RowsTyped
    <3>4. NoBootstrap'
      BY <3>1, <3>2, <3>3 DEF NoBootstrap
    <3> QED BY <3>1, <3>4, <1>go, <1>none DEF Done
  <2>4. CASE LockEntry(r)
    <3>1. PICK i : ask' = [ask EXCEPT ![r].step = "locked", ![r].entry = i]
      BY <2>4 DEF LockEntry
    <3> DEFINE q == [ask[r] EXCEPT !.step = "locked", !.entry = i]
    <3>2. IsRequest(ask[r]) /\ ask[r] # NoAsk /\ UNCHANGED <<entries, contest, welcomed>>
      BY <2>4, <1>asks DEF LockEntry, NoAsk, Unentered
    <3>3. q.step = "locked" /\ q.row = ask[r].row
      BY <3>2 DEF IsRequest, HasFields
    <3>4. ask' = [ask EXCEPT ![r] = q]
      BY <3>1, <3>2 DEF IsRequest, HasFields, CInv, AsksTyped
    <3> HIDE DEF q
    <3> QED BY <3>2, <3>3, <3>4, <1>go, <1>stay
  <2>5. CASE NotJoined(r)
    BY <2>5, <1>over DEF NotJoined, Unentered
  <2>6. CASE CheckLimit(r)
    BY <2>6, <1>on, <1>over DEF CheckLimit, Unentered, NoAsk
  <2>7. CASE Insert(r)
    BY <2>7, <1>over DEF Insert
  <2>8. CASE Save(r)
    <3>1. welcomed \subseteq welcomed' /\ entries' = entries /\ Noted(contest)'
      BY <2>8 DEF Save, Noted, Welcomes
    <3>2. \A row : Noted(row) => Noted(row)'
      BY <3>1 DEF Noted, Welcomes
    <3>3. \A s \in Requests : ask'[s] = NoAsk \/ ask'[s] = ask[s]
      BY <2>8 DEF Save, Done, CInv, AsksTyped
    <3>4. NoBootstrap'
      BY <3>1 DEF NoBootstrap
    <3> QED BY <3>1, <3>2, <3>3, <3>4, <1>none
  <2> QED BY <1>3, <2>1, <2>2, <2>3, <2>4, <2>5, <2>6, <2>7, <2>8 DEF RequestStep
<1>4. ASSUME NEW u, NEW out, SetOut(u, out) PROVE BInv'
  <2>1. \A i \in DOMAIN entries : entries[i] \in Entry
    <3>1. entries \in Seq(Entry)
      BY DEF CInv, RowsTyped
    <3> QED BY <3>1
  <2>2. \A e \in Entry : [e EXCEPT !.out = out].user = e.user
    BY DEF Entry
  <2>3. NoBootstrap'
    BY <1>4, <2>1, <2>2 DEF SetOut, NoBootstrap
  <2> QED BY <1>4, <1>keep, <2>3 DEF SetOut
<1>5. ASSUME NEW i \in DOMAIN entries, Scored(i) PROVE BInv'
  <2>1. entries[i] \in Entry
    <3>1. entries \in Seq(Entry)
      BY DEF CInv, RowsTyped
    <3> QED BY <1>5, <3>1
  <2> DEFINE e == [entries[i] EXCEPT !.score = 1]
  <2>2. e.user = entries[i].user
    BY <2>1 DEF Entry
  <2>3. entries' = [entries EXCEPT ![i] = e]
    BY <1>5 DEF Scored
  <2> HIDE DEF e
  <2>4. NoBootstrap'
    BY <1>5, <2>2, <2>3 DEF Scored, NoBootstrap
  <2> QED BY <1>5, <1>keep, <2>4 DEF Scored
<1>6. ASSUME UNCHANGED <<contest, entries, ask, welcomed>> PROVE BInv'
  BY <1>6, <1>keep, <1>stay
<1>7. ASSUME NEW r \in Requests, NEW u \in Users,
             \/ AskToJoin(r, u)
             \/ AskForVirtual(r, u)
             \/ \E p \in Problems : AskToSubmit(r, u, p)
             \/ \E e \in Edits : AskToEdit(r, u, e)
      PROVE  BInv'
  BY <1>7, <1>1 DEF AskToJoin, AskForVirtual, AskToSubmit, AskToEdit
<1>8. ASSUME NEW u \in Users, Disqualify(u) \/ Undisqualify(u) PROVE BInv'
  BY <1>8, <1>4 DEF Disqualify, Undisqualify
<1>9. ASSUME NEW p \in Problems, AddProblem(p) \/ RemoveProblem(p) PROVE BInv'
  BY <1>9, <1>6 DEF AddProblem, RemoveProblem
<1>10. CASE Tick \/ UNCHANGED vars
  BY <1>10, <1>6 DEF Tick, vars
<1> HIDE DEF BInv
<1> QED BY <1>3, <1>5, <1>7, <1>8, <1>9, <1>10 DEF Next

\* Only whom some state of the contest lets in of itself is in it: a private contest
\* shows itself to its participants, but that lets nobody in (NoBootstrap).
THEOREM NobodySlipsIn == ASSUME Limit \in Nat PROVE Spec => []NoBootstrap
<1>1. Init => CInv /\ BInv
  <2> SUFFICES ASSUME Init PROVE BInv
    BY CInvInit
  <2>1. Noted(contest)
    BY DEF Init, Noted
  <2>2. \A r \in Requests : ask[r] = NoAsk /\ ask[r].step # "create"
    BY DEF Init, NoAsk
  <2>3. NoBootstrap
    BY DEF Init, NoBootstrap
  <2> QED BY <2>1, <2>2, <2>3 DEF BInv
<1>2. CInv /\ BInv /\ [Next]_vars => CInv' /\ BInv'
  BY CInvStep, BInvStep
<1>3. BInv => NoBootstrap
  BY DEF BInv
<1> QED BY <1>1, <1>2, <1>3, PTL DEF Spec

-----------------------------------------------------------------------------
(* The schedule *)

\* Only Save writes the row, and it has checked every field it writes.
LEMMA ScheduleStep == ScheduleValid /\ [Next]_vars => ScheduleValid'
<1> SUFFICES ASSUME ScheduleValid, [Next]_vars PROVE ScheduleValid'
  OBVIOUS
<1>1. ASSUME UNCHANGED contest PROVE ScheduleValid'
  BY <1>1 DEF ScheduleValid
<1>2. ASSUME NEW r \in Requests, RequestStep(r) PROVE ScheduleValid'
  <2>1. CASE Save(r)
    BY <2>1 DEF Save, ScheduleValid
  <2>2. CASE Join(r) \/ StartVirtual(r) \/ LockEntry(r) \/ NotJoined(r) \/ CheckLimit(r)
    BY <2>2, <1>1 DEF Join, StartVirtual, LockEntry, NotJoined, CheckLimit, Unentered
  <2>3. CASE Create(r) \/ Insert(r)
    BY <2>3, <1>1 DEF Create, Insert
  <2> QED BY <1>2, <2>1, <2>2, <2>3 DEF RequestStep
<1>3. ASSUME NEW r \in Requests, NEW u \in Users,
             \/ AskToJoin(r, u)
             \/ AskForVirtual(r, u)
             \/ \E p \in Problems : AskToSubmit(r, u, p)
             \/ \E e \in Edits : AskToEdit(r, u, e)
      PROVE  ScheduleValid'
  BY <1>3, <1>1 DEF AskToJoin, AskForVirtual, AskToSubmit, AskToEdit, Arrive
<1>4. ASSUME NEW u \in Users, Disqualify(u) \/ Undisqualify(u) PROVE ScheduleValid'
  BY <1>4, <1>1 DEF Disqualify, Undisqualify, SetOut
<1>5. ASSUME NEW p \in Problems, AddProblem(p) \/ RemoveProblem(p) PROVE ScheduleValid'
  BY <1>5, <1>1 DEF AddProblem, RemoveProblem
<1>6. ASSUME NEW i \in DOMAIN entries, Scored(i) PROVE ScheduleValid'
  BY <1>6, <1>1 DEF Scored
<1>7. CASE Tick \/ UNCHANGED vars
  BY <1>7, <1>1 DEF Tick, vars
<1> QED BY <1>2, <1>3, <1>4, <1>5, <1>6, <1>7 DEF Next

\* PATCHes that overlap, each checked on its own copy of the row, never leave a contest
\* that ends before it starts (ScheduleValid), whatever fields they send.
THEOREM ScheduleKept == Spec => []ScheduleValid
<1>1. Init => ScheduleValid
  BY ContestAssumption DEF Init, ScheduleValid
<1> QED BY <1>1, ScheduleStep, PTL DEF Spec


-----------------------------------------------------------------------------
(* RateLimit *)

WindowAt(time) == time \div ApiWindow

\* Windows follow each other, and the key of one outlives it.
LEMMA WindowAfterWindow ==
  ASSUME NEW a \in Nat
  PROVE  /\ WindowAt(a) \in Nat
         /\ WindowAt(a + ApiWindow) = WindowAt(a) + 1
         /\ \A b \in Nat : a <= b => WindowAt(a) <= WindowAt(b)
  BY RateAssumption, SMT DEF WindowAt

LimitTyped ==
  /\ clock \in 0..LimitHorizon
  /\ count \in [Windows -> Nat \cup {Missing}]
  /\ expires \in [Windows -> Nat]
  /\ served \in [Windows -> 0..ApiLimit]
  /\ call \in [ApiRequests -> [window : Windows, step : {"idle", "add", "increment"}]]

\* The key of a window that is not over: before it is there nothing was let through,
\* and then no more than it counts; it stays until the window is over.
KeyOutlivesWindow ==
  \A w \in Windows : w >= WindowAt(clock) =>
    IF count[w] = Missing THEN served[w] = 0
    ELSE /\ served[w] <= count[w]
         /\ w < WindowAt(expires[w])

\* No request belongs to a window to come.
CallsArrived == \A t \in ApiRequests : call[t].window <= WindowAt(clock)

LimitInv == LimitTyped /\ KeyOutlivesWindow /\ CallsArrived

\* The first state has no request and no key.
LEMMA LimitInit == LInit => LimitInv
  <1> SUFFICES ASSUME LInit PROVE LimitInv
    OBVIOUS
  <1> USE RateAssumption DEF LInit
  <1>1. WindowAt(LimitHorizon) \in Nat
    BY WindowAfterWindow
  <1>2. 0 \in Windows
    BY <1>1 DEF Windows, WindowAt
  <1>3. LimitTyped
    BY <1>2 DEF LimitTyped, IdleCall
  <1>4. KeyOutlivesWindow /\ CallsArrived
    <2>1. WindowAt(0) \in Nat
      BY WindowAfterWindow
    <2> QED
      BY <2>1 DEF KeyOutlivesWindow, CallsArrived, IdleCall
  <1> QED
    BY <1>3, <1>4 DEF LimitInv

\* Every step keeps the invariant; those that answer a request let it through only below
\* the limit, and a key is forgotten only when its window is over.
LEMMA LimitStep == LimitInv /\ [LNext]_limitVars => LimitInv'
  <1> SUFFICES ASSUME LimitInv, [LNext]_limitVars PROVE LimitInv'
    OBVIOUS
  <1> USE RateAssumption
  <1> DEFINE now0 == WindowAt(clock)
  <1>0. /\ LimitTyped /\ KeyOutlivesWindow /\ CallsArrived
        /\ clock \in Nat /\ now0 \in Nat /\ Windows \subseteq Nat /\ now0 \in Windows
    <2>1. clock \in Nat /\ clock <= LimitHorizon
      BY DEF LimitInv, LimitTyped
    <2>2. now0 \in Nat /\ WindowAt(LimitHorizon) \in Nat /\ now0 <= WindowAt(LimitHorizon)
      BY <2>1, WindowAfterWindow
    <2> QED
      BY <2>1, <2>2 DEF LimitInv, Windows, WindowAt
  <1>1. ASSUME NEW t \in ApiRequests, Receive(t) PROVE LimitInv'
    <2>1. LimitTyped'
      BY <1>0, <1>1 DEF Receive, LimitTyped, WindowAt
    <2>2. KeyOutlivesWindow'
      BY <1>0, <1>1 DEF Receive, KeyOutlivesWindow
    <2>3. CallsArrived'
      BY <1>0, <1>1 DEF Receive, CallsArrived, LimitTyped, WindowAt
    <2> QED
      BY <2>1, <2>2, <2>3 DEF LimitInv
  <1>2. ASSUME NEW t \in ApiRequests, Add(t) PROVE LimitInv'
    <2> DEFINE w == call[t].window
    <2>0. w \in Windows /\ w <= now0 /\ UNCHANGED <<clock, served>>
      BY <1>0, <1>2 DEF Add, LimitTyped, CallsArrived
    <2>1. LimitTyped'
      BY <1>0, <1>2, <2>0 DEF Add, LimitTyped
    <2>2. KeyOutlivesWindow'
      <3>1. WindowAt(clock + ApiWindow) = now0 + 1
        BY <1>0, WindowAfterWindow
      <3>2. CASE count[w] # Missing
        BY <1>0, <1>2, <2>0, <3>2 DEF Add, KeyOutlivesWindow
      <3>3. CASE count[w] = Missing
        <4>1. /\ count' = [count EXCEPT ![w] = 0]
              /\ expires' = [expires EXCEPT ![w] = clock + ApiWindow]
          BY <1>2, <3>3 DEF Add
        <4>2. ASSUME NEW v \in Windows, v >= now0, v = w
              PROVE  count'[v] = 0 /\ served'[v] = 0 /\ v < WindowAt(expires'[v])
          BY <1>0, <2>0, <3>1, <3>3, <4>1, <4>2 DEF KeyOutlivesWindow, LimitTyped
        <4>3. ASSUME NEW v \in Windows, v # w
              PROVE  count'[v] = count[v] /\ expires'[v] = expires[v] /\ served'[v] = served[v]
          BY <1>0, <2>0, <4>1, <4>3 DEF LimitTyped
        <4> QED
          BY <1>0, <2>0, <4>2, <4>3 DEF KeyOutlivesWindow
      <3> QED
        BY <3>2, <3>3
    <2>3. CallsArrived'
      BY <1>0, <1>2 DEF Add, CallsArrived, LimitTyped
    <2> QED
      BY <2>1, <2>2, <2>3 DEF LimitInv
  <1>3. ASSUME NEW t \in ApiRequests, Increment(t) PROVE LimitInv'
    <2> DEFINE w == call[t].window
               current == IF count[w] = Missing THEN 1 ELSE count[w] + 1
    <2>0. /\ w \in Windows /\ w <= now0 /\ UNCHANGED clock /\ current \in Nat
          /\ count[w] \in Nat \cup {Missing} /\ served[w] \in 0..ApiLimit
      <3>1. w \in Windows /\ w <= now0
        BY <1>0 DEF LimitTyped, CallsArrived
      <3>2. count[w] \in Nat \cup {Missing} /\ served[w] \in 0..ApiLimit
        BY <1>0, <3>1 DEF LimitTyped
      <3>3. UNCHANGED clock
        BY <1>3 DEF Increment
      <3> QED
        BY <3>1, <3>2, <3>3
    <2>1. /\ count' = [count EXCEPT ![w] = current]
          /\ expires' = IF count[w] = Missing THEN [expires EXCEPT ![w] = clock + ApiWindow] ELSE expires
          /\ served' = IF current <= ApiLimit /\ w = now0 THEN [served EXCEPT ![w] = @ + 1] ELSE served
          /\ call' = [call EXCEPT ![t] = IdleCall]
      BY <1>3 DEF Increment, WindowAt
    <2>2. /\ current <= ApiLimit /\ w = now0 => served[w] + 1 <= current
          /\ w = now0 => served[w] <= current
      BY <1>0, <2>0 DEF KeyOutlivesWindow
    <2> HIDE DEF current
    <2>3. LimitTyped'
      <3>1. expires' \in [Windows -> Nat] /\ count' \in [Windows -> Nat \cup {Missing}]
        BY <1>0, <2>0, <2>1 DEF LimitTyped
      <3>2. served' \in [Windows -> 0..ApiLimit]
        BY <1>0, <2>0, <2>1, <2>2 DEF LimitTyped
      <3>3. call' \in [ApiRequests -> [window : Windows, step : {"idle", "add", "increment"}]]
        <4>1. 0 \in Windows
          BY <1>0 DEF Windows, WindowAt
        <4> QED
          BY <1>0, <2>1, <4>1 DEF LimitTyped, IdleCall
      <3> QED
        BY <1>0, <2>0, <3>1, <3>2, <3>3 DEF LimitTyped
    <2>4. KeyOutlivesWindow'
      <3>1. WindowAt(clock + ApiWindow) = now0 + 1
        BY <1>0, WindowAfterWindow
      <3>2. ASSUME w = now0
            PROVE  count'[w] = current /\ served'[w] <= current /\ w < WindowAt(expires'[w])
        BY <1>0, <2>0, <2>1, <2>2, <3>1, <3>2 DEF KeyOutlivesWindow, LimitTyped
      <3>3. ASSUME NEW v \in Windows, v # w
            PROVE  count'[v] = count[v] /\ expires'[v] = expires[v] /\ served'[v] = served[v]
        BY <1>0, <2>0, <2>1, <3>3 DEF LimitTyped
      <3> QED
        BY <1>0, <2>0, <3>2, <3>3 DEF KeyOutlivesWindow
    <2>5. CallsArrived'
      BY <1>0, <2>0, <2>1 DEF CallsArrived, LimitTyped, IdleCall
    <2> QED
      BY <2>3, <2>4, <2>5 DEF LimitInv
  <1>4. ASSUME LTick PROVE LimitInv'
    <2> DEFINE now1 == WindowAt(clock')
    <2>0. /\ clock' \in 0..LimitHorizon /\ clock' \in Nat /\ now1 \in Nat /\ now0 <= now1
          /\ count' = [w \in Windows |-> IF expires[w] <= clock' THEN Missing ELSE count[w]]
          /\ UNCHANGED <<expires, call, served>>
      BY <1>0, <1>4, WindowAfterWindow DEF LTick, LimitTyped
    <2>1. LimitTyped'
      BY <1>0, <2>0 DEF LimitTyped
    <2>2. ASSUME NEW w \in Windows, w >= now1, count[w] # Missing
          PROVE  ~(expires[w] <= clock')
      <3>1. expires[w] \in Nat /\ w \in Nat /\ w < WindowAt(expires[w])
        BY <1>0, <2>0, <2>2 DEF KeyOutlivesWindow, LimitTyped
      <3>2. /\ WindowAt(expires[w]) \in Nat
            /\ expires[w] <= clock' => WindowAt(expires[w]) <= now1
        BY <2>0, <3>1, WindowAfterWindow
      <3> QED
        BY <2>0, <2>2, <3>1, <3>2
    <2>3. KeyOutlivesWindow'
      BY <1>0, <2>0, <2>2 DEF KeyOutlivesWindow
    <2>4. CallsArrived'
      <3>1. \A t \in ApiRequests : call[t].window \in Nat
        BY <1>0 DEF LimitTyped
      <3> QED
        BY <1>0, <2>0, <3>1 DEF CallsArrived
    <2> QED
      BY <2>1, <2>3, <2>4 DEF LimitInv
  <1>5. CASE UNCHANGED limitVars
    BY <1>5 DEF limitVars, LimitInv, LimitTyped, KeyOutlivesWindow, CallsArrived
  <1> QED
    BY <1>1, <1>2, <1>3, <1>4, <1>5 DEF LNext

\* WindowBounded (RateLimitMiddleware): in no window more requests are let through
\* than the limit allows, for any limit, length of windows and number of requests
\* under way.
THEOREM WindowsBounded == LSpec => []WindowBounded
  <1>1. LimitInv => WindowBounded
    BY RateAssumption DEF LimitInv, LimitTyped, WindowBounded
  <1> QED
    BY <1>1, LimitInit, LimitStep, PTL DEF LSpec

-----------------------------------------------------------------------------
(* SubmissionDesk *)

Copy == [public : BOOLEAN, token : Nat]

Submission == [owner : DeskUsers, problem : DeskProblems, mode : Modes, age : Nat,
               gone : BOOLEAN, public : BOOLEAN, token : Nat]

Request == [stage : {"idle", "insert", "save"}, by : DeskUsers \cup {Nobody}, row : Nat,
            mode : Modes, problem : DeskProblems \cup {Nobody},
            change : {"none", "show", "hide", "share", "revoke"}, copy : Copy]

\* A request knows what it is to insert or to save.
Planned(q) ==
  /\ q.stage = "insert" => q.by \in DeskUsers /\ q.problem \in DeskProblems
  /\ q.stage = "save" => q.change # "none"

DeskTyped ==
  /\ subs \in Seq(Submission)
  /\ reqs \in [DeskTasks -> Request]
  /\ \A t \in DeskTasks : Planned(reqs[t])
  /\ issued \in Nat

\* A token is that of one row, and of none once it was replaced or revoked.
TokensApart ==
  /\ withdrawn \subseteq 1..issued
  /\ \A i \in DOMAIN subs : subs[i].token <= issued /\ subs[i].token \notin withdrawn
  /\ \A i, j \in DOMAIN subs : subs[i].token = subs[j].token => i = j \/ subs[i].token = NoToken

\* Who passed the check of a rate limit and has not inserted the row.
Passed(u, mode) == {t \in DeskTasks : reqs[t].stage = "insert" /\ reqs[t].by = u /\ reqs[t].mode = mode}

\* The clean-up never takes a row away that a limit still counts.
GoneAreOld == \A i \in DOMAIN subs : subs[i].gone => subs[i].age > Retention

\* With the rows that are about to come, the limit is exceeded by the overlap alone.
Within(u, mode) ==
  Cardinality(InWindow(u, mode)) + Cardinality(Passed(u, mode))
    <= RowLimit[mode] + Cardinality(DeskTasks) - 1

RateKept == \A u \in DeskUsers \ DeskStaff, mode \in Modes : Within(u, mode)

DeskInv == DeskTyped /\ TokensApart /\ GoneAreOld /\ RateKept

\* What a limit counts is finite.
LEMMA RowsFinite ==
  ASSUME DeskTyped, NEW u, NEW mode
  PROVE  /\ IsFiniteSet(InWindow(u, mode)) /\ Cardinality(InWindow(u, mode)) \in Nat
         /\ IsFiniteSet(Passed(u, mode)) /\ Cardinality(Passed(u, mode)) \in Nat
         /\ Cardinality(Passed(u, mode)) <= Cardinality(DeskTasks)
         /\ Cardinality(DeskTasks) \in Nat
  <1>1. IsFiniteSet(1..Len(subs))
    BY FS_Interval DEF DeskTyped
  <1>2. InWindow(u, mode) \subseteq 1..Len(subs)
    BY DEF DeskTyped, InWindow
  <1>3. Passed(u, mode) \subseteq DeskTasks
    BY DEF Passed
  <1> QED
    BY <1>1, <1>2, <1>3, FS_Subset, FS_CardinalityType, DeskAssumption

\* A change of the settings writes the flag or the token, and no other field of a row.
LEMMA SavedKeeps ==
  ASSUME NEW row \in Submission, NEW old \in Copy, NEW fresh \in Nat,
         NEW change \in {"show", "hide", "share", "revoke"}
  PROVE  LET new == Saved(row, old, change, fresh)
         IN /\ new \in Submission
            /\ new.owner = row.owner /\ new.mode = row.mode /\ new.age = row.age /\ new.gone = row.gone
            /\ new.token = IF change = "share" THEN fresh
                           ELSE IF change = "revoke" THEN NoToken ELSE row.token
  BY DEF Saved, Changed, Submission, Copy, NoToken

\* What holds of each row holds of the sequence.
LEMMA RowByRow ==
  ASSUME NEW new, new = [i \in DOMAIN subs |-> new[i]],
         subs \in Seq(Submission), \A i \in DOMAIN subs : new[i] \in Submission
  PROVE  new \in Seq(Submission) /\ DOMAIN new = DOMAIN subs /\ Len(new) = Len(subs)
  <1>1. DOMAIN subs = 1..Len(subs) /\ Len(subs) \in Nat
    OBVIOUS
  <1>2. new \in [1..Len(subs) -> Submission]
    BY <1>1
  <1> QED
    BY <1>1, <1>2

\* The first state has no row and no request.
LEMMA DeskInit == SInit => DeskInv
  <1> SUFFICES ASSUME SInit PROVE DeskInv
    OBVIOUS
  <1> USE DEF SInit
  <1>1. DeskTyped
    BY DEF DeskTyped, Planned, NoRequest, Request, Copy, Modes, NoToken
  <1>2. TokensApart /\ GoneAreOld
    BY DEF TokensApart, GoneAreOld
  <1>3. RateKept
    <2>1. \A u, mode : InWindow(u, mode) = {} /\ Passed(u, mode) = {}
      BY DEF InWindow, Passed, NoRequest
    <2>2. Cardinality(DeskTasks) \in Nat /\ Cardinality(DeskTasks) # 0
      BY FS_CardinalityType, FS_EmptySet, DeskAssumption
    <2>3. Cardinality({}) = 0
      BY FS_EmptySet
    <2>4. \A mode \in Modes : RowLimit[mode] \in Nat
      BY DeskAssumption
    <2> SUFFICES ASSUME NEW u, NEW mode \in Modes
                 PROVE  Within(u, mode)
      BY DEF RateKept
    <2>5. Cardinality(InWindow(u, mode)) = 0 /\ Cardinality(Passed(u, mode)) = 0
      BY <2>1, <2>3
    <2> QED
      BY <2>2, <2>4, <2>5 DEF Within
  <1> QED
    BY <1>1, <1>2, <1>3 DEF DeskInv

\* A step that leaves the rows and the waiting insertions alone, or lets rows grow
\* older, keeps the rates.
LEMMA RatesKept ==
  ASSUME DeskInv, DeskTyped',
         \A u, mode : InWindow(u, mode)' \subseteq InWindow(u, mode)
                      /\ Passed(u, mode)' \subseteq Passed(u, mode)
  PROVE  RateKept'
  <1> SUFFICES ASSUME NEW u \in DeskUsers \ DeskStaff, NEW mode \in Modes
               PROVE  Within(u, mode)'
    BY DEF RateKept
  <1>1. /\ Cardinality(InWindow(u, mode)') \in Nat
        /\ Cardinality(InWindow(u, mode)') <= Cardinality(InWindow(u, mode))
        /\ Cardinality(Passed(u, mode)') \in Nat
        /\ Cardinality(Passed(u, mode)') <= Cardinality(Passed(u, mode))
        /\ Cardinality(InWindow(u, mode)) \in Nat /\ Cardinality(Passed(u, mode)) \in Nat
        /\ Cardinality(DeskTasks) \in Nat
    BY RowsFinite, FS_Subset, FS_CardinalityType DEF DeskInv
  <1>2. Within(u, mode)
    BY DEF DeskInv, RateKept
  <1>3. RowLimit[mode] \in Nat
    BY DeskAssumption
  <1> QED
    BY <1>1, <1>2, <1>3 DEF Within

\* Every step of a request, of the settings, of the clean-up and of the clock keeps the
\* invariant.
LEMMA DeskStep == DeskInv /\ [SNext]_svars => DeskInv'
  <1> SUFFICES ASSUME DeskInv, [SNext]_svars PROVE DeskInv'
    OBVIOUS
  <1>0. DeskTyped /\ TokensApart /\ GoneAreOld /\ RateKept
    BY DEF DeskInv
  <1>rows. /\ \A i \in DOMAIN subs : subs[i] \in Submission
           /\ \A i \in DOMAIN subs : subs[i].age \in Nat /\ subs[i].token \in Nat
    <2>1. \A i \in DOMAIN subs : subs[i] \in Submission
      BY <1>0 DEF DeskTyped
    <2> QED
      BY <2>1 DEF Submission
  <1>1. ASSUME NEW t \in DeskTasks, CheckSubmission(t) PROVE DeskInv'
    <2>1. PICK u \in DeskUsers, p \in DeskProblems, l \in Languages, mode \in Modes :
            /\ Accepts(u, p, l, mode)
            /\ reqs' = [reqs EXCEPT ![t] =
                          [NoRequest EXCEPT !.stage = "insert", !.by = u, !.mode = mode, !.problem = p]]
      BY <1>1 DEF CheckSubmission
    <2>2. UNCHANGED <<subs, issued, withdrawn>> /\ reqs[t].stage = "idle"
      BY <1>1 DEF CheckSubmission
    <2> DEFINE new == [NoRequest EXCEPT !.stage = "insert", !.by = u, !.mode = mode, !.problem = p]
    <2>3. new \in Request /\ new.stage = "insert" /\ new.by = u /\ new.mode = mode /\ new.problem = p
      BY DEF NoRequest, Request, Copy, Modes, NoToken
    <2>4. reqs' = [reqs EXCEPT ![t] = new]
      BY <2>1
    <2> HIDE DEF new
    <2>5. /\ reqs' \in [DeskTasks -> Request] /\ reqs'[t] = new
          /\ \A r \in DeskTasks : r # t => reqs'[r] = reqs[r]
      BY <1>0, <2>3, <2>4 DEF DeskTyped
    <2>6. DeskTyped'
      BY <1>0, <2>2, <2>3, <2>5 DEF DeskTyped, Planned
    <2>7. TokensApart' /\ GoneAreOld'
      BY <1>0, <2>2 DEF TokensApart, GoneAreOld
    <2>8. ASSUME NEW w \in DeskUsers \ DeskStaff, NEW m \in Modes
          PROVE  Within(w, m)'
      <3>1. InWindow(w, m)' = InWindow(w, m)
        BY <2>2 DEF InWindow
      <3>2. CASE w = u /\ m = mode
        <4>1. Recent(u, mode) = InWindow(u, mode)
          <5>1. \A i \in DOMAIN subs : subs[i].age <= RowWindow => ~subs[i].gone
            BY <1>0, <1>rows, DeskAssumption DEF GoneAreOld
          <5> QED
            BY <5>1 DEF Recent, InWindow
        <4>2. Cardinality(InWindow(u, mode)) < RowLimit[mode]
          BY <2>1, <2>8, <3>2, <4>1 DEF Accepts, WithinRate
        <4>3. /\ Cardinality(Passed(w, m)') <= Cardinality(DeskTasks) /\ Cardinality(Passed(w, m)') \in Nat
              /\ Cardinality(DeskTasks) \in Nat
          BY <2>6, RowsFinite, FS_Subset, FS_CardinalityType, DeskAssumption DEF Passed
        <4>4. Cardinality(InWindow(w, m)) \in Nat /\ RowLimit[m] \in Nat
          BY <1>0, RowsFinite, DeskAssumption
        <4> QED
          BY <3>1, <3>2, <4>2, <4>3, <4>4 DEF Within
      <3>3. CASE ~(w = u /\ m = mode)
        <4>1. Passed(w, m)' = Passed(w, m)
          BY <2>2, <2>3, <2>5, <3>3 DEF Passed
        <4> QED
          BY <1>0, <3>1, <4>1 DEF RateKept, Within
      <3> QED
        BY <3>2, <3>3
    <2> QED
      BY <2>6, <2>7, <2>8 DEF DeskInv, RateKept
  <1>2. ASSUME NEW t \in DeskTasks, InsertRow(t) PROVE DeskInv'
    <2> DEFINE q == reqs[t]
               new == [owner |-> q.by, problem |-> q.problem, mode |-> q.mode,
                       age |-> 0, gone |-> FALSE, public |-> FALSE, token |-> NoToken]
    <2>1. /\ q.stage = "insert" /\ subs' = Append(subs, new) /\ reqs' = [reqs EXCEPT ![t] = NoRequest]
          /\ UNCHANGED <<issued, withdrawn>>
      BY <1>2 DEF InsertRow
    <2>2. /\ new \in Submission /\ new.token = NoToken /\ ~new.gone /\ new.age = 0
          /\ new.owner = q.by /\ new.mode = q.mode
      BY <1>0, <2>1 DEF DeskTyped, Planned, Submission, Request, NoToken
    <2> HIDE DEF new
    <2>3. /\ subs' \in Seq(Submission) /\ DOMAIN subs = 1..Len(subs) /\ DOMAIN subs' = 1..(Len(subs) + 1)
          /\ Len(subs) \in Nat
          /\ subs'[Len(subs) + 1] = new /\ \A i \in DOMAIN subs : subs'[i] = subs[i]
      BY <1>0, <2>1, <2>2 DEF DeskTyped
    <2>4. NoRequest \in Request /\ NoRequest.stage = "idle"
      BY DEF NoRequest, Request, Copy, Modes, NoToken
    <2>5. /\ reqs' \in [DeskTasks -> Request] /\ reqs'[t].stage = "idle"
          /\ \A r \in DeskTasks : r # t => reqs'[r] = reqs[r]
      BY <1>0, <2>1, <2>4 DEF DeskTyped
    <2>6. DeskTyped'
      BY <1>0, <2>1, <2>3, <2>5 DEF DeskTyped, Planned
    <2>7. TokensApart'
      BY <1>0, <2>1, <2>2, <2>3 DEF TokensApart, DeskTyped, NoToken
    <2>8. GoneAreOld'
      BY <1>0, <2>2, <2>3 DEF GoneAreOld
    <2>9. ASSUME NEW w \in DeskUsers \ DeskStaff, NEW m \in Modes
          PROVE  Within(w, m)'
      <3>0. /\ IsFiniteSet(InWindow(w, m)) /\ Cardinality(InWindow(w, m)) \in Nat
            /\ IsFiniteSet(Passed(w, m)) /\ Cardinality(Passed(w, m)) \in Nat
            /\ Cardinality(DeskTasks) \in Nat /\ RowLimit[m] \in Nat
            /\ Within(w, m)
        BY <1>0, RowsFinite, DeskAssumption DEF RateKept
      <3>1. CASE w = q.by /\ m = q.mode
        <4>1. /\ InWindow(w, m)' = InWindow(w, m) \cup {Len(subs) + 1}
              /\ Len(subs) + 1 \notin InWindow(w, m)
          BY <2>2, <2>3, <3>1, DeskAssumption DEF InWindow
        <4>2. Passed(w, m)' = Passed(w, m) \ {t} /\ t \in Passed(w, m)
          BY <2>1, <2>5, <3>1 DEF Passed
        <4>3. Cardinality(InWindow(w, m)') = Cardinality(InWindow(w, m)) + 1
          BY <3>0, <4>1, FS_AddElement
        <4>4. Cardinality(Passed(w, m)') = Cardinality(Passed(w, m)) - 1
          BY <3>0, <4>2, FS_RemoveElement
        <4> QED
          BY <3>0, <4>3, <4>4 DEF Within
      <3>2. CASE ~(w = q.by /\ m = q.mode)
        <4>1. InWindow(w, m)' = InWindow(w, m)
          BY <2>2, <2>3, <3>2 DEF InWindow
        <4>2. Passed(w, m)' = Passed(w, m)
          BY <2>1, <2>5, <3>2 DEF Passed
        <4> QED
          BY <3>0, <4>1, <4>2 DEF Within
      <3> QED
        BY <3>1, <3>2
    <2> QED
      BY <2>6, <2>7, <2>8, <2>9 DEF DeskInv, RateKept
  <1>3. ASSUME NEW t \in DeskTasks, ReadRow(t) PROVE DeskInv'
    <2>1. PICK i \in Kept, change \in {"show", "hide", "share", "revoke"} :
            reqs' = [reqs EXCEPT ![t] =
                       [NoRequest EXCEPT !.stage = "save", !.row = i, !.change = change,
                                    !.copy = [public |-> subs[i].public, token |-> subs[i].token]]]
      BY <1>3 DEF ReadRow
    <2>2. UNCHANGED <<subs, issued, withdrawn>> /\ reqs[t].stage = "idle"
      BY <1>3 DEF ReadRow
    <2> DEFINE new == [NoRequest EXCEPT !.stage = "save", !.row = i, !.change = change,
                                    !.copy = [public |-> subs[i].public, token |-> subs[i].token]]
    <2>3. new \in Request /\ new.stage = "save" /\ new.change # "none"
      <3>1. i \in Nat /\ subs[i] \in Submission
        BY <1>0 DEF Kept, DeskTyped
      <3> QED
        BY <3>1 DEF NoRequest, Request, Copy, Modes, NoToken, Submission
    <2>4. reqs' = [reqs EXCEPT ![t] = new]
      BY <2>1
    <2> HIDE DEF new
    <2>5. /\ reqs' \in [DeskTasks -> Request] /\ reqs'[t] = new
          /\ \A r \in DeskTasks : r # t => reqs'[r] = reqs[r]
      BY <1>0, <2>3, <2>4 DEF DeskTyped
    <2>6. DeskTyped'
      BY <1>0, <2>2, <2>3, <2>5 DEF DeskTyped, Planned
    <2>7. TokensApart' /\ GoneAreOld'
      BY <1>0, <2>2 DEF TokensApart, GoneAreOld
    <2>8. \A w, m : InWindow(w, m)' \subseteq InWindow(w, m) /\ Passed(w, m)' \subseteq Passed(w, m)
      BY <2>2, <2>3, <2>5 DEF InWindow, Passed
    <2> QED
      BY <2>6, <2>7, <2>8, RatesKept DEF DeskInv
  <1>4. ASSUME NEW t \in DeskTasks, SaveRow(t) PROVE DeskInv'
    <2> DEFINE q == reqs[t]
               fresh == issued + 1
               new == Saved(subs[q.row], q.copy, q.change, fresh)
    <2>1. /\ q.stage = "save" /\ q.row \in Kept
          /\ subs' = [subs EXCEPT ![q.row] = new]
          /\ issued' = IF q.change = "share" THEN fresh ELSE issued
          /\ withdrawn' = IF q.change \in {"share", "revoke"}
                          THEN withdrawn \cup ({subs[q.row].token} \ {NoToken}) ELSE withdrawn
          /\ reqs' = [reqs EXCEPT ![t] = NoRequest]
      BY <1>4 DEF SaveRow
    <2>2. /\ q.row \in DOMAIN subs /\ subs[q.row] \in Submission /\ q.copy \in Copy
          /\ fresh \in Nat /\ issued \in Nat
      BY <1>0, <2>1 DEF DeskTyped, Kept, Request
    <2>3. q.change \in {"none", "show", "hide", "share", "revoke"}
      BY <1>0 DEF DeskTyped, Request
    <2>4. q.change # "none"
      BY <1>0, <2>1 DEF DeskTyped, Planned
    <2>5. /\ new \in Submission /\ new.owner = subs[q.row].owner /\ new.mode = subs[q.row].mode
          /\ new.age = subs[q.row].age /\ new.gone = subs[q.row].gone
          /\ new.token = IF q.change = "share" THEN fresh
                         ELSE IF q.change = "revoke" THEN NoToken ELSE subs[q.row].token
      <3>1. q.change \in {"show", "hide", "share", "revoke"}
        BY <2>3, <2>4
      <3> PICK row \in Submission : row = subs[q.row]
        BY <2>2
      <3> PICK old \in Copy : old = q.copy
        BY <2>2
      <3> PICK change \in {"show", "hide", "share", "revoke"} : change = q.change
        BY <3>1
      <3>2. /\ Saved(row, old, change, fresh) \in Submission
            /\ Saved(row, old, change, fresh).owner = row.owner
            /\ Saved(row, old, change, fresh).mode = row.mode
            /\ Saved(row, old, change, fresh).age = row.age
            /\ Saved(row, old, change, fresh).gone = row.gone
            /\ Saved(row, old, change, fresh).token =
                 IF change = "share" THEN fresh ELSE IF change = "revoke" THEN NoToken ELSE row.token
        BY <2>2, SavedKeeps
      <3>3. new = Saved(row, old, change, fresh)
        OBVIOUS
      <3> HIDE DEF q, fresh, new
      <3> QED BY <3>2, <3>3
    <2> HIDE DEF new
    <2>6. NoRequest \in Request /\ NoRequest.stage = "idle"
      BY DEF NoRequest, Request, Copy, Modes, NoToken
    <2>7. /\ reqs' \in [DeskTasks -> Request] /\ reqs'[t].stage = "idle"
          /\ \A r \in DeskTasks : r # t => reqs'[r] = reqs[r]
      BY <1>0, <2>1, <2>6 DEF DeskTyped
    <2>8. /\ subs' \in Seq(Submission) /\ DOMAIN subs' = DOMAIN subs /\ subs'[q.row] = new
          /\ \A i \in DOMAIN subs : i # q.row => subs'[i] = subs[i]
      BY <1>0, <2>1, <2>2, <2>5 DEF DeskTyped
    <2>9. DeskTyped'
      BY <1>0, <2>1, <2>2, <2>7, <2>8 DEF DeskTyped, Planned
    <2>10. GoneAreOld'
      BY <1>0, <2>2, <2>5, <2>8 DEF GoneAreOld
    <2>11. \A w, m : InWindow(w, m)' \subseteq InWindow(w, m) /\ Passed(w, m)' \subseteq Passed(w, m)
      BY <2>2, <2>5, <2>7, <2>8 DEF InWindow, Passed
    <2>12. TokensApart'
      <3>0. /\ \A i \in DOMAIN subs : subs[i].token \in Nat
            /\ \A i \in DOMAIN subs : subs[i].token <= issued /\ subs[i].token \notin withdrawn
            /\ \A i, j \in DOMAIN subs :
                 subs[i].token = subs[j].token => i = j \/ subs[i].token = NoToken
            /\ withdrawn \subseteq 1..issued
        BY <1>0, <1>rows DEF TokensApart
      <3>1. CASE q.change \notin {"share", "revoke"}
        <4>1. UNCHANGED <<issued, withdrawn>> /\ \A i \in DOMAIN subs : subs'[i].token = subs[i].token
          BY <2>1, <2>5, <2>8, <3>1
        <4> QED
          BY <2>8, <3>0, <4>1 DEF TokensApart
      <3>2. CASE q.change = "revoke"
        <4>1. issued' = issued /\ withdrawn' = withdrawn \cup ({subs[q.row].token} \ {NoToken})
          BY <2>1, <3>2
        <4>2. new.token = NoToken /\ 0 \notin withdrawn'
          BY <2>5, <3>0, <3>2, <4>1 DEF NoToken
        <4>3. withdrawn' \subseteq 1..issued'
          <5> SUFFICES ASSUME NEW k \in withdrawn' PROVE k \in 1..issued'
            OBVIOUS
          <5>1. k \in withdrawn \/ (k = subs[q.row].token /\ k # 0)
            BY <4>1 DEF NoToken
          <5>2. k \in Nat /\ k # 0 /\ k <= issued
            <6>1. CASE k \in withdrawn
              <7>1. k \in 1..issued
                BY <3>0, <6>1
              <7> QED
                BY <2>2, <7>1
            <6>2. CASE k = subs[q.row].token /\ k # 0
              BY <2>2, <3>0, <6>2
            <6> QED
              BY <5>1, <6>1, <6>2
          <5> QED
            BY <2>2, <4>1, <5>2
        <4>4. \A i \in DOMAIN subs' : subs'[i].token <= issued' /\ subs'[i].token \notin withdrawn'
          BY <2>2, <2>8, <3>0, <4>1, <4>2 DEF NoToken
        <4>5. \A i, j \in DOMAIN subs' :
               subs'[i].token = subs'[j].token => i = j \/ subs'[i].token = NoToken
          BY <2>8, <3>0, <4>2
        <4> QED
          BY <4>3, <4>4, <4>5 DEF TokensApart
      <3>3. CASE q.change = "share"
        <4>1. issued' = fresh /\ withdrawn' = withdrawn \cup ({subs[q.row].token} \ {NoToken})
          BY <2>1, <3>3
        <4>2. new.token = fresh
          BY <2>5, <3>3
        <4>3. withdrawn' \subseteq 1..issued'
          <5> SUFFICES ASSUME NEW k \in withdrawn' PROVE k \in 1..issued'
            OBVIOUS
          <5>1. k \in withdrawn \/ (k = subs[q.row].token /\ k # 0)
            BY <4>1 DEF NoToken
          <5>2. k \in Nat /\ k # 0 /\ k <= issued
            <6>1. CASE k \in withdrawn
              <7>1. k \in 1..issued
                BY <3>0, <6>1
              <7> QED
                BY <2>2, <7>1
            <6>2. CASE k = subs[q.row].token /\ k # 0
              BY <2>2, <3>0, <6>2
            <6> QED
              BY <5>1, <6>1, <6>2
          <5> QED
            BY <2>2, <4>1, <5>2
        <4>4. \A i \in DOMAIN subs' : subs'[i].token <= issued' /\ subs'[i].token \notin withdrawn'
          BY <2>2, <2>8, <3>0, <4>1, <4>2 DEF NoToken
        <4>5. \A i, j \in DOMAIN subs' :
               subs'[i].token = subs'[j].token => i = j \/ subs'[i].token = NoToken
          BY <2>2, <2>8, <3>0, <4>2
        <4> QED
          BY <4>3, <4>4, <4>5 DEF TokensApart
      <3> QED
        BY <3>1, <3>2, <3>3
    <2> QED
      BY <2>9, <2>10, <2>11, <2>12, RatesKept DEF DeskInv
  <1>5. ASSUME NEW t \in DeskTasks, SaveFails(t) PROVE DeskInv'
    <2>1. reqs' = [reqs EXCEPT ![t] = NoRequest] /\ UNCHANGED <<subs, issued, withdrawn>>
      BY <1>5 DEF SaveFails
    <2>2. NoRequest \in Request /\ NoRequest.stage = "idle"
      BY DEF NoRequest, Request, Copy, Modes, NoToken
    <2>3. /\ reqs' \in [DeskTasks -> Request] /\ reqs'[t].stage = "idle"
          /\ \A r \in DeskTasks : r # t => reqs'[r] = reqs[r]
      BY <1>0, <2>1, <2>2 DEF DeskTyped
    <2>4. DeskTyped'
      BY <1>0, <2>1, <2>3 DEF DeskTyped, Planned
    <2>5. TokensApart' /\ GoneAreOld'
      BY <1>0, <2>1 DEF TokensApart, GoneAreOld
    <2>6. \A w, m : InWindow(w, m)' \subseteq InWindow(w, m) /\ Passed(w, m)' \subseteq Passed(w, m)
      BY <2>1, <2>3 DEF InWindow, Passed
    <2> QED
      BY <2>4, <2>5, <2>6, RatesKept DEF DeskInv
  <1>6. ASSUME CleanupRuns PROVE DeskInv'
    <2>1. /\ subs' = [i \in DOMAIN subs |->
                IF Outlived(subs[i]) THEN [subs[i] EXCEPT !.gone = TRUE, !.public = FALSE, !.token = NoToken]
                ELSE subs[i]]
          /\ UNCHANGED <<reqs, issued, withdrawn>>
      BY <1>6 DEF CleanupRuns
    <2>2. ASSUME NEW i \in DOMAIN subs
          PROVE  /\ subs'[i] \in Submission /\ subs'[i].owner = subs[i].owner /\ subs'[i].mode = subs[i].mode
                 /\ subs'[i].age = subs[i].age
                 /\ subs'[i].token = subs[i].token \/ subs'[i].token = NoToken
                 /\ subs'[i].gone => subs[i].gone \/ subs[i].age > Retention
      <3>1. subs[i] \in Submission
        BY <1>rows
      <3> DEFINE new == [subs[i] EXCEPT !.gone = TRUE, !.public = FALSE, !.token = NoToken]
      <3>2. /\ new \in Submission /\ new.owner = subs[i].owner /\ new.mode = subs[i].mode
            /\ new.age = subs[i].age /\ new.token = NoToken
        BY <3>1 DEF Submission, NoToken
      <3>3. subs'[i] = IF Outlived(subs[i]) THEN new ELSE subs[i]
        BY <2>1
      <3> HIDE DEF new
      <3> QED
        BY <3>1, <3>2, <3>3 DEF Outlived
    <2>3. DOMAIN subs' = DOMAIN subs /\ subs' \in Seq(Submission)
      <3>1. subs \in Seq(Submission) /\ subs' = [i \in DOMAIN subs |-> subs'[i]]
        BY <1>0, <2>1 DEF DeskTyped
      <3> QED
        BY <2>2, <3>1, RowByRow
    <2>4. DeskTyped'
      BY <1>0, <2>1, <2>3 DEF DeskTyped, Planned
    <2>5. TokensApart'
      <3>2. issued \in Nat /\ 0 \notin 1..issued
        BY <1>0 DEF DeskTyped
      <3>3. \A i \in DOMAIN subs' : subs'[i].token <= issued /\ subs'[i].token \notin withdrawn
        BY <1>0, <1>rows, <2>2, <2>3, <3>2 DEF TokensApart, NoToken
      <3>4. \A i, j \in DOMAIN subs' :
             subs'[i].token = subs'[j].token => i = j \/ subs'[i].token = NoToken
        BY <1>0, <2>2, <2>3 DEF TokensApart
      <3> QED
        BY <1>0, <2>1, <3>3, <3>4 DEF TokensApart
    <2>6. GoneAreOld'
      BY <1>0, <2>2, <2>3 DEF GoneAreOld
    <2>7. \A w, m : InWindow(w, m)' \subseteq InWindow(w, m) /\ Passed(w, m)' \subseteq Passed(w, m)
      BY <2>1, <2>2, <2>3 DEF InWindow, Passed
    <2> QED
      BY <2>4, <2>5, <2>6, <2>7, RatesKept DEF DeskInv
  <1>7. ASSUME STick PROVE DeskInv'
    <2>1. /\ subs' = [i \in DOMAIN subs |-> [subs[i] EXCEPT !.age = IF @ > Retention THEN @ ELSE @ + 1]]
          /\ UNCHANGED <<reqs, issued, withdrawn>>
      BY <1>7 DEF STick
    <2>2. ASSUME NEW i \in DOMAIN subs
          PROVE  /\ subs'[i] \in Submission /\ subs'[i].owner = subs[i].owner /\ subs'[i].mode = subs[i].mode
                 /\ subs'[i].age >= subs[i].age /\ subs[i].age \in Nat
                 /\ subs'[i].token = subs[i].token
                 /\ subs'[i].gone = subs[i].gone
      <3>1. subs[i] \in Submission
        BY <1>0 DEF DeskTyped
      <3>2. subs'[i] = [subs[i] EXCEPT !.age = IF @ > Retention THEN @ ELSE @ + 1]
        BY <2>1
      <3> QED
        BY <3>1, <3>2, DeskAssumption DEF Submission
    <2>3. DOMAIN subs' = DOMAIN subs /\ subs' \in Seq(Submission)
      <3>1. subs \in Seq(Submission) /\ subs' = [i \in DOMAIN subs |-> subs'[i]]
        BY <1>0, <2>1 DEF DeskTyped
      <3> QED
        BY <2>2, <3>1, RowByRow
    <2>4. DeskTyped'
      BY <1>0, <2>1, <2>3 DEF DeskTyped, Planned
    <2>5. TokensApart'
      <3>1. \A i \in DOMAIN subs' : subs'[i].token = subs[i].token
        BY <2>2, <2>3
      <3> QED
        BY <1>0, <2>1, <2>3, <3>1 DEF TokensApart
    <2>6. GoneAreOld'
      <3>1. \A i \in DOMAIN subs : subs[i].age \in Nat /\ subs'[i].age \in Nat
        BY <2>2 DEF Submission
      <3> QED
        BY <1>0, <2>2, <2>3, <3>1, DeskAssumption DEF GoneAreOld
    <2>7. \A w, m : InWindow(w, m)' \subseteq InWindow(w, m) /\ Passed(w, m)' \subseteq Passed(w, m)
      <3>1. \A i \in DOMAIN subs : subs[i].age \in Nat /\ subs'[i].age \in Nat
        BY <2>2 DEF Submission
      <3>2. \A i \in DOMAIN subs : subs'[i].age <= RowWindow => subs[i].age <= RowWindow
        BY <2>2, <3>1, DeskAssumption
      <3> QED
        BY <2>1, <2>2, <2>3, <3>2 DEF InWindow, Passed
    <2> QED
      BY <2>4, <2>5, <2>6, <2>7, RatesKept DEF DeskInv
  <1>8. CASE UNCHANGED svars
    <2>1. UNCHANGED <<subs, reqs, issued, withdrawn>>
      BY <1>8 DEF svars
    <2>2. DeskTyped' /\ TokensApart' /\ GoneAreOld'
      BY <1>0, <2>1 DEF DeskTyped, TokensApart, GoneAreOld
    <2>3. \A w, m : InWindow(w, m)' \subseteq InWindow(w, m) /\ Passed(w, m)' \subseteq Passed(w, m)
      BY <2>1 DEF InWindow, Passed
    <2> QED
      BY <2>2, <2>3, RatesKept DEF DeskInv
  <1> QED
    BY <1>1, <1>2, <1>3, <1>4, <1>5, <1>6, <1>7, <1>8 DEF SNext

\* RowsBounded, DeadTokensStayDead and DetailsAgree (submission_service.py and its
\* router): the limits on rows hold up to the overlap, a token that was revoked or
\* replaced leads nowhere again, and the endpoints agree on who sees what.
THEOREM DeskSafe == SSpec => [](RowsBounded /\ DeadTokensStayDead /\ DetailsAgree)
  <1>1. ASSUME DeskInv PROVE RowsBounded
    <2> SUFFICES ASSUME NEW u \in DeskUsers \ DeskStaff, NEW mode \in Modes
                 PROVE  Cardinality(InWindow(u, mode)) <= RowLimit[mode] + Cardinality(DeskTasks) - 1
      BY DEF RowsBounded
    <2>1. /\ Within(u, mode)
          /\ Cardinality(InWindow(u, mode)) \in Nat /\ Cardinality(Passed(u, mode)) \in Nat
          /\ Cardinality(DeskTasks) \in Nat /\ RowLimit[mode] \in Nat
      BY <1>1, RowsFinite, DeskAssumption DEF DeskInv, RateKept
    <2> QED
      BY <2>1 DEF Within
  <1>2. ASSUME DeskInv PROVE DeadTokensStayDead
    BY <1>2 DEF DeskInv, TokensApart, DeadTokensStayDead, Shared, Kept
  <1>3. ASSUME DeskInv PROVE DetailsAgree
    BY <1>3 DEF DeskInv, DetailsAgree, Detail, Listed, ReadsSource, CanView, CanViewPrivate, CanEdit,
       Authenticated, Maintains, Hidden, Meta, Full, Kept, DeskTyped, Submission
  <1> QED
    BY <1>1, <1>2, <1>3, DeskInit, DeskStep, PTL DEF SSpec

-----------------------------------------------------------------------------
(* Pages *)

ProblemRow == [visibility : Visibilities, only : BOOLEAN]
PostRow == [visibility : Published, stamped : BOOLEAN, only : BOOLEAN, ours : BOOLEAN]
TicketRow == [public : BOOLEAN, status : {"open", "closed"}, link : BOOLEAN,
              assignee : Readers \cup {Nothing}, writer : Readers \cup {Nothing}]

PagesTyped ==
  /\ problem = Nothing \/ problem \in ProblemRow
  /\ post = Nothing \/ post \in PostRow
  /\ posting = Nothing \/ posting \in Remainders
  /\ ticket = Nothing \/ ticket \in TicketRow
  /\ posting # Nothing => post \in PostRow
  /\ wish \in BOOLEAN

Unfinished == posting # Nothing /\ posting.next = "fields"

\* A post its creator wants private is, or is about to be and has no date yet.
PrivateOrComing ==
  /\ wish /\ Unfinished => posting.only
  /\ wish /\ ~post.only => Unfinished /\ ~post.stamped

PagesInv == PagesTyped /\ PrivateOrComing

\* The first state has a private problem or none, and no post and no ticket.
LEMMA PagesInit == PInit => PagesInv
  <1> SUFFICES ASSUME PInit PROVE PagesInv
    OBVIOUS
  <1>1. [visibility |-> "private", only |-> TRUE] \in ProblemRow
    BY DEF ProblemRow, Visibilities
  <1>2. PagesTyped
    BY <1>1 DEF PInit, PagesTyped
  <1>3. PrivateOrComing
    BY DEF PInit, PrivateOrComing, Unfinished
  <1> QED
    BY <1>2, <1>3 DEF PagesInv

\* Every step of a request that writes a page keeps the invariant.
LEMMA PagesStep == PagesInv /\ [PNext]_pageVars => PagesInv'
  <1> SUFFICES ASSUME PagesInv, [PNext]_pageVars PROVE PagesInv'
    OBVIOUS
  <1>0. PagesTyped /\ PrivateOrComing
    BY DEF PagesInv
  <1> DEFINE PostKept == UNCHANGED <<post, posting, wish>>
  <1>a. ASSUME PostKept, (problem = Nothing \/ problem \in ProblemRow)',
               (ticket = Nothing \/ ticket \in TicketRow)'
        PROVE  PagesInv'
    BY <1>0, <1>a DEF PagesInv, PagesTyped, PrivateOrComing, Unfinished
  <1>b. ASSUME UNCHANGED <<problem, ticket>>, (post = Nothing \/ post \in PostRow)',
               (posting = Nothing \/ posting \in Remainders)', wish' \in BOOLEAN,
               (posting # Nothing => post \in PostRow)', PrivateOrComing'
        PROVE  PagesInv'
    BY <1>0, <1>b DEF PagesInv, PagesTyped
  <1>1. ASSUME NEW u \in Readers, Admitted(u) PROVE PagesInv'
    BY <1>0, <1>1, <1>a DEF Admitted, postVars, PagesTyped
  <1>2. ASSUME NEW u \in Readers, PatchPost(u) PROVE PagesInv'
    <2>1. PICK v \in Published, only \in BOOLEAN, ours \in BOOLEAN :
            /\ post' = [post EXCEPT !.visibility = v, !.only = only]
            /\ wish' = (wish /\ (only \/ ~post.only))
            /\ \/ posting' = posting
               \/ posting = Nothing /\ posting' = [only |-> only, ours |-> ours, next |-> "organizations"]
      BY <1>2 DEF PatchPost
    <2>2. post # Nothing /\ UNCHANGED <<problem, ticket>>
      BY <1>2 DEF PatchPost, MayEdit, problemVars
    <2>3. post' \in PostRow /\ post'.only = only /\ post'.stamped = post.stamped
      BY <1>0, <2>1, <2>2 DEF PagesTyped, PostRow
    <2>4. /\ posting' = Nothing \/ posting' \in Remainders
          /\ Unfinished' => Unfinished /\ posting' = posting
          /\ Unfinished => posting' = posting
      BY <1>0, <2>1 DEF PagesTyped, Remainders, Unfinished
    <2>5. PrivateOrComing'
      BY <1>0, <2>1, <2>3, <2>4 DEF PrivateOrComing, Unfinished
    <2> QED
      BY <1>b, <2>1, <2>2, <2>3, <2>4, <2>5
  <1>3. ASSUME NEW u \in Readers, PublishPost(u) PROVE PagesInv'
    <2>1. /\ post # Nothing /\ post' = [post EXCEPT !.visibility = "published", !.stamped = TRUE]
          /\ wish' = (wish /\ (posting # Nothing => posting.next # "fields"))
          /\ UNCHANGED <<problem, posting, ticket>>
      BY <1>3 DEF PublishPost, MayEdit, problemVars
    <2>2. post' \in PostRow /\ post'.only = post.only
      BY <1>0, <2>1 DEF PagesTyped, PostRow, Published
    <2>3. PrivateOrComing'
      BY <1>0, <2>1, <2>2 DEF PrivateOrComing, Unfinished
    <2> QED
      BY <1>0, <1>b, <2>1, <2>2, <2>3 DEF PagesTyped
  <1>4. ASSUME CreatePost PROVE PagesInv'
    <2>1. PICK v \in Published, only \in BOOLEAN, ours \in BOOLEAN :
            /\ post' = [visibility |-> v, stamped |-> FALSE, only |-> FALSE, ours |-> FALSE]
            /\ posting' = [only |-> only, ours |-> ours, next |-> "fields"]
            /\ wish' = only
      BY <1>4 DEF CreatePost
    <2>2. UNCHANGED <<problem, ticket>>
      BY <1>4 DEF CreatePost, problemVars
    <2>3. post' \in PostRow /\ posting' \in Remainders
      BY <2>1 DEF PostRow, Remainders
    <2>4. posting' # Nothing
      BY <2>3, PagesAssumption
    <2>5. PrivateOrComing'
      BY <2>1, <2>4 DEF PrivateOrComing, Unfinished
    <2> QED
      BY <1>b, <2>1, <2>2, <2>3, <2>5
  <1>5. ASSUME WriteFields PROVE PagesInv'
    <2>1. /\ posting # Nothing /\ posting.next = "fields"
          /\ post' = [post EXCEPT !.only = posting.only]
          /\ posting' = IF posting.ours THEN [posting EXCEPT !.next = "organizations"] ELSE Nothing
          /\ UNCHANGED <<problem, wish, ticket>>
      BY <1>5 DEF WriteFields, problemVars
    <2>2. post \in PostRow /\ posting \in Remainders
      BY <1>0, <2>1 DEF PagesTyped
    <2>3. post' \in PostRow /\ post'.only = posting.only
      BY <2>1, <2>2 DEF PostRow, Remainders
    <2>4. posting' = Nothing \/ (posting' \in Remainders /\ posting'.next = "organizations")
      BY <2>1, <2>2 DEF Remainders
    <2>5. PrivateOrComing'
      BY <1>0, <2>1, <2>3, <2>4 DEF PrivateOrComing, Unfinished
    <2> QED
      BY <1>0, <1>b, <2>1, <2>3, <2>4, <2>5 DEF PagesTyped
  <1>6. ASSUME WriteOrganizations PROVE PagesInv'
    <2>1. /\ posting # Nothing /\ posting.next = "organizations"
          /\ post' = [post EXCEPT !.ours = posting.ours]
          /\ posting' = Nothing
          /\ UNCHANGED <<problem, wish, ticket>>
      BY <1>6 DEF WriteOrganizations, problemVars
    <2>2. post \in PostRow /\ posting \in Remainders
      BY <1>0, <2>1 DEF PagesTyped
    <2>3. post' \in PostRow /\ post'.only = post.only
      BY <2>1, <2>2 DEF PostRow, Remainders
    <2>4. PrivateOrComing'
      BY <1>0, <2>1, <2>3 DEF PrivateOrComing, Unfinished
    <2> QED
      BY <1>0, <1>b, <2>1, <2>3, <2>4 DEF PagesTyped
  <1>7. ASSUME CutPost PROVE PagesInv'
    <2>1. /\ posting # Nothing /\ posting' = Nothing
          /\ wish' = (wish /\ posting.next # "fields")
          /\ UNCHANGED <<problem, post, ticket>>
      BY <1>7 DEF CutPost, problemVars
    <2>2. PrivateOrComing'
      BY <1>0, <2>1 DEF PrivateOrComing, Unfinished
    <2> QED
      BY <1>0, <1>b, <2>1, <2>2 DEF PagesTyped
  <1>8. ASSUME NEW u \in Readers, PatchProblem(u) PROVE PagesInv'
    BY <1>0, <1>8, <1>a DEF PatchProblem, postVars, PagesTyped, ProblemRow
  <1>9. ASSUME CreateProblem PROVE PagesInv'
    BY <1>0, <1>9, <1>a DEF CreateProblem, postVars, PagesTyped, ProblemRow
  <1>10. ASSUME CreateTicket PROVE PagesInv'
    BY <1>0, <1>10, <1>a DEF CreateTicket, problemVars, postVars, PagesTyped, TicketRow
  <1>11. ASSUME NEW u \in Readers, UpdateTicket(u) PROVE PagesInv'
    BY <1>0, <1>11, <1>a DEF UpdateTicket, problemVars, postVars, PagesTyped, TicketRow
  <1>12. ASSUME NEW u \in Readers, AssignTicket(u) PROVE PagesInv'
    BY <1>0, <1>12, <1>a DEF AssignTicket, problemVars, postVars, PagesTyped, TicketRow
  <1>13. ASSUME NEW u \in Readers, AddMessage(u) PROVE PagesInv'
    BY <1>0, <1>13, <1>a DEF AddMessage, OpensTicket, problemVars, postVars, PagesTyped, TicketRow
  <1>14. CASE UNCHANGED pageVars
    BY <1>0, <1>14, <1>a DEF pageVars, PagesTyped
  <1> QED
    BY <1>1, <1>2, <1>3, <1>4, <1>5, <1>6, <1>7, <1>8, <1>9, <1>10, <1>11, <1>12, <1>13, <1>14
       DEF PNext, PostNext, TicketNext

\* ListsAgree and NoPreview (problem_service.py, post_service.py, ticket_service.py):
\* lists and pages agree for every reader, and a post for an organization is open to
\* nobody else while it is made, wherever the process ends.
THEOREM PagesSafe == PSpec => [](ListsAgree /\ NoPreview)
  <1>1. ASSUME PagesInv PROVE ListsAgree
    BY <1>1, PagesAssumption
       DEF PagesInv, PagesTyped, ListsAgree, ListsProblem, OpensProblem, Open, Helpers, Editors, ListsTicket,
       OpensTicket, ListsPost, SeesPost, ProblemRow, TicketRow, PostRow
  <1>2. ASSUME PagesInv PROVE NoPreview
    BY <1>2 DEF PagesInv, PagesTyped, PrivateOrComing, NoPreview, SeesPost, PostRow
  <1> QED
    BY <1>1, <1>2, PagesInit, PagesStep, PTL DEF PSpec

-----------------------------------------------------------------------------
(* WebRequests *)

\* A step of one part leaves the variables of every other unchanged.
LEMMA StepOfParts ==
  [PartsNext]_requestVars =>
         /\ [Next]_vars /\ [SNext]_svars /\ [ANext]_avars /\ [CNext]_cvars /\ [RNext]_rvars
         /\ [ONext]_orgVars /\ [PNext]_pageVars /\ [BNext]_bridgeVars /\ [LNext]_limitVars
  BY DEF PartsNext, requestVars, olderVars, newerVars, PNext

\* RequestsSpec implements the specification of each of its parts, so that what is
\* proved of a part holds of the requests side by side.
THEOREM PartsKeepTheirSpecs ==
  RequestsSpec => /\ Spec /\ SSpec /\ ASpec /\ CSpec /\ RSpec
                  /\ OSpec /\ PSpec /\ BSpec /\ LSpec
  <1>1. PartsInit => /\ Init /\ SInit /\ AInit /\ CInit /\ RInit
                     /\ OInit /\ PInit /\ BInit /\ LInit
    BY DEF PartsInit
  <1> QED
    BY <1>1, StepOfParts, PTL
       DEF RequestsSpec, Spec, SSpec, ASpec, CSpec, RSpec, OSpec, PSpec, BSpec, LSpec

\* RateBounded: the limit of the middleware, and those of the submissions API up to
\* the overlap, hold whatever requests come.
THEOREM RatesHold == RequestsSpec => []RateBounded
  <1>1. RowsBounded /\ WindowBounded => RateBounded
    BY DEF RateBounded
  <1> QED
    BY <1>1, PartsKeepTheirSpecs, DeskSafe, WindowsBounded, PTL

\* ViewsAgree: wherever a rule of visibility is written more than once, the versions
\* agree in every state.
THEOREM ViewsHold == RequestsSpec => []ViewsAgree
  <1>1. DetailsAgree /\ ListsAgree => ViewsAgree
    BY DEF ViewsAgree
  <1> QED
    BY <1>1, PartsKeepTheirSpecs, DeskSafe, PagesSafe, PTL

\* The properties of the contests, the accounts, the comments, the packages, the
\* organizations, the bridge, the desk and the pages hold of the requests side by side.
THEOREM RequestsSafe ==
  RequestsSpec => [](/\ LimitHolds /\ NoBootstrap /\ ScheduleValid
                     /\ RateBounded /\ ViewsAgree /\ DeadTokensStayDead /\ NoPreview
                     /\ RevokedStaysRevoked /\ BannedIsCutOff /\ OwnPlaces
                     /\ OneActivePackage /\ Membership /\ RegistryIsLive /\ ScoreIsSumOfVotes)
  <1>1. Spec => [](LimitHolds /\ NoBootstrap /\ ScheduleValid)
    <2>1. Limit \in Nat
      BY ContestAssumption
    <2>2. Spec => []LimitHolds
      BY <2>1, LimitKept
    <2>3. Spec => []NoBootstrap
      BY <2>1, NobodySlipsIn
    <2> QED
      BY <2>2, <2>3, ScheduleKept, PTL
  <1> QED
    BY <1>1, PartsKeepTheirSpecs, RatesHold, ViewsHold, DeskSafe, PagesSafe, RevocationHolds,
       BanHolds, PlacesSafe, ScoresHold, PackagesSafe, MembershipHolds, RegistrySafe, PTL

=============================================================================
