---------------------- MODULE JudgingTransactionsProofs ----------------------
(***************************************************************************)
(* Proofs about the transactions that write verdicts, for any number of    *)
(* submissions and of processes.                                           *)
(*                                                                         *)
(* Callbacks and sweeps never wait for each other in a circle: a row they  *)
(* wait for ranks higher than every row they hold (job, user,              *)
(* participation, in this order), so a chain of those who wait for each    *)
(* other climbs and ends.  Submissions need no rank: whoever wants to lock *)
(* one, or has, has locked its job, so nobody waits for one.               *)
(*                                                                         *)
(* A rejudge that is announced waits for nobody, so it commits; and a      *)
(* commit either brings the count of what it writes, or does not change    *)
(* the number of accepted submissions, or muddles (Writes).                *)
(***************************************************************************)
EXTENDS JudgingTransactions, SequenceTheorems, FiniteSetTheorems, TLAPS

\* t is a record with the fields of a transaction.
IsTransaction(t) ==
  t \in [kind : {t.kind}, new : {t.new}, under : {t.under}, todo : {t.todo}, held : {t.held},
         counted : {t.counted}, count : {t.count}]

\* What a callback about s can still have to lock, by what it holds.
CallbackShape(t) ==
  \E s \in Subs :
    \/ /\ t.held = {}
       /\ t.todo \in {<<{JobOf(s)}, {SubOf(s)}>>, <<{JobOf(s)}, {SubOf(s)}, {User}, {Entry}>>,
                      <<{JobOf(s)}, {SubOf(s)}, {Entry}>>}
    \/ /\ t.held = {JobOf(s)}
       /\ t.todo \in {<<{SubOf(s)}>>, <<{SubOf(s)}, {User}, {Entry}>>, <<{SubOf(s)}, {Entry}>>}
    \/ /\ t.held = {JobOf(s), SubOf(s)}
       /\ t.todo \in {<<>>, <<{User}, {Entry}>>, <<{Entry}>>}
    \/ /\ t.held = {JobOf(s), SubOf(s), User}
       /\ t.todo = <<{Entry}>>
    \/ /\ t.held \in {{JobOf(s), SubOf(s), User}, {JobOf(s), SubOf(s), Entry},
                     {JobOf(s), SubOf(s), User, Entry}}
       /\ t.todo = <<>>

\* A sweep holds the jobs of all submissions it may still lock.
SweepShape(t) ==
  \E ss \in SUBSET Subs :
    /\ t.todo \in Seq({{SubOf(s)} : s \in ss})
    /\ {JobOf(s) : s \in ss} \subseteq t.held
    /\ t.held \subseteq {JobOf(s) : s \in ss} \cup {SubOf(s) : s \in ss}

Shape(t) ==
  /\ IsTransaction(t)
  /\ t.kind \in Callbacks => CallbackShape(t)
  /\ t.kind = "sweep" => SweepShape(t)

\* No row is locked twice.
Exclusive == \A b, c \in Backends : b # c => Held(b) \cap Held(c) = {}

LInv ==
  /\ tx = [b \in Backends |-> tx[b]]
  /\ \A b \in Busy : Shape(tx[b])
  /\ Exclusive

-----------------------------------------------------------------------------
(* Lemmas *)

\* The rows of the database are different rows.
LEMMA RowsDiffer ==
  /\ \A s, r : JobOf(s) # SubOf(r) /\ JobOf(s) # User /\ JobOf(s) # Entry
  /\ \A s : SubOf(s) # User /\ SubOf(s) # Entry
  /\ User # Entry
  /\ \A s, r : JobOf(s) = JobOf(r) => s = r
  /\ \A s, r : SubOf(s) = SubOf(r) => s = r
<1>1. User # Entry
  BY DEF User, Entry
<1>2. \A s : SubOf(s) # User /\ SubOf(s) # Entry
  BY DEF SubOf, User, Entry
<1>3. \A s, r : JobOf(s) # SubOf(r) /\ JobOf(s) # User /\ JobOf(s) # Entry
  BY DEF JobOf, SubOf, User, Entry
<1>4. \A s, r : JobOf(s) = JobOf(r) => s = r
  BY DEF JobOf
<1>5. \A s, r : SubOf(s) = SubOf(r) => s = r
  BY DEF SubOf
<1> QED BY <1>1, <1>2, <1>3, <1>4, <1>5

\* A callback or a sweep that waits does so for a row ranked above all it holds,
\* or for a submission whose job it holds.
LEMMA WaitsUpwards ==
  ASSUME NEW t, Shape(t), t.kind \in Callbacks \cup {"sweep"}
  PROVE  /\ \A s \in Subs : SubOf(s) \in t.held => JobOf(s) \in t.held
         /\ t.todo # <<>> =>
              \/ t.held = {} /\ \E s \in Subs : Head(t.todo) = {JobOf(s)}
              \/ \E s \in Subs : Head(t.todo) = {SubOf(s)} /\ JobOf(s) \in t.held
              \/ Head(t.todo) = {User} /\ User \notin t.held /\ Entry \notin t.held
              \/ Head(t.todo) = {Entry} /\ Entry \notin t.held
<1>1. CASE t.kind \in Callbacks
  <2>1. PICK s \in Subs :
          \/ /\ t.held = {}
             /\ t.todo \in {<<{JobOf(s)}, {SubOf(s)}>>, <<{JobOf(s)}, {SubOf(s)}, {User}, {Entry}>>,
                            <<{JobOf(s)}, {SubOf(s)}, {Entry}>>}
          \/ /\ t.held = {JobOf(s)}
             /\ t.todo \in {<<{SubOf(s)}>>, <<{SubOf(s)}, {User}, {Entry}>>, <<{SubOf(s)}, {Entry}>>}
          \/ /\ t.held = {JobOf(s), SubOf(s)}
             /\ t.todo \in {<<>>, <<{User}, {Entry}>>, <<{Entry}>>}
          \/ /\ t.held = {JobOf(s), SubOf(s), User}
             /\ t.todo = <<{Entry}>>
          \/ /\ t.held \in {{JobOf(s), SubOf(s), User}, {JobOf(s), SubOf(s), Entry},
                           {JobOf(s), SubOf(s), User, Entry}}
             /\ t.todo = <<>>
    BY <1>1 DEF Shape, CallbackShape
  <2>2. \A r \in Subs : SubOf(r) \in t.held => JobOf(r) \in t.held
    BY <2>1, RowsDiffer
  <2>3. t.todo # <<>> =>
          \/ t.held = {} /\ Head(t.todo) = {JobOf(s)}
          \/ t.held = {JobOf(s)} /\ Head(t.todo) = {SubOf(s)}
          \/ t.held = {JobOf(s), SubOf(s)} /\ Head(t.todo) \in {{User}, {Entry}}
          \/ t.held = {JobOf(s), SubOf(s), User} /\ Head(t.todo) = {Entry}
    BY <2>1
  <2> QED BY <2>2, <2>3, RowsDiffer
<1>2. CASE t.kind = "sweep"
  <2>1. PICK ss \in SUBSET Subs :
          /\ t.todo \in Seq({{SubOf(s)} : s \in ss})
          /\ {JobOf(s) : s \in ss} \subseteq t.held
          /\ t.held \subseteq {JobOf(s) : s \in ss} \cup {SubOf(s) : s \in ss}
    BY <1>2 DEF Shape, SweepShape
  <2>2. \A r \in Subs : SubOf(r) \in t.held => JobOf(r) \in t.held
    BY <2>1, RowsDiffer
  <2>3. t.todo # <<>> => Head(t.todo) \in {{SubOf(s)} : s \in ss}
    BY <2>1, HeadTailProperties
  <2> QED BY <2>1, <2>2, <2>3
<1> QED BY <1>1, <1>2

\* What a callback has to lock after its next lock.
LEMMA RestOfCallback ==
  ASSUME NEW s
  PROVE  /\ Tail(<<{JobOf(s)}, {SubOf(s)}>>) = <<{SubOf(s)}>>
         /\ Tail(<<{JobOf(s)}, {SubOf(s)}, {User}, {Entry}>>) = <<{SubOf(s)}, {User}, {Entry}>>
         /\ Tail(<<{JobOf(s)}, {SubOf(s)}, {Entry}>>) = <<{SubOf(s)}, {Entry}>>
         /\ Tail(<<{SubOf(s)}>>) = <<>>
         /\ Tail(<<{SubOf(s)}, {User}, {Entry}>>) = <<{User}, {Entry}>>
         /\ Tail(<<{SubOf(s)}, {Entry}>>) = <<{Entry}>>
         /\ Tail(<<{User}, {Entry}>>) = <<{Entry}>>
         /\ Tail(<<{Entry}>>) = <<>>
<1>1. \A a : Tail(<<a>>) = <<>>
  OBVIOUS
<1>2. \A a, b : Tail(<<a, b>>) = <<b>>
  OBVIOUS
<1>3. \A a, b, c : Tail(<<a, b, c>>) = <<b, c>>
  OBVIOUS
<1>4. \A a, b, c, d : Tail(<<a, b, c, d>>) = <<b, c, d>>
  OBVIOUS
<1>5. /\ Tail(<<{JobOf(s)}, {SubOf(s)}>>) = <<{SubOf(s)}>>
      /\ Tail(<<{SubOf(s)}, {Entry}>>) = <<{Entry}>>
      /\ Tail(<<{User}, {Entry}>>) = <<{Entry}>>
  BY <1>2, Zenon
<1>6. /\ Tail(<<{JobOf(s)}, {SubOf(s)}, {Entry}>>) = <<{SubOf(s)}, {Entry}>>
      /\ Tail(<<{SubOf(s)}, {User}, {Entry}>>) = <<{User}, {Entry}>>
  BY <1>3, Zenon
<1>7. Tail(<<{JobOf(s)}, {SubOf(s)}, {User}, {Entry}>>) = <<{SubOf(s)}, {User}, {Entry}>>
  <2> DEFINE a == {JobOf(s)}
             b == {SubOf(s)}
             c == {User}
             d == {Entry}
  <2>1. Tail(<<a, b, c, d>>) = <<b, c, d>>
    <3> HIDE DEF a, b, c, d
    <3> QED BY <1>4
  <2> QED BY <2>1
<1> QED BY <1>1, <1>5, <1>6, <1>7, Zenon

\* The next lock keeps the shape of a transaction.
LEMMA LockKeepsShape ==
  ASSUME NEW t, Shape(t), t.todo # <<>>
  PROVE  Shape([t EXCEPT !.held = @ \cup Head(t.todo), !.todo = Tail(@)])
<1> DEFINE u == [t EXCEPT !.held = @ \cup Head(t.todo), !.todo = Tail(@)]
<1>1. /\ IsTransaction(u) /\ u.kind = t.kind
      /\ u.held = t.held \cup Head(t.todo) /\ u.todo = Tail(t.todo)
  BY DEF Shape, IsTransaction
<1> HIDE DEF u
<1>2. ASSUME t.kind \in Callbacks
      PROVE  CallbackShape(u)
  <2>1. PICK s \in Subs :
          \/ /\ t.held = {}
             /\ t.todo \in {<<{JobOf(s)}, {SubOf(s)}>>, <<{JobOf(s)}, {SubOf(s)}, {User}, {Entry}>>,
                            <<{JobOf(s)}, {SubOf(s)}, {Entry}>>}
          \/ /\ t.held = {JobOf(s)}
             /\ t.todo \in {<<{SubOf(s)}>>, <<{SubOf(s)}, {User}, {Entry}>>, <<{SubOf(s)}, {Entry}>>}
          \/ /\ t.held = {JobOf(s), SubOf(s)}
             /\ t.todo \in {<<{User}, {Entry}>>, <<{Entry}>>}
          \/ /\ t.held = {JobOf(s), SubOf(s), User}
             /\ t.todo = <<{Entry}>>
    BY <1>2 DEF Shape, CallbackShape
  <2>2. CASE t.held = {}
    <3>0. t.todo \in {<<{JobOf(s)}, {SubOf(s)}>>, <<{JobOf(s)}, {SubOf(s)}, {User}, {Entry}>>,
                      <<{JobOf(s)}, {SubOf(s)}, {Entry}>>}
      BY <2>1, <2>2
    <3>1. u.held = {JobOf(s)}
      BY <3>0, <2>2, <1>1
    <3>2. u.todo \in {<<{SubOf(s)}>>, <<{SubOf(s)}, {User}, {Entry}>>, <<{SubOf(s)}, {Entry}>>}
      BY <3>0, <1>1, RestOfCallback, Zenon
    <3> QED BY <3>1, <3>2 DEF CallbackShape
  <2>3. CASE /\ t.held = {JobOf(s)}
             /\ t.todo \in {<<{SubOf(s)}>>, <<{SubOf(s)}, {User}, {Entry}>>, <<{SubOf(s)}, {Entry}>>}
    <3>1. u.held = {JobOf(s), SubOf(s)}
      BY <2>3, <1>1
    <3>2. u.todo \in {<<>>, <<{User}, {Entry}>>, <<{Entry}>>}
      BY <2>3, <1>1, RestOfCallback, Zenon
    <3> QED BY <3>1, <3>2 DEF CallbackShape
  <2>4. CASE t.held = {JobOf(s), SubOf(s)} /\ t.todo = <<{User}, {Entry}>>
    <3>1. u.held = {JobOf(s), SubOf(s), User} /\ u.todo = <<{Entry}>>
      BY <2>4, <1>1
    <3> QED BY <3>1 DEF CallbackShape
  <2>5. CASE t.held \in {{JobOf(s), SubOf(s)}, {JobOf(s), SubOf(s), User}} /\ t.todo = <<{Entry}>>
    <3>1. u.held \in {{JobOf(s), SubOf(s), Entry}, {JobOf(s), SubOf(s), User, Entry}} /\ u.todo = <<>>
      BY <2>5, <1>1
    <3> QED BY <3>1 DEF CallbackShape
  <2> QED BY <2>1, <2>2, <2>3, <2>4, <2>5
<1>3. ASSUME t.kind = "sweep"
      PROVE  SweepShape(u)
  <2>1. PICK ss \in SUBSET Subs :
          /\ t.todo \in Seq({{SubOf(s)} : s \in ss})
          /\ {JobOf(s) : s \in ss} \subseteq t.held
          /\ t.held \subseteq {JobOf(s) : s \in ss} \cup {SubOf(s) : s \in ss}
    BY <1>3 DEF Shape, SweepShape
  <2>2. /\ Head(t.todo) \in {{SubOf(s)} : s \in ss}
        /\ Tail(t.todo) \in Seq({{SubOf(s)} : s \in ss})
    BY <2>1, HeadTailProperties
  <2> QED BY <1>1, <2>1, <2>2 DEF SweepShape
<1> QED BY <1>1, <1>2, <1>3 DEF Shape, u

\* A transaction that begins has its shape.
LEMMA BeginKeepsShape ==
  /\ \A kind \in Callbacks, s \in Subs : \A new, under :
       Shape(Transaction(kind, new, under, Order(kind, s)))
  /\ \A kind, new, under, order :
       kind \notin Callbacks \cup {"sweep"} => Shape(Transaction(kind, new, under, order))
<1>1. ASSUME NEW kind, NEW new, NEW under, NEW order
      PROVE  LET t == Transaction(kind, new, under, order)
             IN IsTransaction(t) /\ t.kind = kind /\ t.held = {} /\ t.todo = order
  BY DEF Transaction, IsTransaction
<1>2. ASSUME NEW kind \in Callbacks, NEW s \in Subs, NEW new, NEW under
      PROVE  Shape(Transaction(kind, new, under, Order(kind, s)))
  <2> DEFINE t == Transaction(kind, new, under, Order(kind, s))
  <2>1. IsTransaction(t) /\ t.kind = kind /\ t.held = {} /\ t.todo = Order(kind, s)
    BY <1>1
  <2>2. t.kind # "sweep"
    BY <2>1 DEF Callbacks
  <2>3. Order(kind, s) \in {<<{JobOf(s)}, {SubOf(s)}>>, <<{JobOf(s)}, {SubOf(s)}, {User}, {Entry}>>,
                            <<{JobOf(s)}, {SubOf(s)}, {Entry}>>}
    BY DEF Order, Callbacks
  <2> HIDE DEF t
  <2>4. CallbackShape(t)
    BY <2>1, <2>3 DEF CallbackShape
  <2>5. Shape(t)
    BY <2>1, <2>2, <2>4 DEF Shape
  <2> QED BY <2>5 DEF t
<1>3. ASSUME NEW kind, NEW new, NEW under, NEW order, kind \notin Callbacks \cup {"sweep"}
      PROVE  Shape(Transaction(kind, new, under, order))
  BY <1>1, <1>3 DEF Shape
<1> QED BY <1>2, <1>3

\* So has a sweep.
LEMMA SweepHasShape ==
  ASSUME IsFiniteSet(Subs), NEW ss \in SUBSET Subs, NEW new, NEW order \in SweepOrder(ss)
  PROVE  /\ Head(order) = {JobOf(s) : s \in ss}
         /\ Shape([Transaction("sweep", new, 0, Tail(order)) EXCEPT !.held = Head(order)])
<1>1. PICK p \in [1 .. Cardinality(ss) -> ss] :
        order = <<{JobOf(s) : s \in ss}>> \o [i \in DOMAIN p |-> {SubOf(p[i])}]
  BY DEF SweepOrder
<1>2. Cardinality(ss) \in Nat
  BY FS_Subset, FS_CardinalityType
<1> DEFINE S == {{SubOf(s)} : s \in ss}
           A == {JobOf(s) : s \in ss}
           q == [i \in 1 .. Cardinality(ss) |-> {SubOf(p[i])}]
<1>3. q \in Seq(S)
  BY <1>2
<1>4. order = <<A>> \o q
  BY <1>1
<1>5. Head(order) = A /\ Tail(order) = q
  <2> HIDE DEF q, A, S
  <2>1. q \in Seq(S \cup {A}) /\ <<A>> \in Seq(S \cup {A})
    BY <1>3
  <2>2. Len(<<A>>) = 1 /\ <<A>>[1] = A
    OBVIOUS
  <2>3. /\ order \in Seq(S \cup {A}) /\ Len(order) = 1 + Len(q) /\ Len(q) \in Nat
        /\ \A i \in 1 .. 1 + Len(q) : order[i] = IF i <= 1 THEN A ELSE q[i - 1]
    BY <1>4, <2>1, <2>2, ConcatProperties, LenProperties
  <2>4. order # <<>> /\ Head(order) = A
    BY <2>3
  <2>5. /\ Tail(order) \in Seq(S \cup {A}) /\ Len(Tail(order)) = Len(q)
        /\ \A i \in 1 .. Len(q) : Tail(order)[i] = q[i]
    BY <2>3, <2>4, HeadTailProperties
  <2> QED BY <2>1, <2>4, <2>5, SeqEqual
<1> DEFINE t == [Transaction("sweep", new, 0, Tail(order)) EXCEPT !.held = Head(order)]
<1>6. IsTransaction(t) /\ t.kind = "sweep" /\ t.held = Head(order) /\ t.todo = Tail(order)
  BY DEF Transaction, IsTransaction
<1> HIDE DEF t, q
<1>7. SweepShape(t)
  BY <1>3, <1>5, <1>6 DEF SweepShape
<1>8. Shape(t)
  BY <1>6, <1>7 DEF Shape, Callbacks
<1> QED BY <1>5, <1>8 DEF t

\* A callback that goes on without the participation has only its commit left.
LEMMA SkipKeepsShape ==
  ASSUME NEW t, Shape(t), Refreshing(t)
  PROVE  LET u == [t EXCEPT !.todo = Tail(t.todo)]
         IN Shape(u) /\ u.held = t.held
<1> DEFINE u == [t EXCEPT !.todo = Tail(t.todo)]
<1>1. /\ IsTransaction(u) /\ u.kind = t.kind
      /\ u.held = t.held /\ u.todo = Tail(t.todo)
  BY DEF Shape, IsTransaction
<1> HIDE DEF u
<1>2. t.kind \in Callbacks /\ t.kind # "sweep" /\ Head(t.todo) = {Entry} /\ t.todo # <<>>
  BY DEF Refreshing, Callbacks
<1>3. PICK s \in Subs :
        \/ /\ t.held = {}
           /\ t.todo \in {<<{JobOf(s)}, {SubOf(s)}>>, <<{JobOf(s)}, {SubOf(s)}, {User}, {Entry}>>,
                          <<{JobOf(s)}, {SubOf(s)}, {Entry}>>}
        \/ /\ t.held = {JobOf(s)}
           /\ t.todo \in {<<{SubOf(s)}>>, <<{SubOf(s)}, {User}, {Entry}>>, <<{SubOf(s)}, {Entry}>>}
        \/ /\ t.held = {JobOf(s), SubOf(s)}
           /\ t.todo \in {<<{User}, {Entry}>>, <<{Entry}>>}
        \/ /\ t.held = {JobOf(s), SubOf(s), User}
           /\ t.todo = <<{Entry}>>
  BY <1>2 DEF Shape, CallbackShape
<1>4. {Entry} # {User} /\ {Entry} # {JobOf(s)} /\ {Entry} # {SubOf(s)}
  BY RowsDiffer
<1>5. /\ t.held \in {{JobOf(s), SubOf(s)}, {JobOf(s), SubOf(s), User}}
      /\ t.todo = <<{Entry}>>
  <2>1. t.todo \notin {<<{JobOf(s)}, {SubOf(s)}>>, <<{JobOf(s)}, {SubOf(s)}, {Entry}>>,
                      <<{JobOf(s)}, {SubOf(s)}, {User}, {Entry}>>}
    BY <1>2, <1>4
  <2>2. t.todo \notin {<<{SubOf(s)}>>, <<{SubOf(s)}, {User}, {Entry}>>, <<{SubOf(s)}, {Entry}>>}
    BY <1>2, <1>4
  <2>3. t.todo # <<{User}, {Entry}>>
    BY <1>2, <1>4
  <2> QED BY <1>3, <2>1, <2>2, <2>3, Zenon
<1>6. u.todo = <<>>
  BY <1>1, <1>5
<1>7. CallbackShape(u)
  BY <1>1, <1>5, <1>6 DEF CallbackShape
<1> QED BY <1>1, <1>2, <1>7 DEF Shape, u

-----------------------------------------------------------------------------
(* The invariant *)

\* A step that changes one transaction keeps the invariant if the transaction has
\* its shape and takes no row that another holds.
LEMMA OneTransaction ==
  ASSUME LInv, NEW b \in Backends, NEW t, tx' = [tx EXCEPT ![b] = t],
         t # Free => Shape(t) /\ \A c \in Backends \ {b} : t.held \cap Held(c) = {}
  PROVE  LInv'
<1>1. tx' = [c \in Backends |-> tx'[c]] /\ tx'[b] = t /\ \A c \in Backends \ {b} : tx'[c] = tx[c]
  BY DEF LInv
<1>2. \A c \in Busy' : Shape(tx'[c])
  BY <1>1 DEF LInv, Busy
<1>3. \A c \in Backends \ {b} : Held(c)' = Held(c)
  BY <1>1 DEF Held, Busy
<1>4. Held(b)' = IF t = Free THEN {} ELSE t.held
  BY <1>1 DEF Held, Busy
<1>5. Exclusive'
  BY <1>3, <1>4 DEF Exclusive, LInv
<1> QED BY <1>1, <1>2, <1>5 DEF LInv

\* Every step keeps the invariant.
LEMMA LInvStep ==
  ASSUME IsFiniteSet(Subs), LInv, [Next]_vars
  PROVE  LInv'
<1>1. CASE UNCHANGED tx
  BY <1>1 DEF LInv, Exclusive, Held, Busy
<1>2. ASSUME NEW b \in Backends, NEW s \in Subs, NEW kind \in Callbacks, NEW value, Call(b, s, kind, value)
      PROVE  LInv'
  <2>1. PICK under \in 1 .. claims[s] :
          Begin(b, Transaction(kind, [q \in {s} |-> value], under, Order(kind, s)))
    BY <1>2 DEF Call
  <2> DEFINE t == Transaction(kind, [q \in {s} |-> value], under, Order(kind, s))
  <2>2. Shape(t) /\ t.held = {}
    BY BeginKeepsShape DEF Transaction
  <2>3. tx' = [tx EXCEPT ![b] = t]
    BY <2>1 DEF Begin
  <2> HIDE DEF t
  <2> QED BY <2>2, <2>3, OneTransaction
<1>3. ASSUME NEW b \in Backends, NEW s \in Subs, BeginRejudge(b, s)
      PROVE  LInv'
  <2> DEFINE t == Transaction("rejudge", [q \in {s} |-> "queued"], 0, Order("rejudge", s))
  <2>1. Shape(t) /\ t.held = {}
    BY BeginKeepsShape DEF Transaction, Callbacks
  <2>2. tx' = [tx EXCEPT ![b] = t]
    BY <1>3 DEF BeginRejudge, Begin
  <2> HIDE DEF t
  <2> QED BY <2>1, <2>2, OneTransaction
<1>4. ASSUME NEW b \in Backends, NEW ss \in SUBSET Subs, BeginSweep(b, ss)
      PROVE  LInv'
  <2>1. PICK new \in [ss -> {"queued", "error"}], order \in SweepOrder(ss) :
          Begin(b, [Transaction("sweep", new, 0, Tail(order)) EXCEPT !.held = Head(order)])
    BY <1>4 DEF BeginSweep
  <2> DEFINE t == [Transaction("sweep", new, 0, Tail(order)) EXCEPT !.held = Head(order)]
  <2>2. Shape(t) /\ Head(order) = {JobOf(s) : s \in ss}
    BY SweepHasShape
  <2>3. t.held = Head(order)
    BY DEF Transaction
  <2>4. tx' = [tx EXCEPT ![b] = t]
    BY <2>1 DEF Begin
  <2>5. \A s \in ss, c \in Backends : Held(c) \cap {JobOf(s)} = {}
    BY <1>4 DEF BeginSweep, Locked
  <2> HIDE DEF t
  <2>6. \A c \in Backends : t.held \cap Held(c) = {}
    BY <2>2, <2>3, <2>5
  <2> QED BY <2>2, <2>4, <2>6, OneTransaction
<1>5. ASSUME NEW b \in Backends, BeginEnd(b)
      PROVE  LInv'
  <2> DEFINE t == Transaction("end", [q \in {} |-> "none"], 0, EndOrder)
  <2>1. Shape(t) /\ t.held = {}
    BY BeginKeepsShape DEF Transaction, Callbacks
  <2>2. tx' = [tx EXCEPT ![b] = t]
    BY <1>5 DEF BeginEnd, Begin
  <2> HIDE DEF t
  <2> QED BY <2>1, <2>2, OneTransaction
<1>6. ASSUME NEW b \in Backends, tx' = [tx EXCEPT ![b] = Free]
      PROVE  LInv'
  BY <1>6, OneTransaction
<1>7. ASSUME NEW b \in Busy, NEW n, NEW counted,
             tx' = [tx EXCEPT ![b] = [tx[b] EXCEPT !.counted = counted, !.count = n]]
      PROVE  LInv'
  <2> DEFINE t == [tx[b] EXCEPT !.counted = counted, !.count = n]
  <2>1. Shape(tx[b]) /\ b \in Backends
    BY DEF LInv, Busy
  <2>2. IsTransaction(t) /\ t.kind = tx[b].kind /\ t.held = tx[b].held /\ t.todo = tx[b].todo
    BY <2>1 DEF Shape, IsTransaction
  <2>3. tx' = [tx EXCEPT ![b] = t]
    BY <1>7
  <2>4. \A c \in Backends \ {b} : tx[b].held \cap Held(c) = {}
    BY <2>1 DEF LInv, Exclusive, Held
  <2> HIDE DEF t
  <2>5. Shape(t)
    BY <2>1, <2>2 DEF Shape, CallbackShape, SweepShape
  <2> QED BY <2>1, <2>2, <2>3, <2>4, <2>5, OneTransaction
<1>8. ASSUME NEW b \in Backends, Lock(b)
      PROVE  LInv'
  <2> DEFINE t == [tx[b] EXCEPT !.held = tx[b].held \cup Head(tx[b].todo), !.todo = Tail(tx[b].todo)]
  <2>1. b \in Busy /\ tx[b].todo # <<>> /\ ~Waits(b) /\ Shape(tx[b])
    BY <1>8 DEF Lock, LInv
  <2>2. tx' = [tx EXCEPT ![b] = Free] \/ tx' = [tx EXCEPT ![b] = t]
    BY <1>8 DEF Lock
  <2>3. Shape(t) /\ t.held = tx[b].held \cup Head(tx[b].todo)
    <3>1. Shape(t)
      BY <2>1, LockKeepsShape
    <3>2. t.held = tx[b].held \cup Head(tx[b].todo)
      BY <2>1 DEF Shape, IsTransaction
    <3> QED BY <3>1, <3>2
  <2> HIDE DEF t
  <2>4. \A c \in Backends \ {b} : tx[b].held \cap Held(c) = {}
    BY <2>1 DEF LInv, Exclusive, Held
  <2>5. \A c \in Backends \ {b} : Head(tx[b].todo) \cap Held(c) = {}
    BY <2>1 DEF Waits, WaitsFor, Held
  <2>6. CASE tx' = [tx EXCEPT ![b] = t]
    BY <2>3, <2>4, <2>5, <2>6, OneTransaction
  <2> QED BY <1>6, <2>2, <2>6
<1>9. ASSUME NEW b \in Backends, Proceed(b)
      PROVE  LInv'
  <2>1. CASE Count(b)
    <3>1. b \in Busy /\ tx' = [tx EXCEPT ![b] = [tx[b] EXCEPT !.counted = TRUE, !.count = Accepted(Seen(tx[b]))]]
      BY <2>1 DEF Count, LInv, Busy
    <3> QED BY <3>1, <1>7
  <2>2. CASE AnnounceRejudge(b)
    <3>1. b \in Busy /\ tx' = [tx EXCEPT ![b] = [tx[b] EXCEPT !.counted = TRUE, !.count = tx[b].count]]
      BY <2>2 DEF AnnounceRejudge, LInv, Busy, Shape, IsTransaction
    <3> QED BY <3>1, <1>7
  <2>3. CASE Commit(b) \/ (Abort(b) /\ ~Refreshing(tx[b]))
    BY <2>3, <1>6 DEF Commit, Abort
  <2>4. CASE Abort(b) /\ Refreshing(tx[b])
    <3> DEFINE t == [tx[b] EXCEPT !.todo = Tail(tx[b].todo)]
    <3>1. b \in Busy /\ Shape(tx[b]) /\ tx' = [tx EXCEPT ![b] = t]
      BY <2>4 DEF Abort, LInv
    <3>2. Shape(t) /\ t.held = tx[b].held
      BY <2>4, <3>1, SkipKeepsShape
    <3> HIDE DEF t
    <3>3. \A c \in Backends \ {b} : t.held \cap Held(c) = {}
      BY <3>1, <3>2 DEF LInv, Exclusive, Held
    <3> QED BY <3>1, <3>2, <3>3, OneTransaction
  <2> QED BY <1>9, <2>1, <2>2, <2>3, <2>4, <1>8 DEF Proceed
<1>10. CASE \E s \in Subs : Claim(s)
  BY <1>10, <1>1 DEF Claim
<1>11. CASE \E b \in Backends, s \in Subs : \/ BeginProgress(b, s)
                                            \/ BeginFinish(b, s)
                                            \/ BeginFail(b, s)
                                            \/ BeginRejudge(b, s)
  BY <1>11, <1>2, <1>3 DEF BeginProgress, BeginFinish, BeginFail, Callbacks
<1>12. CASE \E b \in Backends, ss \in SUBSET Subs \ {{}} : BeginSweep(b, ss)
  BY <1>12, <1>4
<1>13. CASE \E b \in Backends : BeginEnd(b) \/ Proceed(b)
  BY <1>13, <1>5, <1>9
<1> QED BY <1>1, <1>10, <1>11, <1>12, <1>13 DEF Next, vars

\* No circle can be made of callbacks and sweeps.
LEMMA NoCircle == LInv => CallbacksNeverDeadlock
<1> SUFFICES ASSUME LInv, NEW B \in SUBSET Busy,
                    \A b \in B : tx[b].kind \in Callbacks \cup {"sweep"},
                    Deadlocked(B)
             PROVE  FALSE
  BY DEF CallbacksNeverDeadlock
<1>1. \A b \in B : /\ Shape(tx[b]) /\ Held(b) = tx[b].held
                   /\ \E c \in B : WaitsFor(b, c)
  BY DEF LInv, Deadlocked, Held
<1>2. \A b \in B :
        /\ tx[b].todo # <<>>
        /\ \A s \in Subs : SubOf(s) \in Held(b) => JobOf(s) \in Held(b)
        /\ \/ Held(b) = {} /\ \E s \in Subs : Head(tx[b].todo) = {JobOf(s)}
           \/ \E s \in Subs : Head(tx[b].todo) = {SubOf(s)} /\ JobOf(s) \in Held(b)
           \/ Head(tx[b].todo) = {User} /\ User \notin Held(b) /\ Entry \notin Held(b)
           \/ Head(tx[b].todo) = {Entry} /\ Entry \notin Held(b)
  BY <1>1, WaitsUpwards DEF WaitsFor
<1>3. \A b, c \in B : WaitsFor(b, c) => b # c /\ Held(b) \cap Held(c) = {} /\ Head(tx[b].todo) \cap Held(c) # {}
  BY DEF WaitsFor, LInv, Exclusive, Busy
\* Nobody waits for a submission.
<1>4. \A b \in B, s \in Subs : Head(tx[b].todo) # {SubOf(s)} \/ JobOf(s) \notin Held(b)
  BY <1>1, <1>2, <1>3
\* Whoever is waited for holds something, and so waits for the user or the participation.
<1>5. \A b, c \in B : WaitsFor(b, c) =>
        \/ Head(tx[c].todo) = {User} /\ User \notin Held(c) /\ Entry \notin Held(c)
        \/ Head(tx[c].todo) = {Entry} /\ Entry \notin Held(c)
  BY <1>2, <1>3, <1>4
<1>6. PICK b \in B, c \in B, d \in B, e \in B : WaitsFor(b, c) /\ WaitsFor(c, d) /\ WaitsFor(d, e)
  BY <1>1 DEF Deadlocked
<1>7. Head(tx[d].todo) = {Entry}
  BY <1>3, <1>5, <1>6
<1>8. Entry \in Held(e) /\ Entry \notin Held(e)
  BY <1>3, <1>5, <1>6, <1>7
<1> QED BY <1>8

\* Callbacks and sweeps, of any number of judges about any number of submissions,
\* never wait for each other's row locks in a circle.
THEOREM NoDeadlock ==
  ASSUME IsFiniteSet(Subs)
  PROVE  Spec => []CallbacksNeverDeadlock
<1>1. Init => LInv
  BY DEF Init, LInv, Busy, Exclusive, Held
<1>2. LInv /\ [Next]_vars => LInv'
  BY LInvStep
<1> QED BY <1>1, <1>2, NoCircle, PTL DEF Spec

-----------------------------------------------------------------------------
(* Announcements and statistics *)

\* What a transaction writes: only finish writes AC, only after it has counted, and
\* its count is of what it sees; a rejudge queues, and announces it with all locks.
Writes(t) ==
  /\ t.kind # "finish" => \A s \in DOMAIN t.new : t.new[s] # "AC"
  /\ t.kind = "rejudge" =>
       /\ DOMAIN t.new \subseteq Subs /\ \A s \in DOMAIN t.new : t.new[s] = "queued"
       /\ t.counted => t.todo = <<>>
  /\ t.kind = "finish" =>
       \/ t.counted /\ (muddled \/ t.count = Accepted(Seen(t)))
       \/ /\ ~t.counted
          /\ \E s \in Subs : t.todo \in {<<{JobOf(s)}, {SubOf(s)}, {User}, {Entry}>>,
                                         <<{SubOf(s)}, {User}, {Entry}>>, <<{User}, {Entry}>>}

WInv == StatsFollowVerdicts /\ \A b \in Busy : Writes(tx[b])

\* What a transaction writes is that of a record with the same fields.
LEMMA SameWrites ==
  ASSUME NEW t, NEW u, Writes(t), u.kind = t.kind, u.new = t.new, u.todo = t.todo,
         u.counted = t.counted, u.count = t.count
  PROVE  Writes(u)
BY DEF Writes, Seen

\* A step of one transaction that commits nothing.
LEMMA OneWriter ==
  ASSUME LInv, WInv, NEW b \in Backends, NEW t, tx' = [tx EXCEPT ![b] = t],
         UNCHANGED <<sub, stat, muddled>>, t # Free => Writes(t)
  PROVE  WInv'
<1>1. tx'[b] = t /\ \A c \in Backends \ {b} : tx'[c] = tx[c]
  BY DEF LInv
<1>2. ASSUME NEW c \in Busy' PROVE Writes(tx[c])'
  <2>1. CASE c = b
    BY <1>1, <2>1 DEF Busy, Writes, Seen, Accepted
  <2>2. CASE c # b
    BY <1>1, <2>2 DEF Busy, WInv, Writes, Seen, Accepted
  <2> QED BY <2>1, <2>2
<1>3. StatsFollowVerdicts'
  BY DEF WInv, StatsFollowVerdicts, Accepted
<1> QED BY <1>2, <1>3 DEF WInv

\* A commit that writes no AC, and takes none back, changes neither the number of
\* accepted submissions nor what another transaction sees of it.
LEMMA QuietCommit ==
  ASSUME NEW t, \A s \in DOMAIN t.new : t.new[s] # "AC" /\ sub[s] # "AC", sub' = Seen(t)
  PROVE  /\ Accepted(sub') = Accepted(sub)
         /\ \A c : tx'[c] = tx[c] => Accepted(Seen(tx[c]))' = Accepted(Seen(tx[c]))
<1>1. \A s \in Subs : sub'[s] = "AC" <=> sub[s] = "AC"
  BY DEF Seen
<1>2. {s \in Subs : sub'[s] = "AC"} = {s \in Subs : sub[s] = "AC"}
  BY <1>1
<1>3. ASSUME NEW c, tx'[c] = tx[c]
      PROVE  {s \in Subs : Seen(tx[c])'[s] = "AC"} = {s \in Subs : Seen(tx[c])[s] = "AC"}
  BY <1>1, <1>3 DEF Seen
<1> QED BY <1>2, <1>3 DEF Accepted

\* A transaction that has no more locks to take commits: a verdict of finish brings
\* its count, and whatever else would change the number of accepted muddles.
LEMMA CommitWrites ==
  ASSUME LInv, WInv, NEW b \in Backends, Commit(b)
  PROVE  WInv'
<1> DEFINE t == tx[b]
<1>1. /\ b \in Busy /\ t.todo = <<>> /\ Writes(t) /\ IsTransaction(t)
      /\ sub' = Seen(t) /\ stat' = IF t.kind = "finish" THEN t.count ELSE stat
      /\ muddled' = (muddled \/ Overlaps(b))
      /\ tx' = [tx EXCEPT ![b] = Free]
  BY DEF Commit, WInv, LInv, Shape
<1>2. Busy' = Busy \ {b} /\ \A c \in Busy' : tx'[c] = tx[c] /\ Writes(tx[c])
  BY <1>1 DEF Busy, LInv, WInv
<1>3. CASE muddled'
  BY <1>2, <1>3 DEF WInv, StatsFollowVerdicts, Writes
<1>4. CASE ~muddled' /\ t.kind = "finish"
  <2>1. t.counted /\ t.count = Accepted(Seen(t))
    <3> HIDE DEF t
    <3>1. \A s \in Subs : t.todo \notin {<<{JobOf(s)}, {SubOf(s)}, {User}, {Entry}>>,
                                        <<{SubOf(s)}, {User}, {Entry}>>, <<{User}, {Entry}>>}
      BY <1>1
    <3> QED BY <1>1, <1>4, <3>1, Zenon DEF Writes
  <2>2. StatsFollowVerdicts'
    BY <1>1, <1>4, <2>1 DEF StatsFollowVerdicts, Accepted
  <2>3. \A c \in Busy' : ~(tx[c].kind = "finish" /\ tx[c].counted)
    BY <1>1, <1>2, <1>4 DEF Overlaps
  <2>4. \A c \in Busy' : Writes(tx[c])'
    BY <1>2, <2>3 DEF Writes
  <2> QED BY <2>2, <2>4 DEF WInv
<1>5. CASE ~muddled' /\ t.kind # "finish"
  <2>1. \A s \in DOMAIN t.new : t.new[s] # "AC" /\ sub[s] # "AC"
    BY <1>1, <1>5 DEF Overlaps, Writes
  <2>2. /\ Accepted(sub') = Accepted(sub)
        /\ \A c : tx'[c] = tx[c] => Accepted(Seen(tx[c]))' = Accepted(Seen(tx[c]))
    BY <1>1, <2>1, QuietCommit
  <2>3. StatsFollowVerdicts'
    BY <1>1, <1>5, <2>2 DEF WInv, StatsFollowVerdicts, Accepted
  <2>4. ASSUME NEW c \in Busy' PROVE Writes(tx[c])'
    <3>1. tx'[c] = tx[c] /\ Writes(tx[c]) /\ ~muddled
      BY <1>1, <1>2, <1>5
    <3>2. Accepted(Seen(tx[c]))' = Accepted(Seen(tx[c]))
      BY <2>2, <3>1
    <3> QED BY <1>5, <3>1, <3>2, Zenon DEF Writes
  <2> QED BY <2>3, <2>4 DEF WInv
<1> QED BY <1>3, <1>4, <1>5

\* Every step keeps the invariant.
LEMMA WInvStep ==
  ASSUME LInv, WInv, [Next]_vars
  PROVE  WInv'
<1>1. CASE UNCHANGED <<tx, sub, stat, muddled>>
  BY <1>1 DEF WInv, StatsFollowVerdicts, Busy, Writes, Seen, Accepted
<1>2. ASSUME NEW b \in Backends, NEW s \in Subs, NEW kind \in Callbacks, NEW value,
             Call(b, s, kind, value), kind # "finish" => value # "AC"
      PROVE  WInv'
  <2>1. PICK under \in 1 .. claims[s] :
          Begin(b, Transaction(kind, [q \in {s} |-> value], under, Order(kind, s)))
    BY <1>2 DEF Call
  <2> DEFINE t == Transaction(kind, [q \in {s} |-> value], under, Order(kind, s))
  <2>2. /\ t.kind = kind /\ t.new = [q \in {s} |-> value] /\ ~t.counted
        /\ t.todo = Order(kind, s)
    BY DEF Transaction
  <2>3. tx' = [tx EXCEPT ![b] = t] /\ UNCHANGED <<sub, stat, muddled>>
    BY <1>2, <2>1 DEF Begin, Call
  <2>4. kind = "finish" => Order(kind, s) = <<{JobOf(s)}, {SubOf(s)}, {User}, {Entry}>>
    BY DEF Order
  <2> HIDE DEF t
  <2>5. Writes(t)
    BY <1>2, <2>2, <2>4 DEF Writes, Callbacks
  <2> QED BY <2>3, <2>5, OneWriter
<1>3. ASSUME NEW b \in Backends, NEW s \in Subs, BeginRejudge(b, s)
      PROVE  WInv'
  <2> DEFINE t == Transaction("rejudge", [q \in {s} |-> "queued"], 0, Order("rejudge", s))
  <2>1. t.kind = "rejudge" /\ t.new = [q \in {s} |-> "queued"] /\ ~t.counted
    BY DEF Transaction
  <2>2. tx' = [tx EXCEPT ![b] = t] /\ UNCHANGED <<sub, stat, muddled>>
    BY <1>3 DEF BeginRejudge, Begin
  <2> HIDE DEF t
  <2>3. Writes(t)
    BY <2>1 DEF Writes
  <2> QED BY <2>2, <2>3, OneWriter
<1>4. ASSUME NEW b \in Backends, NEW ss \in SUBSET Subs, BeginSweep(b, ss)
      PROVE  WInv'
  <2>1. PICK new \in [ss -> {"queued", "error"}], order \in SweepOrder(ss) :
          Begin(b, [Transaction("sweep", new, 0, Tail(order)) EXCEPT !.held = Head(order)])
    BY <1>4 DEF BeginSweep
  <2> DEFINE t == [Transaction("sweep", new, 0, Tail(order)) EXCEPT !.held = Head(order)]
  <2>2. t.kind = "sweep" /\ t.new = new
    BY DEF Transaction
  <2>3. tx' = [tx EXCEPT ![b] = t] /\ UNCHANGED <<sub, stat, muddled>>
    BY <1>4, <2>1 DEF Begin, BeginSweep
  <2> HIDE DEF t
  <2>4. Writes(t)
    BY <2>2 DEF Writes
  <2> QED BY <2>3, <2>4, OneWriter
<1>5. ASSUME NEW b \in Backends, BeginEnd(b)
      PROVE  WInv'
  <2> DEFINE t == Transaction("end", [q \in {} |-> "none"], 0, EndOrder)
  <2>1. t.kind = "end" /\ DOMAIN t.new = {}
    BY DEF Transaction
  <2>2. tx' = [tx EXCEPT ![b] = t] /\ UNCHANGED <<sub, stat, muddled>>
    BY <1>5 DEF BeginEnd, Begin
  <2> HIDE DEF t
  <2>3. Writes(t)
    BY <2>1 DEF Writes
  <2> QED BY <2>2, <2>3, OneWriter
<1>6. ASSUME NEW b \in Backends, Count(b)
      PROVE  WInv'
  <2> DEFINE t == [tx[b] EXCEPT !.counted = TRUE, !.count = Accepted(Seen(tx[b]))]
  <2>1. IsTransaction(tx[b]) /\ tx[b].kind = "finish"
    BY <1>6 DEF Count, MustCount, LInv, Shape
  <2>2. /\ t.kind = "finish" /\ t.new = tx[b].new /\ t.counted
        /\ t.count = Accepted(Seen(tx[b]))
    BY <2>1 DEF IsTransaction
  <2>3. tx' = [tx EXCEPT ![b] = t] /\ UNCHANGED <<sub, stat, muddled>>
    BY <1>6 DEF Count
  <2> HIDE DEF t
  <2>4. Writes(t)
    BY <2>2 DEF Writes, Seen
  <2> QED BY <2>3, <2>4, OneWriter
<1>7. ASSUME NEW b \in Backends, AnnounceRejudge(b)
      PROVE  WInv'
  <2> DEFINE t == [tx[b] EXCEPT !.counted = TRUE]
  <2>1. IsTransaction(tx[b]) /\ tx[b].kind = "rejudge" /\ tx[b].todo = <<>> /\ Writes(tx[b])
    BY <1>7 DEF AnnounceRejudge, LInv, WInv, Shape
  <2>2. t.kind = "rejudge" /\ t.new = tx[b].new /\ t.todo = <<>>
    BY <2>1 DEF IsTransaction
  <2>3. tx' = [tx EXCEPT ![b] = t] /\ UNCHANGED <<sub, stat, muddled>>
    BY <1>7 DEF AnnounceRejudge
  <2> HIDE DEF t
  <2>4. Writes(t)
    BY <2>1, <2>2 DEF Writes
  <2> QED BY <2>3, <2>4, OneWriter
<1>8. ASSUME NEW b \in Backends, tx' = [tx EXCEPT ![b] = Free], UNCHANGED <<sub, stat, muddled>>
      PROVE  WInv'
  BY <1>8, OneWriter
<1>9. ASSUME NEW b \in Backends, Lock(b)
      PROVE  WInv'
  <2> DEFINE t == [tx[b] EXCEPT !.held = tx[b].held \cup Head(tx[b].todo), !.todo = Tail(tx[b].todo)]
  <2>1. /\ b \in Busy /\ tx[b].todo # <<>> /\ ~MustCount(tx[b])
        /\ IsTransaction(tx[b]) /\ Writes(tx[b]) /\ UNCHANGED <<sub, stat, muddled>>
    BY <1>9 DEF Lock, LInv, WInv, Shape
  <2>2. tx' = [tx EXCEPT ![b] = Free] \/ tx' = [tx EXCEPT ![b] = t]
    BY <1>9 DEF Lock
  <2>3. /\ t.kind = tx[b].kind /\ t.new = tx[b].new /\ t.todo = Tail(tx[b].todo)
        /\ t.counted = tx[b].counted /\ t.count = tx[b].count
    BY <2>1 DEF IsTransaction
  <2> HIDE DEF t
  <2>4. ASSUME tx[b].kind = "finish", ~tx[b].counted
        PROVE  \E s \in Subs : t.todo \in {<<{SubOf(s)}, {User}, {Entry}>>, <<{User}, {Entry}>>}
    <3>1. PICK s \in Subs : tx[b].todo \in {<<{JobOf(s)}, {SubOf(s)}, {User}, {Entry}>>,
                                            <<{SubOf(s)}, {User}, {Entry}>>, <<{User}, {Entry}>>}
      BY <2>1, <2>4 DEF Writes
    <3>2. tx[b].todo # <<{User}, {Entry}>>
      BY <2>1, <2>4 DEF MustCount
    <3> QED BY <2>3, <3>1, <3>2, RestOfCallback, Zenon
  <2>5. Writes(t)
    BY <2>1, <2>3, <2>4 DEF Writes, Seen
  <2> QED BY <1>8, <2>1, <2>2, <2>5, OneWriter
<1>10. ASSUME NEW b \in Backends, Abort(b), Refreshing(tx[b])
       PROVE  WInv'
  <2> DEFINE t == [tx[b] EXCEPT !.todo = Tail(tx[b].todo)]
  <2>1. /\ b \in Busy /\ Writes(tx[b]) /\ IsTransaction(tx[b])
        /\ tx' = [tx EXCEPT ![b] = t] /\ UNCHANGED <<sub, stat, muddled>>
    BY <1>10 DEF Abort, LInv, WInv, Shape
  <2>2. /\ t.kind = tx[b].kind /\ t.new = tx[b].new
        /\ t.counted = tx[b].counted /\ t.count = tx[b].count
    BY <2>1 DEF IsTransaction
  <2> HIDE DEF t
  <2>3. ASSUME tx[b].kind = "finish" PROVE tx[b].counted
    <3>1. \A s : {Entry} # {User} /\ {Entry} # {JobOf(s)} /\ {Entry} # {SubOf(s)}
      BY RowsDiffer
    <3>2. \A s : tx[b].todo \notin {<<{JobOf(s)}, {SubOf(s)}, {User}, {Entry}>>,
                                    <<{SubOf(s)}, {User}, {Entry}>>, <<{User}, {Entry}>>}
      BY <1>10, <3>1 DEF Refreshing
    <3> QED BY <2>1, <2>3, <3>2, Zenon DEF Writes
  <2>4. Writes(t)
    BY <1>10, <2>1, <2>2, <2>3 DEF Writes, Seen, Refreshing
  <2> QED BY <2>1, <2>4, OneWriter
<1>11. ASSUME NEW b \in Backends, Proceed(b)
       PROVE  WInv'
  BY <1>6, <1>7, <1>8, <1>9, <1>10, <1>11, CommitWrites DEF Proceed, Abort
<1>12. CASE \E s \in Subs : Claim(s)
  BY <1>12, <1>1 DEF Claim
<1>13. CASE \E b \in Backends, s \in Subs : \/ BeginProgress(b, s)
                                            \/ BeginFinish(b, s)
                                            \/ BeginFail(b, s)
                                            \/ BeginRejudge(b, s)
  BY <1>13, <1>2, <1>3 DEF BeginProgress, BeginFinish, BeginFail, Callbacks
<1>14. CASE \E b \in Backends, ss \in SUBSET Subs \ {{}} : BeginSweep(b, ss)
  BY <1>14, <1>4
<1>15. CASE \E b \in Backends : BeginEnd(b) \/ Proceed(b)
  BY <1>15, <1>5, <1>11
<1> QED BY <1>1, <1>12, <1>13, <1>14, <1>15 DEF Next, vars

\* What the transactions may do holds for as long as the service runs.
LEMMA WritesInv ==
  ASSUME IsFiniteSet(Subs)
  PROVE  Spec => [](LInv /\ WInv)
<1>1. Init => LInv /\ WInv
  <2> SUFFICES ASSUME Init PROVE LInv /\ WInv
    OBVIOUS
  <2>1. Busy = {} /\ tx = [b \in Backends |-> tx[b]]
    BY DEF Init, Busy
  <2>2. {s \in Subs : sub[s] = "AC"} = {}
    BY DEF Init
  <2>3. stat = Accepted(sub)
    BY <2>2, FS_EmptySet DEF Init, Accepted
  <2> QED BY <2>1, <2>3 DEF LInv, WInv, StatsFollowVerdicts, Exclusive, Held
<1>2. LInv /\ WInv /\ [Next]_vars => (LInv /\ WInv)'
  BY LInvStep, WInvStep
<1> QED BY <1>1, <1>2, PTL DEF Spec

\* The count that a finish stores is of the verdicts on record when it commits,
\* whatever else commits between: another finish that counted, and a verdict that is
\* taken back, are the two ways in which the statistics go wrong.
THEOREM StatsFollow ==
  ASSUME IsFiniteSet(Subs)
  PROVE  Spec => []StatsFollowVerdicts
<1>1. WInv => StatsFollowVerdicts
  BY DEF WInv
<1> QED BY <1>1, WritesInv, PTL

\* A rejudge publishes with all its locks taken, so it waits for nobody, no deadlock
\* is broken at its cost, and its commit does what it has announced.
THEOREM RejudgeAnnounced ==
  ASSUME IsFiniteSet(Subs)
  PROVE  Spec => AnnouncedIsDone
<1>1. ASSUME LInv, WInv, [Next]_vars, NEW b \in Busy,
             tx[b].kind = "rejudge", tx[b].counted, tx'[b] = Free
      PROVE  \A s \in DOMAIN tx[b].new : job'[s] = "queued" /\ sub'[s] = "queued"
  <2>1. /\ b \in Backends /\ tx[b] # Free /\ tx[b].todo = <<>>
        /\ DOMAIN tx[b].new \subseteq Subs /\ \A s \in DOMAIN tx[b].new : tx[b].new[s] = "queued"
    BY <1>1 DEF Busy, WInv, Writes
  <2>2. \A c \in Backends : \A t : c # b => tx' # [tx EXCEPT ![c] = t]
    BY <1>1, <2>1 DEF LInv
  <2>3. ~UNCHANGED tx
    BY <1>1, <2>1
  <2>4. \A c \in Backends : \A t : ~Begin(c, t)
    BY <2>1, <2>2 DEF Begin
  <2>5. \A c \in Backends : ~Count(c) /\ ~Lock(c) /\ ~AnnounceRejudge(c) /\ ~Abort(c)
    <3>1. ~Count(b) /\ ~Lock(b) /\ ~AnnounceRejudge(b)
      BY <1>1, <2>1 DEF Count, MustCount, Lock, AnnounceRejudge
    <3>2. ~Abort(b)
      BY <2>1 DEF Abort, Deadlocked, WaitsFor
    <3>3. \A c \in Backends : c # b => ~Count(c) /\ ~AnnounceRejudge(c) /\ ~Abort(c)
      BY <2>2 DEF Count, AnnounceRejudge, Abort
    <3>4. \A c \in Backends : c # b => ~Lock(c)
      BY <2>2 DEF Lock
    <3> QED BY <3>1, <3>2, <3>3, <3>4
  <2>6. Commit(b)
    BY <1>1, <2>2, <2>3, <2>4, <2>5
    DEF Next, vars, Claim, BeginProgress, BeginFinish, BeginFail, Call, BeginRejudge, BeginSweep,
        BeginEnd, Proceed, Commit
  <2>7. /\ job' = [s \in Subs |-> IF s \in DOMAIN tx[b].new THEN JobAfter(tx[b].new[s]) ELSE job[s]]
        /\ sub' = Seen(tx[b])
    BY <2>6 DEF Commit
  <2>8. JobAfter("queued") = "queued"
    BY DEF JobAfter
  <2> QED BY <2>1, <2>7, <2>8 DEF Seen
<1>2. LInv /\ WInv /\ [Next]_vars =>
        [\A b \in Busy : tx[b].kind = "rejudge" /\ tx[b].counted /\ tx'[b] = Free =>
           \A s \in DOMAIN tx[b].new : job'[s] = "queued" /\ sub'[s] = "queued"]_vars
  BY <1>1
<1> QED BY <1>2, WritesInv, PTL DEF Spec, AnnouncedIsDone

=============================================================================
