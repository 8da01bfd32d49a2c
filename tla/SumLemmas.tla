------------------------------ MODULE SumLemmas ------------------------------
(***************************************************************************)
(* What the sums of the models are: SumFunctionOnSet and SumFunction of    *)
(* the community modules, for a function with integer values on a finite   *)
(* set.  The operators add the elements up in an order that CHOOSE makes;  *)
(* the lemmas say that the order does not matter, what one element         *)
(* contributes, and how two sums compare.  Before them, the smallest and   *)
(* the greatest of a set of numbers.                                       *)
(***************************************************************************)
EXTENDS Integers, FiniteSets, FiniteSetsExt, Functions, FiniteSetTheorems, WellFoundedInduction, TLAPS

\* Induction over the subsets of a finite set: what holds for a subset whenever
\* it holds for all smaller ones holds for all.
LEMMA SubsetInduction ==
  ASSUME NEW S, IsFiniteSet(S), NEW G,
         \A T \in SUBSET S : (\A U \in SUBSET T : U # T => U \in G) => T \in G
  PROVE  \A T \in SUBSET S : T \in G
<1> DEFINE Bad == {T \in SUBSET S : T \notin G}
<1>1. SUFFICES ASSUME Bad # {} PROVE FALSE
  OBVIOUS
<1>2. Bad \subseteq FiniteSubsetsOf(S)
  BY FS_Subset DEF FiniteSubsetsOf
<1>3. PICK T \in Bad : \A U \in Bad : <<U, T>> \notin StrictSubsetOrdering(S)
  <2> HIDE DEF Bad
  <2> QED BY <1>1, <1>2, FS_StrictSubsetOrderingWellFounded, WFMin
<1>4. ASSUME NEW U \in SUBSET T, U # T PROVE U \in G
  BY <1>3, <1>4 DEF StrictSubsetOrdering
<1> QED BY <1>3, <1>4

\* The values of a function on a finite set are finitely many.
LEMMA FinitelyManyValues ==
  ASSUME NEW f, IsFiniteSet(DOMAIN f)
  PROVE  IsFiniteSet({f[x] : x \in DOMAIN f})
<1> DEFINE T == {f[x] : x \in DOMAIN f}
           g == [x \in DOMAIN f |-> f[x]]
<1>1. g \in Surjection(DOMAIN f, T)
  BY DEF Surjection
<1> HIDE DEF g, T
<1>2. IsFiniteSet(T)
  BY <1>1, FS_Surjection
<1> QED BY <1>2 DEF T

-----------------------------------------------------------------------------
(* The smallest and the greatest number *)

LEMMA SmallestOfNaturals ==
  ASSUME NEW S \in SUBSET Nat, S # {}
  PROVE  Min(S) \in S /\ \A y \in S : Min(S) <= y
<1> DEFINE Less == OpToRel(<, Nat)
<1>1. \A x, y \in Nat : x < y => <<x, y>> \in Less
  BY DEF OpToRel
<1>2. IsWellFoundedOn(Less, Nat)
  BY NatLessThanWellFounded
<1> HIDE DEF Less
<1>3. PICK x \in S : \A y \in S : <<y, x>> \notin Less
  BY <1>2, WFMin
<1>4. ASSUME NEW y \in S PROVE x <= y
  <2>1. x \in Nat /\ y \in Nat /\ ~(y < x)
    BY <1>1, <1>3
  <2> QED BY <2>1
<1> QED BY <1>4 DEF Min

LEMMA GreatestOfNaturals ==
  ASSUME NEW S \in SUBSET Nat, IsFiniteSet(S), S # {}
  PROVE  Max(S) \in S /\ \A y \in S : y <= Max(S)
<1> DEFINE Has(T) == \E x \in T : \A y \in T : y <= x
           G == {T \in SUBSET S : T = {} \/ Has(T)}
<1>1. ASSUME NEW T \in SUBSET S, \A U \in SUBSET T : U # T => U \in G
      PROVE  T \in G
  <2>1. ASSUME NEW a \in T PROVE Has(T)
    <3>1. T \ {a} = {} \/ Has(T \ {a})
      <4>1. T \ {a} \in G
        BY <1>1
      <4> QED BY <4>1
    <3>2. CASE T \ {a} = {}
      BY <3>2
    <3>3. CASE Has(T \ {a})
      <4>1. PICK x \in T \ {a} : \A y \in T \ {a} : y <= x
        BY <3>3
      <4>2. x \in Nat /\ a \in Nat /\ \A y \in T : y \in Nat
        OBVIOUS
      <4>3. CASE a <= x
        BY <4>1, <4>3
      <4>4. CASE x <= a
        BY <4>1, <4>2, <4>4
      <4> QED BY <4>2, <4>3, <4>4
    <3> QED BY <3>1, <3>2, <3>3
  <2> QED BY <2>1
<1>2. \A T \in SUBSET S : T \in G
  <2> HIDE DEF G
  <2> QED BY <1>1, SubsetInduction
<1>3. PICK x \in S : \A y \in S : y <= x
  BY <1>2
<1> QED BY <1>3 DEF Max

\* Where each number is exceeded by another, so is the greatest.
LEMMA GreatestGrows ==
  ASSUME NEW F \in SUBSET Nat, IsFiniteSet(F), F # {}, NEW H \in SUBSET Nat, IsFiniteSet(H),
         \A x \in F : \E y \in H : x <= y
  PROVE  Max(F) \in Nat /\ Max(F) <= Max(H)
<1>1. Max(F) \in F
  BY GreatestOfNaturals
<1>2. PICK y \in H : Max(F) <= y
  BY <1>1
<1>3. Max(H) \in H /\ y <= Max(H)
  BY GreatestOfNaturals
<1>4. Max(F) \in Nat /\ Max(H) \in Nat /\ y \in Nat
  BY <1>1, <1>3
<1> QED BY <1>2, <1>3, <1>4

-----------------------------------------------------------------------------
(* Sums *)

OneOf(s) == CHOOSE x \in s : TRUE

IsSum(g, f, S) ==
  g = [s \in SUBSET S |-> IF s = {} THEN 0 ELSE f[OneOf(s)] + g[s \ {OneOf(s)}]]

\* The sum of a function over a set is the value of a function on the subsets.
LEMMA SumIsChosen ==
  ASSUME NEW f, NEW S
  PROVE  SumFunctionOnSet(f, S) = (CHOOSE g : IsSum(g, f, S))[S]
  BY DEF SumFunctionOnSet, FoldFunctionOnSet, MapThenFoldSet, IsSum, OneOf

LEMMA AnyIn == ASSUME NEW s, s # {} PROVE OneOf(s) \in s
  BY DEF OneOf

\* Two such functions agree on the sets on which both are defined.
LEMMA SumsAgree ==
  ASSUME NEW f, NEW S, IsFiniteSet(S), NEW T, NEW g, NEW h, IsSum(g, f, S), IsSum(h, f, T)
  PROVE  \A U \in SUBSET (S \cap T) : g[U] = h[U]
<1> DEFINE G == {U \in SUBSET (S \cap T) : g[U] = h[U]}
<1>1. IsFiniteSet(S \cap T)
  BY FS_Subset
<1>2. ASSUME NEW U \in SUBSET (S \cap T), \A W \in SUBSET U : W # U => W \in G
      PROVE  U \in G
  <2>1. g[U] = IF U = {} THEN 0 ELSE f[OneOf(U)] + g[U \ {OneOf(U)}]
    BY DEF IsSum
  <2>2. h[U] = IF U = {} THEN 0 ELSE f[OneOf(U)] + h[U \ {OneOf(U)}]
    BY DEF IsSum
  <2>3. U # {} => U \ {OneOf(U)} \in G
    BY <1>2, AnyIn
  <2> QED BY <2>1, <2>2, <2>3
<1>3. \A U \in SUBSET (S \cap T) : U \in G
  <2> HIDE DEF G
  <2> QED BY <1>1, <1>2, SubsetInduction
<1> QED BY <1>3

\* The sum over a finite set: nothing, or an element and the sum of the others.
LEMMA SumUnfolds ==
  ASSUME NEW f, NEW S, IsFiniteSet(S)
  PROVE  /\ SumFunctionOnSet(f, {}) = 0
         /\ S # {} => SumFunctionOnSet(f, S) = f[OneOf(S)] + SumFunctionOnSet(f, S \ {OneOf(S)})
<1> DEFINE Sum(T) == SumFunctionOnSet(f, T)
           Chosen(T) == CHOOSE g : IsSum(g, f, T)
           G == {T \in SUBSET S : \E g : IsSum(g, f, T)}
<1>1. \A T \in G : IsSum(Chosen(T), f, T) /\ Sum(T) = Chosen(T)[T]
  BY SumIsChosen
<1>2. ASSUME NEW T \in G
      PROVE  /\ T = {} => Sum(T) = 0
             /\ T # {} /\ T \ {OneOf(T)} \in G => Sum(T) = f[OneOf(T)] + Sum(T \ {OneOf(T)})
  <2> DEFINE W == T \ {OneOf(T)}
  <2>1. Chosen(T)[T] = IF T = {} THEN 0 ELSE f[OneOf(T)] + Chosen(T)[W]
    BY <1>1 DEF IsSum
  <2>2. ASSUME T # {}, W \in G PROVE Chosen(T)[W] = Chosen(W)[W]
    <3>1. IsFiniteSet(T) /\ W \in SUBSET (T \cap W)
      BY FS_Subset
    <3>2. IsSum(Chosen(T), f, T) /\ IsSum(Chosen(W), f, W)
      BY <1>1, <2>2
    <3> HIDE DEF Chosen, W
    <3> QED BY <3>1, <3>2, SumsAgree
  <2> QED BY <1>1, <2>1, <2>2
<1>3. ASSUME NEW T \in SUBSET S, \A U \in SUBSET T : U # T => U \in G
      PROVE  T \in G
  <2> DEFINE h == [s \in SUBSET T |-> IF s = {} THEN 0 ELSE f[OneOf(s)] + Sum(s \ {OneOf(s)})]
  <2>1. ASSUME NEW s \in SUBSET T, s # {} PROVE h[s \ {OneOf(s)}] = Sum(s \ {OneOf(s)})
    <3> DEFINE W == s \ {OneOf(s)}
    <3>1. W \in SUBSET T /\ W # T /\ W \in G
      BY <1>3, <2>1, AnyIn
    <3>2. W # {} => W \ {OneOf(W)} \in G
      BY <1>3, <3>1
    <3>3. h[W] = IF W = {} THEN 0 ELSE f[OneOf(W)] + Sum(W \ {OneOf(W)})
      BY <3>1
    <3>4. /\ W = {} => Sum(W) = 0
          /\ W # {} => Sum(W) = f[OneOf(W)] + Sum(W \ {OneOf(W)})
      <4> HIDE DEF W, Sum, G
      <4> QED BY <1>2, <3>1, <3>2
    <3> QED BY <3>3, <3>4
  <2>2. h = [s \in SUBSET T |-> IF s = {} THEN 0 ELSE f[OneOf(s)] + h[s \ {OneOf(s)}]]
    BY <2>1
  <2>3. IsSum(h, f, T)
    BY <2>2 DEF IsSum
  <2> QED BY <2>3
<1>4. \A T \in SUBSET S : T \in G
  <2> HIDE DEF G
  <2> QED BY <1>3, SubsetInduction
<1>5. {} \in G /\ S \in G /\ S \ {OneOf(S)} \in G
  BY <1>4
<1> HIDE DEF G
<1> QED BY <1>2, <1>5

-----------------------------------------------------------------------------
(* The order does not matter. *)

LEMMA SumTakes ==
  ASSUME NEW f, NEW S, IsFiniteSet(S), \A x \in S : f[x] \in Int
  PROVE  \A T \in SUBSET S :
           /\ SumFunctionOnSet(f, T) \in Int
           /\ \A x \in T : SumFunctionOnSet(f, T) = f[x] + SumFunctionOnSet(f, T \ {x})
<1> DEFINE Sum(T) == SumFunctionOnSet(f, T)
           Takes(T) == Sum(T) \in Int /\ \A x \in T : Sum(T) = f[x] + Sum(T \ {x})
           G == {T \in SUBSET S : Takes(T)}
<1>1. ASSUME NEW T \in SUBSET S, \A U \in SUBSET T : U # T => U \in G
      PROVE  Takes(T)
  <2>1. CASE T = {}
    <3>1. Sum({}) = 0
      BY SumUnfolds
    <3> HIDE DEF Sum
    <3> QED BY <2>1, <3>1
  <2>2. CASE T # {}
    <3> DEFINE a == OneOf(T)
               rest == T \ {a}
    <3>1. a \in T
      BY <2>2, AnyIn
    <3>2. Sum(T) = f[a] + Sum(rest)
      <4>1. IsFiniteSet(T)
        BY FS_Subset
      <4> QED BY <2>2, <4>1, SumUnfolds
    <3>3. rest \in G
      BY <1>1, <3>1
    <3>4. ASSUME NEW x \in T, x # a PROVE Sum(T) = f[x] + Sum(T \ {x})
      <4> DEFINE U == T \ {x}
                 both == rest \ {x}
      <4>1. U \in G /\ a \in U
        BY <1>1, <3>1, <3>4
      <4>2. both = U \ {a} /\ both \in G
        BY <1>1, <3>1, <3>4
      <4>3. Sum(U) = f[a] + Sum(both)
        BY <4>1, <4>2
      <4>4. Sum(rest) = f[x] + Sum(both)
        BY <3>3, <3>4
      <4>5. f[a] \in Int /\ f[x] \in Int /\ Sum(both) \in Int
        BY <3>1, <3>4, <4>2
      <4> HIDE DEF Sum, U, both, a, rest
      <4> QED BY <3>2, <4>3, <4>4, <4>5 DEF U
    <3>5. f[a] \in Int /\ Sum(rest) \in Int
      BY <3>1, <3>3
    <3> HIDE DEF Sum, a
    <3> QED BY <3>2, <3>4, <3>5
  <2> QED BY <2>1, <2>2
<1>2. \A T \in SUBSET S : T \in G
  <2>1. \A T \in SUBSET S : (\A U \in SUBSET T : U # T => U \in G) => T \in G
    <3> HIDE DEF Takes
    <3> QED BY <1>1
  <2> HIDE DEF G
  <2> QED BY <2>1, SubsetInduction
<1> QED BY <1>2

\* What is known of the sum of a function over all of its arguments.
LEMMA SumEmpty == ASSUME NEW f, DOMAIN f = {} PROVE SumFunction(f) = 0
  BY FS_EmptySet, SumUnfolds DEF SumFunction

LEMMA SumInt ==
  ASSUME NEW S, IsFiniteSet(S), NEW f \in [S -> Int]
  PROVE  SumFunction(f) \in Int
  BY SumTakes DEF SumFunction

\* Sums of two functions that differ at one argument only.
LEMMA SumsDiffer ==
  ASSUME NEW S, IsFiniteSet(S), NEW f \in [S -> Int], NEW g \in [S -> Int],
         NEW x \in S, \A y \in S \ {x} : f[y] = g[y]
  PROVE  SumFunction(g) = SumFunction(f) + (g[x] - f[x])
<1> DEFINE F(T) == SumFunctionOnSet(f, T)
           H(T) == SumFunctionOnSet(g, T)
           rest == S \ {x}
           G == {T \in SUBSET rest : F(T) = H(T)}
<1>1. \A T \in SUBSET S : F(T) \in Int /\ \A y \in T : F(T) = f[y] + F(T \ {y})
  BY SumTakes
<1>2. \A T \in SUBSET S : H(T) \in Int /\ \A y \in T : H(T) = g[y] + H(T \ {y})
  BY SumTakes
<1>3. F({}) = 0 /\ H({}) = 0
  BY SumUnfolds
<1> HIDE DEF F, H
<1>4. ASSUME NEW T \in SUBSET rest, \A U \in SUBSET T : U # T => U \in G
      PROVE  T \in G
  <2>1. CASE T = {}
    BY <1>3, <2>1
  <2>2. ASSUME NEW y \in T PROVE T \in G
    <3>1. T \ {y} \in G
      BY <1>4
    <3> QED BY <1>1, <1>2, <3>1
  <2> QED BY <2>1, <2>2
<1>5. IsFiniteSet(rest)
  BY FS_Subset
<1>6. \A T \in SUBSET rest : T \in G
  <2> HIDE DEF G, rest
  <2> QED BY <1>4, <1>5, SubsetInduction
<1>7. F(rest) = H(rest)
  BY <1>6
<1>8. F(S) = f[x] + F(rest) /\ H(S) = g[x] + H(rest) /\ F(rest) \in Int
  BY <1>1, <1>2
<1>9. f[x] \in Int /\ g[x] \in Int /\ DOMAIN f = S /\ DOMAIN g = S
  OBVIOUS
<1> HIDE DEF rest
<1>10. H(S) = F(S) + (g[x] - f[x])
  BY <1>7, <1>8, <1>9
<1> QED BY <1>9, <1>10 DEF SumFunction, F, H

-----------------------------------------------------------------------------
(* Comparisons *)

\* A larger function has a larger sum, and an equal sum only if it is no larger
\* anywhere.
LEMMA SumsCompare ==
  ASSUME NEW S, IsFiniteSet(S), NEW f \in [S -> Int], NEW g \in [S -> Int],
         \A x \in S : f[x] <= g[x]
  PROVE  /\ SumFunction(f) <= SumFunction(g)
         /\ SumFunction(f) = SumFunction(g) => \A x \in S : f[x] = g[x]
<1> DEFINE F(T) == SumFunctionOnSet(f, T)
           H(T) == SumFunctionOnSet(g, T)
           Compare(T) == F(T) <= H(T) /\ (F(T) = H(T) => \A x \in T : f[x] = g[x])
           G == {T \in SUBSET S : Compare(T)}
<1>1. \A T \in SUBSET S : F(T) \in Int /\ H(T) \in Int
  BY SumTakes
<1>2. ASSUME NEW T \in SUBSET S, NEW x \in T PROVE F(T) = f[x] + F(T \ {x}) /\ H(T) = g[x] + H(T \ {x})
  BY SumTakes
<1>3. F({}) = 0 /\ H({}) = 0
  BY SumUnfolds
<1> HIDE DEF F, H
<1>4. ASSUME NEW T \in SUBSET S, \A U \in SUBSET T : U # T => U \in G
      PROVE  T \in G
  <2>1. CASE T = {}
    BY <1>3, <2>1
  <2>2. ASSUME NEW x \in T PROVE T \in G
    <3> DEFINE U == T \ {x}
    <3>1. U \in G
      BY <1>4
    <3>2. F(U) \in Int /\ H(U) \in Int /\ f[x] \in Int /\ g[x] \in Int /\ f[x] <= g[x]
      BY <1>1
    <3>3. F(T) = f[x] + F(U) /\ H(T) = g[x] + H(U)
      BY <1>2
    <3>4. F(T) <= H(T) /\ (F(T) = H(T) => f[x] = g[x] /\ F(U) = H(U))
      <4> HIDE DEF U
      <4>1. F(U) <= H(U)
        BY <3>1
      <4> QED BY <3>2, <3>3, <4>1
    <3>5. F(T) = H(T) => \A y \in T : f[y] = g[y]
      BY <3>1, <3>4
    <3> QED BY <3>4, <3>5
  <2> QED BY <2>1, <2>2
<1>5. \A T \in SUBSET S : T \in G
  <2> HIDE DEF G
  <2> QED BY <1>4, SubsetInduction
<1>6. S \in G /\ DOMAIN f = S /\ DOMAIN g = S
  BY <1>5
<1> QED BY <1>6 DEF SumFunction, F, H

\* A function that is nothing anywhere has no sum.
LEMMA SumZero ==
  ASSUME NEW S, IsFiniteSet(S), NEW f, DOMAIN f = S, \A x \in S : f[x] = 0
  PROVE  SumFunction(f) = 0
<1> DEFINE F(T) == SumFunctionOnSet(f, T)
           G == {T \in SUBSET S : F(T) = 0}
<1>1. \A T \in SUBSET S : F(T) \in Int /\ \A y \in T : F(T) = f[y] + F(T \ {y})
  BY SumTakes
<1>2. F({}) = 0
  BY SumUnfolds
<1> HIDE DEF F
<1>3. ASSUME NEW T \in SUBSET S, \A U \in SUBSET T : U # T => U \in G
      PROVE  T \in G
  <2>1. CASE T = {}
    BY <1>2, <2>1
  <2>2. ASSUME NEW y \in T PROVE T \in G
    <3>1. T \ {y} \in G
      BY <1>3
    <3>2. F(T) = f[y] + F(T \ {y}) /\ F(T \ {y}) \in Int /\ f[y] \in Int
      BY <1>1
    <3> QED BY <3>1, <3>2
  <2> QED BY <2>1, <2>2
<1>4. \A T \in SUBSET S : T \in G
  <2> HIDE DEF G
  <2> QED BY <1>3, SubsetInduction
<1>5. S \in G /\ DOMAIN f = S
  BY <1>4
<1> QED BY <1>5 DEF SumFunction, F

LEMMA SumNat ==
  ASSUME NEW S, IsFiniteSet(S), NEW f \in [S -> Nat]
  PROVE  SumFunction(f) \in Nat
<1> DEFINE zero == [x \in S |-> 0]
<1>1. zero \in [S -> Int] /\ f \in [S -> Int] /\ \A x \in S : zero[x] <= f[x]
  OBVIOUS
<1>2. SumFunction(zero) <= SumFunction(f) /\ SumFunction(f) \in Int
  <2> HIDE DEF zero
  <2> QED BY <1>1, SumsCompare, SumInt
<1>3. SumFunction(zero) = 0
  BY SumZero
<1> HIDE DEF zero
<1> QED BY <1>2, <1>3

-----------------------------------------------------------------------------
(* Multiples *)

LEMMA SumOfMultiples ==
  ASSUME NEW S, IsFiniteSet(S), NEW f \in [S -> Int], NEW d \in Nat \ {0},
         \A x \in S : f[x] % d = 0
  PROVE  SumFunction(f) % d = 0
<1> DEFINE F(T) == SumFunctionOnSet(f, T)
           G == {T \in SUBSET S : F(T) % d = 0}
<1>1. \A T \in SUBSET S : F(T) \in Int /\ \A y \in T : F(T) = f[y] + F(T \ {y})
  BY SumTakes
<1>2. F({}) = 0
  BY SumUnfolds
<1> HIDE DEF F
<1>3. ASSUME NEW T \in SUBSET S, \A U \in SUBSET T : U # T => U \in G
      PROVE  T \in G
  <2>1. CASE T = {}
    BY <1>2, <2>1
  <2>2. ASSUME NEW y \in T PROVE T \in G
    <3>1. T \ {y} \in G
      BY <1>3
    <3>2. F(T) = f[y] + F(T \ {y}) /\ F(T \ {y}) \in Int /\ f[y] \in Int
      BY <1>1
    <3> QED BY <3>1, <3>2
  <2> QED BY <2>1, <2>2
<1>4. \A T \in SUBSET S : T \in G
  <2> HIDE DEF G
  <2> QED BY <1>3, SubsetInduction
<1>5. S \in G /\ DOMAIN f = S
  BY <1>4
<1> QED BY <1>5 DEF SumFunction, F

=============================================================================
