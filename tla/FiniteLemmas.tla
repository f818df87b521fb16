---------------------------- MODULE FiniteLemmas ----------------------------
(***************************************************************************)
(* Lemmas about finite sets: what the community modules' Min promises of a *)
(* set of natural numbers, because < is well founded; sums over a finite   *)
(* set, because its subsets are well founded; and the order in which       *)
(* InOrder lists a finite set of numbers.  The library's induction         *)
(* theorems take an operator; here a least counterexample takes their      *)
(* place.                                                                  *)
(***************************************************************************)
EXTENDS Integers, Sequences, FiniteSetsExt, SumOver, InOrder, FiniteSetTheorems, SequenceTheorems,
        WellFoundedInduction, TLAPS

Less == OpToRel(<, Nat)

\* The library's theorem about <, for this relation.
LEMMA LessIsWellFounded == IsWellFoundedOn(Less, Nat)
BY NatLessThanWellFounded DEF Less

\* What it relates.
LEMMA LessRelates == \A x, y \in Nat : x < y => <<x, y>> \in Less
BY DEF Less, OpToRel

\* A set of naturals that is not empty has a least member.
LEMMA LeastMember ==
  ASSUME NEW S, S \subseteq Nat, S # {}
  PROVE  \E x \in S : \A y \in S : x <= y
<1>1. PICK x \in S : \A y \in S : ~(<<y, x>> \in Less)
  BY LessIsWellFounded, WFMin
<1>2. \A y \in S : ~(y < x)
  BY <1>1, LessRelates, Zenon
<1>3. \A y \in S : x <= y
  BY <1>2
<1> QED
  BY <1>3

\* A set of naturals that is not empty contains its Min.
LEMMA MinIsMember ==
  ASSUME NEW S, S \subseteq Nat, S # {}
  PROVE  Min(S) \in S
<1>1. \E x \in S : \A y \in S : x <= y
  BY LeastMember
<1> QED
  BY <1>1 DEF Min

\* No member is less than it.
LEMMA MinIsLeast ==
  ASSUME NEW S, S \subseteq Nat, S # {}
  PROVE  \A x \in S : Min(S) <= x
<1>1. \E x \in S : \A y \in S : x <= y
  BY LeastMember
<1> QED
  BY <1>1 DEF Min

\* A set of naturals with zero and every successor is all of them.
LEMMA Induction ==
  ASSUME NEW S, S \subseteq Nat, 0 \in S, \A n \in S : n + 1 \in S
  PROVE  S = Nat
<1>1. SUFFICES ASSUME Nat \ S # {} PROVE FALSE
  OBVIOUS
<1>2. PICK x \in Nat \ S : \A y \in Nat \ S : x <= y
  BY <1>1, LeastMember
<1>3. x # 0 /\ x - 1 \in Nat /\ x - 1 \in S /\ (x - 1) + 1 = x
  BY <1>2
<1> QED
  BY <1>2, <1>3

\* Of a set of finite sets that is not empty, one has no member smaller than itself.
LEMMA LeastSet ==
  ASSUME NEW F, F # {}, \A T \in F : IsFiniteSet(T)
  PROVE  \E T \in F : \A U \in F : Cardinality(T) <= Cardinality(U)
<1> DEFINE sizes == {Cardinality(T) : T \in F}
<1>1. sizes \subseteq Nat /\ sizes # {}
  BY FS_CardinalityType
<1>2. PICK n \in sizes : \A m \in sizes : n <= m
  <2> HIDE DEF sizes
  <2> QED BY <1>1, LeastMember
<1> QED
  BY <1>2

\* The values of a function on a finite set are finitely many, and no more than its places.
LEMMA ImageFinite ==
  ASSUME NEW f, NEW S, IsFiniteSet(S)
  PROVE  /\ IsFiniteSet({f[x] : x \in S})
         /\ Cardinality({f[x] : x \in S}) <= Cardinality(S)
<1> DEFINE T == {f[x] : x \in S}
           g == [x \in S |-> f[x]]
<1>1. g \in Surjection(S, T)
  BY DEF Surjection
<1> QED
  BY <1>1, FS_Surjection

-----------------------------------------------------------------------------
\* The recursion a sum is defined by.
AnyOf(s)   == CHOOSE x \in s : TRUE
SumStep(f, g, s) == IF s = {} THEN 0 ELSE f[AnyOf(s)] + g[s \ {AnyOf(s)}]
PartialSum(f, S) == CHOOSE g : g = [s \in SUBSET S |-> SumStep(f, g, s)]

\* A sum is the recursion's value at the whole set.
LEMMA SumIsPartial ==
  ASSUME NEW f, NEW S
  PROVE  Sum(f, S) = PartialSum(f, S)[S]
BY DEF Sum, MapThenSumSet, MapThenFoldSet, PartialSum, SumStep, AnyOf

\* The subsets a recursion to depth n reaches.
SmallSubsets(S, n) == {s \in SUBSET S : Cardinality(s) <= n}

\* The recursion has a solution.
LEMMA PartialExists ==
  ASSUME NEW f, NEW S, IsFiniteSet(S)
  PROVE  \A s \in SUBSET S : PartialSum(f, S)[s] = SumStep(f, PartialSum(f, S), s)
<1> DEFINE Good == {n \in Nat : \E g : g = [s \in SmallSubsets(S, n) |-> SumStep(f, g, s)]}
<1>0. \A s \in SUBSET S : IsFiniteSet(s) /\ Cardinality(s) \in Nat /\ Cardinality(s) <= Cardinality(S)
  BY FS_Subset, FS_CardinalityType
<1>1. 0 \in Good
  <2> DEFINE g == [s \in SmallSubsets(S, 0) |-> 0]
  <2>1. \A s \in SmallSubsets(S, 0) : s = {}
    BY <1>0, FS_EmptySet DEF SmallSubsets
  <2>2. g = [s \in SmallSubsets(S, 0) |-> SumStep(f, g, s)]
    BY <2>1 DEF SumStep
  <2> QED BY <2>2
<1>2. \A n \in Good : n + 1 \in Good
  <2> TAKE n \in Good
  <2>1. PICK g : g = [s \in SmallSubsets(S, n) |-> SumStep(f, g, s)]
    OBVIOUS
  <2> DEFINE h == [s \in SmallSubsets(S, n + 1) |-> SumStep(f, g, s)]
  <2>2. \A s \in SmallSubsets(S, n + 1) : s # {} => AnyOf(s) \in s /\ s \ {AnyOf(s)} \in SmallSubsets(S, n)
    <3> SUFFICES ASSUME NEW s \in SmallSubsets(S, n + 1), s # {}
                 PROVE  AnyOf(s) \in s /\ s \ {AnyOf(s)} \in SmallSubsets(S, n)
      OBVIOUS
    <3>1. AnyOf(s) \in s
      BY DEF AnyOf
    <3>2. IsFiniteSet(s) /\ Cardinality(s) \in Nat /\ Cardinality(s) <= n + 1
      BY <1>0 DEF SmallSubsets
    <3>3. Cardinality(s \ {AnyOf(s)}) = Cardinality(s) - 1
      BY <3>1, <3>2, FS_RemoveElement
    <3> QED
      BY <3>1, <3>2, <3>3 DEF SmallSubsets
  <2>3. \A s \in SmallSubsets(S, n) : s \in SmallSubsets(S, n + 1)
    BY <1>0 DEF SmallSubsets
  <2>4. \A s \in SmallSubsets(S, n) : h[s] = g[s]
    BY <2>1, <2>3
  <2>5. \A s \in SmallSubsets(S, n + 1) : SumStep(f, g, s) = SumStep(f, h, s)
    BY <2>2, <2>4 DEF SumStep
  <2>6. h = [s \in SmallSubsets(S, n + 1) |-> SumStep(f, h, s)]
    BY <2>5
  <2>7. \E k : k = [s \in SmallSubsets(S, n + 1) |-> SumStep(f, k, s)]
    BY <2>6
  <2> QED BY <2>7
<1>3. Good = Nat
  <2> HIDE DEF Good
  <2>1. Good \subseteq Nat
    BY DEF Good
  <2> QED BY <1>1, <1>2, <2>1, Induction
<1>4. SmallSubsets(S, Cardinality(S)) = SUBSET S
  BY <1>0 DEF SmallSubsets
<1>5. Cardinality(S) \in Nat
  BY FS_CardinalityType
<1>6. \E g : g = [s \in SmallSubsets(S, Cardinality(S)) |-> SumStep(f, g, s)]
  <2>1. Cardinality(S) \in Good
    BY <1>3, <1>5
  <2> QED BY <2>1
<1>7. \E g : g = [s \in SUBSET S |-> SumStep(f, g, s)]
  BY <1>4, <1>6
<1>8. PartialSum(f, S) = [s \in SUBSET S |-> SumStep(f, PartialSum(f, S), s)]
  BY <1>7 DEF PartialSum
<1>9. \A g : g = [s \in SUBSET S |-> SumStep(f, g, s)] => \A s \in SUBSET S : g[s] = SumStep(f, g, s)
  OBVIOUS
<1> QED
  BY <1>8, <1>9

\* The recursion, step by step.
LEMMA PartialStep ==
  ASSUME NEW f, NEW S, IsFiniteSet(S), NEW T \in SUBSET S
  PROVE  PartialSum(f, S)[T] = IF T = {} THEN 0 ELSE f[AnyOf(T)] + PartialSum(f, S)[T \ {AnyOf(T)}]
<1>1. PartialSum(f, S)[T] = SumStep(f, PartialSum(f, S), T)
  BY PartialExists
<1> QED
  BY <1>1 DEF SumStep

\* Its value at a set does not depend on the whole set.
LEMMA PartialLocal ==
  ASSUME NEW f, NEW S, IsFiniteSet(S), NEW R \in SUBSET S
  PROVE  \A T \in SUBSET R : PartialSum(f, S)[T] = PartialSum(f, R)[T]
<1> DEFINE Bad == {T \in SUBSET R : PartialSum(f, S)[T] # PartialSum(f, R)[T]}
<1>0. IsFiniteSet(R) /\ \A T \in SUBSET R : IsFiniteSet(T)
  BY FS_Subset
<1>1. SUFFICES ASSUME Bad # {} PROVE FALSE
  OBVIOUS
<1>2. PICK T \in Bad : \A U \in Bad : Cardinality(T) <= Cardinality(U)
  <2>1. \A T \in Bad : IsFiniteSet(T)
    BY <1>0
  <2> HIDE DEF Bad
  <2> QED BY <1>1, <2>1, LeastSet
<1>3. T # {}
  BY PartialStep, <1>0
<1>4. AnyOf(T) \in T
  BY <1>3 DEF AnyOf
<1> DEFINE U == T \ {AnyOf(T)}
<1>5. U \in SUBSET R /\ Cardinality(U) = Cardinality(T) - 1 /\ Cardinality(T) \in Nat
  BY <1>0, <1>4, FS_RemoveElement, FS_CardinalityType
<1>6. PartialSum(f, S)[U] = PartialSum(f, R)[U]
  BY <1>2, <1>5
<1>7. T \in SUBSET S /\ T \in SUBSET R
  BY <1>2
<1>8. PartialSum(f, S)[T] = f[AnyOf(T)] + PartialSum(f, S)[U]
  <2> HIDE DEF Bad
  <2> QED BY <1>3, <1>7, PartialStep
<1>9. PartialSum(f, R)[T] = f[AnyOf(T)] + PartialSum(f, R)[U]
  <2> HIDE DEF Bad
  <2> QED BY <1>0, <1>3, <1>7, PartialStep
<1> QED
  BY <1>2, <1>6, <1>8, <1>9

\* Of nothing, the sum is zero.
LEMMA SumEmpty == ASSUME NEW f PROVE Sum(f, {}) = 0
BY SumIsPartial, PartialStep, FS_EmptySet

\* A sum takes its first member out.
LEMMA SumFirst ==
  ASSUME NEW f, NEW S, IsFiniteSet(S), S # {}
  PROVE  AnyOf(S) \in S /\ Sum(f, S) = f[AnyOf(S)] + Sum(f, S \ {AnyOf(S)})
<1>1. AnyOf(S) \in S
  BY DEF AnyOf
<1>2. Sum(f, S) = f[AnyOf(S)] + PartialSum(f, S)[S \ {AnyOf(S)}]
  BY SumIsPartial, PartialStep
<1>3. PartialSum(f, S)[S \ {AnyOf(S)}] = PartialSum(f, S \ {AnyOf(S)})[S \ {AnyOf(S)}]
  BY PartialLocal
<1> QED
  BY <1>1, <1>2, <1>3, SumIsPartial

\* A sum of integers is one, and it takes any member out.
LEMMA SumRemove ==
  ASSUME NEW f, NEW S, IsFiniteSet(S), \A x \in S : f[x] \in Int
  PROVE  Sum(f, S) \in Int /\ \A x \in S : Sum(f, S) = f[x] + Sum(f, S \ {x})
<1> DEFINE Good(T) == Sum(f, T) \in Int /\ \A x \in T : Sum(f, T) = f[x] + Sum(f, T \ {x})
           Bad == {T \in SUBSET S : ~Good(T)}
<1>0. \A T \in SUBSET S : IsFiniteSet(T)
  BY FS_Subset
<1>1. SUFFICES ASSUME Bad # {} PROVE FALSE
  OBVIOUS
<1>2. PICK T \in Bad : \A U \in Bad : Cardinality(T) <= Cardinality(U)
  <2>1. \A T \in Bad : IsFiniteSet(T)
    BY <1>0
  <2> HIDE DEF Bad
  <2> QED BY <1>1, <2>1, LeastSet
<1>3. IsFiniteSet(T) /\ Cardinality(T) \in Nat /\ T \in SUBSET S
  BY <1>0, FS_CardinalityType
<1>4. ASSUME NEW x \in T PROVE Good(T \ {x})
  <2>1. Cardinality(T \ {x}) = Cardinality(T) - 1
    BY <1>3, FS_RemoveElement
  <2>2. ~(Cardinality(T) <= Cardinality(T \ {x}))
    BY <1>3, <2>1
  <2>3. T \ {x} \notin Bad
    BY <1>2, <2>2, Zenon
  <2> QED
    BY <1>3, <2>3
<1>5. T # {}
  <2>1. Good({})
    BY SumEmpty
  <2> QED
    BY <1>2, <2>1
<1> DEFINE y == AnyOf(T)
<1>6. y \in T /\ Sum(f, T) = f[y] + Sum(f, T \ {y})
  BY <1>3, <1>5, SumFirst
<1>7. Sum(f, T) \in Int
  BY <1>3, <1>4, <1>6
<1>8. ASSUME NEW x \in T PROVE Sum(f, T) = f[x] + Sum(f, T \ {x})
  <2>1. CASE x = y
    BY <1>6, <2>1
  <2>2. CASE x # y
    <3>1. Sum(f, T \ {y}) = f[x] + Sum(f, (T \ {y}) \ {x})
      BY <1>4, <1>6, <2>2
    <3>2. Sum(f, T \ {x}) = f[y] + Sum(f, (T \ {x}) \ {y}) /\ Sum(f, T \ {x}) \in Int
      BY <1>4, <1>6, <2>2
    <3>3. (T \ {x}) \ {y} = (T \ {y}) \ {x}
      OBVIOUS
    <3>4. f[x] \in Int /\ f[y] \in Int
      BY <1>3, <1>6
    <3>5. Sum(f, (T \ {y}) \ {x}) \in Int
      <4>1. Good((T \ {y}) \ {x})
        <5>1. IsFiniteSet(T \ {y}) /\ Cardinality(T \ {y}) = Cardinality(T) - 1
          BY <1>3, <1>6, FS_RemoveElement
        <5>2. Cardinality((T \ {y}) \ {x}) = Cardinality(T) - 2
          <6>1. x \in T \ {y}
            BY <2>2
          <6>2. Cardinality((T \ {y}) \ {x}) = Cardinality(T \ {y}) - 1
            BY <5>1, <6>1, FS_RemoveElement
          <6> QED BY <1>3, <5>1, <6>2
        <5>3. ~(Cardinality(T) <= Cardinality((T \ {y}) \ {x}))
          BY <1>3, <5>2
        <5>4. (T \ {y}) \ {x} \notin Bad
          BY <1>2, <5>3, Zenon
        <5> QED
          BY <1>3, <5>4
      <4> QED BY <4>1
    <3> DEFINE W == Sum(f, (T \ {y}) \ {x})
    <3>6. Sum(f, T) = f[y] + (f[x] + W) /\ Sum(f, T \ {x}) = f[y] + W
      BY <1>6, <3>1, <3>2, <3>3
    <3> HIDE DEF W, y
    <3>7. W \in Int
      BY <3>5 DEF W
    <3> QED
      BY <3>4, <3>6, <3>7
  <2> QED BY <2>1, <2>2
<1> QED
  BY <1>2, <1>7, <1>8

-----------------------------------------------------------------------------
\* A family with the empty set, and with every member one element more, has the whole set.
LEMMA SetInduction ==
  ASSUME NEW S, IsFiniteSet(S), NEW G, {} \in G,
         \A T \in SUBSET S : \A x \in S \ T : T \in G => T \cup {x} \in G
  PROVE  S \in G
<1> DEFINE Bad == {T \in SUBSET S : T \notin G}
<1>0. \A T \in SUBSET S : IsFiniteSet(T)
  BY FS_Subset
<1>1. SUFFICES ASSUME Bad # {} PROVE FALSE
  OBVIOUS
<1>2. PICK T \in Bad : \A U \in Bad : Cardinality(T) <= Cardinality(U)
  <2>1. \A T \in Bad : IsFiniteSet(T)
    BY <1>0
  <2> HIDE DEF Bad
  <2> QED BY <1>1, <2>1, LeastSet
<1>3. PICK x \in T : TRUE
  BY <1>2
<1>4. Cardinality(T \ {x}) = Cardinality(T) - 1 /\ Cardinality(T) \in Nat
  BY <1>0, FS_RemoveElement, FS_CardinalityType
<1>5. ~(Cardinality(T) <= Cardinality(T \ {x}))
  BY <1>4
<1>6. T \ {x} \in G
  <2>1. T \ {x} \notin Bad
    BY <1>2, <1>5, Zenon
  <2> QED BY <2>1
<1>7. (T \ {x}) \cup {x} = T /\ x \in S \ (T \ {x}) /\ T \ {x} \in SUBSET S
  OBVIOUS
<1>8. T \in G
  BY <1>6, <1>7, Zenon
<1> QED
  BY <1>8

\* One element more.
LEMMA SumAdd ==
  ASSUME NEW f, NEW S, IsFiniteSet(S), NEW x, x \notin S, \A y \in S \cup {x} : f[y] \in Int
  PROVE  Sum(f, S \cup {x}) = Sum(f, S) + f[x] /\ Sum(f, S) \in Int
<1>1. IsFiniteSet(S \cup {x}) /\ (S \cup {x}) \ {x} = S
  BY FS_AddElement
<1>2. Sum(f, S \cup {x}) = f[x] + Sum(f, S)
  BY <1>1, SumRemove
<1>3. Sum(f, S) \in Int
  BY SumRemove
<1> QED
  BY <1>2, <1>3

\* A sum of naturals is one.
LEMMA SumNat ==
  ASSUME NEW f, NEW S, IsFiniteSet(S), \A x \in S : f[x] \in Nat
  PROVE  Sum(f, S) \in Nat
<1> DEFINE G == {T \in SUBSET S : Sum(f, T) \in Nat}
<1>1. {} \in G
  BY SumEmpty
<1>2. \A T \in SUBSET S : \A x \in S \ T : T \in G => T \cup {x} \in G
  <2> SUFFICES ASSUME NEW T \in SUBSET S, NEW x \in S \ T, T \in G PROVE T \cup {x} \in G
    OBVIOUS
  <2>1. Sum(f, T \cup {x}) = Sum(f, T) + f[x]
    BY FS_Subset, SumAdd
  <2> QED BY <2>1
<1> HIDE DEF G
<1>3. S \in G
  BY <1>1, <1>2, SetInduction
<1> QED
  BY <1>3 DEF G

\* A sum is monotone in what it sums.
LEMMA SumLeq ==
  ASSUME NEW f, NEW g, NEW S, IsFiniteSet(S),
         \A x \in S : f[x] \in Int /\ g[x] \in Int /\ f[x] <= g[x]
  PROVE  Sum(f, S) <= Sum(g, S)
<1> DEFINE G == {T \in SUBSET S : Sum(f, T) <= Sum(g, T)}
<1>1. {} \in G
  BY SumEmpty
<1>2. \A T \in SUBSET S : \A x \in S \ T : T \in G => T \cup {x} \in G
  <2> SUFFICES ASSUME NEW T \in SUBSET S, NEW x \in S \ T, T \in G PROVE T \cup {x} \in G
    OBVIOUS
  <2>1. /\ Sum(f, T \cup {x}) = Sum(f, T) + f[x] /\ Sum(f, T) \in Int
        /\ Sum(g, T \cup {x}) = Sum(g, T) + g[x] /\ Sum(g, T) \in Int
    BY FS_Subset, SumAdd
  <2>2. f[x] \in Int /\ g[x] \in Int /\ f[x] <= g[x] /\ Sum(f, T) <= Sum(g, T)
    OBVIOUS
  <2> QED BY <2>1, <2>2
<1> HIDE DEF G
<1>3. S \in G
  BY <1>1, <1>2, SetInduction
<1> QED
  BY <1>3 DEF G

\* Two functions with the same values have the same sum.
LEMMA SumSame ==
  ASSUME NEW f, NEW g, NEW S, IsFiniteSet(S), \A x \in S : f[x] \in Int /\ g[x] = f[x]
  PROVE  Sum(g, S) = Sum(f, S)
<1>1. Sum(f, S) <= Sum(g, S) /\ Sum(g, S) <= Sum(f, S)
  BY SumLeq
<1>2. Sum(f, S) \in Int /\ Sum(g, S) \in Int
  BY SumRemove
<1> QED
  BY <1>1, <1>2

\* A function that differs at one place.
LEMMA SumChange ==
  ASSUME NEW f, NEW g, NEW S, IsFiniteSet(S), NEW y \in S,
         \A x \in S : f[x] \in Int /\ g[x] \in Int /\ (x # y => g[x] = f[x])
  PROVE  /\ Sum(f, S) \in Int /\ Sum(g, S) \in Int
         /\ Sum(g, S) = Sum(f, S) + (g[y] - f[y])
<1>1. IsFiniteSet(S \ {y})
  BY FS_RemoveElement
<1>2. Sum(g, S \ {y}) = Sum(f, S \ {y})
  BY <1>1, SumSame
<1>3. Sum(f, S) = f[y] + Sum(f, S \ {y}) /\ Sum(f, S) \in Int
  BY SumRemove
<1>4. Sum(g, S) = g[y] + Sum(g, S \ {y}) /\ Sum(g, S) \in Int
  BY SumRemove
<1>5. Sum(f, S \ {y}) \in Int
  BY <1>1, SumRemove
<1> QED
  BY <1>2, <1>3, <1>4, <1>5

\* The sum of two functions is the sum of their sums.
LEMMA SumPlus ==
  ASSUME NEW f, NEW g, NEW h, NEW S, IsFiniteSet(S),
         \A x \in S : f[x] \in Int /\ g[x] \in Int /\ h[x] = f[x] + g[x]
  PROVE  /\ Sum(f, S) \in Int /\ Sum(g, S) \in Int
         /\ Sum(h, S) = Sum(f, S) + Sum(g, S)
<1> DEFINE G == {T \in SUBSET S : Sum(h, T) = Sum(f, T) + Sum(g, T)}
<1>1. {} \in G
  BY SumEmpty
<1>2. \A T \in SUBSET S : \A x \in S \ T : T \in G => T \cup {x} \in G
  <2> SUFFICES ASSUME NEW T \in SUBSET S, NEW x \in S \ T, T \in G PROVE T \cup {x} \in G
    OBVIOUS
  <2>1. IsFiniteSet(T) /\ x \notin T
    BY FS_Subset
  <2>2. Sum(f, T \cup {x}) = Sum(f, T) + f[x] /\ Sum(f, T) \in Int
    BY <2>1, SumAdd
  <2>3. Sum(g, T \cup {x}) = Sum(g, T) + g[x] /\ Sum(g, T) \in Int
    BY <2>1, SumAdd
  <2>4. Sum(h, T \cup {x}) = Sum(h, T) + h[x]
    BY <2>1, SumAdd
  <2>5. f[x] \in Int /\ g[x] \in Int /\ h[x] = f[x] + g[x]
    OBVIOUS
  <2>6. Sum(h, T) = Sum(f, T) + Sum(g, T)
    OBVIOUS
  <2>7. Sum(h, T \cup {x}) = Sum(f, T \cup {x}) + Sum(g, T \cup {x})
    BY <2>2, <2>3, <2>4, <2>5, <2>6
  <2> QED BY <2>7
<1> HIDE DEF G
<1>3. S \in G
  BY <1>1, <1>2, SetInduction
<1> QED
  BY <1>3, SumRemove DEF G

\* The sum over two disjoint sets.
LEMMA SumUnion ==
  ASSUME NEW f, NEW S, IsFiniteSet(S), NEW R \in SUBSET S, \A x \in S : f[x] \in Int
  PROVE  /\ Sum(f, R) \in Int /\ Sum(f, S \ R) \in Int
         /\ Sum(f, S) = Sum(f, R) + Sum(f, S \ R)
<1> DEFINE G == {T \in SUBSET S : Sum(f, T) = Sum(f, T \cap R) + Sum(f, T \ R)}
<1>1. {} \in G
  <2>1. {} \cap R = {} /\ {} \ R = {}
    OBVIOUS
  <2> QED BY <2>1, SumEmpty
<1>2. \A T \in SUBSET S : \A x \in S \ T : T \in G => T \cup {x} \in G
  <2> SUFFICES ASSUME NEW T \in SUBSET S, NEW x \in S \ T, T \in G PROVE T \cup {x} \in G
    OBVIOUS
  <2>1. IsFiniteSet(T) /\ IsFiniteSet(T \cap R) /\ IsFiniteSet(T \ R) /\ x \notin T
    BY FS_Subset
  <2>2. Sum(f, T \cup {x}) = Sum(f, T) + f[x]
    BY <2>1, SumAdd
  <2>3. Sum(f, T \cap R) \in Int /\ Sum(f, T \ R) \in Int /\ f[x] \in Int
    BY <2>1, SumRemove
  <2>4. Sum(f, T) = Sum(f, T \cap R) + Sum(f, T \ R)
    OBVIOUS
  <2>5. Sum(f, T \cup {x}) = Sum(f, (T \cup {x}) \cap R) + Sum(f, (T \cup {x}) \ R)
    <3>1. CASE x \in R
      <4>1. (T \cup {x}) \cap R = (T \cap R) \cup {x} /\ (T \cup {x}) \ R = T \ R
        BY <3>1
      <4>2. Sum(f, (T \cap R) \cup {x}) = Sum(f, T \cap R) + f[x]
        BY <2>1, SumAdd
      <4>3. Sum(f, T \cup {x}) = (Sum(f, T \cap R) + f[x]) + Sum(f, T \ R)
        BY <2>2, <2>3, <2>4
      <4> QED BY <4>1, <4>2, <4>3
    <3>2. CASE x \notin R
      <4>1. (T \cup {x}) \cap R = T \cap R /\ (T \cup {x}) \ R = (T \ R) \cup {x}
        BY <3>2
      <4>2. Sum(f, (T \ R) \cup {x}) = Sum(f, T \ R) + f[x]
        BY <2>1, SumAdd
      <4>3. Sum(f, T \cup {x}) = Sum(f, T \cap R) + (Sum(f, T \ R) + f[x])
        BY <2>2, <2>3, <2>4
      <4> QED BY <4>1, <4>2, <4>3
    <3> QED BY <3>1, <3>2
  <2> QED BY <2>5
<1> HIDE DEF G
<1>3. S \in G
  BY <1>1, <1>2, SetInduction
<1>4. S \cap R = R
  OBVIOUS
<1>5. IsFiniteSet(R) /\ IsFiniteSet(S \ R)
  BY FS_Subset
<1> QED
  BY <1>3, <1>4, <1>5, SumRemove DEF G

\* No summand is above the bound, so neither is the sum above as many bounds.
LEMMA SumBound ==
  ASSUME NEW f, NEW S, IsFiniteSet(S), NEW c \in Nat, \A x \in S : f[x] \in Nat /\ f[x] <= c
  PROVE  Sum(f, S) <= Cardinality(S) * c
<1> DEFINE G == {T \in SUBSET S : Sum(f, T) <= Cardinality(T) * c}
<1>1. {} \in G
  BY SumEmpty, FS_EmptySet
<1>2. \A T \in SUBSET S : \A x \in S \ T : T \in G => T \cup {x} \in G
  <2> SUFFICES ASSUME NEW T \in SUBSET S, NEW x \in S \ T, T \in G PROVE T \cup {x} \in G
    OBVIOUS
  <2>1. IsFiniteSet(T) /\ x \notin T
    BY FS_Subset
  <2>2. Sum(f, T \cup {x}) = Sum(f, T) + f[x] /\ Sum(f, T) \in Int
    BY <2>1, SumAdd
  <2>3. Cardinality(T \cup {x}) = Cardinality(T) + 1 /\ Cardinality(T) \in Nat
    BY <2>1, FS_AddElement, FS_CardinalityType
  <2>4. (Cardinality(T) + 1) * c = Cardinality(T) * c + c
    BY <2>3
  <2>5. Cardinality(T) * c \in Int
    BY <2>3
  <2>6. f[x] \in Nat /\ f[x] <= c /\ Sum(f, T) <= Cardinality(T) * c
    OBVIOUS
  <2>7. Sum(f, T \cup {x}) <= Cardinality(T \cup {x}) * c
    BY <2>2, <2>3, <2>4, <2>5, <2>6
  <2> QED BY <2>7
<1> HIDE DEF G
<1>3. S \in G
  BY <1>1, <1>2, SetInduction
<1> QED
  BY <1>3 DEF G
-----------------------------------------------------------------------------
\* The members up to one of them, and how many there are.
UpTo(S, x) == {y \in S : y <= x}

\* They are finitely many, and no more than all.
LEMMA UpToFinite ==
  ASSUME NEW S, IsFiniteSet(S), NEW x
  PROVE  /\ IsFiniteSet(UpTo(S, x)) /\ Cardinality(UpTo(S, x)) \in Nat /\ Cardinality(S) \in Nat
         /\ Cardinality(UpTo(S, x)) <= Cardinality(S)
<1>1. UpTo(S, x) \subseteq S
  BY DEF UpTo
<1>2. IsFiniteSet(UpTo(S, x)) /\ Cardinality(UpTo(S, x)) <= Cardinality(S)
  BY <1>1, FS_Subset
<1> QED
  BY <1>2, FS_CardinalityType

\* Up to a greater one there are more.
LEMMA UpToMore ==
  ASSUME NEW S, S \subseteq Int, IsFiniteSet(S), NEW x \in S, NEW z \in S, x < z
  PROVE  Cardinality(UpTo(S, x)) < Cardinality(UpTo(S, z))
<1>1. UpTo(S, x) \subseteq UpTo(S, z) /\ z \in UpTo(S, z) /\ z \notin UpTo(S, x)
  <2>1. x \in Int /\ z \in Int /\ \A y \in S : y \in Int
    OBVIOUS
  <2>2. ~(z <= x) /\ z <= z /\ \A y \in S : y <= x => y <= z
    BY <2>1
  <2> QED
    BY <2>2 DEF UpTo
<1>2. UpTo(S, x) \cup {z} \subseteq UpTo(S, z)
  BY <1>1
<1>3. IsFiniteSet(UpTo(S, z)) /\ IsFiniteSet(UpTo(S, x)) /\ Cardinality(UpTo(S, x)) \in Nat
      /\ Cardinality(UpTo(S, z)) \in Nat
  BY UpToFinite
<1>4. Cardinality(UpTo(S, x) \cup {z}) = Cardinality(UpTo(S, x)) + 1
  BY <1>1, <1>3, FS_AddElement
<1>5. Cardinality(UpTo(S, x) \cup {z}) <= Cardinality(UpTo(S, z))
  BY <1>2, <1>3, FS_Subset
<1> QED
  BY <1>3, <1>4, <1>5

\* There is a member of every rank.
LEMMA RankTaken ==
  ASSUME NEW S, S \subseteq Nat, IsFiniteSet(S), NEW k \in 1 .. Cardinality(S)
  PROVE  \E x \in S : Cardinality(UpTo(S, x)) = k
<1> DEFINE G == {n \in Nat : n + 1 <= Cardinality(S) => \E x \in S : Cardinality(UpTo(S, x)) = n + 1}
<1>0. Cardinality(S) \in Nat
  BY FS_CardinalityType
<1>1. 0 \in G
  <2> SUFFICES ASSUME 1 <= Cardinality(S) PROVE \E x \in S : Cardinality(UpTo(S, x)) = 1
    OBVIOUS
  <2>1. S # {}
    <3>1. Cardinality({}) = 0
      BY FS_EmptySet
    <3> QED
      BY <1>0, <3>1
  <2>2. PICK x \in S : \A y \in S : x <= y
    BY <2>1, LeastMember
  <2>3. UpTo(S, x) = {x}
    <3>1. x \in Int /\ \A y \in S : y \in Int
      OBVIOUS
    <3>2. \A y \in S : y <= x <=> y = x
      BY <2>2, <3>1
    <3> QED
      BY <3>2 DEF UpTo
  <2>4. Cardinality({x}) = 1
    BY FS_Singleton
  <2> QED
    BY <2>3, <2>4
<1>2. ASSUME NEW n \in G PROVE n + 1 \in G
  <2> SUFFICES ASSUME n + 2 <= Cardinality(S) PROVE \E z \in S : Cardinality(UpTo(S, z)) = n + 2
    OBVIOUS
  <2>1. n \in Nat /\ n + 1 <= Cardinality(S)
    BY <1>0
  <2>2. PICK x \in S : Cardinality(UpTo(S, x)) = n + 1
    BY <2>1
  <2> DEFINE above == {y \in S : x < y}
  <2>3. above # {}
    <3>1. SUFFICES ASSUME above = {} PROVE FALSE
      OBVIOUS
    <3>2. \A y \in S : y <= x
      BY <3>1
    <3>3. UpTo(S, x) = S
      BY <3>2 DEF UpTo
    <3> QED
      BY <1>0, <2>1, <2>2, <3>3
  <2>4. above \subseteq Nat
    OBVIOUS
  <2>5. PICK z \in above : \A y \in above : z <= y
    BY <2>3, <2>4, LeastMember
  <2>6. UpTo(S, z) = UpTo(S, x) \cup {z} /\ z \notin UpTo(S, x) /\ z \in S
    <3>1. z \in S /\ x < z /\ x \in Int /\ z \in Int /\ \A y \in S : y \in Int
      BY <2>5
    <3>2. \A y \in S : x < y => z <= y
      BY <2>5
    <3>3. \A y \in S : y <= z <=> (y <= x \/ y = z)
      BY <3>1, <3>2
    <3>4. ~(z <= x)
      BY <3>1
    <3> QED
      BY <3>1, <3>3, <3>4 DEF UpTo
  <2>7. IsFiniteSet(UpTo(S, x))
    BY UpToFinite
  <2>8. Cardinality(UpTo(S, x) \cup {z}) = Cardinality(UpTo(S, x)) + 1
    BY <2>6, <2>7, FS_AddElement
  <2>9. Cardinality(UpTo(S, z)) = n + 2
    BY <2>1, <2>2, <2>6, <2>8
  <2> QED
    BY <2>6, <2>9
<1>3. G = Nat
  <2> HIDE DEF G
  <2>1. G \subseteq Nat
    BY DEF G
  <2> QED
    BY <1>1, <1>2, <2>1, Induction
<1>4. k - 1 \in G /\ (k - 1) + 1 = k /\ k <= Cardinality(S)
  <2>1. k \in Nat /\ k >= 1 /\ k <= Cardinality(S)
    BY <1>0
  <2> HIDE DEF G
  <2> QED
    BY <1>3, <2>1
<1> QED
  BY <1>4

\* Each place has a member of its rank.
LEMMA NthHasRank ==
  ASSUME NEW S, S \subseteq Nat, IsFiniteSet(S), NEW k \in 1 .. Cardinality(S)
  PROVE  Nth(S, k) \in S /\ Cardinality(UpTo(S, Nth(S, k))) = k
<1>1. \E x \in S : Cardinality(UpTo(S, x)) = k
  BY RankTaken
<1> QED
  BY <1>1 DEF Nth, UpTo

\* And each member is at the place of its rank.
LEMMA NthOfRank ==
  ASSUME NEW S, S \subseteq Nat, IsFiniteSet(S), NEW x \in S
  PROVE  /\ Cardinality(UpTo(S, x)) \in 1 .. Cardinality(S)
         /\ Nth(S, Cardinality(UpTo(S, x))) = x
<1> DEFINE k == Cardinality(UpTo(S, x))
<1>1. k \in Nat /\ Cardinality(S) \in Nat /\ k <= Cardinality(S)
  BY UpToFinite
<1>2. k >= 1
  <2>1. x \in UpTo(S, x) /\ IsFiniteSet(UpTo(S, x))
    BY UpToFinite DEF UpTo
  <2>2. {x} \subseteq UpTo(S, x) /\ Cardinality({x}) = 1
    BY <2>1, FS_Singleton
  <2>3. Cardinality({x}) <= Cardinality(UpTo(S, x))
    BY <2>1, <2>2, FS_Subset
  <2> QED
    BY <2>2, <2>3
<1>3. k \in 1 .. Cardinality(S)
  BY <1>1, <1>2
<1>4. Nth(S, k) \in S /\ Cardinality(UpTo(S, Nth(S, k))) = k
  <2> HIDE DEF k
  <2> QED BY <1>3, NthHasRank
<1>5. ~(Nth(S, k) < x)
  <2> SUFFICES ASSUME Nth(S, k) < x PROVE FALSE
    OBVIOUS
  <2>1. Cardinality(UpTo(S, Nth(S, k))) < Cardinality(UpTo(S, x))
    <3>1. S \subseteq Int /\ Nth(S, k) \in S
      BY <1>4
    <3> QED
      BY <3>1, UpToMore
  <2> QED
    BY <1>1, <1>4, <2>1
<1>6. ~(x < Nth(S, k))
  <2> SUFFICES ASSUME x < Nth(S, k) PROVE FALSE
    OBVIOUS
  <2>1. Cardinality(UpTo(S, x)) < Cardinality(UpTo(S, Nth(S, k)))
    <3>1. S \subseteq Int /\ Nth(S, k) \in S
      BY <1>4
    <3> QED
      BY <3>1, UpToMore
  <2> QED
    BY <1>1, <1>4, <2>1
<1>7. Nth(S, k) = x
  <2>1. Nth(S, k) \in Int /\ x \in Int
    <3>1. \A y \in S : y \in Int
      OBVIOUS
    <3> QED
      BY <1>4, <3>1, Zenon
  <2> HIDE DEF k
  <2> QED BY <1>5, <1>6, <2>1
<1> QED
  BY <1>3, <1>7

\* The members in their order are a sequence of them, each once.
LEMMA InOrderIsEach ==
  ASSUME NEW S, S \subseteq Nat, IsFiniteSet(S)
  PROVE  /\ InOrder(S) \in Seq(S) /\ Len(InOrder(S)) = Cardinality(S)
         /\ DOMAIN InOrder(S) = 1 .. Cardinality(S) /\ Cardinality(S) \in Nat
         /\ \A x \in S : \E k \in DOMAIN InOrder(S) : InOrder(S)[k] = x
         /\ \A k, l \in DOMAIN InOrder(S) : InOrder(S)[k] = InOrder(S)[l] => k = l
<1>1. Cardinality(S) \in Nat
  BY FS_CardinalityType
<1>2. \A k \in 1 .. Cardinality(S) : Nth(S, k) \in S /\ Cardinality(UpTo(S, Nth(S, k))) = k
  BY NthHasRank
<1>3. \A x \in S : \E k \in 1 .. Cardinality(S) : Nth(S, k) = x
  BY NthOfRank
<1>4. InOrder(S) \in [1 .. Cardinality(S) -> S]
  BY <1>2 DEF InOrder
<1> QED
  BY <1>1, <1>2, <1>3, <1>4 DEF InOrder

\* A greater one comes last.
LEMMA InOrderAppend ==
  ASSUME NEW S, S \subseteq Nat, IsFiniteSet(S), NEW m \in Nat, \A y \in S : y < m
  PROVE  InOrder(S \cup {m}) = Append(InOrder(S), m)
<1> DEFINE T == S \cup {m}
<1>1. m \notin S /\ T \subseteq Nat /\ IsFiniteSet(T) /\ Cardinality(T) = Cardinality(S) + 1
      /\ Cardinality(S) \in Nat
  <2>1. m \notin S
    <3> SUFFICES ASSUME m \in S PROVE FALSE
      OBVIOUS
    <3>1. m < m
      BY Zenon
    <3> QED
      BY <3>1
  <2>2. T \subseteq Nat
    BY Zenon
  <2>3. IsFiniteSet(T)
    BY FS_AddElement, Zenon
  <2>4. Cardinality(S) \in Nat
    BY FS_CardinalityType, Zenon
  <2>5. Cardinality(T) = IF m \in S THEN Cardinality(S) ELSE Cardinality(S) + 1
    BY FS_AddElement, Zenon
  <2>6. Cardinality(T) = Cardinality(S) + 1
    BY <2>1, <2>5, Zenon
  <2> QED
    BY <2>1, <2>2, <2>3, <2>4, <2>6
<1>2. ASSUME NEW k \in 1 .. Cardinality(S) PROVE Nth(T, k) = Nth(S, k)
  <2>1. Nth(S, k) \in S /\ Cardinality(UpTo(S, Nth(S, k))) = k
    BY NthHasRank
  <2>2. UpTo(T, Nth(S, k)) = UpTo(S, Nth(S, k)) /\ Nth(S, k) \in T
    <3>1. Nth(S, k) < m /\ Nth(S, k) \in Nat
      BY <2>1
    <3>2. ~(m <= Nth(S, k))
      BY <3>1
    <3> QED
      BY <2>1, <3>2 DEF UpTo
  <2>3. Nth(T, Cardinality(UpTo(T, Nth(S, k)))) = Nth(S, k)
    <3> HIDE DEF T
    <3> QED BY <1>1, <2>2, NthOfRank
  <2> QED
    BY <2>1, <2>2, <2>3
<1>3. Nth(T, Cardinality(S) + 1) = m
  <2>1. UpTo(T, m) = T
    <3>1. \A y \in S : y <= m
      OBVIOUS
    <3>2. \A y \in T : y <= m
      BY <3>1
    <3> HIDE DEF T
    <3> QED
      BY <3>2 DEF UpTo
  <2>2. Nth(T, Cardinality(UpTo(T, m))) = m
    <3>1. m \in T
      OBVIOUS
    <3> HIDE DEF T
    <3> QED BY <1>1, <3>1, NthOfRank
  <2> QED
    BY <1>1, <2>1, <2>2
<1>4. /\ InOrder(T) \in Seq(T) /\ Len(InOrder(T)) = Cardinality(S) + 1
      /\ InOrder(S) \in Seq(T) /\ Len(InOrder(S)) = Cardinality(S) /\ m \in T
  <2>1. InOrder(T) \in Seq(T) /\ Len(InOrder(T)) = Cardinality(T)
    <3> HIDE DEF T
    <3> QED BY <1>1, InOrderIsEach
  <2>2. InOrder(S) \in Seq(S) /\ Len(InOrder(S)) = Cardinality(S) /\ S \subseteq T /\ m \in T
    BY InOrderIsEach
  <2> HIDE DEF T
  <2>3. InOrder(S) \in Seq(T)
    <3>1. \A k \in 1 .. Len(InOrder(S)) : InOrder(S)[k] \in T
      <4>1. \A k \in 1 .. Len(InOrder(S)) : InOrder(S)[k] \in S
        BY <2>2, ElementOfSeq
      <4> QED
        BY <2>2, <4>1, Zenon
    <3>2. Len(InOrder(S)) \in Nat /\ InOrder(S) = [k \in 1 .. Len(InOrder(S)) |-> InOrder(S)[k]]
      BY <2>2
    <3> QED
      BY <3>1, <3>2
  <2> QED
    BY <1>1, <2>1, <2>2, <2>3
<1>5. \A k \in 1 .. Cardinality(S) + 1 : InOrder(T)[k] = Append(InOrder(S), m)[k]
  <2>1. \A k \in 1 .. Cardinality(S) + 1 : InOrder(T)[k] = Nth(T, k)
    <3> HIDE DEF T
    <3> QED BY <1>1 DEF InOrder
  <2>2. \A k \in 1 .. Cardinality(S) : InOrder(S)[k] = Nth(S, k)
    BY DEF InOrder
  <2>3. /\ \A k \in 1 .. Cardinality(S) : Append(InOrder(S), m)[k] = InOrder(S)[k]
        /\ Append(InOrder(S), m)[Cardinality(S) + 1] = m
    <3> HIDE DEF T
    <3> QED BY <1>1, <1>4
  <2>4. \A k \in 1 .. Cardinality(S) + 1 : k \in 1 .. Cardinality(S) \/ k = Cardinality(S) + 1
    BY <1>1
  <2> HIDE DEF T
  <2> QED
    BY <1>2, <1>3, <2>1, <2>2, <2>3, <2>4
<1>6. Append(InOrder(S), m) \in Seq(T) /\ Len(Append(InOrder(S), m)) = Cardinality(S) + 1
  <2> HIDE DEF T
  <2> QED BY <1>1, <1>4
<1> HIDE DEF T
<1>7. InOrder(T) = Append(InOrder(S), m)
  BY <1>4, <1>5, <1>6, SeqEqual
<1> QED
  BY <1>7 DEF T
=============================================================================
