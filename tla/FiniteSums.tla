---------------------------- MODULE FiniteSums ----------------------------
(***************************************************************************)
(* What MapThenSumSet of the community modules computes on finite sets:    *)
(* the sum of the empty set is 0 and an element adds its own value,        *)
(* whatever the order in which the definition takes the elements.          *)
(***************************************************************************)
EXTENDS Naturals, Integers, FiniteSets, FiniteSetsExt, FiniteSetTheorems, WellFoundedInduction,
        TLAPS

\* The sum over S of the values of a function.
SumOf(f, S) == MapThenSumSet(LAMBDA x : f[x], S)

\* The recursive function behind it.
Pick(s) == CHOOSE x \in s : TRUE
IsFold(f, D, h) ==
    h = [s \in D |-> IF s = {} THEN 0 ELSE f[Pick(s)] + h[s \ {Pick(s)}]]

LEMMA SumIsFold ==
    ASSUME NEW f, NEW S
    PROVE  SumOf(f, S) = (CHOOSE h : IsFold(f, SUBSET S, h))[S]
BY DEF SumOf, MapThenSumSet, MapThenFoldSet, IsFold, Pick

LEMMA PickIsMember == ASSUME NEW s, s # {} PROVE Pick(s) \in s
BY DEF Pick

\* Induction over the natural numbers, for a set instead of a predicate.
LEMMA SetInduction ==
    ASSUME NEW S, 0 \in S, \A n \in Nat : n \in S => n + 1 \in S
    PROVE  Nat \subseteq S
<1> DEFINE R == OpToRel(<, Nat)
           T == Nat \ S
<1>1. IsWellFoundedOn(R, Nat)
  BY NatLessThanWellFounded
<1>2. \A x, y \in Nat : x < y => <<x, y>> \in R
  BY DEF OpToRel
<1> HIDE DEF R
<1> SUFFICES ASSUME T # {} PROVE FALSE
  OBVIOUS
<1>3. PICK x \in T : \A y \in T : ~ (<<y, x>> \in R)
  BY <1>1, WFMin
<1>4. x # 0
  OBVIOUS
<1>5. x - 1 \in Nat /\ x - 1 < x /\ (x - 1) + 1 = x
  BY <1>4
<1>6. x - 1 \in S
  BY <1>2, <1>3, <1>5
<1> QED
  BY <1>5, <1>6

\* Two such functions agree where both are defined.
LEMMA FoldsAgree ==
    ASSUME NEW f, NEW S, NEW T, IsFiniteSet(S), NEW h, NEW g,
           IsFold(f, SUBSET S, h), IsFold(f, SUBSET T, g)
    PROVE  \A s \in (SUBSET S) \cap (SUBSET T) : h[s] = g[s]
<1> DEFINE Both == (SUBSET S) \cap (SUBSET T)
           Good == {n \in Nat : \A s \in Both : Cardinality(s) = n => h[s] = g[s]}
<1>1. ASSUME NEW s \in Both
      PROVE  /\ h[s] = IF s = {} THEN 0 ELSE f[Pick(s)] + h[s \ {Pick(s)}]
             /\ g[s] = IF s = {} THEN 0 ELSE f[Pick(s)] + g[s \ {Pick(s)}]
  BY Zenon DEF IsFold
<1>2. ASSUME NEW s \in Both PROVE IsFiniteSet(s) /\ Cardinality(s) \in Nat
  BY FS_Subset, FS_CardinalityType
<1>3. 0 \in Good
  BY <1>1, <1>2, FS_EmptySet
<1>4. ASSUME NEW n \in Nat, n \in Good PROVE n + 1 \in Good
  <2> SUFFICES ASSUME NEW s \in Both, Cardinality(s) = n + 1 PROVE h[s] = g[s]
    OBVIOUS
  <2>1. s # {}
    <3>1. n + 1 # 0
      OBVIOUS
    <3> QED
      BY <3>1, FS_EmptySet
  <2>2. Pick(s) \in s /\ s \ {Pick(s)} \in Both
    BY <2>1, PickIsMember
  <2>3. Cardinality(s \ {Pick(s)}) = n
    BY <1>2, <2>2, FS_RemoveElement
  <2> QED
    BY <1>1, <1>4, <2>1, <2>2, <2>3
<1> HIDE DEF Good
<1>5. Nat \subseteq Good
  BY <1>3, <1>4, SetInduction
<1> QED
  BY <1>2, <1>5 DEF Good

\* There is such a function for every finite set.
LEMMA FoldExists ==
    ASSUME NEW D, NEW f \in [D -> Nat], NEW S \in SUBSET D, IsFiniteSet(S)
    PROVE  \E h \in [SUBSET S -> Nat] : IsFold(f, SUBSET S, h)
<1> DEFINE Upto(n) == {s \in SUBSET S : Cardinality(s) <= n}
           Good == {n \in Nat : \E h \in [Upto(n) -> Nat] : IsFold(f, Upto(n), h)}
<1>1. ASSUME NEW s \in SUBSET S
      PROVE  /\ IsFiniteSet(s) /\ Cardinality(s) \in Nat /\ Cardinality(s) <= Cardinality(S)
             /\ Cardinality(s) = 0 <=> s = {}
             /\ s # {} => /\ Pick(s) \in s /\ s \ {Pick(s)} \in SUBSET S
                          /\ Cardinality(s \ {Pick(s)}) = Cardinality(s) - 1
  BY FS_Subset, FS_CardinalityType, FS_EmptySet, PickIsMember, FS_RemoveElement
<1>2. 0 \in Good
  <2>1. ASSUME NEW s \in Upto(0) PROVE s = {}
    <3>1. s \in SUBSET S /\ Cardinality(s) <= 0
      OBVIOUS
    <3>2. Cardinality(s) \in Nat /\ (Cardinality(s) = 0 => s = {})
      BY <1>1, <3>1
    <3> QED
      BY <3>1, <3>2
  <2> DEFINE h == [s \in Upto(0) |-> 0]
  <2>2. h \in [Upto(0) -> Nat] /\ IsFold(f, Upto(0), h)
    BY <2>1 DEF IsFold
  <2> QED
    BY <2>2
<1>3. ASSUME NEW n \in Nat, n \in Good PROVE n + 1 \in Good
  <2>1. PICK h \in [Upto(n) -> Nat] : IsFold(f, Upto(n), h)
    BY <1>3
  <2> DEFINE g == [s \in Upto(n + 1) |-> IF s = {} THEN 0 ELSE f[Pick(s)] + h[s \ {Pick(s)}]]
  <2>2. ASSUME NEW s \in Upto(n + 1), s # {}
        PROVE  f[Pick(s)] \in Nat /\ s \ {Pick(s)} \in Upto(n) /\ s \ {Pick(s)} \in Upto(n + 1)
    BY <1>1, <2>2
  <2>3. g \in [Upto(n + 1) -> Nat]
    BY <2>2
  <2>4. ASSUME NEW s \in Upto(n) PROVE g[s] = h[s]
    <3>1. h[s] = IF s = {} THEN 0 ELSE f[Pick(s)] + h[s \ {Pick(s)}]
      BY <2>1, Zenon DEF IsFold
    <3>2. s \in Upto(n + 1)
      <4>1. s \in SUBSET S /\ Cardinality(s) <= n
        OBVIOUS
      <4>2. Cardinality(s) \in Nat
        BY <1>1, <4>1
      <4> QED
        BY <4>1, <4>2
    <3> QED
      BY <3>1, <3>2
  <2>5. IsFold(f, Upto(n + 1), g)
    BY <2>2, <2>4 DEF IsFold
  <2> HIDE DEF g, Upto
  <2> QED
    BY <2>3, <2>5
<1> HIDE DEF Good
<1>4. Cardinality(S) \in Good
  BY <1>1, <1>2, <1>3, SetInduction
<1>5. Upto(Cardinality(S)) = SUBSET S
  BY <1>1
<1> HIDE DEF Upto
<1> QED
  BY <1>4, <1>5 DEF Good

\* The sum of a finite set is the value of such a function.
LEMMA SumIsValue ==
    ASSUME NEW D, NEW f \in [D -> Nat], NEW S \in SUBSET D, IsFiniteSet(S)
    PROVE  \E h : IsFold(f, SUBSET S, h) /\ SumOf(f, S) = h[S]
<1> DEFINE g == CHOOSE h : IsFold(f, SUBSET S, h)
<1>1. \E h : IsFold(f, SUBSET S, h)
  <2>1. PICK h \in [SUBSET S -> Nat] : IsFold(f, SUBSET S, h)
    BY FoldExists
  <2> QED
    BY <2>1, Zenon
<1>2. IsFold(f, SUBSET S, g)
  BY <1>1
<1>3. SumOf(f, S) = g[S]
  BY SumIsFold
<1> HIDE DEF g
<1> QED
  BY <1>2, <1>3

\* One step of the definition.
LEMMA SumStep ==
    ASSUME NEW D, NEW f \in [D -> Nat], NEW S \in SUBSET D, IsFiniteSet(S)
    PROVE  /\ SumOf(f, S) \in Nat
           /\ S = {} => SumOf(f, S) = 0
           /\ S # {} => SumOf(f, S) = f[Pick(S)] + SumOf(f, S \ {Pick(S)})
<1>1. PICK h \in [SUBSET S -> Nat] : IsFold(f, SUBSET S, h)
  BY FoldExists
<1>2. ASSUME NEW T \in SUBSET S PROVE SumOf(f, T) = h[T]
  <2>1. IsFiniteSet(T) /\ T \in SUBSET D
    BY FS_Subset
  <2>2. PICK g : IsFold(f, SUBSET T, g) /\ SumOf(f, T) = g[T]
    BY <2>1, SumIsValue
  <2>3. IsFold(f, SUBSET T, g) /\ IsFold(f, SUBSET S, h) /\ IsFiniteSet(T)
    BY <1>1, <2>1, <2>2
  <2>4. \A s \in (SUBSET T) \cap (SUBSET S) : g[s] = h[s]
    BY <2>3, FoldsAgree
  <2>5. T \in (SUBSET T) \cap (SUBSET S)
    OBVIOUS
  <2> QED
    BY <2>2, <2>4, <2>5
<1>3. h[S] = IF S = {} THEN 0 ELSE f[Pick(S)] + h[S \ {Pick(S)}]
  BY <1>1, Zenon DEF IsFold
<1> QED
  BY <1>1, <1>2, <1>3

\* The sum of nothing.
LEMMA SumOfNothing == ASSUME NEW D, NEW f \in [D -> Nat] PROVE SumOf(f, {}) = 0
BY SumStep, FS_EmptySet

\* An element adds its value, in whatever order the sum is taken.
LEMMA SumAddsElement ==
    ASSUME NEW D, NEW f \in [D -> Nat], NEW S \in SUBSET D, IsFiniteSet(S), NEW x \in D \ S
    PROVE  SumOf(f, S \cup {x}) = f[x] + SumOf(f, S) /\ SumOf(f, S) \in Nat
<1> DEFINE Good == {n \in Nat : \A T \in SUBSET D : \A y \in D \ T :
                       IsFiniteSet(T) /\ Cardinality(T) = n =>
                           SumOf(f, T \cup {y}) = f[y] + SumOf(f, T)}
<1>1. ASSUME NEW T \in SUBSET D, IsFiniteSet(T), NEW y \in D \ T
      PROVE  /\ SumOf(f, T) \in Nat /\ IsFiniteSet(T \cup {y}) /\ T \cup {y} \in SUBSET D
             /\ Pick(T \cup {y}) \in T \cup {y}
             /\ SumOf(f, T \cup {y})
                    = f[Pick(T \cup {y})] + SumOf(f, (T \cup {y}) \ {Pick(T \cup {y})})
  <2> DEFINE U == T \cup {y}
  <2>1. IsFiniteSet(U)
    BY <1>1, FS_AddElement
  <2>2. U # {} /\ U \in SUBSET D
    OBVIOUS
  <2> HIDE DEF U
  <2>3. SumOf(f, U) = f[Pick(U)] + SumOf(f, U \ {Pick(U)}) /\ Pick(U) \in U
    BY <2>1, <2>2, SumStep, PickIsMember
  <2>4. SumOf(f, T) \in Nat
    BY <1>1, SumStep
  <2> QED
    BY <2>1, <2>2, <2>3, <2>4 DEF U
<1>2. ASSUME NEW T \in SUBSET D, IsFiniteSet(T), NEW y \in D \ T, Pick(T \cup {y}) = y
      PROVE  SumOf(f, T \cup {y}) = f[y] + SumOf(f, T)
  <2>1. (T \cup {y}) \ {y} = T
    OBVIOUS
  <2> QED
    BY <1>1, <1>2, <2>1
<1>3. 0 \in Good
  <2> SUFFICES ASSUME NEW T \in SUBSET D, NEW y \in D \ T, IsFiniteSet(T), Cardinality(T) = 0
               PROVE  SumOf(f, T \cup {y}) = f[y] + SumOf(f, T)
    OBVIOUS
  <2>1. T = {}
    BY FS_EmptySet
  <2> QED
    BY <1>1, <1>2, <2>1
<1>4. ASSUME NEW n \in Nat, n \in Good PROVE n + 1 \in Good
  <2> SUFFICES ASSUME NEW T \in SUBSET D, NEW y \in D \ T, IsFiniteSet(T), Cardinality(T) = n + 1
               PROVE  SumOf(f, T \cup {y}) = f[y] + SumOf(f, T)
    OBVIOUS
  <2>1. CASE Pick(T \cup {y}) = y
    BY <1>2, <2>1
  <2>2. CASE Pick(T \cup {y}) # y
    <3>1. PICK z \in T : z = Pick(T \cup {y})
      BY <1>1, <2>2
    <3> DEFINE U == T \ {z}
    <3>2. /\ U \in SUBSET D /\ IsFiniteSet(U) /\ Cardinality(U) = n
          /\ y \in D \ U /\ z \in D \ U
      <4>1. IsFiniteSet(U) /\ Cardinality(U) = Cardinality(T) - 1
        BY FS_RemoveElement
      <4>2. Cardinality(T) - 1 = n
        OBVIOUS
      <4> QED
        BY <4>1, <4>2
    <3>3. (T \cup {y}) \ {z} = U \cup {y} /\ U \cup {z} = T
      BY <3>1
    <3>4. SumOf(f, U \cup {y}) = f[y] + SumOf(f, U) /\ SumOf(f, U \cup {z}) = f[z] + SumOf(f, U)
      BY <1>4, <3>2
    <3>5. SumOf(f, T \cup {y}) = f[z] + SumOf(f, U \cup {y})
      BY <1>1, <3>1, <3>3
    <3>6. f[z] \in Nat /\ f[y] \in Nat /\ SumOf(f, U) \in Nat
      BY <3>2, SumStep
    <3> HIDE DEF U
    <3>7. f[z] + (f[y] + SumOf(f, U)) = f[y] + (f[z] + SumOf(f, U))
      BY <3>6
    <3> QED
      BY <3>3, <3>4, <3>5, <3>7
  <2> QED
    BY <2>1, <2>2
<1> HIDE DEF Good
<1>5. Nat \subseteq Good
  BY <1>3, <1>4, SetInduction
<1>6. Cardinality(S) \in Good
  BY <1>5, FS_CardinalityType
<1> QED
  BY <1>1, <1>6 DEF Good

\* The same sum when the recursion stands on the left of the addition.
IsLeftFold(f, D, h) ==
    h = [s \in D |-> IF s = {} THEN 0 ELSE h[s \ {Pick(s)}] + f[Pick(s)]]

LEMMA LeftFoldIsSum ==
    ASSUME NEW D, NEW f \in [D -> Nat], NEW S \in SUBSET D, IsFiniteSet(S)
    PROVE  (CHOOSE h : IsLeftFold(f, SUBSET S, h))[S] = SumOf(f, S)
<1> DEFINE g == CHOOSE h : IsLeftFold(f, SUBSET S, h)
           Good == {n \in Nat : \A s \in SUBSET S : Cardinality(s) = n => g[s] = SumOf(f, s)}
<1>1. ASSUME NEW s \in SUBSET S
      PROVE  /\ s \in SUBSET D /\ IsFiniteSet(s) /\ Cardinality(s) \in Nat
             /\ SumOf(f, s) \in Nat
             /\ s = {} => SumOf(f, s) = 0
             /\ s # {} => /\ Pick(s) \in s /\ s \ {Pick(s)} \in SUBSET S
                          /\ SumOf(f, s) = f[Pick(s)] + SumOf(f, s \ {Pick(s)})
  BY FS_Subset, FS_CardinalityType, SumStep, PickIsMember
<1>2. ASSUME NEW s \in SUBSET S, s # {}
      PROVE  SumOf(f, s \ {Pick(s)}) + f[Pick(s)] = f[Pick(s)] + SumOf(f, s \ {Pick(s)})
  <2>1. f[Pick(s)] \in Nat /\ SumOf(f, s \ {Pick(s)}) \in Nat
    BY <1>1, <1>2
  <2> QED
    BY <2>1
<1>3. \E h : IsLeftFold(f, SUBSET S, h)
  <2> DEFINE sum == [s \in SUBSET S |-> SumOf(f, s)]
  <2>1. sum = [s \in SUBSET S |-> IF s = {} THEN 0 ELSE sum[s \ {Pick(s)}] + f[Pick(s)]]
    BY <1>1, <1>2
  <2>2. IsLeftFold(f, SUBSET S, sum)
    BY <2>1 DEF IsLeftFold
  <2> QED
    BY <2>2, Zenon
<1>4. IsLeftFold(f, SUBSET S, g)
  BY <1>3
<1>5. ASSUME NEW s \in SUBSET S
      PROVE  g[s] = IF s = {} THEN 0 ELSE g[s \ {Pick(s)}] + f[Pick(s)]
  <2> HIDE DEF g
  <2> QED
    BY <1>4, Zenon DEF IsLeftFold
<1> HIDE DEF g
<1>6. 0 \in Good
  BY <1>1, <1>5, FS_EmptySet
<1>7. ASSUME NEW n \in Nat, n \in Good PROVE n + 1 \in Good
  <2> SUFFICES ASSUME NEW s \in SUBSET S, Cardinality(s) = n + 1 PROVE g[s] = SumOf(f, s)
    OBVIOUS
  <2>1. s # {}
    <3>1. n + 1 # 0
      OBVIOUS
    <3> QED
      BY <3>1, FS_EmptySet
  <2>2. Cardinality(s \ {Pick(s)}) = n
    <3>1. Cardinality(s \ {Pick(s)}) = Cardinality(s) - 1
      BY <1>1, <2>1, FS_RemoveElement
    <3> QED
      BY <3>1
  <2>3. g[s \ {Pick(s)}] = SumOf(f, s \ {Pick(s)})
    BY <1>1, <1>7, <2>1, <2>2
  <2> QED
    BY <1>1, <1>2, <1>5, <2>1, <2>3
<1> HIDE DEF Good
<1>8. Nat \subseteq Good
  BY <1>6, <1>7, SetInduction
<1>9. S \in SUBSET S /\ Cardinality(S) \in Good
  BY <1>8, FS_CardinalityType
<1> QED
  BY <1>9 DEF Good, g

LeftFold(f, S) == (CHOOSE h : IsLeftFold(f, SUBSET S, h))[S]

LEMMA LeftFoldSums ==
    ASSUME NEW D, NEW f \in [D -> Nat], NEW S \in SUBSET D, IsFiniteSet(S)
    PROVE  LeftFold(f, S) = SumOf(f, S)
BY LeftFoldIsSum, Zenon DEF LeftFold

==============================================================================
