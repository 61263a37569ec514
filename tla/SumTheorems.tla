---------------------------- MODULE SumTheorems ----------------------------
(***************************************************************************)
(* Induction, and the sums of Functions.tla over finite sets.  Every       *)
(* statement is first-order - a predicate is the set of the things that    *)
(* have it - so that the provers can use it.                               *)
(***************************************************************************)
EXTENDS Integers, Functions, FiniteSetsExt, FiniteSetTheorems, TLAPS

-----------------------------------------------------------------------------
(* Induction.                                                              *)

\* Every set of natural numbers has a least one.
LEMMA LeastNumber ==
  ASSUME NEW T \in SUBSET Nat, T # {}
  PROVE  \E n \in T : \A m \in T : n <= m
<1> DEFINE R == StrictSubsetOrdering(Nat)
           F == {1..n : n \in T}
<1>1. F \subseteq FiniteSubsetsOf(Nat) /\ F # {}
  <2>1. \A n \in T : 1..n \in SUBSET Nat /\ IsFiniteSet(1..n)
    BY FS_Interval
  <2> QED BY <2>1 DEF FiniteSubsetsOf
<1>2. IsWellFoundedOn(R, FiniteSubsetsOf(Nat))
  BY FS_StrictSubsetOrderingWellFounded
<1>3. PICK X \in F : \A Y \in F : ~(<<Y, X>> \in R)
  <2> HIDE DEF R, F
  <2> QED BY <1>1, <1>2, WFMin
<1>4. PICK n \in T : X = 1..n
  BY <1>3
<1>5. ASSUME NEW m \in T, m < n PROVE FALSE
  <2>1. 1..m \subseteq 1..n /\ n \in 1..n /\ n \notin 1..m
    BY <1>5
  <2>2. <<1..m, 1..n>> \in R
    BY <2>1 DEF StrictSubsetOrdering
  <2> QED BY <1>3, <1>4, <2>2
<1> QED BY <1>5

\* ... and one with an upper bound a greatest.
LEMMA GreatestNumber ==
  ASSUME NEW T \in SUBSET Nat, NEW t \in T, NEW n \in Nat, \A m \in T : m <= n
  PROVE  Max(T) \in T /\ \A m \in T : m <= Max(T)
<1> DEFINE U == {b \in Nat : \A m \in T : m <= b}
<1>1. PICK b \in U : \A c \in U : b <= c
  <2>1. U \in SUBSET Nat /\ U # {}
    OBVIOUS
  <2> HIDE DEF U
  <2> QED BY <2>1, LeastNumber
<1>2. b \in T
  <2> SUFFICES ASSUME b \notin T PROVE FALSE
    OBVIOUS
  <2>1. \A m \in T : m <= b - 1
    <3> SUFFICES ASSUME NEW m \in T PROVE m <= b - 1
      OBVIOUS
    <3>1. m \in Nat /\ b \in Nat /\ m <= b /\ m # b
      BY <1>1
    <3> QED BY <3>1
  <2>2. t <= b - 1 /\ b - 1 \in Nat
    <3>1. t <= b - 1 /\ t \in Nat /\ b \in Nat
      BY <1>1, <2>1
    <3> QED BY <3>1
  <2>3. b - 1 \in U
    BY <2>1, <2>2
  <2> QED BY <1>1, <2>3
<1>3. \A m \in T : m <= b
  BY <1>1
<1>4. \E x \in T : \A y \in T : x >= y
  BY <1>1, <1>2, <1>3
<1>5. Max(T) \in T /\ \A y \in T : Max(T) >= y
  BY <1>4 DEF Max
<1> QED BY <1>5

\* Induction over the natural numbers: S holds those the claim is true of.
LEMMA NumberInduction ==
  ASSUME NEW S, 0 \in S, \A n \in Nat : n \in S => n + 1 \in S
  PROVE  Nat \subseteq S
<1> SUFFICES ASSUME Nat \ S # {} PROVE FALSE
  OBVIOUS
<1>1. PICK n \in Nat \ S : \A m \in Nat \ S : n <= m
  BY LeastNumber
<1>2. n # 0 /\ n - 1 \in Nat
  BY <1>1
<1>3. n - 1 \in S
  BY <1>1, <1>2
<1> QED BY <1>1, <1>2, <1>3

\* Induction over the subsets of a finite set.
LEMMA SubsetInduction ==
  ASSUME NEW S, IsFiniteSet(S), NEW A,
         \A T \in SUBSET S : (\A x \in T : T \ {x} \in A) => T \in A
  PROVE  SUBSET S \subseteq A
<1> DEFINE R == StrictSubsetOrdering(S)
           B == (SUBSET S) \ A
<1> SUFFICES ASSUME B # {} PROVE FALSE
  OBVIOUS
<1>1. B \subseteq FiniteSubsetsOf(S)
  BY FS_FiniteSubsetsOfFinite
<1>2. IsWellFoundedOn(R, FiniteSubsetsOf(S))
  BY FS_StrictSubsetOrderingWellFounded
<1>3. PICK X \in B : \A Y \in B : ~(<<Y, X>> \in R)
  <2> HIDE DEF R, B
  <2> QED BY <1>1, <1>2, WFMin
<1>4. ASSUME NEW x \in X PROVE X \ {x} \in A
  <2>1. X \ {x} \in SUBSET S /\ <<X \ {x}, X>> \in R
    BY DEF StrictSubsetOrdering
  <2> QED BY <1>3, <2>1
<1> QED BY <1>3, <1>4

-----------------------------------------------------------------------------
(* The sum over a set is defined by recursion over its subsets: g sums F   *)
(* over each subset of S.                                                  *)

Pick(s) == CHOOSE x \in s : TRUE

Sums(g, F, S) ==
  g = [s \in SUBSET S |-> IF s = {} THEN 0 ELSE F[Pick(s)] + g[s \ {Pick(s)}]]

\* It picks an element.
LEMMA PickIn == ASSUME NEW s, s # {} PROVE Pick(s) \in s
BY DEF Pick

LEMMA SumIsSums ==
  ASSUME NEW F, NEW S
  PROVE  SumFunctionOnSet(F, S) = (CHOOSE g : Sums(g, F, S))[S]
BY DEF SumFunctionOnSet, FoldFunctionOnSet, MapThenFoldSet, Sums, Pick

\* Such a g exists: it is built for the subsets of up to n elements at a time.
LEMMA SumsExist ==
  ASSUME NEW S, IsFiniteSet(S), NEW F, \A x \in S : F[x] \in Int
  PROVE  \E g \in [SUBSET S -> Int] : Sums(g, F, S)
<1> DEFINE Small(n) == {s \in SUBSET S : Cardinality(s) <= n}
           On(n, g) == /\ g \in [Small(n) -> Int]
                       /\ \A s \in Small(n) :
                            g[s] = IF s = {} THEN 0 ELSE F[Pick(s)] + g[s \ {Pick(s)}]
           Built == {n \in Nat : \E g : On(n, g)}
<1>1. \A s \in SUBSET S : IsFiniteSet(s) /\ Cardinality(s) \in Nat
  BY FS_Subset, FS_CardinalityType
<1>2. ASSUME NEW s \in SUBSET S, s # {}
      PROVE  /\ Pick(s) \in s /\ s \ {Pick(s)} \in SUBSET S
             /\ Cardinality(s \ {Pick(s)}) = Cardinality(s) - 1
             /\ Cardinality(s) > 0
  <2>1. Pick(s) \in s
    BY <1>2, PickIn
  <2>2. IsFiniteSet(s) /\ Cardinality(s) \in Nat /\ Cardinality(s) # 0
    BY <1>1, <1>2, FS_EmptySet
  <2> HIDE DEF Small, On, Built
  <2>3. Cardinality(s \ {Pick(s)}) = Cardinality(s) - 1
    BY <2>1, <2>2, FS_RemoveElement
  <2> QED BY <2>1, <2>2, <2>3
<1>3. 0 \in Built
  <2> DEFINE g == [s \in Small(0) |-> 0]
  <2>1. ASSUME NEW s \in Small(0) PROVE s = {}
    <3>1. s \in SUBSET S /\ Cardinality(s) \in Nat /\ Cardinality(s) <= 0
      BY <1>1
    <3>2. s # {} => Cardinality(s) > 0
      BY <1>2, <3>1
    <3> QED BY <3>1, <3>2
  <2>2. On(0, g)
    BY <2>1
  <2> HIDE DEF g, On, Small
  <2> QED BY <2>2
<1>4. ASSUME NEW n \in Nat, n \in Built PROVE n + 1 \in Built
  <2>1. PICK g : On(n, g)
    BY <1>4
  <2> DEFINE h == [s \in Small(n + 1) |->
                     IF s \in Small(n) THEN g[s] ELSE F[Pick(s)] + g[s \ {Pick(s)}]]
  <2>2. ASSUME NEW s \in Small(n + 1), s # {}
        PROVE  Pick(s) \in S /\ s \ {Pick(s)} \in Small(n) /\ s \ {Pick(s)} \in Small(n + 1)
    BY <1>1, <1>2, <2>2
  <2>3. ASSUME NEW s \in Small(n + 1), s \notin Small(n) PROVE s # {}
    BY FS_EmptySet, <2>3
  <2>4. ASSUME NEW s \in Small(n + 1) PROVE h[s] \in Int
    <3>1. CASE s \in Small(n)
      BY <2>1, <3>1
    <3>2. CASE s \notin Small(n)
      <4>1. g[s \ {Pick(s)}] \in Int /\ F[Pick(s)] \in Int
        BY <2>1, <2>2, <2>3, <3>2
      <4> QED BY <3>2, <4>1
    <3> QED BY <3>1, <3>2
  <2>5. ASSUME NEW s \in Small(n + 1)
        PROVE  h[s] = IF s = {} THEN 0 ELSE F[Pick(s)] + h[s \ {Pick(s)}]
    <3>1. CASE s = {}
      <4>1. s \in Small(n)
        BY FS_EmptySet, <1>4, <3>1
      <4> QED BY <2>1, <3>1, <4>1
    <3>2. CASE s # {}
      <4>1. h[s \ {Pick(s)}] = g[s \ {Pick(s)}]
        BY <2>2, <3>2
      <4>2. h[s] = F[Pick(s)] + g[s \ {Pick(s)}]
        BY <2>1, <3>2
      <4> QED BY <3>2, <4>1, <4>2
    <3> QED BY <3>1, <3>2
  <2>6. On(n + 1, h)
    <3> HIDE DEF Small
    <3>1. h \in [Small(n + 1) -> Int]
      <4> HIDE DEF h
      <4>1. h = [s \in Small(n + 1) |-> h[s]]
        BY DEF h
      <4> QED BY <2>4, <4>1
    <3> HIDE DEF h
    <3> QED BY <2>5, <3>1
  <2> HIDE DEF h, On
  <2> QED BY <2>6
<1>5. Nat \subseteq Built
  <2> HIDE DEF Built
  <2> QED BY <1>3, <1>4, NumberInduction
<1>6. Cardinality(S) \in Nat /\ Small(Cardinality(S)) = SUBSET S
  BY FS_CardinalityType, FS_Subset
<1>7. PICK g : On(Cardinality(S), g)
  <2> HIDE DEF On
  <2> QED BY <1>5, <1>6
<1>8. g \in [SUBSET S -> Int]
      /\ \A s \in SUBSET S : g[s] = IF s = {} THEN 0 ELSE F[Pick(s)] + g[s \ {Pick(s)}]
  BY <1>6, <1>7
<1> QED BY <1>8 DEF Sums

\* It is the only one: the sum over any subset is the sum over it as a set of its own.
LEMMA SumsAreSums ==
  ASSUME NEW S, IsFiniteSet(S), NEW F, \A x \in S : F[x] \in Int, NEW g, Sums(g, F, S),
         NEW T \in SUBSET S
  PROVE  g[T] = SumFunctionOnSet(F, T)
<1> DEFINE h == CHOOSE i : Sums(i, F, T)
<1>1. Sums(h, F, T)
  <2>1. IsFiniteSet(T) /\ \A x \in T : F[x] \in Int
    BY FS_Subset
  <2>2. \E i : Sums(i, F, T)
    BY <2>1, SumsExist
  <2> QED BY <2>2
<1> HIDE DEF h
<1> DEFINE Same == {s \in SUBSET T : g[s] = h[s]}
<1>2. SUBSET T \subseteq Same
  <2>1. ASSUME NEW s \in SUBSET T, \A x \in s : s \ {x} \in Same PROVE s \in Same
    <3>1. g[s] = IF s = {} THEN 0 ELSE F[Pick(s)] + g[s \ {Pick(s)}]
      BY DEF Sums
    <3>2. h[s] = IF s = {} THEN 0 ELSE F[Pick(s)] + h[s \ {Pick(s)}]
      BY <1>1 DEF Sums
    <3>3. s # {} => g[s \ {Pick(s)}] = h[s \ {Pick(s)}]
      BY <2>1, PickIn
    <3> QED BY <3>1, <3>2, <3>3
  <2>2. IsFiniteSet(T)
    BY FS_Subset
  <2> HIDE DEF Same
  <2> QED BY <2>1, <2>2, SubsetInduction
<1>3. g[T] = h[T]
  BY <1>2
<1> QED BY <1>3, SumIsSums DEF h

-----------------------------------------------------------------------------
(* The laws of sums.                                                       *)

\* Nothing sums to nothing.
LEMMA SumEmpty == ASSUME NEW F PROVE SumFunctionOnSet(F, {}) = 0
<1>1. IsFiniteSet({}) /\ \A x \in {} : F[x] \in Int
  BY FS_EmptySet
<1>2. PICK g : Sums(g, F, {})
  BY <1>1, SumsExist
<1>3. g[{}] = 0
  BY <1>2 DEF Sums
<1> QED BY <1>1, <1>2, <1>3, SumsAreSums

\* The element picked, and the rest.
LEMMA SumStep ==
  ASSUME NEW S, IsFiniteSet(S), S # {}, NEW F, \A x \in S : F[x] \in Int
  PROVE  SumFunctionOnSet(F, S) = F[Pick(S)] + SumFunctionOnSet(F, S \ {Pick(S)})
<1>1. PICK g : Sums(g, F, S)
  BY SumsExist
<1>2. g[S] = F[Pick(S)] + g[S \ {Pick(S)}]
  BY <1>1 DEF Sums
<1>3. g[S] = SumFunctionOnSet(F, S) /\ g[S \ {Pick(S)}] = SumFunctionOnSet(F, S \ {Pick(S)})
  <2>1. S \in SUBSET S /\ S \ {Pick(S)} \in SUBSET S
    OBVIOUS
  <2> QED BY <1>1, <2>1, SumsAreSums
<1> QED BY <1>2, <1>3

\* Integers sum to an integer.
LEMMA SumType ==
  ASSUME NEW S, IsFiniteSet(S), NEW F, \A x \in S : F[x] \in Int
  PROVE  SumFunctionOnSet(F, S) \in Int
<1>1. PICK g \in [SUBSET S -> Int] : Sums(g, F, S)
  BY SumsExist
<1>2. g[S] = SumFunctionOnSet(F, S)
  BY <1>1, SumsAreSums
<1> QED BY <1>1, <1>2

\* Any element may be taken out first.
LEMMA SumElement ==
  ASSUME NEW S, IsFiniteSet(S), NEW F, \A x \in S : F[x] \in Int, NEW z \in S
  PROVE  SumFunctionOnSet(F, S) = F[z] + SumFunctionOnSet(F, S \ {z})
<1> DEFINE Sum(T) == SumFunctionOnSet(F, T)
           Free == {T \in SUBSET S : \A x \in T : Sum(T) = F[x] + Sum(T \ {x})}
<1>1. ASSUME NEW T \in SUBSET S, \A x \in T : T \ {x} \in Free PROVE T \in Free
  <2> SUFFICES ASSUME NEW x \in T PROVE Sum(T) = F[x] + Sum(T \ {x})
    OBVIOUS
  <2> DEFINE y == Pick(T)
  <2>1. y \in T /\ IsFiniteSet(T) /\ \A v \in T : F[v] \in Int
    BY PickIn, FS_Subset
  <2>2. Sum(T) = F[y] + Sum(T \ {y})
    BY <2>1, SumStep
  <2>3. CASE x # y
    <3>1. Sum(T \ {y}) = F[x] + Sum((T \ {y}) \ {x})
      BY <1>1, <2>1, <2>3
    <3>2. Sum(T \ {x}) = F[y] + Sum((T \ {x}) \ {y})
      BY <1>1, <2>1, <2>3
    <3>3. (T \ {y}) \ {x} = (T \ {x}) \ {y}
      OBVIOUS
    <3>4. Sum((T \ {x}) \ {y}) \in Int
      BY <2>1, FS_Subset, SumType
    <3> DEFINE rest == Sum((T \ {x}) \ {y})
    <3>5. Sum(T \ {y}) = F[x] + rest /\ Sum(T \ {x}) = F[y] + rest /\ rest \in Int
      BY <3>1, <3>2, <3>3, <3>4
    <3>6. F[x] \in Int /\ F[y] \in Int
      BY <2>1
    <3> HIDE DEF Sum, y, rest
    <3> QED BY <2>2, <3>5, <3>6
  <2> QED BY <2>2, <2>3
<1>2. SUBSET S \subseteq Free
  <2> HIDE DEF Free
  <2> QED BY <1>1, SubsetInduction
<1> QED BY <1>2

\* What adds up element by element adds up in the sum.
LEMMA SumPlus ==
  ASSUME NEW S, IsFiniteSet(S), NEW F, NEW G, NEW H,
         \A x \in S : F[x] \in Int /\ G[x] \in Int /\ H[x] = F[x] + G[x]
  PROVE  SumFunctionOnSet(H, S) = SumFunctionOnSet(F, S) + SumFunctionOnSet(G, S)
<1> DEFINE SumOf(f, T) == SumFunctionOnSet(f, T)
           Plus == {T \in SUBSET S : SumOf(H, T) = SumOf(F, T) + SumOf(G, T)}
<1>1. ASSUME NEW T \in SUBSET S, \A x \in T : T \ {x} \in Plus PROVE T \in Plus
  <2>1. CASE T = {}
    BY <2>1, SumEmpty
  <2>2. CASE T # {}
    <3> DEFINE y == Pick(T)
    <3>1. y \in T /\ y \in S /\ IsFiniteSet(T)
      BY <2>2, PickIn, FS_Subset
    <3>2. \A v \in T : F[v] \in Int /\ G[v] \in Int /\ H[v] \in Int
      OBVIOUS
    <3>3. /\ SumOf(F, T) = F[y] + SumOf(F, T \ {y})
          /\ SumOf(G, T) = G[y] + SumOf(G, T \ {y})
          /\ SumOf(H, T) = H[y] + SumOf(H, T \ {y})
      BY <2>2, <3>1, <3>2, SumStep
    <3>4. SumOf(H, T \ {y}) = SumOf(F, T \ {y}) + SumOf(G, T \ {y})
      BY <1>1, <3>1
    <3>5. SumOf(F, T \ {y}) \in Int /\ SumOf(G, T \ {y}) \in Int
      BY <3>1, <3>2, FS_Subset, SumType
    <3> HIDE DEF y, SumOf
    <3> QED BY <3>1, <3>3, <3>4, <3>5
  <2> QED BY <2>1, <2>2
<1>2. SUBSET S \subseteq Plus
  <2> HIDE DEF Plus
  <2> QED BY <1>1, SubsetInduction
<1> QED BY <1>2

\* Zeros sum to zero.
LEMMA SumZero ==
  ASSUME NEW S, IsFiniteSet(S), NEW F, \A x \in S : F[x] = 0
  PROVE  SumFunctionOnSet(F, S) = 0
<1> DEFINE None == {T \in SUBSET S : SumFunctionOnSet(F, T) = 0}
<1>1. ASSUME NEW T \in SUBSET S, \A x \in T : T \ {x} \in None PROVE T \in None
  <2>1. CASE T = {}
    BY <2>1, SumEmpty
  <2>2. CASE T # {}
    <3>1. Pick(T) \in T /\ IsFiniteSet(T) /\ (\A x \in T : F[x] \in Int) /\ F[Pick(T)] = 0
      BY <2>2, PickIn, FS_Subset
    <3>2. SumFunctionOnSet(F, T) = F[Pick(T)] + SumFunctionOnSet(F, T \ {Pick(T)})
      BY <2>2, <3>1, SumStep
    <3> QED BY <1>1, <3>1, <3>2
  <2> QED BY <2>1, <2>2
<1>2. SUBSET S \subseteq None
  <2> HIDE DEF None
  <2> QED BY <1>1, SubsetInduction
<1> QED BY <1>2

\* What is equal element by element is equal in the sum.
LEMMA SumEqual ==
  ASSUME NEW S, IsFiniteSet(S), NEW F, NEW G, \A x \in S : F[x] \in Int /\ G[x] = F[x]
  PROVE  SumFunctionOnSet(G, S) = SumFunctionOnSet(F, S)
<1> DEFINE Z == [x \in S |-> 0]
<1>1. (\A x \in S : Z[x] = 0) /\ \A x \in S : F[x] \in Int /\ Z[x] \in Int /\ G[x] = F[x] + Z[x]
  OBVIOUS
<1> HIDE DEF Z
<1>2. SumFunctionOnSet(Z, S) = 0
  BY <1>1, SumZero
<1>3. SumFunctionOnSet(G, S) = SumFunctionOnSet(F, S) + SumFunctionOnSet(Z, S)
  BY <1>1, SumPlus
<1> QED BY <1>2, <1>3, SumType

\* The rises of c from one index to the next sum to its rise over them all.
LEMMA SumRises ==
  ASSUME NEW n \in Nat, NEW F, NEW c, \A i \in 1..(n + 1) : c[i] \in Int,
         \A i \in 1..n : F[i] = c[i + 1] - c[i]
  PROVE  SumFunctionOnSet(F, 1..n) = c[n + 1] - c[1]
<1> DEFINE To(m) == m <= n => SumFunctionOnSet(F, 1..m) = c[m + 1] - c[1]
           Good == {m \in Nat : To(m)}
<1>1. 0 \in Good
  <2>1. 1..0 = {} /\ 1 \in 1..(n + 1) /\ c[1] \in Int
    OBVIOUS
  <2> QED BY <2>1, SumEmpty
<1>2. ASSUME NEW m \in Nat, m \in Good PROVE m + 1 \in Good
  <2> SUFFICES ASSUME m + 1 <= n
               PROVE  SumFunctionOnSet(F, 1..(m + 1)) = c[m + 2] - c[1]
    OBVIOUS
  <2>1. /\ IsFiniteSet(1..(m + 1)) /\ m + 1 \in 1..(m + 1) /\ (1..(m + 1)) \ {m + 1} = 1..m
    <3>1. \A i : i \in 1..m <=> i \in 1..(m + 1) /\ i # m + 1
      OBVIOUS
    <3>2. (1..(m + 1)) \ {m + 1} = 1..m
      BY <3>1
    <3>3. m + 1 \in 1..(m + 1) /\ IsFiniteSet(1..(m + 1))
      BY FS_Interval
    <3> QED BY <3>2, <3>3
  <2>2. /\ \A i \in 1..(m + 1) : F[i] \in Int
        /\ F[m + 1] = c[m + 2] - c[m + 1]
        /\ c[1] \in Int /\ c[m + 1] \in Int /\ c[m + 2] \in Int
    <3>1. \A i \in 1..(m + 1) : i \in 1..n /\ i \in 1..(n + 1) /\ i + 1 \in 1..(n + 1)
      OBVIOUS
    <3>2. m + 1 \in 1..n /\ 1 \in 1..(n + 1) /\ m + 1 \in 1..(n + 1) /\ m + 2 \in 1..(n + 1)
          /\ (m + 1) + 1 = m + 2
      OBVIOUS
    <3>3. \A i \in 1..(m + 1) : F[i] = c[i + 1] - c[i] /\ c[i + 1] \in Int /\ c[i] \in Int
      BY <3>1
    <3>4. \A i \in 1..(m + 1) : F[i] \in Int
      BY <3>3
    <3> QED BY <3>2, <3>4
  <2>3. SumFunctionOnSet(F, 1..(m + 1)) = F[m + 1] + SumFunctionOnSet(F, 1..m)
    <3> HIDE DEF To, Good
    <3> DEFINE D == 1..(m + 1)
    <3>1. IsFiniteSet(D) /\ m + 1 \in D /\ (\A i \in D : F[i] \in Int) /\ D \ {m + 1} = 1..m
      BY <2>1, <2>2
    <3>2. SumFunctionOnSet(F, D) = F[m + 1] + SumFunctionOnSet(F, D \ {m + 1})
      <4> HIDE DEF D
      <4> QED BY <3>1, SumElement
    <3> QED BY <3>1, <3>2
  <2>4. SumFunctionOnSet(F, 1..m) = c[m + 1] - c[1]
    BY <1>2
  <2> HIDE DEF To, Good
  <2> QED BY <2>2, <2>3, <2>4
<1>3. n \in Good
  <2> HIDE DEF Good
  <2> QED BY <1>1, <1>2, NumberInduction
<1> QED BY <1>3

\* Two sets that share nothing.
LEMMA SumUnion ==
  ASSUME NEW S, IsFiniteSet(S), NEW F, \A x \in S : F[x] \in Int,
         NEW A \in SUBSET S, NEW B \in SUBSET S, A \cap B = {}
  PROVE  SumFunctionOnSet(F, A \cup B) = SumFunctionOnSet(F, A) + SumFunctionOnSet(F, B)
<1> DEFINE Sum(T) == SumFunctionOnSet(F, T)
           Apart == {T \in SUBSET B : Sum(A \cup T) = Sum(A) + Sum(T)}
<1>0. IsFiniteSet(B)
  BY FS_Subset
<1>1. ASSUME NEW T \in SUBSET B, \A x \in T : T \ {x} \in Apart PROVE T \in Apart
  <2>1. CASE T = {}
    <3>1. IsFiniteSet(A) /\ \A x \in A : F[x] \in Int
      BY FS_Subset
    <3>2. Sum(A) \in Int
      BY <3>1, SumType
    <3>3. Sum({}) = 0 /\ A \cup T = A
      BY <2>1, SumEmpty
    <3> QED BY <2>1, <3>2, <3>3
  <2>2. CASE T # {}
    <3>1. PICK y \in T : TRUE
      BY <2>2
    <3>2. T \in SUBSET S /\ A \cup T \in SUBSET S /\ T \ {y} \in SUBSET S
      OBVIOUS
    <3>3. IsFiniteSet(T) /\ IsFiniteSet(A \cup T) /\ IsFiniteSet(T \ {y}) /\ IsFiniteSet(A)
      BY <3>2, FS_Subset
    <3>4. /\ \A x \in T : F[x] \in Int
          /\ \A x \in A \cup T : F[x] \in Int
          /\ \A x \in T \ {y} : F[x] \in Int
          /\ \A x \in A : F[x] \in Int
      OBVIOUS
    <3>5. Sum(T) = F[y] + Sum(T \ {y})
      BY <3>1, <3>3, <3>4, SumElement
    <3>6. Sum(A \cup T) = F[y] + Sum((A \cup T) \ {y})
      <4> DEFINE U == A \cup T
      <4>1. y \in U /\ IsFiniteSet(U) /\ \A x \in U : F[x] \in Int
        BY <3>1, <3>3, <3>4
      <4> HIDE DEF U
      <4>2. Sum(U) = F[y] + Sum(U \ {y})
        BY <4>1, SumElement
      <4> QED BY <4>2 DEF U
    <3>7. (A \cup T) \ {y} = A \cup (T \ {y})
      BY <3>1
    <3>8. Sum(A \cup (T \ {y})) = Sum(A) + Sum(T \ {y})
      BY <1>1, <3>1
    <3>9. Sum(A) \in Int /\ Sum(T \ {y}) \in Int /\ F[y] \in Int
      BY <3>1, <3>3, <3>4, SumType
    <3> HIDE DEF Sum
    <3>10. Sum(A \cup T) = F[y] + (Sum(A) + Sum(T \ {y}))
      BY <3>6, <3>7, <3>8, Zenon
    <3>11. Sum(A \cup T) = Sum(A) + Sum(T)
      BY ONLY <3>5, <3>9, <3>10
    <3> QED BY <3>11
  <2> QED BY <2>1, <2>2
<1>2. SUBSET B \subseteq Apart
  <2> HIDE DEF Apart
  <2> QED BY <1>0, <1>1, SubsetInduction
<1> QED BY <1>2

\* Natural numbers sum to one.
LEMMA SumNat ==
  ASSUME NEW S, IsFiniteSet(S), NEW F, \A x \in S : F[x] \in Nat
  PROVE  SumFunctionOnSet(F, S) \in Nat
<1> DEFINE Good == {T \in SUBSET S : SumFunctionOnSet(F, T) \in Nat}
<1>1. ASSUME NEW T \in SUBSET S, \A x \in T : T \ {x} \in Good PROVE T \in Good
  <2>1. CASE T = {}
    BY <2>1, SumEmpty
  <2>2. CASE T # {}
    <3>1. Pick(T) \in T /\ IsFiniteSet(T) /\ (\A x \in T : F[x] \in Int) /\ F[Pick(T)] \in Nat
      BY <2>2, PickIn, FS_Subset
    <3>2. SumFunctionOnSet(F, T) = F[Pick(T)] + SumFunctionOnSet(F, T \ {Pick(T)})
      BY <2>2, <3>1, SumStep
    <3>3. SumFunctionOnSet(F, T \ {Pick(T)}) \in Nat
      <4>1. T \ {Pick(T)} \in Good
        BY <1>1, <3>1
      <4> QED BY <4>1
    <3>4. SumFunctionOnSet(F, T) \in Nat
      BY ONLY <3>1, <3>2, <3>3
    <3> QED BY <3>4
  <2> QED BY <2>1, <2>2
<1>2. SUBSET S \subseteq Good
  <2> HIDE DEF Good
  <2> QED BY <1>1, SubsetInduction
<1> QED BY <1>2

\* More of them sum to more.
LEMMA SumMore ==
  ASSUME NEW S, IsFiniteSet(S), NEW F, \A x \in S : F[x] \in Nat, NEW T \in SUBSET S
  PROVE  SumFunctionOnSet(F, T) <= SumFunctionOnSet(F, S)
<1>1. S \ T \in SUBSET S /\ T \cap (S \ T) = {} /\ T \cup (S \ T) = S /\ \A x \in S : F[x] \in Int
  OBVIOUS
<1>2. SumFunctionOnSet(F, T \cup (S \ T)) = SumFunctionOnSet(F, T) + SumFunctionOnSet(F, S \ T)
  BY <1>1, SumUnion
<1>3. IsFiniteSet(T) /\ IsFiniteSet(S \ T) /\ (\A x \in T : F[x] \in Nat) /\ \A x \in S \ T : F[x] \in Nat
  BY FS_Subset
<1>4. SumFunctionOnSet(F, T) \in Nat /\ SumFunctionOnSet(F, S \ T) \in Nat
  BY <1>3, SumNat
<1>5. SumFunctionOnSet(F, S) = SumFunctionOnSet(F, T) + SumFunctionOnSet(F, S \ T)
  BY <1>1, <1>2, Zenon
<1> QED BY ONLY <1>4, <1>5

\* Only the part counts outside of which there are zeros.
LEMMA SumOver ==
  ASSUME NEW S, IsFiniteSet(S), NEW F, \A x \in S : F[x] \in Int,
         NEW T \in SUBSET S, NEW G, \A x \in S : G[x] = IF x \in T THEN F[x] ELSE 0
  PROVE  SumFunctionOnSet(G, S) = SumFunctionOnSet(F, T)
<1>1. S \ T \in SUBSET S /\ T \cap (S \ T) = {} /\ T \cup (S \ T) = S /\ \A x \in S : G[x] \in Int
  OBVIOUS
<1>2. SumFunctionOnSet(G, T \cup (S \ T)) = SumFunctionOnSet(G, T) + SumFunctionOnSet(G, S \ T)
  BY <1>1, SumUnion
<1>3. IsFiniteSet(T) /\ IsFiniteSet(S \ T)
  BY <1>1, FS_Subset
<1>4. SumFunctionOnSet(G, S \ T) = 0
  <2> DEFINE R == S \ T
  <2>1. IsFiniteSet(R) /\ \A x \in R : G[x] = 0
    BY <1>3
  <2> HIDE DEF R
  <2>2. SumFunctionOnSet(G, R) = 0
    BY <2>1, SumZero
  <2> QED BY <2>2 DEF R
<1>5. SumFunctionOnSet(G, T) = SumFunctionOnSet(F, T)
  <2>1. \A x \in T : F[x] \in Int /\ G[x] = F[x]
    OBVIOUS
  <2> QED BY <1>3, <2>1, SumEqual
<1>6. SumFunctionOnSet(F, T) \in Int
  <2>1. \A x \in T : F[x] \in Int
    OBVIOUS
  <2> QED BY <1>3, <2>1, SumType
<1>7. SumFunctionOnSet(G, S) = SumFunctionOnSet(G, T) + SumFunctionOnSet(G, S \ T)
  BY <1>1, <1>2, Zenon
<1> QED BY ONLY <1>4, <1>5, <1>6, <1>7

\* What is taken so many times is in the sum.
LEMMA SumTimes ==
  ASSUME NEW S, IsFiniteSet(S), NEW u \in Int, NEW F, NEW G,
         \A x \in S : F[x] \in Int /\ G[x] = u * F[x]
  PROVE  SumFunctionOnSet(G, S) = u * SumFunctionOnSet(F, S)
<1> DEFINE SumOf(f, T) == SumFunctionOnSet(f, T)
           Times == {T \in SUBSET S : SumOf(G, T) = u * SumOf(F, T)}
<1>1. ASSUME NEW T \in SUBSET S, \A x \in T : T \ {x} \in Times PROVE T \in Times
  <2>1. CASE T = {}
    <3>1. SumOf(G, {}) = 0 /\ SumOf(F, {}) = 0
      BY SumEmpty
    <3>2. SumOf(G, {}) = u * SumOf(F, {})
      BY ONLY <3>1, u \in Int
    <3> QED BY <2>1, <3>2
  <2>2. CASE T # {}
    <3> DEFINE y == Pick(T)
    <3>1. y \in T /\ IsFiniteSet(T) /\ IsFiniteSet(T \ {y})
      BY <2>2, PickIn, FS_Subset
    <3>2. (\A x \in T : F[x] \in Int /\ G[x] \in Int) /\ G[y] = u * F[y]
      BY <3>1
    <3>3. SumOf(F, T) = F[y] + SumOf(F, T \ {y})
      BY <2>2, <3>1, <3>2, SumStep
    <3>4. SumOf(G, T) = G[y] + SumOf(G, T \ {y})
      BY <2>2, <3>1, <3>2, SumStep
    <3>5. SumOf(G, T \ {y}) = u * SumOf(F, T \ {y})
      <4>1. T \ {y} \in Times
        BY <1>1, <3>1
      <4> HIDE DEF SumOf, y
      <4> QED BY <4>1
    <3>6. SumOf(F, T \ {y}) \in Int /\ F[y] \in Int
      <4>1. \A x \in T \ {y} : F[x] \in Int
        BY <3>2
      <4> QED BY <3>1, <3>2, <4>1, SumType
    <3> HIDE DEF y, SumOf
    <3>7. \A a, b \in Int : u * a + u * b = u * (a + b)
      OBVIOUS
    <3>8. SumOf(G, T) = u * SumOf(F, T)
      BY <3>2, <3>3, <3>4, <3>5, <3>6, <3>7
    <3> QED BY <3>8
  <2> QED BY <2>1, <2>2
<1>2. SUBSET S \subseteq Times
  <2> HIDE DEF Times
  <2> QED BY <1>1, SubsetInduction
<1> QED BY <1>2

\* A sum by what h says of the elements.
LEMMA SumFibres ==
  ASSUME NEW S, IsFiniteSet(S), NEW F, \A x \in S : F[x] \in Int, NEW V, IsFiniteSet(V), NEW h, NEW P, NEW G,
         \A v \in V : P[v] \in SUBSET S /\ \A x \in S : x \in P[v] <=> h[x] = v,
         \A v \in V : G[v] = SumFunctionOnSet(F, P[v]),
         NEW T \in SUBSET S, \A x \in S : x \in T <=> h[x] \in V
  PROVE  SumFunctionOnSet(G, V) = SumFunctionOnSet(F, T)
<1>0. T = {x \in S : h[x] \in V} /\ \A v \in V : G[v] = SumFunctionOnSet(F, {x \in S : h[x] = v})
  <2>1. \A v \in V : P[v] = {x \in S : h[x] = v}
    OBVIOUS
  <2>2. ASSUME NEW v \in V PROVE G[v] = SumFunctionOnSet(F, {x \in S : h[x] = v})
    BY <2>1
  <2> QED BY <2>2
<1> DEFINE Of(W) == {x \in S : h[x] \in W}
           Good == {W \in SUBSET V : SumFunctionOnSet(G, W) = SumFunctionOnSet(F, Of(W))}
<1>1. ASSUME NEW W \in SUBSET V, \A v \in W : W \ {v} \in Good PROVE W \in Good
  <2>1. CASE W = {}
    <3>1. Of(W) = {}
      BY <2>1
    <3>2. SumFunctionOnSet(G, {}) = 0 /\ SumFunctionOnSet(F, {}) = 0
      BY SumEmpty
    <3> HIDE DEF Of
    <3> QED BY <2>1, <3>1, <3>2
  <2>2. CASE W # {}
    <3> DEFINE v == Pick(W)
               A == {x \in S : h[x] = v}
               B == Of(W \ {v})
    <3>1. v \in W /\ IsFiniteSet(W)
      BY <2>2, PickIn, FS_Subset
    <3> HIDE DEF v
    <3>2. \A y \in W : G[y] \in Int
      <4> SUFFICES ASSUME NEW y \in W PROVE G[y] \in Int
        OBVIOUS
      <4> DEFINE C == {x \in S : h[x] = y}
      <4>1. IsFiniteSet(C) /\ \A x \in C : F[x] \in Int
        BY FS_Subset
      <4>2. G[y] = SumFunctionOnSet(F, C)
        BY <1>0
      <4> HIDE DEF C
      <4> QED BY <4>1, <4>2, SumType
    <3>3. SumFunctionOnSet(G, W) = G[v] + SumFunctionOnSet(G, W \ {v})
      BY <3>1, <3>2, SumElement
    <3>4. SumFunctionOnSet(G, W \ {v}) = SumFunctionOnSet(F, B)
      <4>1. W \ {v} \in Good
        BY <1>1, <3>1
      <4> QED BY <4>1
    <3>5. G[v] = SumFunctionOnSet(F, A)
      BY <1>0, <3>1
    <3>6. A \in SUBSET S /\ B \in SUBSET S /\ A \cap B = {} /\ A \cup B = Of(W)
      BY <3>1
    <3> HIDE DEF A, B, Of
    <3>7. SumFunctionOnSet(F, A \cup B) = SumFunctionOnSet(F, A) + SumFunctionOnSet(F, B)
      BY <3>6, SumUnion
    <3> QED BY <3>3, <3>4, <3>5, <3>6, <3>7
  <2> QED BY <2>1, <2>2
<1>2. SUBSET V \subseteq Good
  <2> HIDE DEF Good
  <2> QED BY <1>1, SubsetInduction
<1>3. V \in Good
  BY <1>2
<1> QED BY <1>0, <1>3

\* One element more, or more of one element.
LEMMA SumBump ==
  ASSUME NEW S, IsFiniteSet(S), NEW T \in SUBSET S, NEW z, S \ T \subseteq {z}, NEW c \in Int,
         NEW F, \A x \in T : F[x] \in Int, NEW G,
         \A x \in S : G[x] = (IF x \in T THEN F[x] ELSE 0) + IF x = z THEN c ELSE 0
  PROVE  SumFunctionOnSet(G, S) = SumFunctionOnSet(F, T) + IF z \in S THEN c ELSE 0
<1> DEFINE Old == [x \in S |-> IF x \in T THEN F[x] ELSE 0]
           New == [x \in S |-> IF x = z THEN c ELSE 0]
<1>1. \A x \in S : Old[x] \in Int /\ New[x] \in Int /\ G[x] = Old[x] + New[x]
  OBVIOUS
<1>2. SumFunctionOnSet(Old, S) = SumFunctionOnSet(F, T)
  <2>1. /\ \A x \in S : Old[x] \in Int
        /\ \A x \in S : Old[x] = IF x \in T THEN Old[x] ELSE 0
    OBVIOUS
  <2>2. IsFiniteSet(T) /\ \A x \in T : F[x] \in Int /\ Old[x] = F[x]
    BY FS_Subset
  <2> HIDE DEF Old
  <2>3. SumFunctionOnSet(Old, S) = SumFunctionOnSet(Old, T)
    BY <2>1, SumOver
  <2>4. SumFunctionOnSet(Old, T) = SumFunctionOnSet(F, T)
    BY <2>2, SumEqual
  <2> QED BY <2>3, <2>4
<1>3. SumFunctionOnSet(New, S) = IF z \in S THEN c ELSE 0
  <2>1. (\A x \in S : New[x] \in Int) /\ (\A x \in S \ {z} : New[x] = 0) /\ (z \in S => New[z] = c)
    OBVIOUS
  <2>2. IsFiniteSet(S \ {z})
    BY FS_Subset
  <2> HIDE DEF New
  <2> DEFINE R == S \ {z}
  <2>3. SumFunctionOnSet(New, R) = 0
    <3>1. IsFiniteSet(R) /\ \A x \in R : New[x] = 0
      BY <2>1, <2>2
    <3> HIDE DEF R
    <3> QED BY <3>1, SumZero
  <2>4. CASE z \in S
    <3>1. SumFunctionOnSet(New, S) = New[z] + SumFunctionOnSet(New, S \ {z})
      BY <2>1, <2>4, SumElement
    <3> QED BY <2>1, <2>3, <2>4, <3>1
  <2>5. CASE z \notin S
    <3>1. R = S
      BY <2>5
    <3> HIDE DEF R
    <3> QED BY <2>3, <2>5, <3>1
  <2> QED BY <2>4, <2>5
<1> HIDE DEF Old, New
<1>4. SumFunctionOnSet(G, S) = SumFunctionOnSet(Old, S) + SumFunctionOnSet(New, S)
  BY <1>1, SumPlus
<1> QED BY <1>2, <1>3, <1>4
=============================================================================
