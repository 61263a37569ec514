---------------------------- MODULE FoldTheorems ----------------------------
(***************************************************************************)
(* The folds of the community modules, taken a step at a time.  An         *)
(* instance of this module names the step: how Op takes the element x into *)
(* what there is so far, a, given c.                                       *)
(***************************************************************************)
EXTENDS SequencesExt, SumTheorems

CONSTANT Op(_, _, _)

Left(c, base, q)  == FoldLeft(LAMBDA a, x : Op(c, a, x), base, q)
OfSet(c, base, S) == FoldSet(LAMBDA x, a : Op(c, a, x), base, S)

\* A fold of the subsets of S, each by the element top takes of it, e being what is
\* folded of an element.
IsFoldOf(g, c, base, S, top, e) ==
  g = [s \in SUBSET S |-> IF s = {} THEN base ELSE Op(c, g[s \ {top[s]}], e[top[s]])]

\* There is one: it is made for the subsets of up to n elements at a time.
LEMMA FoldExists ==
  ASSUME NEW S, IsFiniteSet(S), NEW c, NEW base, NEW e,
         NEW top, \A s \in SUBSET S : s # {} => top[s] \in s
  PROVE  \E g : IsFoldOf(g, c, base, S, top, e)
<1> DEFINE Small(n) == {s \in SUBSET S : Cardinality(s) <= n}
           By(g, s) == IF s = {} THEN base ELSE Op(c, g[s \ {top[s]}], e[top[s]])
           On(n, g) == \A s \in Small(n) : g[s] = By(g, s)
           Built == {n \in Nat : \E g : On(n, g)}
<1>1. \A s \in SUBSET S : IsFiniteSet(s) /\ Cardinality(s) \in Nat /\ (s = {} <=> Cardinality(s) = 0)
  BY FS_Subset, FS_CardinalityType, FS_EmptySet
<1>2. ASSUME NEW s \in SUBSET S, s # {}
      PROVE  s \ {top[s]} \in SUBSET S /\ Cardinality(s \ {top[s]}) = Cardinality(s) - 1
  <2>1. top[s] \in s /\ IsFiniteSet(s)
    BY <1>1, <1>2
  <2> QED BY <2>1, FS_RemoveElement
<1>3. 0 \in Built
  <2> DEFINE g == [s \in Small(0) |-> base]
  <2>1. \A s \in Small(0) : s = {}
    BY <1>1
  <2>2. On(0, g)
    BY <2>1
  <2> HIDE DEF g, On
  <2> QED BY <2>2
<1>4. ASSUME NEW n \in Nat, n \in Built PROVE n + 1 \in Built
  <2>1. PICK g : On(n, g)
    BY <1>4
  <2> DEFINE h == [s \in Small(n + 1) |-> By(g, s)]
  <2>2. ASSUME NEW s \in Small(n + 1), s # {}
        PROVE  s \ {top[s]} \in Small(n) /\ s \ {top[s]} \in Small(n + 1)
    <3>1. s \in SUBSET S /\ Cardinality(s) \in Nat /\ Cardinality(s) <= n + 1
      BY <1>1
    <3>2. s \ {top[s]} \in SUBSET S /\ Cardinality(s \ {top[s]}) = Cardinality(s) - 1
      BY <1>2, <2>2, <3>1
    <3>3. Cardinality(s \ {top[s]}) <= n /\ Cardinality(s \ {top[s]}) <= n + 1
      BY ONLY <3>1, <3>2, n \in Nat
    <3> QED BY <3>2, <3>3
  <2>3. ASSUME NEW s \in Small(n + 1), s # {} PROVE h[s \ {top[s]}] = g[s \ {top[s]}]
    <3> DEFINE t == s \ {top[s]}
    <3>1. t \in Small(n) /\ t \in Small(n + 1)
      BY <2>2, <2>3
    <3> HIDE DEF t, Small
    <3>2. h[t] = By(g, t)
      BY <3>1
    <3>3. g[t] = By(g, t)
      BY <2>1, <3>1
    <3> QED BY <3>2, <3>3 DEF t
  <2>4. On(n + 1, h)
    <3>1. ASSUME NEW s \in Small(n + 1) PROVE h[s] = By(h, s)
      <4>1. h[s] = By(g, s)
        OBVIOUS
      <4> HIDE DEF h
      <4>2. CASE s = {}
        BY <4>1, <4>2
      <4>3. CASE s # {}
        BY <4>1, <4>3, <2>3
      <4> QED BY <4>2, <4>3
    <3> QED BY <3>1
  <2> HIDE DEF On, h
  <2> QED BY <2>4
<1>5. Cardinality(S) \in Built
  <2>1. Cardinality(S) \in Nat
    BY <1>1
  <2>2. Nat \subseteq Built
    <3> HIDE DEF Built
    <3> QED BY <1>3, <1>4, NumberInduction
  <2> QED BY <2>1, <2>2
<1>6. PICK g : On(Cardinality(S), g)
  BY <1>5
<1> DEFINE h == [s \in SUBSET S |-> By(g, s)]
<1>7. \A s \in SUBSET S : s \in Small(Cardinality(S))
  BY FS_Subset
<1>8. \A s \in SUBSET S : h[s] = g[s]
  BY <1>6, <1>7
<1>9. \A s \in SUBSET S : h[s] = By(h, s)
  <2>1. \A s \in SUBSET S : h[s] = By(g, s)
    OBVIOUS
  <2>2. \A s \in SUBSET S : s \ {top[s]} \in SUBSET S
    OBVIOUS
  <2> HIDE DEF h
  <2> QED BY <1>8, <2>1, <2>2
<1>10. h = [s \in SUBSET S |-> By(h, s)]
  <2>1. h = [s \in SUBSET S |-> h[s]]
    OBVIOUS
  <2> HIDE DEF h
  <2> QED BY <1>9, <2>1
<1> HIDE DEF h
<1> QED BY <1>10 DEF IsFoldOf

\* The greatest of a set of numbers up to n.
LEMMA TopIs ==
  ASSUME NEW n \in Nat, NEW s \in SUBSET (1..n), s # {}
  PROVE  Max(s) \in s /\ \A i \in s : i <= Max(s)
<1>1. PICK t \in s : TRUE
  OBVIOUS
<1>2. s \in SUBSET Nat /\ \A i \in s : i <= n
  OBVIOUS
<1> QED BY <1>1, <1>2, GreatestNumber

\* A fold to the left goes from element to element.
Runs(c, base, q, n, r) == r[0] = base /\ \A i \in 1..n : r[i] = Op(c, r[i - 1], q[i])

LEMMA LeftRuns ==
  ASSUME NEW c, NEW base, NEW q, NEW n \in Nat, DOMAIN q = 1..n
  PROVE  \E r : Runs(c, base, q, n, r) /\ Left(c, base, q) = r[n]
<1> DEFINE S == 1..n
           Made(g) == g = [s \in SUBSET S |-> IF s = {} THEN base ELSE Op(c, g[s \ {Max(s)}], q[Max(s)])]
           f == CHOOSE g : Made(g)
<1>1. Left(c, base, q) = f[S]
  BY DEF Left, FoldLeft, MapThenFoldSet
<1>2. Made(f)
  <2> DEFINE top == [s \in SUBSET S |-> Max(s)]
  <2>1. IsFiniteSet(S)
    BY FS_Interval
  <2>2. \A s \in SUBSET S : s # {} => top[s] \in s
    BY TopIs
  <2>3. \A s \in SUBSET S : top[s] = Max(s)
    OBVIOUS
  <2> HIDE DEF top, S
  <2>4. PICK g : IsFoldOf(g, c, base, S, top, q)
    BY <2>1, <2>2, FoldExists
  <2>5. Made(g)
    BY <2>3, <2>4 DEF IsFoldOf
  <2> HIDE DEF Made
  <2> QED BY <2>5
<1>3. \A s \in SUBSET S : f[s] = IF s = {} THEN base ELSE Op(c, f[s \ {Max(s)}], q[Max(s)])
  <2> HIDE DEF f
  <2> QED BY <1>2
<1> HIDE DEF f
<1> DEFINE r == [i \in 0..n |-> f[1..i]]
<1>4. r[0] = base
  <2>1. 1..0 = {} /\ {} \in SUBSET S /\ 0 \in 0..n
    OBVIOUS
  <2>2. f[{}] = base
    <3> HIDE DEF S
    <3> QED BY <1>3, <2>1
  <2>3. r[0] = f[1..0]
    BY <2>1
  <2> QED BY <2>1, <2>2, <2>3
<1>5. ASSUME NEW i \in 1..n PROVE r[i] = Op(c, r[i - 1], q[i])
  <2> DEFINE s == 1..i
  <2>0. i \in Nat /\ i >= 1 /\ i <= n
    OBVIOUS
  <2>1. s \in SUBSET S /\ s # {} /\ i \in s /\ i - 1 \in 0..n /\ i \in 0..n
    BY <2>0
  <2>4. s \ {i} = 1..(i - 1)
    BY <2>0
  <2>2. Max(s) = i
    <3>1. Max(s) \in s /\ \A j \in s : j <= Max(s)
      BY <2>1, TopIs
    <3> QED BY <3>1
  <2>3. f[s] = Op(c, f[s \ {i}], q[i])
    <3> HIDE DEF s, S
    <3> QED BY <1>3, <2>1, <2>2
  <2>5. r[i] = f[s] /\ r[i - 1] = f[1..(i - 1)]
    BY <2>1
  <2> HIDE DEF r, s
  <2> QED BY <2>3, <2>4, <2>5
<1>6. r[n] = Left(c, base, q)
  BY <1>1
<1> HIDE DEF r
<1>7. Runs(c, base, q, n, r)
  BY <1>4, <1>5 DEF Runs
<1> QED BY <1>6, <1>7

\* The fold of a set takes its elements one by one.
LEMMA OfSetStep ==
  ASSUME NEW c, NEW base, NEW S, IsFiniteSet(S)
  PROVE  /\ OfSet(c, base, {}) = base
         /\ S # {} => OfSet(c, base, S) = Op(c, OfSet(c, base, S \ {Pick(S)}), Pick(S))
<1> DEFINE Made(g, T) == g = [s \in SUBSET T |-> IF s = {} THEN base ELSE Op(c, g[s \ {Pick(s)}], Pick(s))]
           Of(T) == CHOOSE g : Made(g, T)
<1>1. \A T : OfSet(c, base, T) = Of(T)[T]
  BY DEF OfSet, FoldSet, MapThenFoldSet, Pick
<1>2. ASSUME NEW T, IsFiniteSet(T) PROVE Made(Of(T), T)
  <2> DEFINE top == [s \in SUBSET T |-> Pick(s)]
             e   == [x \in T |-> x]
  <2>1. \A s \in SUBSET T : s # {} => top[s] \in s
    BY PickIn
  <2>2. \A s \in SUBSET T : s # {} => top[s] = Pick(s) /\ e[top[s]] = Pick(s)
    BY PickIn
  <2> HIDE DEF top, e
  <2>3. PICK g : IsFoldOf(g, c, base, T, top, e)
    BY <1>2, <2>1, FoldExists
  <2>4. Made(g, T)
    BY <2>2, <2>3 DEF IsFoldOf
  <2> HIDE DEF Made
  <2> QED BY <2>4
<1>3. ASSUME NEW T, IsFiniteSet(T)
      PROVE  \A s \in SUBSET T : Of(T)[s] = IF s = {} THEN base ELSE Op(c, Of(T)[s \ {Pick(s)}], Pick(s))
  <2>1. Made(Of(T), T)
    BY <1>2, <1>3
  <2> HIDE DEF Of
  <2> QED BY <2>1
<1> HIDE DEF Made, Of
<1>4. OfSet(c, base, {}) = base
  BY <1>1, <1>3, FS_EmptySet
<1>5. ASSUME NEW T \in SUBSET S PROVE Of(S)[T] = Of(T)[T]
  <2> DEFINE Same == {s \in SUBSET T : Of(S)[s] = Of(T)[s]}
  <2>1. IsFiniteSet(T)
    BY FS_Subset
  <2>2. ASSUME NEW s \in SUBSET T, \A x \in s : s \ {x} \in Same PROVE s \in Same
    <3>1. s \in SUBSET S
      OBVIOUS
    <3>2. s # {} => Pick(s) \in s /\ Of(S)[s \ {Pick(s)}] = Of(T)[s \ {Pick(s)}]
      BY <2>2, PickIn
    <3>3. /\ Of(S)[s] = IF s = {} THEN base ELSE Op(c, Of(S)[s \ {Pick(s)}], Pick(s))
          /\ Of(T)[s] = IF s = {} THEN base ELSE Op(c, Of(T)[s \ {Pick(s)}], Pick(s))
      BY <1>3, <2>1, <3>1
    <3>4. Of(S)[s] = Of(T)[s]
      <4>1. CASE s = {}
        BY <3>3, <4>1
      <4>2. CASE s # {}
        BY <3>2, <3>3, <4>2
      <4> QED BY <4>1, <4>2
    <3> QED BY <3>4
  <2>3. SUBSET T \subseteq Same
    <3> HIDE DEF Same
    <3> QED BY <2>1, <2>2, SubsetInduction
  <2> QED BY <2>3
<1>6. ASSUME S # {} PROVE OfSet(c, base, S) = Op(c, OfSet(c, base, S \ {Pick(S)}), Pick(S))
  <2> DEFINE T == S \ {Pick(S)}
  <2>1. Of(S)[S] = Op(c, Of(S)[T], Pick(S))
    BY <1>3, <1>6
  <2>2. Of(S)[T] = Of(T)[T]
    BY <1>5
  <2> QED BY <1>1, <2>1, <2>2
<1> QED BY <1>4, <1>6
=============================================================================
