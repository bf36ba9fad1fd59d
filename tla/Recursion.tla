----------------------------- MODULE Recursion -----------------------------
(***************************************************************************)
(* Induction and recursion on data, stated of sets and functions instead   *)
(* of operators.                                                           *)
(***************************************************************************)
EXTENDS Integers, Sequences, SequencesExt, FiniteSets, FiniteSetsExt, FiniteSetTheorems, WellFoundedInduction, TLAPS

\* Every set of naturals has a least element.
LEMMA Least ==
  ASSUME NEW T, T \subseteq Nat, T # {}
  PROVE \E m \in T : \A k \in T : m <= k
<1> DEFINE R == OpToRel(<, Nat)
<1>1. IsWellFoundedOn(R, Nat)
  BY NatLessThanWellFounded
<1>2. \A x, y \in Nat : y < x => <<y, x>> \in R
  BY DEF OpToRel
<1> HIDE DEF R
<1>3. PICK x \in T : \A y \in T : ~(<<y, x>> \in R)
  BY <1>1, WFMin
<1>4. \A y \in T : y \in Nat /\ x \in Nat /\ ~(y < x)
  BY <1>2, <1>3
<1>5. \A y \in T : x <= y
  BY <1>4
<1> QED BY <1>5

\* Induction, on the set of the naturals that have the property.
LEMMA Induction ==
  ASSUME NEW S, 0 \in S, \A n \in Nat : n \in S => n + 1 \in S
  PROVE Nat \subseteq S
<1> DEFINE T == Nat \ S
<1> SUFFICES ASSUME T # {} PROVE FALSE
  OBVIOUS
<1>1. PICK m \in T : \A k \in T : m <= k
  BY Least
<1>2. m # 0 /\ m - 1 \in Nat /\ m \in Nat
  BY <1>1
<1>3. m - 1 \in S
  BY <1>1, <1>2
<1> QED BY <1>1, <1>2, <1>3

\* What repeating step makes of x.
Iterations(X, x, step) ==
  {f \in [Nat -> X] : f[0] = x /\ \A n \in Nat : f[n + 1] = step[f[n]]}

\* A step can be repeated for ever.
LEMMA Iteration ==
  ASSUME NEW X, NEW x, x \in X, NEW step, step \in [X -> X]
  PROVE Iterations(X, x, step) # {}
<1> DEFINE G(n) == {g \in [0..n -> X] : g[0] = x /\ \A k \in 0..(n - 1) : g[k + 1] = step[g[k]]}
\* Each beginning of the iteration exists,
<1>1. \A n \in Nat : G(n) # {}
  <2> DEFINE S == {n \in Nat : G(n) # {}}
  <2>1. 0 \in S
    <3>1. [k \in 0..0 |-> x] \in G(0)
      OBVIOUS
    <3> QED BY <3>1
  <2>2. ASSUME NEW n \in Nat, n \in S PROVE n + 1 \in S
    <3>1. PICK g \in [0..n -> X] : g[0] = x /\ \A k \in 0..(n - 1) : g[k + 1] = step[g[k]]
      BY <2>2
    <3> DEFINE h == [k \in 0..(n + 1) |-> IF k = n + 1 THEN step[g[n]] ELSE g[k]]
    <3>2. step[g[n]] \in X
      BY <3>1
    <3>3. h \in [0..(n + 1) -> X] /\ h[0] = x
      BY <3>1, <3>2
    <3>4. ASSUME NEW k \in 0..n PROVE h[k + 1] = step[h[k]]
      <4>1. CASE k = n
        <5>1. h[n + 1] = step[g[n]]
          OBVIOUS
        <5>2. h[n] = g[n]
          OBVIOUS
        <5> QED BY <4>1, <5>1, <5>2
      <4>2. CASE k # n
        BY <3>1, <4>2
      <4> QED BY <4>1, <4>2
    <3> HIDE DEF h
    <3>5. \A k \in 0..((n + 1) - 1) : h[k + 1] = step[h[k]]
      BY <3>4
    <3> QED BY <3>3, <3>5
  <2> HIDE DEF S
  <2>3. Nat \subseteq S
    BY <2>1, <2>2, Induction
  <2> QED BY <2>3 DEF S
\* and agrees with every longer one.
<1>2. ASSUME NEW m \in Nat, NEW n \in Nat, NEW g \in G(m), NEW h \in G(n)
      PROVE \A k \in Nat : k <= m /\ k <= n => g[k] = h[k]
  <2> DEFINE S == {k \in Nat : k <= m /\ k <= n => g[k] = h[k]}
  <2>1. 0 \in S
    OBVIOUS
  <2>2. ASSUME NEW k \in Nat, k \in S PROVE k + 1 \in S
    <3> SUFFICES ASSUME k + 1 <= m, k + 1 <= n PROVE g[k + 1] = h[k + 1]
      OBVIOUS
    <3>1. k \in 0..(m - 1) /\ k \in 0..(n - 1) /\ g[k] = h[k]
      BY <2>2
    <3>2. g[k + 1] = step[g[k]] /\ h[k + 1] = step[h[k]]
      BY <3>1
    <3> QED BY <3>1, <3>2
  <2> HIDE DEF S
  <2>3. Nat \subseteq S
    BY <2>1, <2>2, Induction
  <2> QED BY <2>3 DEF S
<1> DEFINE g(n) == CHOOSE g \in G(n) : TRUE
           f == [n \in Nat |-> g(n)[n]]
<1>3. \A n \in Nat : g(n) \in G(n)
  BY <1>1
<1> HIDE DEF g, G
<1>4. f \in [Nat -> X] /\ f[0] = x
  BY <1>3 DEF G
<1>5. ASSUME NEW n \in Nat PROVE f[n + 1] = step[f[n]]
  <2>1. f[n + 1] = g(n + 1)[n + 1] /\ f[n] = g(n)[n]
    OBVIOUS
  <2>2. g(n)[n] = g(n + 1)[n]
    BY <1>2, <1>3
  <2>3. g(n + 1)[n + 1] = step[g(n + 1)[n]]
    BY <1>3 DEF G
  <2> QED BY <2>1, <2>2, <2>3
<1> HIDE DEF f
<1> QED BY <1>4, <1>5 DEF Iterations

\* The functions of the subsets of D that take off one element after the other.
SetRecursions(D, X, x, step, pick) ==
  {f \in [SUBSET D -> X] :
     \A s \in SUBSET D : f[s] = IF s = {} THEN x ELSE step[<<pick[s], f[s \ {pick[s]}]>>]}

\* Taking an element off a finite set leaves one less.
LEMMA OneLess ==
  ASSUME NEW s, IsFiniteSet(s), NEW e \in s
  PROVE  Cardinality(s \ {e}) = Cardinality(s) - 1
  BY FS_RemoveElement

\* A function of the subsets of a finite set, which takes one element off after
\* the other (MapThenFoldSet of the module Folds).
LEMMA SetRecursion ==
  ASSUME NEW D, IsFiniteSet(D), NEW X, NEW x \in X, NEW step \in [D \X X -> X],
         NEW pick \in [SUBSET D -> D \cup {D}], \A s \in SUBSET D : s # {} => pick[s] \in s
  PROVE SetRecursions(D, X, x, step, pick) # {}
<1> DEFINE F == [SUBSET D -> X]
           Better(f) == [s \in SUBSET D |-> IF s = {} THEN x ELSE step[<<pick[s], f[s \ {pick[s]}]>>]]
           next == [f \in F |-> Better(f)]
           zero == [s \in SUBSET D |-> x]
<1>1. \A f \in F : Better(f) \in F
  <2> SUFFICES ASSUME NEW f \in F, NEW s \in SUBSET D, s # {} PROVE step[<<pick[s], f[s \ {pick[s]}]>>] \in X
    OBVIOUS
  <2>1. pick[s] \in D /\ s \ {pick[s]} \in SUBSET D
    OBVIOUS
  <2> QED BY <2>1
<1>2. zero \in F
  OBVIOUS
<1> HIDE DEF F
<1>3. next \in [F -> F]
  BY <1>1
<1> HIDE DEF next, zero, Better
<1>4. PICK g \in Iterations(F, zero, next) : TRUE
  BY <1>2, <1>3, Iteration
<1>4a. g \in [Nat -> F] /\ g[0] = zero /\ \A n \in Nat : g[n + 1] = next[g[n]]
  BY <1>4 DEF Iterations
<1>5. \A n \in Nat : g[n + 1] = Better(g[n])
  BY <1>4a DEF next
\* What is iterated often enough for a set does not change any more.
<1>6. \A n \in Nat : \A s \in SUBSET D : Cardinality(s) <= n => g[n + 1][s] = g[n][s]
  <2> DEFINE S == {n \in Nat : \A s \in SUBSET D : Cardinality(s) <= n => g[n + 1][s] = g[n][s]}
  <2>1. 0 \in S
    <3> SUFFICES ASSUME NEW s \in SUBSET D, Cardinality(s) <= 0 PROVE g[1][s] = g[0][s]
      OBVIOUS
    <3>1. s = {}
      <4>1. IsFiniteSet(s) /\ Cardinality(s) \in Nat
        BY FS_Subset, FS_CardinalityType
      <4> QED BY <4>1, FS_EmptySet
    <3>2. g[0 + 1] = Better(g[0])
      BY <1>5
    <3>3. Better(g[0])[{}] = x /\ zero[{}] = x
      BY DEF zero, Better
    <3> QED BY <1>4a, <3>1, <3>2, <3>3
  <2>2. ASSUME NEW n \in Nat, n \in S PROVE n + 1 \in S
    <3> SUFFICES ASSUME NEW s \in SUBSET D, Cardinality(s) <= n + 1 PROVE g[(n + 1) + 1][s] = g[n + 1][s]
      OBVIOUS
    <3>1. g[(n + 1) + 1] = Better(g[n + 1]) /\ g[n + 1] = Better(g[n])
      BY <1>5, n + 1 \in Nat
    <3>2. CASE s = {}
      BY <3>1, <3>2 DEF Better
    <3>3. CASE s # {}
      <4>1. pick[s] \in s /\ s \ {pick[s]} \in SUBSET D
        BY <3>3
      <4>2. IsFiniteSet(s) /\ Cardinality(s) \in Nat
        BY FS_Subset, FS_CardinalityType
      <4>3. Cardinality(s \ {pick[s]}) <= n
        <5> SUFFICES ASSUME NEW e \in s, e = pick[s] PROVE Cardinality(s \ {e}) <= n
          BY <4>1
        <5>1. Cardinality(s \ {e}) = Cardinality(s) - 1
          BY <4>2, OneLess
        <5> QED BY <4>2, <5>1
      <4>4. g[n + 1][s \ {pick[s]}] = g[n][s \ {pick[s]}]
        BY <2>2, <4>1, <4>3
      <4>5. /\ Better(g[n + 1])[s] = step[<<pick[s], g[n + 1][s \ {pick[s]}]>>]
            /\ Better(g[n])[s] = step[<<pick[s], g[n][s \ {pick[s]}]>>]
        BY <3>3 DEF Better
      <4> QED BY <3>1, <4>4, <4>5
    <3> QED BY <3>2, <3>3
  <2> HIDE DEF S
  <2>3. Nat \subseteq S
    BY <2>1, <2>2, Induction
  <2> QED BY <2>3 DEF S
<1> DEFINE n == Cardinality(D)
<1>7. n \in Nat /\ \A s \in SUBSET D : Cardinality(s) <= n
  BY FS_CardinalityType, FS_Subset
<1> HIDE DEF n
<1>8. g[n] \in F
  BY <1>4a, <1>7
<1>9. \A s \in SUBSET D : g[n][s] = Better(g[n])[s]
  BY <1>5, <1>6, <1>7
<1> DEFINE h == g[n]
<1>10. /\ h \in [SUBSET D -> X]
       /\ \A s \in SUBSET D : h[s] = IF s = {} THEN x ELSE step[<<pick[s], h[s \ {pick[s]}]>>]
  BY <1>8, <1>9 DEF F, Better
<1> HIDE DEF h
<1>11. h \in SetRecursions(D, X, x, step, pick)
  BY <1>10 DEF SetRecursions
<1> QED BY <1>11

\* The largest of the first k numbers is k.
LEMMA MaxOfPrefix ==
  ASSUME NEW k \in Nat \ {0}
  PROVE Max(1..k) = k /\ (1..k) \ {k} = 1..(k - 1) /\ 1..k # {}
<1>1. \A m \in 1..k : (\A j \in 1..k : m >= j) <=> m = k
  OBVIOUS
<1>2. Max(1..k) = CHOOSE m \in 1..k : m = k
  BY <1>1 DEF Max
<1> QED BY <1>2

\* The largest number of a set of numbers up to n is one of them.
LEMMA MaxIsMember ==
  ASSUME NEW n \in Nat, NEW s \in SUBSET (1..n), s # {}
  PROVE Max(s) \in s
<1> DEFINE T == {n - k : k \in s}
<1>1. PICK m \in T : \A k \in T : m <= k
  <2>1. \A k \in s : k \in 1..n /\ n - k \in Nat
    OBVIOUS
  <2>2. T \subseteq Nat
    BY <2>1
  <2>3. T # {}
    OBVIOUS
  <2> HIDE DEF T
  <2> QED BY <2>2, <2>3, Least
<1>2. PICK k \in s : m = n - k
  BY <1>1
<1>3. \A j \in s : k >= j
  <2> SUFFICES ASSUME NEW j \in s PROVE k >= j
    OBVIOUS
  <2>1. m <= n - j
    BY <1>1
  <2> QED BY <1>2, <2>1
<1> QED BY <1>3 DEF Max

\* The functions that fold the elements at 1..n from left to right.
LeftFolds(n, X, x, step) ==
  {f \in [SUBSET (1..n) -> X] :
     \A s \in SUBSET (1..n) : f[s] = IF s = {} THEN x ELSE step[<<Max(s), f[s \ {Max(s)}]>>]}

\* FoldLeft has a value.
LEMMA LeftFold ==
  ASSUME NEW n \in Nat, NEW X, NEW x \in X, NEW step \in [(1..n) \X X -> X]
  PROVE LeftFolds(n, X, x, step) # {}
<1> DEFINE D == 1..n
           pick == [s \in SUBSET D |-> IF s = {} THEN D ELSE Max(s)]
<1>1. IsFiniteSet(D)
  BY FS_Interval
<1>2. pick \in [SUBSET D -> D \cup {D}] /\ \A s \in SUBSET D : s # {} => pick[s] \in s
  BY MaxIsMember
<1>3. \A s \in SUBSET D : s # {} => pick[s] = Max(s)
  OBVIOUS
<1>4. step \in [D \X X -> X]
  OBVIOUS
<1> HIDE DEF D, pick
<1>5. PICK f \in SetRecursions(D, X, x, step, pick) : TRUE
  BY <1>1, <1>2, <1>4, SetRecursion
<1>6. /\ f \in [SUBSET D -> X]
      /\ \A s \in SUBSET D : f[s] = IF s = {} THEN x ELSE step[<<Max(s), f[s \ {Max(s)}]>>]
  BY <1>3, <1>5 DEF SetRecursions
<1>7. f \in LeftFolds(n, X, x, step)
  BY <1>6 DEF D, LeftFolds
<1> QED BY <1>7

\* iter goes on as step does from a value of X.
FoldsAs(n, X, x, step, iter) ==
  /\ iter[{}] = x
  /\ \A s \in SUBSET (1..n) :
       s # {} /\ iter[s \ {Max(s)}] \in X => iter[s] = step[<<Max(s), iter[s \ {Max(s)}]>>]

\* What the fold that comes to y is after each of its elements.
Foldings(n, X, x, step, y) ==
  {T \in [0..n -> X] : T[0] = x /\ T[n] = y /\ \A k \in 1..n : T[k] = step[<<k, T[k - 1]>>]}

\* A function that goes on as step does is step taken one element after the other.
LEMMA FoldIsStepwise ==
  ASSUME NEW n \in Nat, NEW X, NEW x \in X, NEW step \in [(1..n) \X X -> X],
         NEW iter, FoldsAs(n, X, x, step, iter)
  PROVE Foldings(n, X, x, step, iter[1..n]) # {}
<1> DEFINE T == [k \in 0..n |-> iter[1..k]]
<1>1. T[0] = x
  <2>1. 1..0 = {}
    OBVIOUS
  <2> QED BY <2>1 DEF FoldsAs
<1>2. ASSUME NEW k \in 1..n, T[k - 1] \in X PROVE T[k] = step[<<k, T[k - 1]>>]
  <2>1. Max(1..k) = k /\ (1..k) \ {k} = 1..(k - 1) /\ 1..k # {}
    BY MaxOfPrefix, k \in Nat \ {0}
  <2>2. 1..k \in SUBSET (1..n)
    OBVIOUS
  <2>3. T[k] = iter[1..k] /\ T[k - 1] = iter[1..(k - 1)]
    OBVIOUS
  <2> QED BY <1>2, <2>1, <2>2, <2>3 DEF FoldsAs
<1>3. \A k \in 0..n : T[k] \in X
  <2> HIDE DEF T
  <2> DEFINE S == {k \in Nat : k <= n => T[k] \in X}
  <2>1. 0 \in S
    BY <1>1
  <2>2. ASSUME NEW k \in Nat, k \in S PROVE k + 1 \in S
    <3> SUFFICES ASSUME k + 1 <= n PROVE T[k + 1] \in X
      OBVIOUS
    <3>1. k + 1 \in 1..n /\ (k + 1) - 1 = k /\ T[k] \in X
      BY <2>2
    <3>2. T[k + 1] = step[<<k + 1, T[k]>>]
      BY <1>2, <3>1
    <3> QED BY <3>1, <3>2
  <2> HIDE DEF S
  <2>3. Nat \subseteq S
    BY <2>1, <2>2, Induction
  <2> QED BY <2>3 DEF S
<1>4. T[n] = iter[1..n] /\ T = [k \in 0..n |-> T[k]]
  OBVIOUS
<1> HIDE DEF T
<1>5. T \in [0..n -> X]
  BY <1>3, <1>4
<1>6. \A k \in 1..n : T[k] = step[<<k, T[k - 1]>>]
  <2> SUFFICES ASSUME NEW k \in 1..n PROVE T[k] = step[<<k, T[k - 1]>>]
    OBVIOUS
  <2>1. k - 1 \in 0..n
    OBVIOUS
  <2> QED BY <1>2, <1>3, <2>1
<1>7. T \in Foldings(n, X, x, step, iter[1..n])
  BY <1>1, <1>4, <1>5, <1>6 DEF Foldings
<1> QED BY <1>7

\* A recurrence on 1..n has a solution.
LEMMA Recurrence ==
  ASSUME NEW n \in Nat, NEW X, NEW x \in X, NEW step \in [(1..n) \X X -> X]
  PROVE \E y : Foldings(n, X, x, step, y) # {}
<1>1. PICK h \in LeftFolds(n, X, x, step) : TRUE
  BY LeftFold
<1>2. h[{}] = x
  BY <1>1 DEF LeftFolds
<1>3. FoldsAs(n, X, x, step, h)
  BY <1>1, <1>2 DEF FoldsAs, LeftFolds
<1>4. Foldings(n, X, x, step, h[1..n]) # {}
  BY <1>3, FoldIsStepwise
<1> QED BY <1>4

\* What FlattenSeq has put together, after each sequence.
Flattenings(n, E, s, y) ==
  {T \in [0..n -> Seq(E)] : T[0] = <<>> /\ T[n] = y /\ \A k \in 1..n : T[k] = T[k - 1] \o s[k]}

\* FlattenSeq puts sequences together from left to right.
LEMMA FlattenIsStepwise ==
  ASSUME NEW E, NEW s \in Seq(Seq(E))
  PROVE Flattenings(Len(s), E, s, FlattenSeq(s)) # {}
<1> DEFINE n == Len(s)
           X == Seq(E)
           step == [p \in (1..n) \X X |-> p[2] \o s[p[1]]]
           flatten == CHOOSE f : f = [i \in 1..n |-> IF i = 1 THEN s[i] ELSE f[i - 1] \o s[i]]
<1>1. FlattenSeq(s) = IF n = 0 THEN s ELSE flatten[n]
  BY DEF FlattenSeq
<1>2. n \in Nat /\ (n = 0 => s = <<>>) /\ \A i \in 1..n : s[i] \in X /\ <<>> \o s[i] = s[i]
  <2>1. n \in Nat /\ \A i \in 1..n : s[i] \in X
    OBVIOUS
  <2>2. n = 0 => s = <<>>
    OBVIOUS
  <2>3. \A e \in X : <<>> \o e = e
    OBVIOUS
  <2> QED BY <2>1, <2>2, <2>3
<1>3. <<>> \in X /\ \A a, b \in X : a \o b \in X
  OBVIOUS
<1> HIDE DEF n, X
<1>4. /\ step \in [(1..n) \X X -> X]
      /\ \A i \in 1..n, a \in X : step[<<i, a>>] = a \o s[i]
  BY <1>2, <1>3
<1> HIDE DEF step
<1>5. PICK y : Foldings(n, X, <<>>, step, y) # {}
  <2>1. n \in Nat /\ <<>> \in X /\ step \in [(1..n) \X X -> X]
    BY <1>2, <1>3, <1>4
  <2> QED BY <2>1, Recurrence
<1>6. PICK T \in Foldings(n, X, <<>>, step, y) : TRUE
  BY <1>5
<1>7. T \in [0..n -> X] /\ T[0] = <<>> /\ T[n] = y
  BY <1>6 DEF Foldings
<1>8. \A k \in 1..n : T[k] = T[k - 1] \o s[k]
  <2> SUFFICES ASSUME NEW k \in 1..n PROVE T[k] = T[k - 1] \o s[k]
    OBVIOUS
  <2>1. T[k] = step[<<k, T[k - 1]>>] /\ k - 1 \in 0..n
    BY <1>2, <1>6 DEF Foldings
  <2>2. T[k - 1] \in X
    BY <1>7, <2>1
  <2> QED BY <1>4, <2>1, <2>2
<1> DEFINE h == [i \in 1..n |-> T[i]]
<1>9. h = [i \in 1..n |-> IF i = 1 THEN s[i] ELSE h[i - 1] \o s[i]]
  <2> SUFFICES ASSUME NEW i \in 1..n PROVE h[i] = IF i = 1 THEN s[i] ELSE h[i - 1] \o s[i]
    OBVIOUS
  <2>1. h[i] = T[i - 1] \o s[i]
    BY <1>8
  <2>2. CASE i = 1
    <3>1. i - 1 = 0 /\ T[i - 1] = <<>>
      BY <1>7, <2>2
    <3>2. <<>> \o s[i] = s[i]
      BY <1>2
    <3> QED BY <2>1, <2>2, <3>1, <3>2
  <2>3. CASE i # 1
    <3>1. i - 1 \in 1..n
      BY <1>2, <2>3
    <3>2. h[i - 1] = T[i - 1]
      BY <3>1
    <3> QED BY <2>1, <2>3, <3>2
  <2> QED BY <2>2, <2>3
<1> HIDE DEF h
<1>10. flatten = [i \in 1..n |-> IF i = 1 THEN s[i] ELSE flatten[i - 1] \o s[i]]
  BY <1>9
<1> HIDE DEF flatten
<1>11. \A k \in 1..n : flatten[k] = T[k]
  <2> DEFINE S == {k \in Nat : k \in 1..n => flatten[k] = T[k]}
  <2>1. 0 \in S
    OBVIOUS
  <2>2. ASSUME NEW k \in Nat, k \in S PROVE k + 1 \in S
    <3> SUFFICES ASSUME k + 1 \in 1..n PROVE flatten[k + 1] = T[k + 1]
      OBVIOUS
    <3>0. (k + 1) - 1 = k
      OBVIOUS
    <3>1. (k + 1) - 1 = k /\ T[k + 1] = T[k] \o s[k + 1]
      <4>1. T[k + 1] = T[(k + 1) - 1] \o s[k + 1]
        BY <1>8
      <4> QED BY <3>0, <4>1
    <3>2. flatten[k + 1] = IF k + 1 = 1 THEN s[k + 1] ELSE flatten[k] \o s[k + 1]
      BY <1>10, <3>1
    <3>3. CASE k = 0
      <4>1. k + 1 = 1
        BY <3>3
      <4>2. flatten[k + 1] = s[k + 1]
        BY <3>2, <4>1
      <4>3. T[k + 1] = <<>> \o s[k + 1]
        BY <1>7, <3>1, <3>3
      <4>4. <<>> \o s[k + 1] = s[k + 1]
        BY <1>2
      <4> QED BY <4>2, <4>3, <4>4
    <3>4. CASE k # 0
      <4>1. k \in 1..n /\ k + 1 # 1
        BY <1>2, <3>4
      <4> QED BY <2>2, <3>1, <3>2, <4>1
    <3> QED BY <3>3, <3>4
  <2> HIDE DEF S
  <2>3. Nat \subseteq S
    BY <2>1, <2>2, Induction
  <2> QED BY <2>3 DEF S
<1>12. T[n] = FlattenSeq(s)
  <2>1. CASE n = 0
    BY <1>1, <1>2, <1>7, <2>1
  <2>2. CASE n # 0
    <3>1. n \in 1..n
      BY <1>2, <2>2
    <3> QED BY <1>1, <1>11, <2>2, <3>1
  <2> QED BY <2>1, <2>2
<1>13. T \in Flattenings(n, E, s, FlattenSeq(s))
  BY <1>7, <1>8, <1>12 DEF Flattenings, X
<1> QED BY <1>13 DEF n

\* One sequence more is one put at the end.
LEMMA FlattenGrows ==
  ASSUME NEW E, NEW s \in Seq(Seq(E)), NEW e \in Seq(E)
  PROVE FlattenSeq(Append(s, e)) = FlattenSeq(s) \o e
<1> DEFINE X == Seq(E)
           n == Len(s)
           t == Append(s, e)
<1>1. n \in Nat /\ t \in Seq(X) /\ Len(t) = n + 1 /\ t[n + 1] = e /\ \A i \in 1..n : t[i] = s[i]
  OBVIOUS
<1>2. PICK S \in Flattenings(n, E, s, FlattenSeq(s)) : TRUE
  BY FlattenIsStepwise
<1>3. PICK T \in Flattenings(n + 1, E, t, FlattenSeq(t)) : TRUE
  BY <1>1, FlattenIsStepwise
<1> HIDE DEF n, t
<1>4. S[0] = <<>> /\ S[n] = FlattenSeq(s) /\ \A k \in 1..n : S[k] = S[k - 1] \o s[k]
  BY <1>2 DEF Flattenings
<1>5. T[0] = <<>> /\ T[n + 1] = FlattenSeq(t) /\ \A k \in 1..(n + 1) : T[k] = T[k - 1] \o t[k]
  BY <1>3 DEF Flattenings
<1> DEFINE Same == {k \in Nat : k <= n => T[k] = S[k]}
<1>6. 0 \in Same
  BY <1>4, <1>5
<1>7. ASSUME NEW k \in Nat, k \in Same PROVE k + 1 \in Same
  <2> SUFFICES ASSUME k + 1 <= n PROVE T[k + 1] = S[k + 1]
    OBVIOUS
  <2>1. k + 1 \in 1..n /\ k + 1 \in 1..(n + 1) /\ (k + 1) - 1 = k /\ k <= n
    BY <1>1
  <2>2. T[k + 1] = T[k] \o t[k + 1] /\ S[k + 1] = S[k] \o s[k + 1]
    <3>1. T[k + 1] = T[(k + 1) - 1] \o t[k + 1] /\ S[k + 1] = S[(k + 1) - 1] \o s[k + 1]
      BY <1>4, <1>5, <2>1
    <3> QED BY <2>1, <3>1
  <2> QED BY <1>1, <1>7, <2>1, <2>2
<1>8. T[n] = S[n]
  <2> HIDE DEF Same
  <2>1. n \in Same
    BY <1>1, <1>6, <1>7, Induction
  <2> QED BY <1>1, <2>1 DEF Same
<1>9. T[n + 1] = T[n] \o e
  <2>1. n + 1 \in 1..(n + 1) /\ (n + 1) - 1 = n
    BY <1>1
  <2>2. T[n + 1] = T[(n + 1) - 1] \o t[n + 1]
    BY <1>5, <2>1
  <2> QED BY <1>1, <2>1, <2>2
<1> QED BY <1>4, <1>5, <1>8, <1>9 DEF t

\* What FlattenSeq puts together is a sequence; of nothing, the empty one.
LEMMA FlattenIsTyped ==
  ASSUME NEW E, NEW s \in Seq(Seq(E))
  PROVE FlattenSeq(s) \in Seq(E) /\ (s = <<>> => FlattenSeq(s) = <<>>)
<1> DEFINE n == Len(s)
<1>1. n \in Nat /\ (s = <<>> => n = 0)
  OBVIOUS
<1>2. PICK S \in Flattenings(n, E, s, FlattenSeq(s)) : TRUE
  BY FlattenIsStepwise
<1> HIDE DEF n
<1>3. S[0] = <<>> /\ S[n] = FlattenSeq(s) /\ S[n] \in Seq(E)
  BY <1>1, <1>2 DEF Flattenings
<1> QED BY <1>1, <1>3

-----------------------------------------------------------------------------
(* Sums over finite sets, and the first elements of orders *)

\* The sums of the weights w of the subsets of D.
SetSums(D, w) ==
  {f \in [SUBSET D -> Nat] : f[{}] = 0 /\ \A s \in SUBSET D : \A e \in s : f[s] = w[e] + f[s \ {e}]}

\* A finite set has a sum, whatever the order in which its elements are taken.
LEMMA SumExists ==
  ASSUME NEW D, IsFiniteSet(D), NEW w \in [D -> Nat]
  PROVE SetSums(D, w) # {}
<1> DEFINE step == [p \in D \X Nat |-> w[p[1]] + p[2]]
           pick == [s \in SUBSET D |-> IF s = {} THEN D ELSE CHOOSE e \in s : TRUE]
<1>1. step \in [D \X Nat -> Nat]
  OBVIOUS
<1>2. pick \in [SUBSET D -> D \cup {D}] /\ \A s \in SUBSET D : s # {} => pick[s] \in s
  OBVIOUS
<1> HIDE DEF step, pick
<1>3. PICK f \in SetRecursions(D, Nat, 0, step, pick) : TRUE
  BY <1>1, <1>2, SetRecursion
<1>4. /\ f \in [SUBSET D -> Nat]
      /\ f[{}] = 0
      /\ \A s \in SUBSET D : s # {} => f[s] = step[<<pick[s], f[s \ {pick[s]}]>>]
  BY <1>3 DEF SetRecursions
<1>5. \A s \in SUBSET D : s # {} => pick[s] \in s /\ f[s] = w[pick[s]] + f[s \ {pick[s]}]
  <2> SUFFICES ASSUME NEW s \in SUBSET D, s # {} PROVE pick[s] \in s /\ f[s] = w[pick[s]] + f[s \ {pick[s]}]
    OBVIOUS
  <2>1. pick[s] \in s /\ s \ {pick[s]} \in SUBSET D
    BY <1>2
  <2>2. f[s \ {pick[s]}] \in Nat /\ pick[s] \in D
    BY <1>4, <2>1
  <2> QED BY <1>4, <2>1, <2>2 DEF step
<1> DEFINE S == {n \in Nat : \A s \in SUBSET D : Cardinality(s) <= n => \A e \in s : f[s] = w[e] + f[s \ {e}]}
<1>6. 0 \in S
  <2> SUFFICES ASSUME NEW s \in SUBSET D, Cardinality(s) <= 0, NEW e \in s PROVE FALSE
    OBVIOUS
  <2>1. IsFiniteSet(s) /\ Cardinality(s) \in Nat
    BY FS_Subset, FS_CardinalityType
  <2> QED BY <2>1, FS_EmptySet
<1>7. ASSUME NEW n \in Nat, n \in S PROVE n + 1 \in S
  <2> SUFFICES ASSUME NEW s \in SUBSET D, Cardinality(s) <= n + 1, NEW e \in s PROVE f[s] = w[e] + f[s \ {e}]
    OBVIOUS
  <2> DEFINE p == pick[s]
  <2>1. p \in s /\ f[s] = w[p] + f[s \ {p}]
    BY <1>5
  <2> HIDE DEF p
  <2>2. CASE e = p
    BY <2>1, <2>2
  <2>3. CASE e # p
    <3>1. IsFiniteSet(s) /\ Cardinality(s) \in Nat
      BY FS_Subset, FS_CardinalityType
    <3>2. Cardinality(s \ {p}) = Cardinality(s) - 1 /\ Cardinality(s \ {e}) = Cardinality(s) - 1
      BY <2>1, <3>1, FS_RemoveElement
    <3>3. Cardinality(s \ {p}) <= n /\ Cardinality(s \ {e}) <= n
      BY <3>1, <3>2
    <3>4. e \in s \ {p} /\ p \in s \ {e} /\ s \ {p} \in SUBSET D /\ s \ {e} \in SUBSET D
      BY <2>1, <2>3
    <3>5. f[s \ {p}] = w[e] + f[(s \ {p}) \ {e}]
      BY <1>7, <3>3, <3>4
    <3>6. f[s \ {e}] = w[p] + f[(s \ {e}) \ {p}]
      BY <1>7, <3>3, <3>4
    <3>7. (s \ {p}) \ {e} = (s \ {e}) \ {p} /\ (s \ {e}) \ {p} \in SUBSET D
      OBVIOUS
    <3>8. f[(s \ {e}) \ {p}] \in Nat /\ w[e] \in Nat /\ w[p] \in Nat
      BY <1>4, <2>1, <3>7
    <3>9. \A a, b, c \in Nat : a + (b + c) = b + (a + c)
      OBVIOUS
    <3>10. f[s] = w[p] + (w[e] + f[(s \ {e}) \ {p}])
      BY <2>1, <3>5, <3>7
    <3>11. w[e] + f[s \ {e}] = w[e] + (w[p] + f[(s \ {e}) \ {p}])
      BY <3>6
    <3> QED BY <3>8, <3>9, <3>10, <3>11
  <2> QED BY <2>2, <2>3
<1> HIDE DEF S
<1>8. Nat \subseteq S
  BY <1>6, <1>7, Induction
<1>9. \A s \in SUBSET D : \A e \in s : f[s] = w[e] + f[s \ {e}]
  <2> SUFFICES ASSUME NEW s \in SUBSET D PROVE \A e \in s : f[s] = w[e] + f[s \ {e}]
    OBVIOUS
  <2>1. Cardinality(s) \in Nat
    BY FS_Subset, FS_CardinalityType
  <2> QED BY <1>8, <2>1 DEF S
<1> QED BY <1>4, <1>9 DEF SetSums

\* One step of MapThenSumSet (of FiniteSetsExt), of the weights w.
AddOne(D, w, g) ==
  [s \in SUBSET D |-> IF s = {} THEN 0 ELSE w[CHOOSE e \in s : TRUE] + g[s \ {CHOOSE e \in s : TRUE}]]

\* MapThenSumSet has a value,
LEMMA AddingExists ==
  ASSUME NEW D, IsFiniteSet(D), NEW w \in [D -> Nat]
  PROVE \E g : g = AddOne(D, w, g)
<1>1. PICK f \in SetSums(D, w) : TRUE
  BY SumExists
<1>2. f \in [SUBSET D -> Nat] /\ f[{}] = 0 /\ \A s \in SUBSET D : \A e \in s : f[s] = w[e] + f[s \ {e}]
  BY <1>1 DEF SetSums
<1>3. \A s \in SUBSET D : s # {} => f[s] = w[CHOOSE e \in s : TRUE] + f[s \ {CHOOSE e \in s : TRUE}]
  BY <1>2
<1>4. f = AddOne(D, w, f)
  BY <1>2, <1>3 DEF AddOne
<1> QED BY <1>4

\* and this is the sum.
LEMMA SumIsUnique ==
  ASSUME NEW D, IsFiniteSet(D), NEW w \in [D -> Nat], NEW f \in SetSums(D, w), NEW g, g = AddOne(D, w, g)
  PROVE \A s \in SUBSET D : g[s] = f[s]
<1>1. f \in [SUBSET D -> Nat] /\ f[{}] = 0 /\ \A s \in SUBSET D : \A e \in s : f[s] = w[e] + f[s \ {e}]
  BY DEF SetSums
<1> DEFINE S == {n \in Nat : \A s \in SUBSET D : Cardinality(s) <= n => g[s] = f[s]}
<1>2. 0 \in S
  <2> SUFFICES ASSUME NEW s \in SUBSET D, Cardinality(s) <= 0 PROVE g[s] = f[s]
    OBVIOUS
  <2>1. IsFiniteSet(s) /\ Cardinality(s) \in Nat
    BY FS_Subset, FS_CardinalityType
  <2>2. s = {}
    BY <2>1, FS_EmptySet
  <2> QED BY <1>1, <2>2 DEF AddOne
<1>3. ASSUME NEW n \in Nat, n \in S PROVE n + 1 \in S
  <2> SUFFICES ASSUME NEW s \in SUBSET D, Cardinality(s) <= n + 1 PROVE g[s] = f[s]
    OBVIOUS
  <2>1. CASE s = {}
    BY <1>1, <2>1 DEF AddOne
  <2>2. CASE s # {}
    <3> DEFINE p == CHOOSE e \in s : TRUE
    <3>1. p \in s /\ g[s] = w[p] + g[s \ {p}]
      BY <2>2 DEF AddOne
    <3> HIDE DEF p
    <3>2. IsFiniteSet(s) /\ Cardinality(s) \in Nat
      BY FS_Subset, FS_CardinalityType
    <3>3. Cardinality(s \ {p}) = Cardinality(s) - 1
      BY <3>1, <3>2, FS_RemoveElement
    <3>4. Cardinality(s \ {p}) <= n /\ s \ {p} \in SUBSET D
      BY <3>2, <3>3
    <3>5. g[s \ {p}] = f[s \ {p}]
      BY <1>3, <3>4
    <3> QED BY <1>1, <3>1, <3>5
  <2> QED BY <2>1, <2>2
<1> HIDE DEF S
<1>4. Nat \subseteq S
  BY <1>2, <1>3, Induction
<1> SUFFICES ASSUME NEW s \in SUBSET D PROVE g[s] = f[s]
  OBVIOUS
<1>5. Cardinality(s) \in Nat
  BY FS_Subset, FS_CardinalityType
<1> QED BY <1>4, <1>5 DEF S

\* v and h are what is left of the weights w and the sums f on E.
Restricted(E, w, f, v, h) ==
  /\ \A e \in E : v[e] = w[e]
  /\ h \in [SUBSET E -> Nat]
  /\ \A s \in SUBSET E : h[s] = f[s]

\* The sums of the parts of a set are sums of it.
LEMMA SumOfPart ==
  ASSUME NEW D, NEW w \in [D -> Nat], NEW f \in SetSums(D, w), NEW E \in SUBSET D,
         NEW v, NEW h, Restricted(E, w, f, v, h)
  PROVE h \in SetSums(E, v)
<1> USE DEF Restricted
<1>1. f[{}] = 0 /\ \A s \in SUBSET D : \A e \in s : f[s] = w[e] + f[s \ {e}]
  BY DEF SetSums
<1>2. h[{}] = 0
  BY <1>1
<1>3. ASSUME NEW s \in SUBSET E, NEW e \in s PROVE h[s] = v[e] + h[s \ {e}]
  <2>1. s \in SUBSET D /\ s \ {e} \in SUBSET E /\ e \in E
    OBVIOUS
  <2> QED BY <1>1, <2>1
<1> QED BY <1>2, <1>3 DEF SetSums

\* A sum is the sum of a part and of the rest.
LEMMA SumSplits ==
  ASSUME NEW D, IsFiniteSet(D), NEW w \in [D -> Nat], NEW f \in SetSums(D, w), NEW F \in SUBSET D
  PROVE f[D] = f[F] + f[D \ F]
<1>1. f \in [SUBSET D -> Nat] /\ f[{}] = 0 /\ \A s \in SUBSET D : \A e \in s : f[s] = w[e] + f[s \ {e}]
  BY DEF SetSums
<1> DEFINE Splits(s) == f[D] = f[s] + f[D \ s]
           S == {n \in Nat : \A s \in SUBSET D : Cardinality(s) <= n => Splits(s)}
<1> HIDE DEF Splits
<1>2. 0 \in S
  <2> SUFFICES ASSUME NEW s \in SUBSET D, Cardinality(s) <= 0 PROVE Splits(s)
    OBVIOUS
  <2>1. IsFiniteSet(s) /\ Cardinality(s) \in Nat
    BY FS_Subset, FS_CardinalityType
  <2>2. s = {} /\ D \ s = D /\ f[D] \in Nat
    BY <1>1, <2>1, FS_EmptySet
  <2> QED BY <1>1, <2>2 DEF Splits
<1>3. ASSUME NEW n \in Nat, n \in S PROVE n + 1 \in S
  <2> SUFFICES ASSUME NEW s \in SUBSET D, Cardinality(s) <= n + 1 PROVE Splits(s)
    OBVIOUS
  <2>1. IsFiniteSet(s) /\ Cardinality(s) \in Nat
    BY FS_Subset, FS_CardinalityType
  <2>2. CASE s = {}
    <3>1. D \ s = D /\ f[D] \in Nat
      BY <1>1, <2>2
    <3> QED BY <1>1, <2>2, <3>1 DEF Splits
  <2>3. CASE s # {}
    <3>1. PICK e \in s : TRUE
      BY <2>3
    <3>2. Cardinality(s \ {e}) = Cardinality(s) - 1
      BY <2>1, <3>1, FS_RemoveElement
    <3>3. Cardinality(s \ {e}) <= n /\ s \ {e} \in SUBSET D
      BY <2>1, <3>2
    <3>4. f[D] = f[s \ {e}] + f[D \ (s \ {e})]
      BY <1>3, <3>3 DEF Splits
    <3>5. e \in D \ (s \ {e}) /\ (D \ (s \ {e})) \ {e} = D \ s /\ D \ (s \ {e}) \in SUBSET D
      BY <3>1
    <3>6. f[D \ (s \ {e})] = w[e] + f[D \ s]
      BY <1>1, <3>5
    <3>7. f[s] = w[e] + f[s \ {e}]
      BY <1>1, <3>1
    <3>8. w[e] \in Nat /\ f[s \ {e}] \in Nat /\ f[D \ s] \in Nat
      BY <1>1, <3>1
    <3>9. \A a, b, c \in Nat : a + (b + c) = (b + a) + c
      OBVIOUS
    <3> QED BY <3>4, <3>6, <3>7, <3>8, <3>9 DEF Splits
  <2> QED BY <2>2, <2>3
<1> HIDE DEF S
<1>4. Nat \subseteq S
  BY <1>2, <1>3, Induction
<1>5. Cardinality(F) \in Nat
  BY FS_Subset, FS_CardinalityType
<1> QED BY <1>4, <1>5 DEF S, Splits

\* Equal sums: what a one-to-one map carries over into another set.
LEMMA SumOfImage ==
  ASSUME NEW D, IsFiniteSet(D), NEW w \in [D -> Nat], NEW f \in SetSums(D, w),
         NEW C, NEW v \in [C -> Nat], NEW g \in SetSums(C, v),
         NEW h \in [D -> C], \A d, e \in D : h[d] = h[e] => d = e, \A d \in D : w[d] = v[h[d]]
  PROVE f[D] = g[{h[d] : d \in D}]
<1>1. f \in [SUBSET D -> Nat] /\ f[{}] = 0 /\ \A s \in SUBSET D : \A e \in s : f[s] = w[e] + f[s \ {e}]
  BY DEF SetSums
<1>2. g[{}] = 0 /\ \A s \in SUBSET C : \A e \in s : g[s] = v[e] + g[s \ {e}]
  BY DEF SetSums
<1> DEFINE Image(s) == {h[d] : d \in s}
           S == {n \in Nat : \A s \in SUBSET D : Cardinality(s) <= n => f[s] = g[Image(s)]}
<1>3. 0 \in S
  <2> SUFFICES ASSUME NEW s \in SUBSET D, Cardinality(s) <= 0 PROVE f[s] = g[Image(s)]
    OBVIOUS
  <2>1. IsFiniteSet(s) /\ Cardinality(s) \in Nat
    BY FS_Subset, FS_CardinalityType
  <2>2. s = {} /\ Image({}) = {}
    BY <2>1, FS_EmptySet
  <2> QED BY <1>1, <1>2, <2>2
<1>4. ASSUME NEW n \in Nat, n \in S PROVE n + 1 \in S
  <2> SUFFICES ASSUME NEW s \in SUBSET D, Cardinality(s) <= n + 1 PROVE f[s] = g[Image(s)]
    OBVIOUS
  <2>1. CASE s = {}
    <3>1. Image({}) = {}
      OBVIOUS
    <3> QED BY <1>1, <1>2, <2>1, <3>1
  <2>2. CASE s # {}
    <3>1. PICK e \in s : TRUE
      BY <2>2
    <3>2. IsFiniteSet(s) /\ Cardinality(s) \in Nat
      BY FS_Subset, FS_CardinalityType
    <3>3. Cardinality(s \ {e}) = Cardinality(s) - 1
      BY <3>1, <3>2, FS_RemoveElement
    <3>4. Cardinality(s \ {e}) <= n /\ s \ {e} \in SUBSET D
      BY <3>2, <3>3
    <3>5. f[s \ {e}] = g[Image(s \ {e})]
      BY <1>4, <3>4
    <3>6. Image(s \ {e}) = Image(s) \ {h[e]} /\ h[e] \in Image(s) /\ Image(s) \in SUBSET C
      BY <3>1
    <3>7. f[s] = w[e] + f[s \ {e}]
      BY <1>1, <3>1
    <3>8. g[Image(s)] = v[h[e]] + g[Image(s) \ {h[e]}]
      BY <1>2, <3>6
    <3>9. w[e] = v[h[e]]
      BY <3>1
    <3> QED BY <3>5, <3>6, <3>7, <3>8, <3>9
  <2> QED BY <2>1, <2>2
<1> HIDE DEF S
<1>5. Nat \subseteq S
  BY <1>3, <1>4, Induction
<1>6. Cardinality(D) \in Nat
  BY FS_CardinalityType
<1> QED BY <1>5, <1>6 DEF S

\* The sum of equal weights.
LEMMA SumOfEquals ==
  ASSUME NEW D, IsFiniteSet(D), NEW k \in Nat, NEW f \in SetSums(D, [d \in D |-> k])
  PROVE f[D] = k * Cardinality(D)
<1>1. f[{}] = 0 /\ \A s \in SUBSET D : \A e \in s : f[s] = k + f[s \ {e}]
  BY DEF SetSums
<1> DEFINE S == {n \in Nat : \A s \in SUBSET D : Cardinality(s) = n => f[s] = k * n}
<1>2. 0 \in S
  <2> SUFFICES ASSUME NEW s \in SUBSET D, Cardinality(s) = 0 PROVE f[s] = k * 0
    OBVIOUS
  <2>1. IsFiniteSet(s)
    BY FS_Subset
  <2>2. s = {}
    BY <2>1, FS_EmptySet
  <2> QED BY <1>1, <2>2
<1>3. ASSUME NEW n \in Nat, n \in S PROVE n + 1 \in S
  <2> SUFFICES ASSUME NEW s \in SUBSET D, Cardinality(s) = n + 1 PROVE f[s] = k * (n + 1)
    OBVIOUS
  <2>1. IsFiniteSet(s)
    BY FS_Subset
  <2>2. s # {}
    BY <2>1, FS_EmptySet
  <2>3. PICK e \in s : TRUE
    BY <2>2
  <2>4. Cardinality(s \ {e}) = n /\ s \ {e} \in SUBSET D
    BY <2>1, <2>3, FS_RemoveElement, (n + 1) - 1 = n
  <2>5. f[s \ {e}] = k * n
    BY <1>3, <2>4
  <2>6. f[s] = k + k * n
    BY <1>1, <2>3, <2>5
  <2>7. k * (n + 1) = k + k * n
    OBVIOUS
  <2> QED BY <2>6, <2>7
<1> HIDE DEF S
<1>4. Nat \subseteq S
  BY <1>2, <1>3, Induction
<1>5. Cardinality(D) \in Nat
  BY FS_CardinalityType
<1> QED BY <1>4, <1>5 DEF S

\* R orders the elements of D one after the other.
Orders(R, D) ==
  /\ \A d, e \in D : d # e => <<d, e>> \in R \/ <<e, d>> \in R
  /\ \A d, e, f \in D : <<d, e>> \in R /\ <<e, f>> \in R => <<d, f>> \in R

\* The enumerations of D in this order.
Sortings(R, D) ==
  {q \in [1..Cardinality(D) -> D] :
     \A i, j \in 1..Cardinality(D) : i < j => q[i] # q[j] /\ <<q[i], q[j]>> \in R}

\* An ordered finite set has a first element.
LEMMA FirstExists ==
  ASSUME NEW D, IsFiniteSet(D), D # {}, NEW R, Orders(R, D)
  PROVE \E d \in D : \A e \in D : e # d => <<d, e>> \in R
<1> DEFINE First(s) == {d \in s : \A e \in s : e # d => <<d, e>> \in R}
           S == {n \in Nat : \A s \in SUBSET D : s # {} /\ Cardinality(s) <= n => First(s) # {}}
<1>1. 0 \in S
  <2> SUFFICES ASSUME NEW s \in SUBSET D, s # {}, Cardinality(s) <= 0 PROVE FALSE
    OBVIOUS
  <2>1. IsFiniteSet(s) /\ Cardinality(s) \in Nat
    BY FS_Subset, FS_CardinalityType
  <2> QED BY <2>1, FS_EmptySet
<1>2. ASSUME NEW n \in Nat, n \in S PROVE n + 1 \in S
  <2> SUFFICES ASSUME NEW s \in SUBSET D, s # {}, Cardinality(s) <= n + 1 PROVE First(s) # {}
    OBVIOUS
  <2>1. PICK d \in s : TRUE
    OBVIOUS
  <2>2. IsFiniteSet(s) /\ Cardinality(s) \in Nat
    BY FS_Subset, FS_CardinalityType
  <2>3. Cardinality(s \ {d}) = Cardinality(s) - 1
    BY <2>1, <2>2, FS_RemoveElement
  <2>4. Cardinality(s \ {d}) <= n /\ s \ {d} \in SUBSET D
    BY <2>2, <2>3
  <2>5. CASE s \ {d} = {}
    <3>1. s = {d}
      BY <2>5
    <3>2. d \in First(s)
      BY <3>1
    <3> QED BY <3>2
  <2>6. CASE s \ {d} # {}
    <3>1. PICK e \in First(s \ {d}) : TRUE
      BY <1>2, <2>4, <2>6
    <3>2. e \in s /\ e # d /\ \A f \in s \ {d} : f # e => <<e, f>> \in R
      BY <3>1
    <3>3. CASE <<e, d>> \in R
      <4>1. e \in First(s)
        BY <3>2, <3>3
      <4> QED BY <4>1
    <3>4. CASE <<d, e>> \in R
      <4>1. \A f \in s : f # d => <<d, f>> \in R
        BY <2>1, <3>2, <3>4 DEF Orders
      <4>2. d \in First(s)
        BY <4>1
      <4> QED BY <4>2
    <3>5. <<e, d>> \in R \/ <<d, e>> \in R
      BY <3>2 DEF Orders
    <3> QED BY <3>3, <3>4, <3>5
  <2> QED BY <2>5, <2>6
<1> HIDE DEF S
<1>3. Nat \subseteq S
  BY <1>1, <1>2, Induction
<1>4. Cardinality(D) \in Nat
  BY FS_CardinalityType
<1>5. First(D) # {}
  BY <1>3, <1>4 DEF S
<1> QED BY <1>5

\* An ordered finite set can be sorted.
LEMMA SortingExists ==
  ASSUME NEW D, IsFiniteSet(D), NEW R, Orders(R, D)
  PROVE Sortings(R, D) # {}
<1> DEFINE S == {n \in Nat : \A s \in SUBSET D : Cardinality(s) = n => Sortings(R, s) # {}}
<1>1. 0 \in S
  <2> SUFFICES ASSUME NEW s \in SUBSET D, Cardinality(s) = 0 PROVE Sortings(R, s) # {}
    OBVIOUS
  <2>1. <<>> \in [1..0 -> s]
    OBVIOUS
  <2>2. 1..0 = {}
    OBVIOUS
  <2>3. <<>> \in Sortings(R, s)
    BY <2>1, <2>2 DEF Sortings
  <2> QED BY <2>3
<1>2. ASSUME NEW n \in Nat, n \in S PROVE n + 1 \in S
  <2> SUFFICES ASSUME NEW s \in SUBSET D, Cardinality(s) = n + 1 PROVE Sortings(R, s) # {}
    OBVIOUS
  <2>1. IsFiniteSet(s) /\ Orders(R, s)
    BY FS_Subset DEF Orders
  <2>2. s # {}
    BY <2>1, FS_EmptySet
  <2>3. PICK d \in s : \A e \in s : e # d => <<d, e>> \in R
    BY <2>1, <2>2, FirstExists
  <2>3a. Cardinality(s \ {d}) = Cardinality(s) - 1
    BY <2>1, FS_RemoveElement
  <2>4. Cardinality(s \ {d}) = n /\ s \ {d} \in SUBSET D
    BY <2>3a, (n + 1) - 1 = n
  <2>5. PICK q \in Sortings(R, s \ {d}) : TRUE
    BY <1>2, <2>4
  <2>6. /\ q \in [1..n -> s \ {d}]
        /\ \A i, j \in 1..n : i < j => q[i] # q[j] /\ <<q[i], q[j]>> \in R
    BY <2>4, <2>5 DEF Sortings
  <2> DEFINE p == [i \in 1..(n + 1) |-> IF i = 1 THEN d ELSE q[i - 1]]
  <2>7. /\ p[1] = d
        /\ \A i \in 1..(n + 1) : i # 1 => i - 1 \in 1..n /\ p[i] = q[i - 1]
    OBVIOUS
  <2>8. p \in [1..(n + 1) -> s]
    BY <2>3, <2>6
  <2> HIDE DEF p
  <2>9. ASSUME NEW i \in 1..(n + 1), NEW j \in 1..(n + 1), i < j
        PROVE p[i] # p[j] /\ <<p[i], p[j]>> \in R
    <3>1. j # 1 /\ j - 1 \in 1..n /\ p[j] = q[j - 1]
      BY <2>7, <2>9
    <3>2. CASE i = 1
      <4>1. p[j] \in s \ {d}
        BY <2>6, <3>1
      <4> QED BY <2>3, <2>7, <3>2, <4>1
    <3>3. CASE i # 1
      <4>1. i - 1 \in 1..n /\ p[i] = q[i - 1] /\ i - 1 < j - 1
        BY <2>7, <2>9, <3>3
      <4> QED BY <2>6, <3>1, <4>1
    <3> QED BY <3>2, <3>3
  <2>10. p \in Sortings(R, s)
    BY <2>8, <2>9 DEF Sortings
  <2> QED BY <2>10
<1> HIDE DEF S
<1>3. Nat \subseteq S
  BY <1>1, <1>2, Induction
<1>4. Cardinality(D) \in Nat
  BY FS_CardinalityType
<1> QED BY <1>3, <1>4 DEF S

=============================================================================
