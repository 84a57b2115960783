------------------------ MODULE SequenceFilterProofs ------------------------
(***************************************************************************)
(* What the filter of SequenceFilters returns, for every sequence and set, *)
(* and what the sums of Totals are, for every function and finite set.     *)
(* Their recursive definitions are reasoned about by induction over a set  *)
(* of numbers, which the well-foundedness of < on Nat gives.               *)
(***************************************************************************)
EXTENDS SequenceFilters, Totals, FiniteSetTheorems, WellFoundedInduction, TLAPS

(* A set with 0 and the successor of each of its numbers has them all.     *)
LEMMA SetInduction ==
  ASSUME NEW S, 0 \in S, \A n \in Nat : n \in S => n + 1 \in S
  PROVE  Nat \subseteq S
  <1> DEFINE T == Nat \ S
  <1>1. SUFFICES ASSUME T # {} PROVE FALSE
    OBVIOUS
  <1> HIDE DEF T
  <1>2. T \subseteq Nat
    BY DEF T
  <1>3. PICK x \in T : \A y \in T : <<y, x>> \notin OpToRel(<, Nat)
    BY <1>1, <1>2, NatLessThanWellFounded, WFMin, Zenon
  <1>4. ASSUME NEW y \in T PROVE ~(y < x)
    <2>1. <<y, x>> \notin OpToRel(<, Nat)
      BY <1>3
    <2>2. QED
      BY <1>2, <2>1 DEF OpToRel
  <1>5. x # 0 /\ x - 1 \in Nat
    BY <1>2 DEF T
  <1>6. x - 1 \in S
    BY <1>4, <1>5 DEF T
  <1>7. QED
    BY <1>5, <1>6 DEF T

(* What the recursive function of Kept is, up to n: it exists, and two of  *)
(* them agree as far as both go.                                           *)
KeptStep(before, e, keep) == IF e \in keep THEN Append(before, e) ELSE before
IsKept(f, s, keep, n) == f = [i \in 0..n |-> IF i = 0 THEN << >> ELSE KeptStep(f[i - 1], s[i], keep)]

LEMMA KeptIsChosen ==
  ASSUME NEW s, NEW keep
  PROVE  Kept(s, keep) = (CHOOSE f : IsKept(f, s, keep, Len(s)))[Len(s)]
  BY DEF Kept, IsKept, KeptStep

LEMMA KeptExists ==
  ASSUME NEW s, NEW keep, NEW n \in Nat
  PROVE  \E f : IsKept(f, s, keep, n)
  <1> DEFINE S == {m \in Nat : \E f : IsKept(f, s, keep, m)}
  <1>1. 0 \in S
    <2>1. IsKept([i \in 0..0 |-> << >>], s, keep, 0)
      BY DEF IsKept
    <2>2. QED
      BY <2>1
  <1>2. ASSUME NEW m \in Nat, m \in S PROVE m + 1 \in S
    <2>1. PICK f : IsKept(f, s, keep, m)
      BY <1>2
    <2> DEFINE g == [i \in 0..(m + 1) |-> IF i <= m THEN f[i] ELSE KeptStep(f[m], s[m + 1], keep)]
    <2>2. ASSUME NEW i \in 0..(m + 1)
          PROVE  g[i] = IF i = 0 THEN << >> ELSE KeptStep(g[i - 1], s[i], keep)
      <3>1. CASE i = 0
        BY <2>1, <3>1 DEF IsKept
      <3>2. CASE i \in 1..m
        BY <2>1, <3>2 DEF IsKept
      <3>3. CASE i = m + 1
        BY <3>3
      <3>4. QED
        BY <3>1, <3>2, <3>3
    <2>3. IsKept(g, s, keep, m + 1)
      BY <2>2 DEF IsKept
    <2>4. QED
      BY <2>3
  <1>3. QED
    <2> HIDE DEF S
    <2>1. Nat \subseteq S
      BY <1>1, <1>2, SetInduction
    <2>2. QED
      BY <2>1 DEF S

LEMMA KeptIsUnique ==
  ASSUME NEW s, NEW keep, NEW n \in Nat, NEW k \in Nat, n <= k,
         NEW f, IsKept(f, s, keep, n), NEW g, IsKept(g, s, keep, k)
  PROVE  f[n] = g[n]
  <1> DEFINE S == {m \in Nat : m <= n => f[m] = g[m]}
  <1>1. 0 \in S
    BY DEF IsKept
  <1>2. ASSUME NEW m \in Nat, m \in S PROVE m + 1 \in S
    <2> SUFFICES ASSUME m + 1 <= n PROVE f[m + 1] = g[m + 1]
      OBVIOUS
    <2>1. f[m] = g[m]
      BY <1>2
    <2>2. f[m + 1] = KeptStep(f[m], s[m + 1], keep)
      BY DEF IsKept
    <2>3. g[m + 1] = KeptStep(g[m], s[m + 1], keep)
      BY DEF IsKept
    <2>4. QED
      BY <2>1, <2>2, <2>3
  <1>3. Nat \subseteq S
    <2> HIDE DEF S
    <2>1. QED
      BY <1>1, <1>2, SetInduction
  <1>4. QED
    BY <1>3

-----------------------------------------------------------------------------
(* Filtering nothing gives nothing (the filters of an empty log). *)
THEOREM KeptEmpty == \A keep : Kept(<< >>, keep) = << >>
  <1> TAKE keep
  <1>1. IsKept(CHOOSE f : IsKept(f, << >>, keep, 0), << >>, keep, 0)
    BY KeptExists
  <1>2. QED
    BY <1>1, KeptIsChosen DEF IsKept

(* Filtering a sequence that has grown by e: e is added to what was kept,  *)
(* or is not, as it is in the set (every append to a log or a history).    *)
THEOREM KeptAppend ==
  ASSUME NEW T, NEW s \in Seq(T), NEW e \in T, NEW keep
  PROVE  Kept(Append(s, e), keep) = IF e \in keep THEN Append(Kept(s, keep), e) ELSE Kept(s, keep)
  <1> DEFINE t == Append(s, e)
             n == Len(s)
             f == CHOOSE h : IsKept(h, s, keep, n)
             g == CHOOSE h : IsKept(h, t, keep, n + 1)
  <1>1. n \in Nat /\ Len(t) = n + 1 /\ t[n + 1] = e /\ \A i \in 1..n : t[i] = s[i]
    OBVIOUS
  <1>2. IsKept(f, s, keep, n) /\ IsKept(g, t, keep, n + 1)
    <2>1. (\E h : IsKept(h, s, keep, n)) /\ \E h : IsKept(h, t, keep, n + 1)
      <3> HIDE DEF t
      <3>1. n \in Nat /\ n + 1 \in Nat
        BY <1>1
      <3>2. QED
        BY <3>1, KeptExists, Zenon
    <2>2. QED
      BY <2>1
  <1>3. IsKept(f, t, keep, n)
    <2>1. [i \in 0..n |-> IF i = 0 THEN << >> ELSE KeptStep(f[i - 1], s[i], keep)]
            = [i \in 0..n |-> IF i = 0 THEN << >> ELSE KeptStep(f[i - 1], t[i], keep)]
      BY <1>1
    <2>2. QED
      BY <1>2, <2>1 DEF IsKept
  <1> HIDE DEF t, n, f, g
  <1>4. f[n] = g[n]
    BY <1>1, <1>2, <1>3, KeptIsUnique
  <1>5. g[n + 1] = KeptStep(g[n], e, keep)
    BY <1>1, <1>2 DEF IsKept
  <1>6. Kept(s, keep) = f[n] /\ Kept(t, keep) = g[n + 1]
    BY <1>1, KeptIsChosen DEF f, g, n
  <1>7. QED
    BY <1>4, <1>5, <1>6 DEF KeptStep, t

(* What is kept of a sequence is a sequence of the same elements' type. *)
THEOREM KeptType ==
  ASSUME NEW T, NEW s \in Seq(T), NEW keep
  PROVE  Kept(s, keep) \in Seq(T)
  <1> DEFINE n == Len(s)
             f == CHOOSE h : IsKept(h, s, keep, n)
             S == {m \in Nat : m <= n => f[m] \in Seq(T)}
  <1>1. n \in Nat /\ \A i \in 1..n : s[i] \in T
    OBVIOUS
  <1>2. IsKept(f, s, keep, n)
    BY <1>1, KeptExists
  <1> HIDE DEF n, f
  <1>3. 0 \in S
    BY <1>1, <1>2 DEF IsKept
  <1>4. ASSUME NEW m \in Nat, m \in S PROVE m + 1 \in S
    <2> SUFFICES ASSUME m + 1 <= n PROVE f[m + 1] \in Seq(T)
      OBVIOUS
    <2>1. f[m + 1] = KeptStep(f[m], s[m + 1], keep)
      BY <1>1, <1>2 DEF IsKept
    <2>2. f[m] \in Seq(T) /\ s[m + 1] \in T
      BY <1>1, <1>4
    <2>3. QED
      BY <2>1, <2>2 DEF KeptStep
  <1>5. n \in S
    <2> HIDE DEF S
    <2>1. QED
      BY <1>1, <1>3, <1>4, SetInduction
  <1>6. QED
    BY <1>1, <1>5, KeptIsChosen, SMTT(60) DEF n, f

(* Two sets that agree on the elements of a sequence keep the same of it.  *)
THEOREM KeptSame ==
  ASSUME NEW s, Len(s) \in Nat, NEW keep, NEW other,
         \A i \in 1..Len(s) : s[i] \in keep <=> s[i] \in other
  PROVE  Kept(s, keep) = Kept(s, other)
  <1> DEFINE n == Len(s)
  <1>2. ASSUME NEW f PROVE IsKept(f, s, keep, n) <=> IsKept(f, s, other, n)
    <2>1. ASSUME NEW i \in 0..n
          PROVE  (IF i = 0 THEN << >> ELSE KeptStep(f[i - 1], s[i], keep))
                   = (IF i = 0 THEN << >> ELSE KeptStep(f[i - 1], s[i], other))
      BY DEF KeptStep
    <2>2. [i \in 0..n |-> IF i = 0 THEN << >> ELSE KeptStep(f[i - 1], s[i], keep)]
            = [i \in 0..n |-> IF i = 0 THEN << >> ELSE KeptStep(f[i - 1], s[i], other)]
      BY <2>1
    <2>3. QED
      BY <2>2 DEF IsKept
  <1>3. \A i \in 1..n : s[i] \in keep <=> s[i] \in other
    OBVIOUS
  <1> DEFINE f == CHOOSE h : IsKept(h, s, keep, n)
             g == CHOOSE h : IsKept(h, s, other, n)
  <1>4. IsKept(f, s, keep, n) /\ IsKept(g, s, other, n)
    BY KeptExists
  <1> HIDE DEF f, g
  <1>5. IsKept(g, s, keep, n)
    BY <1>2, <1>4
  <1>6. f[n] = g[n]
    BY <1>4, <1>5, KeptIsUnique
  <1>7. QED
    BY <1>6, KeptIsChosen DEF f, g

(* What filtering leaves of s, in order: g takes each place of t to the    *)
(* place among the first m of s that its element comes from, and none of   *)
(* those in keep is left out.                                              *)
ComesFrom(g, t, s, keep, m) ==
    /\ g \in [1..Len(t) -> 1..m]
    /\ \A i \in 1..Len(t) : t[i] = s[g[i]] /\ t[i] \in keep
    /\ \A i, j \in 1..Len(t) : i < j => g[i] < g[j]
    /\ \A k \in 1..m : s[k] \in keep => \E i \in 1..Len(t) : g[i] = k

LEMMA ComesFromLonger ==
  ASSUME NEW T, NEW s, NEW keep, NEW m \in Nat, NEW t \in Seq(T), s[m + 1] \in T,
         \E g : ComesFrom(g, t, s, keep, m)
  PROVE  \E g : ComesFrom(g, KeptStep(t, s[m + 1], keep), s, keep, m + 1)
  <1>1. PICK g : ComesFrom(g, t, s, keep, m)
    OBVIOUS
  <1>2. CASE s[m + 1] \notin keep
    <2>1. ComesFrom(g, t, s, keep, m + 1)
      <3>1. g \in [1..Len(t) -> 1..(m + 1)]
        BY <1>1 DEF ComesFrom
      <3>2. \A k \in 1..(m + 1) : s[k] \in keep => k \in 1..m
        BY <1>2
      <3>3. QED
        BY <1>1, <3>1, <3>2 DEF ComesFrom
    <2>2. QED
      BY <1>2, <2>1 DEF KeptStep
  <1>3. CASE s[m + 1] \in keep
    <2> DEFINE n == Len(t)
               u == Append(t, s[m + 1])
               h == [i \in 1..(n + 1) |-> IF i <= n THEN g[i] ELSE m + 1]
    <2>1. n \in Nat /\ Len(u) = n + 1 /\ u[n + 1] = s[m + 1] /\ \A i \in 1..n : u[i] = t[i]
      OBVIOUS
    <2>2. g \in [1..n -> 1..m]
      BY <1>1 DEF ComesFrom
    <2>3. h[n + 1] = m + 1 /\ (\A i \in 1..n : h[i] = g[i]) /\ h \in [1..(n + 1) -> 1..(m + 1)]
      BY <2>1, <2>2
    <2> HIDE DEF h, u
    <2>4. \A i \in 1..(n + 1) : u[i] = s[h[i]] /\ u[i] \in keep
      <3>1. \A i \in 1..n : u[i] = s[h[i]] /\ u[i] \in keep
        BY <1>1, <2>1, <2>3 DEF ComesFrom
      <3>2. u[n + 1] = s[h[n + 1]] /\ u[n + 1] \in keep
        BY <1>3, <2>1, <2>3
      <3>3. \A i \in 1..(n + 1) : i \in 1..n \/ i = n + 1
        BY <2>1
      <3>4. QED
        BY <3>1, <3>2, <3>3
    <2>5. \A i, j \in 1..(n + 1) : i < j => h[i] < h[j]
      <3>1. \A i, j \in 1..n : i < j => g[i] < g[j]
        BY <1>1 DEF ComesFrom
      <3>2. \A i, j \in 1..(n + 1) : i < j => i \in 1..n /\ (j \in 1..n \/ j = n + 1)
        BY <2>1
      <3>3. \A i \in 1..n : g[i] \in 1..m
        BY <2>2
      <3>4. QED
        BY <2>3, <3>1, <3>2, <3>3
    <2>6. \A k \in 1..(m + 1) : s[k] \in keep => \E i \in 1..(n + 1) : h[i] = k
      <3> SUFFICES ASSUME NEW k \in 1..(m + 1), s[k] \in keep PROVE \E i \in 1..(n + 1) : h[i] = k
        OBVIOUS
      <3>1. CASE k = m + 1
        BY <2>1, <2>3, <3>1
      <3>2. CASE k \in 1..m
        <4>1. PICK i \in 1..n : g[i] = k
          BY <1>1, <3>2 DEF ComesFrom
        <4>2. QED
          BY <2>1, <2>3, <4>1
      <3>3. QED
        BY <3>1, <3>2
    <2>7. ComesFrom(h, u, s, keep, m + 1)
      BY <2>1, <2>3, <2>4, <2>5, <2>6 DEF ComesFrom
    <2>8. QED
      BY <1>3, <2>7 DEF KeptStep, u
  <1>4. QED
    BY <1>2, <1>3

(* Filtering keeps all elements of the set, in their order, and no others  *)
(* (the events of a run's file that are sorted in, or not yet sent).       *)
THEOREM KeptComesFrom ==
  ASSUME NEW T, NEW s \in Seq(T), NEW keep
  PROVE  \E g : ComesFrom(g, Kept(s, keep), s, keep, Len(s))
  <1> DEFINE n == Len(s)
             f == CHOOSE h : IsKept(h, s, keep, n)
             S == {m \in Nat : m <= n => /\ f[m] \in Seq(T)
                                         /\ \E g : ComesFrom(g, f[m], s, keep, m)}
  <1>1. n \in Nat /\ \A i \in 1..n : s[i] \in T
    OBVIOUS
  <1>2. IsKept(f, s, keep, n)
    BY <1>1, KeptExists
  <1> HIDE DEF n, f
  <1>3. 0 \in S
    <2>1. f[0] = << >>
      BY <1>1, <1>2 DEF IsKept
    <2>2. ComesFrom(<< >>, << >>, s, keep, 0)
      BY DEF ComesFrom
    <2>3. f[0] \in Seq(T) /\ \E g : ComesFrom(g, f[0], s, keep, 0)
      <3>1. << >> \in Seq(T)
        OBVIOUS
      <3>2. QED
        BY <2>1, <2>2, <3>1, Zenon
    <2>4. QED
      BY <2>3
  <1>4. ASSUME NEW m \in Nat, m \in S PROVE m + 1 \in S
    <2> SUFFICES ASSUME m + 1 <= n
                 PROVE  f[m + 1] \in Seq(T) /\ \E g : ComesFrom(g, f[m + 1], s, keep, m + 1)
      OBVIOUS
    <2>1. f[m + 1] = KeptStep(f[m], s[m + 1], keep)
      BY <1>1, <1>2 DEF IsKept
    <2>2. f[m] \in Seq(T) /\ s[m + 1] \in T /\ \E g : ComesFrom(g, f[m], s, keep, m)
      BY <1>1, <1>4
    <2>3. f[m + 1] \in Seq(T)
      BY <2>1, <2>2 DEF KeptStep
    <2>4. \E g : ComesFrom(g, KeptStep(f[m], s[m + 1], keep), s, keep, m + 1)
      BY <2>2, ComesFromLonger
    <2>5. QED
      BY <2>1, <2>3, <2>4
  <1>5. n \in S
    <2> HIDE DEF S
    <2>1. QED
      BY <1>1, <1>3, <1>4, SetInduction
  <1>6. Kept(s, keep) = f[n]
    BY <1>1, KeptIsChosen DEF n, f
  <1>7. QED
    BY <1>1, <1>5, <1>6 DEF n
-----------------------------------------------------------------------------
(* Sums over finite sets.  MapThenSumSet takes an operator; the lemmas are *)
(* about the same sum of a function F, which they can be instantiated for. *)

LEMMA OneLess ==
  ASSUME NEW T, IsFiniteSet(T), NEW n \in Nat, Cardinality(T) = n + 1
  PROVE  T # {} /\ \A x \in T : IsFiniteSet(T \ {x}) /\ Cardinality(T \ {x}) = n
  <1>1. T # {}
    BY FS_EmptySet
  <1>2. ASSUME NEW x \in T PROVE IsFiniteSet(T \ {x}) /\ Cardinality(T \ {x}) = n
    <2>1. Cardinality(T \ {x}) = Cardinality(T) - 1 /\ IsFiniteSet(T \ {x})
      BY FS_RemoveElement
    <2>2. QED
      BY <2>1
  <1> QED
    BY <1>1, <1>2

(* A set of finite sets with {} and, of each of its sets, every extension  *)
(* by an element of S has S.                                               *)
LEMMA GrowingSet ==
  ASSUME NEW S, IsFiniteSet(S), NEW C, {} \in C,
         \A T \in SUBSET S : \A x \in S \ T : T \in C => T \cup {x} \in C
  PROVE  S \in C
  <1> DEFINE N == {n \in Nat : \A T \in SUBSET S : Cardinality(T) = n => T \in C}
  <1>0. \A T \in SUBSET S : IsFiniteSet(T) /\ Cardinality(T) \in Nat
    BY FS_Subset, FS_CardinalityType
  <1>1. 0 \in N
    <2> SUFFICES ASSUME NEW T \in SUBSET S, Cardinality(T) = 0 PROVE T \in C
      OBVIOUS
    <2>1. QED
      BY <1>0, FS_EmptySet
  <1>2. ASSUME NEW n \in Nat, n \in N PROVE n + 1 \in N
    <2> SUFFICES ASSUME NEW T \in SUBSET S, Cardinality(T) = n + 1 PROVE T \in C
      OBVIOUS
    <2>1. T # {}
      BY <1>0, OneLess
    <2>2. PICK x \in T : TRUE
      BY <2>1
    <2>3. Cardinality(T \ {x}) = n
      BY <1>0, OneLess
    <2>4. T \ {x} \in C
      BY <1>2, <2>3
    <2>5. T = (T \ {x}) \cup {x}
      OBVIOUS
    <2>6. QED
      BY <2>4, <2>5
  <1> HIDE DEF N
  <1>3. Nat \subseteq N
    BY <1>1, <1>2, SetInduction
  <1>4. Cardinality(S) \in N
    BY <1>0, <1>3
  <1>5. QED
    BY <1>4 DEF N

Taken(s) == CHOOSE x \in s : TRUE
SumStep(F, s, g) == IF s = {} THEN 0 ELSE F[Taken(s)] + g[s \ {Taken(s)}]
IsSum(F, S, g) == g = [s \in SUBSET S |-> SumStep(F, s, g)]

LEMMA TotalIsChosen ==
  ASSUME NEW F, NEW S
  PROVE  SumOver(F, S) = (CHOOSE g : IsSum(F, S, g))[S]
  BY DEF SumOver, MapThenSumSet, MapThenFoldSet, IsSum, SumStep, Taken

LEMMA TakenIn ==
  ASSUME NEW s, s # {}
  PROVE  Taken(s) \in s
  BY DEF Taken

(* Two functions that sum over a set agree on the subsets both know.       *)
LEMMA SumsAgree ==
  ASSUME NEW F, NEW S, IsFiniteSet(S), NEW A, NEW B, S \subseteq A, S \subseteq B,
         NEW g, NEW h, IsSum(F, A, g), IsSum(F, B, h)
  PROVE  g[S] = h[S]
  <1> DEFINE N == {n \in Nat : \A T \in SUBSET S : Cardinality(T) = n => g[T] = h[T]}
  <1>0. \A T \in SUBSET S : IsFiniteSet(T) /\ Cardinality(T) \in Nat
    BY FS_Subset, FS_CardinalityType
  <1>1. \A T \in SUBSET S : g[T] = SumStep(F, T, g) /\ h[T] = SumStep(F, T, h)
    BY DEF IsSum
  <1>2. 0 \in N
    <2> SUFFICES ASSUME NEW T \in SUBSET S, Cardinality(T) = 0 PROVE g[T] = h[T]
      OBVIOUS
    <2>1. T = {}
      BY <1>0, FS_EmptySet
    <2>2. QED
      BY <1>1, <2>1 DEF SumStep
  <1>3. ASSUME NEW n \in Nat, n \in N PROVE n + 1 \in N
    <2> SUFFICES ASSUME NEW T \in SUBSET S, Cardinality(T) = n + 1 PROVE g[T] = h[T]
      OBVIOUS
    <2>1. T # {}
      BY <1>0, OneLess
    <2>2. Taken(T) \in T
      BY <2>1, TakenIn
    <2>3. Cardinality(T \ {Taken(T)}) = n
      BY <1>0, <2>2, OneLess
    <2>4. g[T \ {Taken(T)}] = h[T \ {Taken(T)}]
      BY <1>3, <2>3
    <2>5. QED
      BY <1>1, <2>1, <2>4 DEF SumStep
  <1> HIDE DEF N
  <1>4. Nat \subseteq N
    BY <1>2, <1>3, SetInduction
  <1>5. QED
    BY <1>0, <1>4 DEF N

(* Every finite set has such a function, and it gives the total of every   *)
(* subset.                                                                 *)
LEMMA SumExists ==
  ASSUME NEW F, NEW S, IsFiniteSet(S)
  PROVE  \E g : IsSum(F, S, g)
  <1> DEFINE N == {n \in Nat : \A T \in SUBSET S : Cardinality(T) = n => \E g : IsSum(F, T, g)}
  <1>0. \A T \in SUBSET S : IsFiniteSet(T) /\ Cardinality(T) \in Nat
    BY FS_Subset, FS_CardinalityType
  <1>1. 0 \in N
    <2> SUFFICES ASSUME NEW T \in SUBSET S, Cardinality(T) = 0 PROVE \E g : IsSum(F, T, g)
      OBVIOUS
    <2>1. T = {}
      BY <1>0, FS_EmptySet
    <2>2. IsSum(F, T, [s \in SUBSET T |-> 0])
      BY <2>1 DEF IsSum, SumStep
    <2>3. QED
      BY <2>2
  <1>2. ASSUME NEW n \in Nat, n \in N PROVE n + 1 \in N
    <2> SUFFICES ASSUME NEW T \in SUBSET S, Cardinality(T) = n + 1 PROVE \E g : IsSum(F, T, g)
      OBVIOUS
    <2>1. T # {} /\ Taken(T) \in T
      BY <1>0, OneLess, TakenIn
    <2> DEFINE Less == T \ {Taken(T)}
    <2>2. Cardinality(Less) = n
      BY <1>0, <2>1, OneLess
    <2>3. PICK g : IsSum(F, Less, g)
      BY <1>2, <2>2
    \* every proper subset of T has a sum, of which SumOver makes one function
    <2> DEFINE H == [s \in SUBSET T |-> IF s = T THEN F[Taken(T)] + g[Less] ELSE SumOver(F, s)]
    <2>4. ASSUME NEW s \in SUBSET T, s # T PROVE \E h : IsSum(F, s, h)
      <3>1. PICK x \in T : x \notin s
        BY <2>4
      <3>2. Cardinality(T \ {x}) = n
        BY <1>0, OneLess
      <3>3. PICK h : IsSum(F, T \ {x}, h)
        BY <1>2, <3>2
      <3>4. s \subseteq T \ {x}
        BY <3>1
      <3>5. IsSum(F, s, [t \in SUBSET s |-> h[t]])
        <4>1. \A t \in SUBSET s : h[t] = SumStep(F, t, h)
          BY <3>3, <3>4 DEF IsSum
        <4>2. \A t \in SUBSET s : SumStep(F, t, h) = SumStep(F, t, [u \in SUBSET s |-> h[u]])
          <5> SUFFICES ASSUME NEW t \in SUBSET s PROVE SumStep(F, t, h) = SumStep(F, t, [u \in SUBSET s |-> h[u]])
            OBVIOUS
          <5>1. t \ {Taken(t)} \in SUBSET s
            OBVIOUS
          <5>2. QED
            BY <5>1 DEF SumStep
        <4>3. QED
          BY <4>1, <4>2 DEF IsSum
      <3>6. QED
        BY <3>5
    <2>5. ASSUME NEW s \in SUBSET T, s # T, NEW A, s \subseteq A, NEW h, IsSum(F, A, h)
          PROVE  SumOver(F, s) = h[s]
      <3> DEFINE k == CHOOSE i : IsSum(F, s, i)
      <3>1. IsSum(F, s, k)
        BY <2>4, <2>5, Zenon
      <3>2. IsFiniteSet(s) /\ SumOver(F, s) = k[s]
        BY <1>0, TotalIsChosen
      <3> HIDE DEF k
      <3>3. k[s] = h[s]
        BY <2>5, <3>1, <3>2, SumsAgree
      <3>4. QED
        BY <3>2, <3>3
    <2>6. \A s \in SUBSET T : H[s] = SumStep(F, s, H)
      <3> SUFFICES ASSUME NEW s \in SUBSET T PROVE H[s] = SumStep(F, s, H)
        OBVIOUS
      <3>1. CASE s = T
        <4>1. Less # T /\ Less \in SUBSET T
          BY <2>1
        <4>2. SumOver(F, Less) = g[Less]
          BY <2>3, <2>5, <4>1
        <4>3. H[Less] = g[Less]
          BY <4>1, <4>2
        <4>4. H[T] = F[Taken(T)] + g[Less]
          OBVIOUS
        <4> HIDE DEF H, Less
        <4>5. QED
          BY <2>1, <3>1, <4>3, <4>4 DEF SumStep, Less
      <3>2. CASE s = {}
        <4>1. PICK h : IsSum(F, s, h)
          BY <2>1, <2>4, <3>2
        <4>2. SumOver(F, s) = h[s]
          BY <2>1, <2>5, <3>2, <4>1
        <4>3. h[s] = 0
          BY <3>2, <4>1 DEF IsSum, SumStep
        <4>4. QED
          BY <2>1, <3>2, <4>2, <4>3 DEF SumStep
      <3>3. CASE s # T /\ s # {}
        <4>1. PICK h : IsSum(F, s, h)
          BY <2>4, <3>3
        <4>2. Taken(s) \in s
          BY <3>3, TakenIn
        <4>3. s \ {Taken(s)} \in SUBSET T /\ s \ {Taken(s)} # T /\ s \ {Taken(s)} \subseteq s
          BY <4>2
        <4>4. SumOver(F, s) = h[s] /\ SumOver(F, s \ {Taken(s)}) = h[s \ {Taken(s)}]
          BY <2>5, <3>3, <4>1, <4>3
        <4>5. h[s] = F[Taken(s)] + h[s \ {Taken(s)}]
          BY <3>3, <4>1 DEF IsSum, SumStep
        <4>6. H[s] = SumOver(F, s) /\ H[s \ {Taken(s)}] = SumOver(F, s \ {Taken(s)})
          BY <3>3, <4>3
        <4> HIDE DEF H
        <4>7. QED
          BY <3>3, <4>4, <4>5, <4>6 DEF SumStep
      <3>4. QED
        BY <3>1, <3>2, <3>3
    <2>7. IsSum(F, T, H)
      <3> HIDE DEF Less
      <3>1. H = [s \in SUBSET T |-> H[s]]
        OBVIOUS
      <3> HIDE DEF H
      <3>2. QED
        BY <2>6, <3>1 DEF IsSum
    <2>8. QED
      BY <2>7
  <1> HIDE DEF N
  <1>3. Nat \subseteq N
    BY <1>1, <1>2, SetInduction
  <1>4. QED
    BY <1>0, <1>3 DEF N

LEMMA TotalIs ==
  ASSUME NEW F, NEW S, IsFiniteSet(S), NEW A, S \subseteq A, NEW g, IsSum(F, A, g)
  PROVE  SumOver(F, S) = g[S]
  <1> DEFINE k == CHOOSE i : IsSum(F, S, i)
  <1>1. IsSum(F, S, k)
    BY SumExists, Zenon
  <1>2. SumOver(F, S) = k[S]
    BY TotalIsChosen
  <1> HIDE DEF k
  <1>3. ASSUME NEW B, S \subseteq B, NEW h, IsSum(F, B, h) PROVE h[S] = g[S]
    BY <1>3, SumsAgree
  <1>4. k[S] = g[S]
    BY <1>1, <1>3
  <1>5. QED
    BY <1>2, <1>4

(* What a total is: nothing of an empty set, else the chosen element's     *)
(* value and the total of the rest.                                        *)
LEMMA TotalStep ==
  ASSUME NEW F, NEW S, IsFiniteSet(S)
  PROVE  /\ S = {} => SumOver(F, S) = 0
         /\ S # {} => SumOver(F, S) = F[Taken(S)] + SumOver(F, S \ {Taken(S)})
  <1>1. PICK g : IsSum(F, S, g)
    BY SumExists
  <1>2. SumOver(F, S) = g[S] /\ g[S] = SumStep(F, S, g)
    <2>1. S \subseteq S
      OBVIOUS
    <2>2. SumOver(F, S) = g[S]
      BY <1>1, <2>1, TotalIs
    <2>3. g[S] = SumStep(F, S, g)
      BY <1>1 DEF IsSum
    <2>4. QED
      BY <2>2, <2>3
  <1>3. SumOver(F, S \ {Taken(S)}) = g[S \ {Taken(S)}]
    BY <1>1, TotalIs, FS_RemoveElement
  <1>4. QED
    BY <1>2, <1>3 DEF SumStep

Numbers(F, S) == \A x \in S : F[x] \in Int

LEMMA TotalIsInt ==
  ASSUME NEW F, NEW S, IsFiniteSet(S), Numbers(F, S)
  PROVE  SumOver(F, S) \in Int
  <1> DEFINE N == {n \in Nat : \A T \in SUBSET S : Cardinality(T) = n => SumOver(F, T) \in Int}
  <1>0. \A T \in SUBSET S : IsFiniteSet(T) /\ Cardinality(T) \in Nat
    BY FS_Subset, FS_CardinalityType
  <1>1. 0 \in N
    <2> SUFFICES ASSUME NEW T \in SUBSET S, Cardinality(T) = 0 PROVE SumOver(F, T) \in Int
      OBVIOUS
    <2>1. T = {}
      BY <1>0, FS_EmptySet
    <2>2. QED
      BY <1>0, <2>1, TotalStep
  <1>2. ASSUME NEW n \in Nat, n \in N PROVE n + 1 \in N
    <2> SUFFICES ASSUME NEW T \in SUBSET S, Cardinality(T) = n + 1 PROVE SumOver(F, T) \in Int
      OBVIOUS
    <2>1. T # {} /\ Taken(T) \in T /\ Cardinality(T \ {Taken(T)}) = n
      BY <1>0, OneLess, TakenIn
    <2>2. SumOver(F, T) = F[Taken(T)] + SumOver(F, T \ {Taken(T)})
      BY <1>0, <2>1, TotalStep
    <2>3. SumOver(F, T \ {Taken(T)}) \in Int
      BY <1>2, <2>1
    <2>4. QED
      BY <2>1, <2>2, <2>3 DEF Numbers
  <1> HIDE DEF N
  <1>3. Nat \subseteq N
    BY <1>1, <1>2, SetInduction
  <1>4. QED
    BY <1>0, <1>3 DEF N

(* Any element may be taken out first.                                     *)
LEMMA TotalRest ==
  ASSUME NEW F, NEW S, IsFiniteSet(S), Numbers(F, S), NEW e \in S
  PROVE  SumOver(F, S) = F[e] + SumOver(F, S \ {e})
  <1> DEFINE Any(T) == \A x \in T : SumOver(F, T) = F[x] + SumOver(F, T \ {x})
             N == {n \in Nat : \A T \in SUBSET S : Cardinality(T) = n => Any(T)}
  <1>0. \A T \in SUBSET S : IsFiniteSet(T) /\ Cardinality(T) \in Nat /\ Numbers(F, T)
    BY FS_Subset, FS_CardinalityType DEF Numbers
  <1>1. 0 \in N
    <2> SUFFICES ASSUME NEW T \in SUBSET S, Cardinality(T) = 0 PROVE Any(T)
      OBVIOUS
    <2>1. T = {}
      BY <1>0, FS_EmptySet
    <2>2. QED
      BY <2>1
  <1>2. ASSUME NEW n \in Nat, n \in N PROVE n + 1 \in N
    <2> SUFFICES ASSUME NEW T \in SUBSET S, Cardinality(T) = n + 1, NEW x \in T
                 PROVE  SumOver(F, T) = F[x] + SumOver(F, T \ {x})
      OBVIOUS
    <2> DEFINE c == Taken(T)
    <2>1. T # {} /\ c \in T /\ Cardinality(T \ {c}) = n /\ Cardinality(T \ {x}) = n
      BY <1>0, OneLess, TakenIn
    <2>2. SumOver(F, T) = F[c] + SumOver(F, T \ {c})
      BY <1>0, <2>1, TotalStep
    <2>3. CASE x = c
      BY <2>2, <2>3
    <2>4. CASE x # c
      <3> DEFINE R == (T \ {c}) \ {x}
      <3>1. (T \ {x}) \ {c} = R
        OBVIOUS
      <3>2. Any(T \ {c}) /\ Any(T \ {x})
        BY <1>2, <2>1
      <3>3. SumOver(F, T \ {c}) = F[x] + SumOver(F, R) /\ SumOver(F, T \ {x}) = F[c] + SumOver(F, R)
        BY <2>1, <2>4, <3>1, <3>2
      <3>4. SumOver(F, R) \in Int /\ F[x] \in Int /\ F[c] \in Int
        BY <1>0, <2>1, TotalIsInt DEF Numbers
      <3> HIDE DEF R, c
      <3>5. QED
        BY <2>2, <3>3, <3>4
    <2>5. QED
      BY <2>3, <2>4
  <1> HIDE DEF N
  <1>3. Nat \subseteq N
    BY <1>1, <1>2, SetInduction
  <1>4. QED
    BY <1>0, <1>3 DEF N

LEMMA TotalExtend ==
  ASSUME NEW F, NEW S, IsFiniteSet(S), NEW T \in SUBSET S, Numbers(F, S), NEW e \in S \ T
  PROVE  SumOver(F, T \cup {e}) = F[e] + SumOver(F, T)
  <1>1. IsFiniteSet(T \cup {e}) /\ Numbers(F, T \cup {e}) /\ (T \cup {e}) \ {e} = T
    BY FS_Subset DEF Numbers
  <1>2. QED
    BY <1>1, TotalRest

LEMMA TotalOfNothing == \A F : SumOver(F, {}) = 0
  BY TotalStep, FS_EmptySet

(* The total over two sets without a common element.                       *)
LEMMA TotalUnion ==
  ASSUME NEW F, NEW S, IsFiniteSet(S), NEW T, IsFiniteSet(T), S \cap T = {}, Numbers(F, S \cup T)
  PROVE  SumOver(F, S \cup T) = SumOver(F, S) + SumOver(F, T)
  <1> DEFINE C == {U \in SUBSET T : SumOver(F, S \cup U) = SumOver(F, S) + SumOver(F, U)}
  <1>0. /\ IsFiniteSet(S \cup T) /\ Numbers(F, S) /\ Numbers(F, T)
        /\ \A U \in SUBSET T : IsFiniteSet(U) /\ Numbers(F, U)
    BY FS_Union, FS_Subset DEF Numbers
  <1>1. {} \in C
    <2>1. S \cup {} = S /\ SumOver(F, {}) = 0 /\ SumOver(F, S) \in Int
      BY <1>0, TotalIsInt, TotalOfNothing
    <2>2. QED
      BY <2>1
  <1>2. ASSUME NEW U \in SUBSET T, NEW x \in T \ U, U \in C PROVE U \cup {x} \in C
    <2>1. S \cup (U \cup {x}) = (S \cup U) \cup {x} /\ S \cup U \subseteq S \cup T /\ x \in (S \cup T) \ (S \cup U)
      OBVIOUS
    <2>2. SumOver(F, (S \cup U) \cup {x}) = F[x] + SumOver(F, S \cup U)
      BY <1>0, <2>1, TotalExtend
    <2>3. SumOver(F, U \cup {x}) = F[x] + SumOver(F, U)
      BY <1>0, TotalExtend
    <2>4. SumOver(F, S) \in Int /\ SumOver(F, U) \in Int /\ F[x] \in Int
      BY <1>0, TotalIsInt DEF Numbers
    <2>5. SumOver(F, S \cup U) = SumOver(F, S) + SumOver(F, U)
      BY <1>2
    <2>6. SumOver(F, (S \cup U) \cup {x}) = SumOver(F, S) + SumOver(F, U \cup {x})
      BY <2>2, <2>3, <2>4, <2>5
    <2>7. QED
      BY <2>1, <2>6
  <1> HIDE DEF C
  <1>3. T \in C
    BY <1>1, <1>2, GrowingSet
  <1>4. QED
    BY <1>3 DEF C

(* Totals are linear.                                                      *)
LEMMA TotalLinear ==
  ASSUME NEW S, IsFiniteSet(S), NEW F, Numbers(F, S), NEW G, Numbers(G, S), NEW H,
         NEW a \in Int, NEW b \in Int, NEW c \in Int,
         \A x \in S : H[x] = a * F[x] + b * G[x] + c
  PROVE  SumOver(H, S) = a * SumOver(F, S) + b * SumOver(G, S) + c * Cardinality(S)
  <1> DEFINE Line(U) == SumOver(H, U) = a * SumOver(F, U) + b * SumOver(G, U) + c * Cardinality(U)
             C == {U \in SUBSET S : Line(U)}
  <1>0. \A U \in SUBSET S : /\ IsFiniteSet(U) /\ Numbers(F, U) /\ Numbers(G, U) /\ Cardinality(U) \in Nat
    BY FS_Subset, FS_CardinalityType DEF Numbers
  <1>1. Numbers(H, S)
    BY DEF Numbers
  <1>2. {} \in C
    BY TotalOfNothing, FS_EmptySet
  <1>3. ASSUME NEW U \in SUBSET S, NEW x \in S \ U, U \in C PROVE U \cup {x} \in C
    <2>1. SumOver(F, U \cup {x}) = F[x] + SumOver(F, U) /\ SumOver(G, U \cup {x}) = G[x] + SumOver(G, U)
      BY TotalExtend
    <2>2. SumOver(H, U \cup {x}) = H[x] + SumOver(H, U)
      BY <1>1, TotalExtend
    <2>3. Cardinality(U \cup {x}) = Cardinality(U) + 1
      BY <1>0, FS_AddElement
    <2>4. H[x] = a * F[x] + b * G[x] + c
      OBVIOUS
    <2>5. PICK f \in Int, g \in Int, tf \in Int, tg \in Int, n \in Int :
            f = F[x] /\ g = G[x] /\ tf = SumOver(F, U) /\ tg = SumOver(G, U) /\ n = Cardinality(U)
      <3>1. SumOver(F, U) \in Int /\ SumOver(G, U) \in Int /\ Cardinality(U) \in Int
        BY <1>0, TotalIsInt
      <3>2. F[x] \in Int /\ G[x] \in Int
        BY DEF Numbers
      <3>3. QED
        BY <3>1, <3>2
    <2>6. SumOver(H, U) = a * tf + b * tg + c * n
      BY <1>3, <2>5
    <2>7. (a * f + b * g + c) + (a * tf + b * tg + c * n) = a * (f + tf) + b * (g + tg) + c * (n + 1)
      OBVIOUS
    <2>8. Line(U \cup {x})
      BY <2>1, <2>2, <2>3, <2>4, <2>5, <2>6, <2>7
    <2>9. QED
      BY <2>8
  <1> HIDE DEF C
  <1>4. S \in C
    BY <1>2, <1>3, GrowingSet
  <1>5. QED
    BY <1>4 DEF C

LEMMA TotalMonotone ==
  ASSUME NEW S, IsFiniteSet(S), NEW F, Numbers(F, S), NEW G, Numbers(G, S),
         \A x \in S : F[x] <= G[x]
  PROVE  SumOver(F, S) <= SumOver(G, S)
  <1> DEFINE C == {U \in SUBSET S : SumOver(F, U) <= SumOver(G, U)}
  <1>0. \A U \in SUBSET S : /\ IsFiniteSet(U) /\ Numbers(F, U) /\ Numbers(G, U)
    BY FS_Subset DEF Numbers
  <1>1. {} \in C
    BY TotalOfNothing
  <1>2. ASSUME NEW U \in SUBSET S, NEW x \in S \ U, U \in C PROVE U \cup {x} \in C
    <2>1. SumOver(F, U \cup {x}) = F[x] + SumOver(F, U) /\ SumOver(G, U \cup {x}) = G[x] + SumOver(G, U)
      BY TotalExtend
    <2>2. SumOver(F, U) \in Int /\ SumOver(G, U) \in Int /\ F[x] \in Int /\ G[x] \in Int
      BY <1>0, TotalIsInt DEF Numbers
    <2>3. F[x] <= G[x] /\ SumOver(F, U) <= SumOver(G, U)
      BY <1>2
    <2>4. SumOver(F, U \cup {x}) <= SumOver(G, U \cup {x})
      BY <2>1, <2>2, <2>3
    <2>5. QED
      BY <2>4
  <1> HIDE DEF C
  <1>3. S \in C
    BY <1>1, <1>2, GrowingSet
  <1>4. QED
    BY <1>3 DEF C

(* What is counted or summed key by key is counted or summed once.         *)
AtKey(S, K, t) == {x \in S : K[x] = t}

LEMMA TotalByKey ==
  ASSUME NEW S, IsFiniteSet(S), NEW F, Numbers(F, S), NEW T, IsFiniteSet(T),
         NEW K, \A x \in S : K[x] \in T,
         NEW G, \A t \in T : G[t] = SumOver(F, AtKey(S, K, t))
  PROVE  SumOver(G, T) = SumOver(F, S)
  <1> DEFINE Of(U) == {x \in S : K[x] \in U}
             C == {U \in SUBSET T : SumOver(G, U) = SumOver(F, Of(U))}
  <1>0. \A R \in SUBSET S : IsFiniteSet(R) /\ Numbers(F, R)
    BY FS_Subset DEF Numbers
  <1>1. Numbers(G, T)
    <2> SUFFICES ASSUME NEW t \in T PROVE G[t] \in Int
      BY DEF Numbers
    <2> DEFINE R == AtKey(S, K, t)
    <2>1. R \in SUBSET S /\ G[t] = SumOver(F, R)
      BY DEF AtKey
    <2> HIDE DEF R
    <2>2. QED
      BY <1>0, <2>1, TotalIsInt
  <1>2. {} \in C
    <2>1. Of({}) = {}
      OBVIOUS
    <2>2. QED
      BY <2>1, TotalOfNothing
  <1>3. ASSUME NEW U \in SUBSET T, NEW t \in T \ U, U \in C PROVE U \cup {t} \in C
    <2> DEFINE At == AtKey(S, K, t)
    <2>1. Of(U \cup {t}) = Of(U) \cup At /\ Of(U) \cap At = {}
      BY DEF AtKey
    <2>2. Of(U) \in SUBSET S /\ At \in SUBSET S /\ Of(U) \cup At \in SUBSET S
      BY DEF AtKey
    <2>3. SumOver(F, Of(U) \cup At) = SumOver(F, Of(U)) + SumOver(F, At)
      <3> HIDE DEF Of, At
      <3>1. QED
        BY <1>0, <2>1, <2>2, TotalUnion
    <2>4. SumOver(G, U \cup {t}) = G[t] + SumOver(G, U)
      BY <1>1, TotalExtend
    <2>5. SumOver(F, Of(U)) \in Int /\ SumOver(F, At) \in Int
      BY <1>0, <2>2, TotalIsInt
    <2>6. SumOver(G, U) = SumOver(F, Of(U)) /\ G[t] = SumOver(F, At)
      BY <1>3
    <2> HIDE DEF Of, At
    <2>7. SumOver(F, Of(U \cup {t})) = SumOver(F, Of(U)) + SumOver(F, At)
      BY <2>1, <2>3
    <2>8. SumOver(G, U \cup {t}) = SumOver(F, Of(U \cup {t}))
      BY <2>4, <2>5, <2>6, <2>7
    <2>9. QED
      BY <2>8 DEF C
  <1> HIDE DEF C
  <1>4. T \in C
    BY <1>2, <1>3, GrowingSet
  <1>5. Of(T) = S
    OBVIOUS
  <1>6. QED
    BY <1>4, <1>5 DEF C

LEMMA TotalAgree ==
  ASSUME NEW S, NEW F, NEW G, \A x \in S : F[x] = G[x]
  PROVE  SumOver(F, S) = SumOver(G, S)
  <1>1. ASSUME NEW s \in SUBSET S, NEW g PROVE SumStep(F, s, g) = SumStep(G, s, g)
    <2>1. CASE s = {}
      BY <2>1 DEF SumStep
    <2>2. CASE s # {}
      <3>1. Taken(s) \in S
        BY <2>2, TakenIn
      <3>2. QED
        BY <2>2, <3>1 DEF SumStep
    <2>3. QED
      BY <2>1, <2>2
  <1>2. ASSUME NEW g PROVE IsSum(F, S, g) <=> IsSum(G, S, g)
    <2>1. [s \in SUBSET S |-> SumStep(F, s, g)] = [s \in SUBSET S |-> SumStep(G, s, g)]
      BY <1>1, Zenon
    <2>2. QED
      BY <2>1, Zenon DEF IsSum
  <1>3. (CHOOSE g : IsSum(F, S, g)) = (CHOOSE g : IsSum(G, S, g))
    BY <1>2, Zenon
  <1>4. QED
    BY <1>3, TotalIsChosen, Zenon

(* Sums of ones and of a constant are counts.                              *)
LEMMA TotalConstant ==
  ASSUME NEW S, IsFiniteSet(S), NEW c \in Int, NEW F, \A x \in S : F[x] = c
  PROVE  SumOver(F, S) = c * Cardinality(S)
  <1>1. Numbers(F, S) /\ SumOver(F, S) \in Int
    BY TotalIsInt DEF Numbers
  <1>2. \A x \in S : F[x] = 0 * F[x] + 0 * F[x] + c
    BY <1>1 DEF Numbers
  <1>3. SumOver(F, S) = 0 * SumOver(F, S) + 0 * SumOver(F, S) + c * Cardinality(S)
    BY <1>1, <1>2, TotalLinear
  <1>4. c * Cardinality(S) \in Int
    BY FS_CardinalityType
  <1>5. QED
    BY <1>1, <1>3, <1>4

LEMMA TotalOfOnes ==
  ASSUME NEW S, IsFiniteSet(S), NEW F, \A x \in S : F[x] = 1
  PROVE  SumOver(F, S) = Cardinality(S) /\ Cardinality(S) \in Nat
  <1>1. PICK c \in Int : c = 1
    OBVIOUS
  <1>2. SumOver(F, S) = c * Cardinality(S)
    BY <1>1, TotalConstant
  <1>3. Cardinality(S) \in Nat
    BY FS_CardinalityType
  <1>4. QED
    BY <1>1, <1>2, <1>3

(* The image of a finite set is finite.                                    *)
LEMMA ImageFinite ==
  ASSUME NEW S, IsFiniteSet(S), NEW F
  PROVE  IsFiniteSet({F[x] : x \in S}) /\ Cardinality({F[x] : x \in S}) <= Cardinality(S)
  <1> DEFINE T == {F[x] : x \in S}
             G == [x \in S |-> F[x]]
  <1>1. G \in [S -> T] /\ \A t \in T : \E x \in S : G[x] = t
    OBVIOUS
  <1>2. G \in Surjection(S, T)
    BY <1>1, Zenon DEF Surjection
  <1> HIDE DEF T, G
  <1>3. IsFiniteSet(T) /\ Cardinality(T) <= Cardinality(S)
    BY <1>2, FS_Surjection
  <1>4. QED
    BY <1>3 DEF T

(* The least and the greatest of finitely many numbers.                    *)
LEMMA Extremes ==
  ASSUME NEW S, IsFiniteSet(S), S # {}, S \subseteq Int
  PROVE  /\ Min(S) \in S /\ \A y \in S : Min(S) <= y
         /\ Max(S) \in S /\ \A y \in S : y <= Max(S)
  <1> DEFINE Least(T) == \E x \in T : \A y \in T : x <= y
             Most(T) == \E x \in T : \A y \in T : y <= x
             C == {T \in SUBSET S : T = {} \/ (Least(T) /\ Most(T))}
  <1>1. {} \in C
    OBVIOUS
  <1>2. ASSUME NEW T \in SUBSET S, NEW e \in S \ T, T \in C PROVE T \cup {e} \in C
    <2>1. CASE T = {}
      <3>1. Least(T \cup {e}) /\ Most(T \cup {e})
        BY <2>1
      <3>2. QED
        BY <3>1
    <2>2. CASE Least(T) /\ Most(T)
      <3>1. PICK low \in T : \A y \in T : low <= y
        BY <2>2
      <3>2. PICK high \in T : \A y \in T : y <= high
        BY <2>2
      <3>3. Least(T \cup {e})
        <4>1. CASE e <= low
          BY <3>1, <4>1
        <4>2. CASE low <= e
          BY <3>1, <4>2
        <4>3. QED
          BY <4>1, <4>2
      <3>4. Most(T \cup {e})
        <4>1. CASE e <= high
          BY <3>2, <4>1
        <4>2. CASE high <= e
          BY <3>2, <4>2
        <4>3. QED
          BY <4>1, <4>2
      <3>5. QED
        BY <3>3, <3>4
    <2>3. QED
      BY <1>2, <2>1, <2>2
  <1> HIDE DEF C
  <1>3. S \in C
    BY <1>1, <1>2, GrowingSet
  <1>4. Least(S) /\ Most(S)
    BY <1>3 DEF C
  <1>5. QED
    BY <1>4 DEF Min, Max
-----------------------------------------------------------------------------
(* Quotients, and the least and greatest of two numbers.                   *)
LEMMA Quotient ==
  ASSUME NEW a \in Int, NEW b \in Nat \ {0}
  PROVE  a \div b \in Int /\ b * (a \div b) <= a /\ a < b * (a \div b) + b
  OBVIOUS

LEMMA Two ==
  ASSUME NEW a \in Int, NEW b \in Int
  PROVE  Min({a, b}) = (IF a <= b THEN a ELSE b) /\ Max({a, b}) = (IF a <= b THEN b ELSE a)
  BY DEF Min, Max

(* A rounded quotient is within half of the divisor.                       *)
LEMMA RoundedQuotient ==
  ASSUME NEW d \in Int, NEW n \in Nat \ {0}
  PROVE  LET o == (2 * d + n) \div (2 * n)
         IN  o \in Int /\ 2 * (n * o) <= 2 * d + n /\ 2 * d < 2 * (n * o) + n
  <1> DEFINE o == (2 * d + n) \div (2 * n)
  <1>1. 2 * n \in Nat \ {0} /\ 2 * d + n \in Int
    OBVIOUS
  <1>2. o \in Int /\ (2 * n) * o <= 2 * d + n /\ 2 * d + n < (2 * n) * o + 2 * n
    BY <1>1, Quotient
  <1> HIDE DEF o
  <1>3. PICK p \in Int : p = n * o
    BY <1>2
  <1>4. (2 * n) * o = 2 * p
    BY <1>2, <1>3
  <1>5. 2 * p <= 2 * d + n /\ 2 * d < 2 * p + n
    BY <1>2, <1>4
  <1>6. QED
    BY <1>2, <1>3, <1>5 DEF o
=============================================================================
