---------------------------- MODULE EvidenceProofs ----------------------------
(***************************************************************************)
(* Facts about the operators the learning engines share, and about folds   *)
(* over sequences and sets.                                                *)
(*                                                                         *)
(* A theorem about a fold holds for any operator Op, of two parameters     *)
(* that stay the same, what has been folded so far and the next element.   *)
(* A proof that needs it for an operator of the model takes it from an     *)
(* instance of this module.                                                *)
(***************************************************************************)
EXTENDS Evidence, SequencesExt, FiniteSetTheorems, WellFoundedInduction, TLAPS

CONSTANT Op(_, _, _, _)

FoldedSequence(p, q, base, s) == FoldLeft(LAMBDA r, x : Op(p, q, r, x), base, s)

FoldedSet(p, q, base, S) ==
    MapThenFoldSet(LAMBDA x, r : Op(p, q, r, x), base, LAMBDA x : x,
                   LAMBDA T : CHOOSE x \in T : TRUE, S)

-----------------------------------------------------------------------------
(* Induction                                                               *)

\* A set with zero, and with n + 1 when it has n, has every number.
LEMMA NaturalInduction ==
    ASSUME NEW A, 0 \in A, \A n \in Nat : n \in A => n + 1 \in A
    PROVE  Nat \subseteq A
<1> DEFINE B == Nat \ A
           less == {p \in Nat \X Nat : p[1] < p[2]}
<1> SUFFICES ASSUME B # {} PROVE FALSE
  OBVIOUS
<1>1. IsWellFoundedOn(less, Nat)
  BY NatLessThanWellFounded DEF OpToRel
<1>2. \A i, j \in Nat : i < j => <<i, j>> \in less
  OBVIOUS
<1>3. PICK m \in B : \A k \in B : ~(<<k, m>> \in less)
  <2> HIDE DEF less
  <2>1. B \subseteq Nat
    OBVIOUS
  <2> HIDE DEF B
  <2> QED BY <1>1, <2>1, WFMin
<1> HIDE DEF less
<1>4. CASE m = 0
  BY <1>4
<1>5. CASE m # 0
  <2>1. m - 1 \in Nat /\ m = (m - 1) + 1 /\ m - 1 < m
    BY <1>5
  <2>2. m - 1 \in B
    BY <2>1
  <2> QED BY <1>2, <1>3, <2>1, <2>2
<1> QED BY <1>4, <1>5

\* A set of numbers that is not empty has a least one.
LEMMA LeastOf ==
    ASSUME NEW S \in SUBSET Nat, S # {}
    PROVE  Min(S) \in S /\ \A i \in S : Min(S) <= i
<1> DEFINE less == {p \in Nat \X Nat : p[1] < p[2]}
<1>1. IsWellFoundedOn(less, Nat)
  BY NatLessThanWellFounded DEF OpToRel
<1>2. \A i, j \in Nat : i < j => <<i, j>> \in less
  OBVIOUS
<1>3. PICK m \in S : \A k \in S : ~(<<k, m>> \in less)
  <2> HIDE DEF less
  <2> QED BY <1>1, WFMin
<1> HIDE DEF less
<1>4. \A k \in S : m <= k
  <2>1. \A k \in S : k \in Nat /\ m \in Nat /\ ~(k < m)
    BY <1>2, <1>3
  <2> QED BY <2>1
<1> QED BY <1>3, <1>4, Zenon DEF Min

-----------------------------------------------------------------------------
(* Sequences                                                               *)

\* What FoldLeft iterates over the places 1..m.
Iterates(f, p, q, base, s, m) ==
    f = [T \in SUBSET (1..m) |->
            IF T = {} THEN base ELSE Op(p, q, f[T \ {Max(T)}], s[Max(T)])]

\* One more place is one more iteration.
LEMMA NextPlace ==
    ASSUME NEW p, NEW q, NEW base, NEW s, NEW m \in Nat, NEW f, Iterates(f, p, q, base, s, m)
    PROVE  \E g : Iterates(g, p, q, base, s, m + 1)
<1> DEFINE g == [T \in SUBSET (1..(m + 1)) |->
                    IF T = {} THEN base
                    ELSE IF m + 1 \in T THEN Op(p, q, f[T \ {m + 1}], s[m + 1]) ELSE f[T]]
           value(h, T) == IF T = {} THEN base ELSE Op(p, q, h[T \ {Max(T)}], s[Max(T)])
<1>1. \A T \in SUBSET (1..m) : f[T] = value(f, T)
  BY DEF Iterates
<1>2. ASSUME NEW T \in SUBSET (1..m) PROVE g[T] = f[T]
  <2>1. T \in SUBSET (1..(m + 1)) /\ m + 1 \notin T
    OBVIOUS
  <2>2. T = {} => f[T] = base
    BY <1>1
  <2> QED BY <2>1, <2>2
<1>3. ASSUME NEW T \in SUBSET (1..(m + 1)) PROVE g[T] = value(g, T)
  <2>1. CASE T = {}
    BY <2>1
  <2>2. CASE m + 1 \in T
    <3>1. Max(T) = m + 1
      <4>1. \A y \in T : m + 1 >= y
        OBVIOUS
      <4>2. \A x \in T : (\A y \in T : x >= y) => x = m + 1
        BY <2>2, <4>1
      <4> QED BY <2>2, <4>1, <4>2 DEF Max
    <3>2. T \ {m + 1} \in SUBSET (1..m)
      OBVIOUS
    <3>3. g[T] = Op(p, q, f[T \ {m + 1}], s[m + 1])
      BY <2>2
    <3>4. g[T \ {m + 1}] = f[T \ {m + 1}]
      BY <1>2, <3>2
    <3> HIDE DEF g
    <3> QED BY <2>2, <3>1, <3>3, <3>4
  <2>3. CASE T # {} /\ m + 1 \notin T
    <3>1. T \in SUBSET (1..m)
      <4>1. \A x \in 1..(m + 1) : x # m + 1 => x \in 1..m
        OBVIOUS
      <4> QED BY <2>3, <4>1, Zenon
    <3>4. T \ {Max(T)} \in SUBSET (1..m)
      BY <3>1
    <3>2. g[T] = f[T] /\ g[T \ {Max(T)}] = f[T \ {Max(T)}]
      BY <1>2, <3>1, <3>4, Zenon
    <3> HIDE DEF g
    <3> QED BY <1>1, <2>3, <3>1, <3>2
  <2> QED BY <2>1, <2>2, <2>3
<1>4. g = [T \in SUBSET (1..(m + 1)) |-> g[T]]
  OBVIOUS
<1> HIDE DEF g
<1>5. Iterates(g, p, q, base, s, m + 1)
  BY <1>3, <1>4, Zenon DEF Iterates
<1> QED BY <1>5

\* So there is an iteration over any number of places.
LEMMA Iteration ==
    ASSUME NEW p, NEW q, NEW base, NEW s, NEW n \in Nat
    PROVE  \E f : Iterates(f, p, q, base, s, n)
<1> DEFINE A == {m \in Nat : \E f : Iterates(f, p, q, base, s, m)}
<1>1. 0 \in A
  <2> DEFINE f == [T \in SUBSET {} |-> base]
  <2>1. f = [T \in SUBSET {} |->
                IF T = {} THEN base ELSE Op(p, q, f[T \ {Max(T)}], s[Max(T)])]
    OBVIOUS
  <2>2. 1..0 = {}
    OBVIOUS
  <2> HIDE DEF f
  <2>3. Iterates(f, p, q, base, s, 0)
    BY <2>1, <2>2 DEF Iterates
  <2> QED BY <2>3
<1>2. \A m \in Nat : m \in A => m + 1 \in A
  BY NextPlace
<1> HIDE DEF A
<1>3. Nat \subseteq A
  BY <1>1, <1>2, NaturalInduction
<1> QED BY <1>3 DEF A

\* What run has after every place is the start, or one more element folded.
LeftToRight(run, p, q, base, s, n) ==
    run[0] = base /\ \A k \in 1..n : run[k] = Op(p, q, run[k - 1], s[k])

\* A fold goes through the sequence from left to right.
THEOREM SequenceRun ==
    ASSUME NEW p, NEW q, NEW base, NEW s, NEW n \in Nat, DOMAIN s = 1..n
    PROVE  \E run : LeftToRight(run, p, q, base, s, n) /\ FoldedSequence(p, q, base, s) = run[n]
<1> DEFINE iterates(f) ==
               f = [T \in SUBSET DOMAIN s |->
                       IF T = {} THEN base ELSE Op(p, q, f[T \ {Max(T)}], s[Max(T)])]
<1>1. \E f : iterates(f) /\ FoldedSequence(p, q, base, s) = f[DOMAIN s]
  <2>0. PICK f : Iterates(f, p, q, base, s, n)
    BY Iteration, Zenon
  <2>1. iterates(f)
    BY <2>0, Zenon DEF Iterates
  <2>2. iterates(CHOOSE g : iterates(g))
    BY <2>1, Zenon
  <2>3. FoldedSequence(p, q, base, s) = (CHOOSE g : iterates(g))[DOMAIN s]
    BY Zenon DEF FoldedSequence, FoldLeft, MapThenFoldSet
  <2> HIDE DEF iterates
  <2> QED BY <2>2, <2>3, Zenon
<1>2. PICK f : iterates(f) /\ FoldedSequence(p, q, base, s) = f[DOMAIN s]
  BY <1>1
<1>3. \A T \in SUBSET (1..n) :
        f[T] = IF T = {} THEN base ELSE Op(p, q, f[T \ {Max(T)}], s[Max(T)])
  BY <1>2
<1> HIDE DEF iterates
<1> DEFINE run == [k \in 0..n |-> f[1..k]]
<1>4. run[0] = base
  <2>1. 1..0 = {} /\ 0 \in 0..n
    OBVIOUS
  <2>2. run[0] = f[{}]
    BY <2>1
  <2> HIDE DEF run
  <2> QED BY <1>3, <2>2
<1>5. ASSUME NEW k \in 1..n PROVE run[k] = Op(p, q, run[k - 1], s[k])
  <2>1. 1..k # {} /\ 1..k \in SUBSET (1..n) /\ (1..k) \ {k} = 1..(k - 1)
    OBVIOUS
  <2>2. Max(1..k) = k
    <3>1. k \in 1..k /\ \A y \in 1..k : k >= y
      OBVIOUS
    <3>2. \A x \in 1..k : (\A y \in 1..k : x >= y) => x = k
      OBVIOUS
    <3> QED BY <3>1, <3>2 DEF Max
  <2>3. f[1..k] = Op(p, q, f[1..(k - 1)], s[k])
    BY <1>3, <2>1, <2>2
  <2> QED BY <2>3
<1>6. FoldedSequence(p, q, base, s) = run[n]
  BY <1>2
<1> HIDE DEF run
<1> QED BY <1>4, <1>5, <1>6, Zenon DEF LeftToRight

\* What holds of the start and after each element holds of the fold.
THEOREM SequenceFoldIn ==
    ASSUME NEW p, NEW q, NEW V, NEW base \in V, NEW s, NEW n \in Nat, DOMAIN s = 1..n,
           \A r \in V, k \in 1..n : Op(p, q, r, s[k]) \in V
    PROVE  FoldedSequence(p, q, base, s) \in V
<1>0. PICK run : LeftToRight(run, p, q, base, s, n) /\ FoldedSequence(p, q, base, s) = run[n]
  BY SequenceRun
<1>1. /\ run[0] = base
      /\ \A k \in 1..n : run[k] = Op(p, q, run[k - 1], s[k])
      /\ FoldedSequence(p, q, base, s) = run[n]
  BY <1>0, Zenon DEF LeftToRight
<1> DEFINE A == {k \in Nat : k <= n => run[k] \in V}
<1>2. 0 \in A
  BY <1>1
<1>3. ASSUME NEW k \in Nat, k \in A PROVE k + 1 \in A
  <2> SUFFICES ASSUME k + 1 <= n PROVE run[k + 1] \in V
    OBVIOUS
  <2>1. k + 1 \in 1..n /\ (k + 1) - 1 = k /\ run[k] \in V
    BY <1>3
  <2>2. run[k + 1] = Op(p, q, run[k], s[k + 1])
    BY <1>1, <2>1
  <2> QED BY <2>1, <2>2
<1> HIDE DEF A
<1>4. Nat \subseteq A
  BY <1>2, <1>3, NaturalInduction
<1> QED BY <1>1, <1>4 DEF A

-----------------------------------------------------------------------------
(* Sets                                                                    *)

Chosen(T) == CHOOSE x \in T : TRUE

\* What a fold over S iterates over its subsets of at most m members.
Parts(S, m) == {T \in SUBSET S : Cardinality(T) <= m}
Collects(f, p, q, base, D) ==
    f = [T \in D |-> IF T = {} THEN base ELSE Op(p, q, f[T \ {Chosen(T)}], Chosen(T))]

\* One more member is one more iteration.
LEMMA NextPart ==
    ASSUME NEW p, NEW q, NEW base, NEW S, IsFiniteSet(S), NEW m \in Nat,
           NEW f, Collects(f, p, q, base, Parts(S, m))
    PROVE  \E g : Collects(g, p, q, base, Parts(S, m + 1))
<1> DEFINE g == [T \in Parts(S, m + 1) |->
                    IF T = {} THEN base ELSE Op(p, q, f[T \ {Chosen(T)}], Chosen(T))]
<1>1. ASSUME NEW T \in Parts(S, m + 1), T # {}
      PROVE  T \ {Chosen(T)} \in Parts(S, m)
  <2>1. Chosen(T) \in T /\ T \subseteq S /\ Cardinality(T) <= m + 1
    BY <1>1 DEF Chosen, Parts
  <2>2. IsFiniteSet(T)
    BY <2>1, FS_Subset
  <2>3. Cardinality(T \ {Chosen(T)}) = Cardinality(T) - 1 /\ Cardinality(T) \in Nat
    BY <2>1, <2>2, FS_RemoveElement, FS_CardinalityType
  <2> QED BY <2>1, <2>3 DEF Parts
<1>2. ASSUME NEW T \in Parts(S, m)
      PROVE  T \in Parts(S, m + 1) /\ g[T] = f[T]
  <2>1. T \in Parts(S, m + 1)
    <3>1. T \subseteq S /\ Cardinality(T) <= m
      BY DEF Parts
    <3>2. Cardinality(T) \in Nat
      BY <3>1, FS_Subset, FS_CardinalityType
    <3> QED BY <3>1, <3>2 DEF Parts
  <2>2. f[T] = IF T = {} THEN base ELSE Op(p, q, f[T \ {Chosen(T)}], Chosen(T))
    BY DEF Collects
  <2> QED BY <2>1, <2>2
<1>3. ASSUME NEW T \in Parts(S, m + 1)
      PROVE  g[T] = IF T = {} THEN base ELSE Op(p, q, g[T \ {Chosen(T)}], Chosen(T))
  <2>1. CASE T = {}
    BY <2>1
  <2>2. CASE T # {}
    <3>1. g[T] = Op(p, q, f[T \ {Chosen(T)}], Chosen(T))
      BY <2>2
    <3>2. g[T \ {Chosen(T)}] = f[T \ {Chosen(T)}]
      BY <1>1, <1>2, <2>2
    <3> HIDE DEF g
    <3> QED BY <2>2, <3>1, <3>2
  <2> QED BY <2>1, <2>2
<1>4. g = [T \in Parts(S, m + 1) |-> g[T]]
  OBVIOUS
<1> HIDE DEF g
<1>5. Collects(g, p, q, base, Parts(S, m + 1))
  BY <1>3, <1>4, Zenon DEF Collects
<1> QED BY <1>5

LEMMA Collection ==
    ASSUME NEW p, NEW q, NEW base, NEW S, IsFiniteSet(S)
    PROVE  \E f : Collects(f, p, q, base, SUBSET S)
<1> DEFINE A == {m \in Nat : \E f : Collects(f, p, q, base, Parts(S, m))}
<1>1. 0 \in A
  <2>1. Parts(S, 0) = {{}}
    <3>1. \A T \in SUBSET S : IsFiniteSet(T) /\ Cardinality(T) \in Nat /\ (Cardinality(T) = 0 <=> T = {})
      BY FS_Subset, FS_CardinalityType, FS_EmptySet
    <3> QED BY <3>1 DEF Parts
  <2> DEFINE f == [T \in {{}} |-> base]
  <2>2. f = [T \in {{}} |-> IF T = {} THEN base ELSE Op(p, q, f[T \ {Chosen(T)}], Chosen(T))]
    OBVIOUS
  <2> HIDE DEF f
  <2>3. Collects(f, p, q, base, Parts(S, 0))
    BY <2>1, <2>2 DEF Collects
  <2> QED BY <2>3
<1>2. \A m \in Nat : m \in A => m + 1 \in A
  BY NextPart
<1> HIDE DEF A
<1>3. Nat \subseteq A
  BY <1>1, <1>2, NaturalInduction
<1>4. Cardinality(S) \in Nat /\ Parts(S, Cardinality(S)) = SUBSET S
  <2>1. \A T \in SUBSET S : Cardinality(T) <= Cardinality(S)
    BY FS_Subset
  <2> QED BY <2>1, FS_CardinalityType DEF Parts
<1>5. \E f : Collects(f, p, q, base, Parts(S, Cardinality(S)))
  BY <1>3, <1>4 DEF A
<1> QED BY <1>4, <1>5

\* What run has for every subset of S is the start, or its chosen member folded.
ChosenFirst(run, p, q, base, S) ==
    /\ run[{}] = base
    /\ \A T \in SUBSET S : T # {} => run[T] = Op(p, q, run[T \ {Chosen(T)}], Chosen(T))

\* A fold over a finite set takes one member after the other.
THEOREM SetIteration ==
    ASSUME NEW p, NEW q, NEW base, NEW S, IsFiniteSet(S)
    PROVE  \E run : ChosenFirst(run, p, q, base, S) /\ FoldedSet(p, q, base, S) = run[S]
<1> DEFINE collects(f) ==
               f = [T \in SUBSET S |->
                      IF T = {} THEN base
                      ELSE Op(p, q, f[T \ {CHOOSE x \in T : TRUE}], CHOOSE x \in T : TRUE)]
<1>1. \E f : collects(f) /\ FoldedSet(p, q, base, S) = f[S]
  <2>1. PICK f : Collects(f, p, q, base, SUBSET S)
    BY Collection, Zenon
  <2>2. collects(f)
    BY <2>1, Zenon DEF Collects, Chosen
  <2>3. collects(CHOOSE g : collects(g))
    BY <2>2, Zenon
  <2>4. FoldedSet(p, q, base, S) = (CHOOSE g : collects(g))[S]
    BY Zenon DEF FoldedSet, MapThenFoldSet
  <2> HIDE DEF collects
  <2> QED BY <2>3, <2>4, Zenon
<1>2. PICK f : collects(f) /\ FoldedSet(p, q, base, S) = f[S]
  BY <1>1
<1>3. \A T \in SUBSET S :
        f[T] = IF T = {} THEN base
               ELSE Op(p, q, f[T \ {CHOOSE x \in T : TRUE}], CHOOSE x \in T : TRUE)
  BY <1>2
<1> HIDE DEF collects
<1>4. f[{}] = base
  BY <1>3
<1>5. ASSUME NEW T \in SUBSET S, T # {}
      PROVE  f[T] = Op(p, q, f[T \ {Chosen(T)}], Chosen(T))
  BY <1>3, <1>5 DEF Chosen
<1> QED BY <1>2, <1>4, <1>5, Zenon DEF ChosenFirst

\* What run has for every subset of S is the start, or one more member folded.
OneByOne(run, p, q, base, S) ==
    /\ run[{}] = base
    /\ \A T \in SUBSET S : T # {} => \E x \in T : run[T] = Op(p, q, run[T \ {x}], x)

THEOREM SetRun ==
    ASSUME NEW p, NEW q, NEW base, NEW S, IsFiniteSet(S)
    PROVE  \E run : OneByOne(run, p, q, base, S) /\ FoldedSet(p, q, base, S) = run[S]
<1>1. PICK run : ChosenFirst(run, p, q, base, S) /\ FoldedSet(p, q, base, S) = run[S]
  BY SetIteration, Zenon
<1>2. /\ run[{}] = base
      /\ \A T \in SUBSET S : T # {} => run[T] = Op(p, q, run[T \ {Chosen(T)}], Chosen(T))
  BY <1>1, Zenon DEF ChosenFirst
<1>3. \A T \in SUBSET S : T # {} => Chosen(T) \in T
  BY DEF Chosen
<1> QED BY <1>1, <1>2, <1>3, Zenon DEF OneByOne

\* What holds of the start and after each member holds of the fold.
THEOREM SetFoldIn ==
    ASSUME NEW p, NEW q, NEW V, NEW base \in V, NEW S, IsFiniteSet(S),
           \A r \in V, x \in S : Op(p, q, r, x) \in V
    PROVE  FoldedSet(p, q, base, S) \in V
<1>0. PICK run : OneByOne(run, p, q, base, S) /\ FoldedSet(p, q, base, S) = run[S]
  BY SetRun, Zenon
<1>1. /\ run[{}] = base
      /\ \A T \in SUBSET S : T # {} => \E x \in T : run[T] = Op(p, q, run[T \ {x}], x)
      /\ FoldedSet(p, q, base, S) = run[S]
  BY <1>0, Zenon DEF OneByOne
<1> DEFINE A == {m \in Nat : \A T \in Parts(S, m) : run[T] \in V}
<1>2. \A T \in SUBSET S : IsFiniteSet(T) /\ Cardinality(T) \in Nat /\ (Cardinality(T) = 0 <=> T = {})
  BY FS_Subset, FS_CardinalityType, FS_EmptySet
<1>3. 0 \in A
  <2>1. \A T \in Parts(S, 0) : T = {}
    BY <1>2 DEF Parts
  <2> QED BY <1>1, <2>1
<1>4. ASSUME NEW m \in Nat, m \in A PROVE m + 1 \in A
  <2> SUFFICES ASSUME NEW T \in Parts(S, m + 1) PROVE run[T] \in V
    OBVIOUS
  <2>1. CASE T = {}
    BY <1>1, <2>1
  <2>2. CASE T # {}
    <3>1. T \in SUBSET S /\ Cardinality(T) <= m + 1
      BY DEF Parts
    <3>2. PICK x \in T : run[T] = Op(p, q, run[T \ {x}], x)
      BY <1>1, <2>2, <3>1
    <3>3. Cardinality(T \ {x}) = Cardinality(T) - 1
      BY <1>2, <3>1, FS_RemoveElement
    <3>4. T \ {x} \in Parts(S, m)
      BY <1>2, <3>1, <3>3 DEF Parts
    <3>5. run[T \ {x}] \in V
      BY <1>4, <3>4
    <3> QED BY <3>1, <3>2, <3>5
  <2> QED BY <2>1, <2>2
<1> HIDE DEF A
<1>5. Nat \subseteq A
  BY <1>3, <1>4, NaturalInduction
<1>6. Cardinality(S) \in Nat /\ S \in Parts(S, Cardinality(S))
  BY <1>2 DEF Parts
<1>7. \A T \in Parts(S, Cardinality(S)) : run[T] \in V
  BY <1>5, <1>6 DEF A
<1> QED BY <1>1, <1>6, <1>7

\* What all subsets have that are empty, or had it without one of their members.
LEMMA SetInduction ==
    ASSUME NEW S, IsFiniteSet(S), NEW V, {} \in V,
           \A T \in SUBSET S : T # {} /\ (\A x \in T : T \ {x} \in V) => T \in V
    PROVE  SUBSET S \subseteq V
<1> DEFINE A == {m \in Nat : Parts(S, m) \subseteq V}
<1>1. \A T \in SUBSET S : IsFiniteSet(T) /\ Cardinality(T) \in Nat /\ (Cardinality(T) = 0 <=> T = {})
  BY FS_Subset, FS_CardinalityType, FS_EmptySet
<1>2. 0 \in A
  <2>1. \A T \in Parts(S, 0) : T = {}
    BY <1>1 DEF Parts
  <2> QED BY <2>1
<1>3. ASSUME NEW m \in Nat, m \in A PROVE m + 1 \in A
  <2> SUFFICES ASSUME NEW T \in Parts(S, m + 1) PROVE T \in V
    OBVIOUS
  <2>1. T \in SUBSET S /\ Cardinality(T) <= m + 1
    BY DEF Parts
  <2>2. ASSUME NEW x \in T PROVE T \ {x} \in V
    <3>1. Cardinality(T \ {x}) = Cardinality(T) - 1
      BY <1>1, <2>1, FS_RemoveElement
    <3>2. T \ {x} \in Parts(S, m)
      BY <1>1, <2>1, <3>1 DEF Parts
    <3> QED BY <1>3, <3>2
  <2> QED BY <2>1, <2>2
<1> HIDE DEF A
<1>4. Nat \subseteq A
  BY <1>2, <1>3, NaturalInduction
<1> SUFFICES ASSUME NEW T \in SUBSET S PROVE T \in V
  OBVIOUS
<1>5. Cardinality(T) \in A /\ T \in Parts(S, Cardinality(T))
  BY <1>1, <1>4 DEF Parts
<1> QED BY <1>5 DEF A

\* A fold stays the same when a parameter changes that makes no difference.
THEOREM SetFoldSame ==
    ASSUME NEW o, NEW p, NEW q, NEW base, NEW S, IsFiniteSet(S),
           \A r, x : x \in S => Op(o, q, r, x) = Op(p, q, r, x)
    PROVE  FoldedSet(o, q, base, S) = FoldedSet(p, q, base, S)
<1>1. PICK f : ChosenFirst(f, o, q, base, S) /\ FoldedSet(o, q, base, S) = f[S]
  BY SetIteration, Zenon
<1>2. PICK g : ChosenFirst(g, p, q, base, S) /\ FoldedSet(p, q, base, S) = g[S]
  BY SetIteration, Zenon
<1> DEFINE V == {T \in SUBSET S : f[T] = g[T]}
<1>3. f[{}] = g[{}]
  BY <1>1, <1>2, Zenon DEF ChosenFirst
<1>4. ASSUME NEW T \in SUBSET S, T # {}, \A x \in T : T \ {x} \in V PROVE T \in V
  <2>1. Chosen(T) \in T /\ Chosen(T) \in S
    BY <1>4 DEF Chosen
  <2>2. f[T \ {Chosen(T)}] = g[T \ {Chosen(T)}]
    BY <1>4, <2>1
  <2>3. f[T] = Op(o, q, f[T \ {Chosen(T)}], Chosen(T))
    BY <1>1, <1>4, Zenon DEF ChosenFirst
  <2>4. g[T] = Op(p, q, g[T \ {Chosen(T)}], Chosen(T))
    BY <1>2, <1>4, Zenon DEF ChosenFirst
  <2>5. f[T] = g[T]
    BY <2>1, <2>2, <2>3, <2>4, Zenon
  <2> QED BY <2>5
<1>5. {} \in V
  BY <1>3
<1> HIDE DEF V
<1>6. SUBSET S \subseteq V
  BY <1>4, <1>5, SetInduction, Zenon
<1>7. S \in V
  BY <1>6
<1> QED BY <1>1, <1>2, <1>7 DEF V

-----------------------------------------------------------------------------
(* Order                                                                   *)

\* before is a strict order of I in which any two members are ordered.
Orders(before, I) ==
    /\ \A i \in I : <<i, i>> \notin before
    /\ \A i, j \in I : i # j => <<i, j>> \in before \/ <<j, i>> \in before
    /\ \A i, j, k \in I : <<i, j>> \in before /\ <<j, k>> \in before => <<i, k>> \in before

\* InOrder has every member of the set, and each at one place: as many come
\* before a member as there are places before it.
THEOREM Ordered ==
    ASSUME NEW I, IsFiniteSet(I), NEW before, Orders(before, I)
    PROVE  /\ Cardinality(I) \in Nat /\ DOMAIN InOrder(I, before) = 1..Cardinality(I)
           /\ \A n \in 1..Cardinality(I) : InOrder(I, before)[n] \in I
           /\ \A i \in I : \E n \in 1..Cardinality(I) : InOrder(I, before)[n] = i
           /\ \A m, n \in 1..Cardinality(I) :
                 m < n => <<InOrder(I, before)[m], InOrder(I, before)[n]>> \in before
<1> DEFINE under(i) == {j \in I : <<j, i>> \in before}
           rank(i) == Cardinality(under(i))
           size == Cardinality(I)
           at(n) == CHOOSE i \in I : rank(i) = n - 1
<1>1. size \in Nat /\ InOrder(I, before) = [n \in 1..size |-> at(n)]
  BY FS_CardinalityType DEF InOrder
<1>2. ASSUME NEW i \in I PROVE rank(i) \in 0..(size - 1)
  <2>1. under(i) \subseteq I \ {i}
    BY DEF Orders
  <2>2. IsFiniteSet(I \ {i}) /\ Cardinality(I \ {i}) = size - 1
    BY FS_RemoveElement
  <2> HIDE DEF under
  <2>3. IsFiniteSet(under(i)) /\ rank(i) <= size - 1
    BY <2>1, <2>2, FS_Subset
  <2>4. rank(i) \in Nat
    BY <2>3, FS_CardinalityType
  <2> HIDE DEF rank, size
  <2> QED BY <1>1, <2>3, <2>4
<1>3. ASSUME NEW i \in I, NEW j \in I, <<i, j>> \in before PROVE rank(i) < rank(j)
  <2>1. under(i) \subseteq under(j) \ {i} /\ i \in under(j) /\ under(j) \subseteq I
    BY <1>3 DEF Orders
  <2> HIDE DEF under
  <2>2. IsFiniteSet(under(j)) /\ rank(j) \in Nat
    BY <2>1, FS_Subset, FS_CardinalityType
  <2>3. IsFiniteSet(under(j) \ {i}) /\ Cardinality(under(j) \ {i}) = rank(j) - 1
    BY <2>1, <2>2, FS_RemoveElement
  <2>4. rank(i) <= rank(j) - 1
    BY <2>1, <2>3, FS_Subset
  <2> HIDE DEF rank
  <2>5. rank(i) \in Nat
    BY <1>1, <1>2
  <2> QED BY <2>2, <2>4, <2>5
<1> HIDE DEF under, rank
<1>4. \A i, j \in I : rank(i) = rank(j) => i = j
  <2> SUFFICES ASSUME NEW i \in I, NEW j \in I, rank(i) = rank(j), i # j PROVE FALSE
    OBVIOUS
  <2>1. rank(i) \in Nat /\ rank(j) \in Nat
    BY <1>1, <1>2
  <2>2. CASE <<i, j>> \in before
    BY <1>3, <2>1, <2>2
  <2>3. CASE <<j, i>> \in before
    BY <1>3, <2>1, <2>3
  <2> QED BY <2>2, <2>3 DEF Orders
<1>5. \A m \in 0..(size - 1) : \E i \in I : rank(i) = m
  <2> DEFINE f == [i \in I |-> rank(i)]
             T == 0..(size - 1)
  <2>1. f \in Injection(I, T)
    BY <1>2, <1>4 DEF Injection, IsInjective
  <2>2. IsFiniteSet(T) /\ Cardinality(T) = size
    <3>1. 0 \in Int /\ size - 1 \in Int
      BY <1>1
    <3>2. IsFiniteSet(T) /\ Cardinality(T) = IF 0 > size - 1 THEN 0 ELSE (size - 1) - 0 + 1
      BY <3>1, FS_Interval
    <3> HIDE DEF T, size
    <3> QED BY <1>1, <3>2
  <2>3. f \in Surjection(I, T)
    <3> HIDE DEF f, T
    <3> QED BY <2>1, <2>2, FS_Injection
  <2> QED BY <2>3 DEF Surjection
<1>6. ASSUME NEW n \in 1..size PROVE at(n) \in I /\ rank(at(n)) = n - 1
  <2>1. n - 1 \in 0..(size - 1)
    BY <1>1
  <2>2. \E i \in I : rank(i) = n - 1
    BY <1>5, <2>1
  <2> QED BY <2>2
<1>7. ASSUME NEW i \in I PROVE \E n \in 1..size : at(n) = i
  <2>1. rank(i) + 1 \in 1..size /\ (rank(i) + 1) - 1 = rank(i)
    BY <1>1, <1>2
  <2>2. at(rank(i) + 1) \in I /\ rank(at(rank(i) + 1)) = rank(i)
    BY <1>6, <2>1
  <2>3. at(rank(i) + 1) = i
    BY <1>4, <2>2
  <2> QED BY <2>1, <2>3
<1>8. ASSUME NEW m \in 1..size, NEW n \in 1..size, m < n PROVE <<at(m), at(n)>> \in before
  <2>1. /\ at(m) \in I /\ rank(at(m)) = m - 1 /\ at(n) \in I /\ rank(at(n)) = n - 1
    BY <1>6
  <2> HIDE DEF at
  <2>2. at(m) # at(n) /\ ~(<<at(n), at(m)>> \in before)
    BY <1>1, <1>3, <1>8, <2>1
  <2> QED BY <2>1, <2>2 DEF Orders
<1> HIDE DEF at, size
<1>9. DOMAIN InOrder(I, before) = 1..size /\ \A n \in 1..size : InOrder(I, before)[n] = at(n)
  BY <1>1
<1> QED BY <1>1, <1>6, <1>7, <1>8, <1>9 DEF size

\* So it is a sequence of the members.
LEMMA OrderIsSequence ==
    ASSUME NEW I, IsFiniteSet(I), NEW before, Orders(before, I)
    PROVE  /\ InOrder(I, before) \in Seq(I)
           /\ \A i \in I : \E n \in DOMAIN InOrder(I, before) : InOrder(I, before)[n] = i
<1> DEFINE order == InOrder(I, before)
           size == Cardinality(I)
           at(n) == CHOOSE i \in I : Cardinality({j \in I : <<j, i>> \in before}) = n - 1
<1>1. order = [n \in 1..size |-> order[n]]
  <2>1. order = [n \in 1..size |-> at(n)]
    BY Zenon DEF InOrder
  <2> HIDE DEF order, at, size
  <2> QED BY <2>1
<1>2. /\ size \in Nat /\ DOMAIN order = 1..size
      /\ \A n \in 1..size : order[n] \in I
      /\ \A i \in I : \E n \in 1..size : order[n] = i
  BY Ordered
<1> HIDE DEF order, size
<1>3. order \in Seq(I)
  BY <1>1, <1>2
<1> QED BY <1>2, <1>3 DEF order

\* Places in order.
LEMMA InPlace ==
    ASSUME NEW I \in SUBSET Nat, IsFiniteSet(I)
    PROVE  /\ Cardinality(I) \in Nat /\ DOMAIN ByPlace(I) = 1..Cardinality(I)
           /\ \A n \in 1..Cardinality(I) : ByPlace(I)[n] \in I
           /\ \A i \in I : \E n \in 1..Cardinality(I) : ByPlace(I)[n] = i
           /\ \A m, n \in 1..Cardinality(I) : m < n => ByPlace(I)[m] < ByPlace(I)[n]
<1> DEFINE before == {p \in I \X I : p[1] < p[2]}
<1>1. \A i, j \in I : <<i, j>> \in before <=> i < j
  OBVIOUS
<1>2. ByPlace(I) = InOrder(I, before)
  BY DEF ByPlace
<1> HIDE DEF before
<1>3. Orders(before, I)
  <2>1. \A i \in I : ~(i < i)
    OBVIOUS
  <2>2. \A i, j \in I : i # j => i < j \/ j < i
    OBVIOUS
  <2>3. \A i, j, k \in I : i < j /\ j < k => i < k
    OBVIOUS
  <2> QED BY <1>1, <2>1, <2>2, <2>3 DEF Orders
<1>4. /\ Cardinality(I) \in Nat /\ DOMAIN ByPlace(I) = 1..Cardinality(I)
      /\ \A n \in 1..Cardinality(I) : ByPlace(I)[n] \in I
      /\ \A i \in I : \E n \in 1..Cardinality(I) : ByPlace(I)[n] = i
      /\ \A m, n \in 1..Cardinality(I) : m < n => <<ByPlace(I)[m], ByPlace(I)[n]>> \in before
  BY <1>2, <1>3, Ordered
<1> QED BY <1>1, <1>4

\* The elements of a sequence at some places are those elements.
LEMMA ElementsAt ==
    ASSUME NEW s, NEW n \in Nat, DOMAIN s = 1..n, NEW I \in SUBSET DOMAIN s
    PROVE  /\ Cardinality(I) \in Nat /\ DOMAIN AtPlaces(s, I) = 1..Cardinality(I)
           /\ \A k \in 1..Cardinality(I) : \E i \in I : AtPlaces(s, I)[k] = s[i]
           /\ \A i \in I : \E k \in 1..Cardinality(I) : AtPlaces(s, I)[k] = s[i]
<1>1. IsFiniteSet(I) /\ I \in SUBSET Nat
  <2>1. IsFiniteSet(1..n)
    BY FS_Interval
  <2> QED BY <2>1, FS_Subset
<1>2. /\ DOMAIN AtPlaces(s, I) = 1..Cardinality(I)
      /\ \A k \in 1..Cardinality(I) : AtPlaces(s, I)[k] = s[ByPlace(I)[k]]
  BY DEF AtPlaces
<1>3. /\ Cardinality(I) \in Nat
      /\ \A k \in 1..Cardinality(I) : ByPlace(I)[k] \in I
      /\ \A i \in I : \E k \in 1..Cardinality(I) : ByPlace(I)[k] = i
  BY <1>1, InPlace
<1> QED BY <1>2, <1>3

\* Records in the order of their scores are the same records.
LEMMA InScoreOrder ==
    ASSUME NEW s, NEW n \in Nat, DOMAIN s = 1..n, \A i \in 1..n : s[i].score \in Int
    PROVE  /\ DOMAIN ByScore(s) = 1..n
           /\ \A k \in 1..n : \E i \in 1..n : ByScore(s)[k] = s[i]
           /\ \A i \in 1..n : \E k \in 1..n : ByScore(s)[k] = s[i]
<1> DEFINE higher(i, j) == \/ s[i].score > s[j].score
                           \/ s[i].score = s[j].score /\ i < j
           before == {p \in (DOMAIN s) \X (DOMAIN s) :
                         \/ s[p[1]].score > s[p[2]].score
                         \/ s[p[1]].score = s[p[2]].score /\ p[1] < p[2]}
           order == InOrder(DOMAIN s, before)
<1>1. \A i, j \in 1..n : <<i, j>> \in before <=> higher(i, j)
  OBVIOUS
<1>2. ByScore(s) = [k \in DOMAIN order |-> s[order[k]]]
  BY DEF ByScore
<1> HIDE DEF before
<1>3. Orders(before, 1..n)
  <2>1. \A i \in 1..n : ~higher(i, i)
    OBVIOUS
  <2>2. \A i, j \in 1..n : i # j => higher(i, j) \/ higher(j, i)
    OBVIOUS
  <2>3. \A i, j, k \in 1..n : higher(i, j) /\ higher(j, k) => higher(i, k)
    OBVIOUS
  <2> HIDE DEF higher
  <2> QED BY <1>1, <2>1, <2>2, <2>3 DEF Orders
<1>4. IsFiniteSet(1..n) /\ Cardinality(1..n) = n
  <2>1. 1 \in Int /\ n \in Int
    OBVIOUS
  <2>2. IsFiniteSet(1..n) /\ Cardinality(1..n) = IF 1 > n THEN 0 ELSE n - 1 + 1
    BY <2>1, FS_Interval
  <2> QED BY <2>2
<1>5. /\ DOMAIN order = 1..n
      /\ \A k \in 1..n : order[k] \in 1..n
      /\ \A i \in 1..n : \E k \in 1..n : order[k] = i
  <2>1. order = InOrder(1..n, before)
    OBVIOUS
  <2> HIDE DEF order
  <2>2. DOMAIN InOrder(1..n, before) = 1..Cardinality(1..n)
    BY <1>3, <1>4, Ordered
  <2>3. \A k \in 1..Cardinality(1..n) : InOrder(1..n, before)[k] \in 1..n
    BY <1>3, <1>4, Ordered
  <2>4. \A i \in 1..n : \E k \in 1..Cardinality(1..n) : InOrder(1..n, before)[k] = i
    BY <1>3, <1>4, Ordered
  <2> QED BY <1>4, <2>1, <2>2, <2>3, <2>4
<1> HIDE DEF order, higher
<1>6. ByScore(s) = [k \in 1..n |-> s[order[k]]]
  BY <1>2, <1>5
<1>7. DOMAIN ByScore(s) = 1..n /\ \A k \in 1..n : ByScore(s)[k] = s[order[k]]
  BY <1>6
<1> QED BY <1>5, <1>7

-----------------------------------------------------------------------------
(* Finite sets                                                             *)

\* The values of a function on a finite set are finitely many.
LEMMA ImageIsFinite ==
    ASSUME NEW f, IsFiniteSet(DOMAIN f)
    PROVE  IsFiniteSet({f[x] : x \in DOMAIN f})
<1> DEFINE T == {f[x] : x \in DOMAIN f}
           g == [x \in DOMAIN f |-> f[x]]
<1>1. g \in Surjection(DOMAIN f, T)
  BY DEF Surjection
<1> HIDE DEF g, T
<1>2. IsFiniteSet(T)
  BY <1>1, FS_Surjection
<1> QED BY <1>2 DEF T

\* A finite set of numbers that is not empty has a greatest one.
LEMMA GreatestOf ==
    ASSUME NEW S \in SUBSET Int, IsFiniteSet(S), S # {}
    PROVE  Max(S) \in S /\ \A i \in S : Max(S) >= i
<1> DEFINE greatest(T, m) == m \in T /\ \A i \in T : m >= i
           topped(n) == \A T \in SUBSET S : Cardinality(T) = n + 1 => \E m \in T : greatest(T, m)
           A == {n \in Nat : topped(n)}
<1>1. topped(0)
  <2> SUFFICES ASSUME NEW T \in SUBSET S, Cardinality(T) = 1 PROVE \E m \in T : greatest(T, m)
    OBVIOUS
  <2>1. IsFiniteSet(T)
    BY FS_Subset
  <2>2. PICK x : T = {x}
    BY <2>1, FS_Singleton
  <2> QED BY <2>2
<1>2. ASSUME NEW n \in Nat, topped(n) PROVE topped(n + 1)
  <2> SUFFICES ASSUME NEW T \in SUBSET S, Cardinality(T) = (n + 1) + 1
               PROVE  \E m \in T : greatest(T, m)
    OBVIOUS
  <2>1. IsFiniteSet(T)
    BY FS_Subset
  <2>1a. T # {}
    BY FS_EmptySet
  <2>2. PICK x : x \in T
    BY <2>1a
  <2>3. T \ {x} \in SUBSET S /\ Cardinality(T \ {x}) = n + 1
    <3>1. Cardinality(T \ {x}) = IF x \in T THEN Cardinality(T) - 1 ELSE Cardinality(T)
      BY <2>1, FS_RemoveElement
    <3> QED BY <2>2, <3>1
  <2>4. PICK m \in T \ {x} : greatest(T \ {x}, m)
    BY <1>2, <2>3
  <2>5. m \in Int /\ x \in Int /\ \A i \in T : i \in Int
    BY <2>2, <2>4
  <2>6. CASE m >= x
    BY <2>4, <2>6
  <2>7. CASE x >= m
    <3>1. \A i \in T : x >= i
      BY <2>4, <2>5, <2>7
    <3> QED BY <2>2, <3>1
  <2> QED BY <2>5, <2>6, <2>7
<1> HIDE DEF topped
<1>2a. 0 \in A /\ \A n \in Nat : n \in A => n + 1 \in A
  BY <1>1, <1>2
<1> HIDE DEF A
<1>3. Nat \subseteq A
  BY <1>2a, NaturalInduction
<1>4. Cardinality(S) \in Nat /\ Cardinality(S) # 0
  BY FS_CardinalityType, FS_EmptySet
<1>5. Cardinality(S) - 1 \in A /\ (Cardinality(S) - 1) + 1 = Cardinality(S)
  BY <1>3, <1>4
<1>6. PICK m \in S : greatest(S, m)
  BY <1>5 DEF A, topped
<1>7. \A x \in S : greatest(S, x) => x = m
  BY <1>6
<1> QED BY <1>6, <1>7 DEF Max

-----------------------------------------------------------------------------
(* Evidence                                                                *)

\* Without evidence there is no pressure.
LEMMA PressureOfNone == Pressure({}) = 0
<1> DEFINE op(key, rest) == Scale(rest, 1000 - Clamp(StrongestOf({}, key)))
           body(iter) == [s \in SUBSET {} |->
                            IF s = {} THEN 1000
                            ELSE LET x == CHOOSE y \in s : TRUE IN op(x, iter[s \ {x}])]
           fold == CHOOSE iter : iter = body(iter)
           all == [s \in SUBSET {} |-> 1000]
<1>1. Keys({}) = {}
  BY DEF Keys
<1>2. Pressure({}) = 1000 - fold[{}]
  BY <1>1, Zenon DEF Pressure, FoldSet, MapThenFoldSet
<1> HIDE DEF op
<1>3. \A iter : body(iter) = all
  OBVIOUS
<1> HIDE DEF body
<1>4. all = body(all)
  BY <1>3, Zenon
<1>5. fold = body(fold)
  BY <1>4, Zenon
<1>6. all[{}] = 1000
  OBVIOUS
<1> HIDE DEF fold, all
<1>7. body(fold) = all
  BY <1>3, Zenon
<1>8. fold = all
  BY <1>5, <1>7, Zenon
<1>9. fold[{}] = 1000
  BY <1>6, <1>8, Zenon
<1> QED BY <1>2, <1>9

\* Evidence of one key at most counts as one piece at most.
LEMMA OneKey ==
    ASSUME NEW pool, \A d, e \in pool : d.key = e.key
    PROVE  Cardinality(Keys(pool)) \in {0, 1}
<1>1. CASE pool = {}
  <2>1. Keys(pool) = {}
    BY <1>1 DEF Keys
  <2> QED BY <2>1, FS_EmptySet
<1>2. CASE pool # {}
  <2>1. PICK e \in pool : TRUE
    BY <1>2
  <2>2. Keys(pool) = {e.key}
    BY <2>1 DEF Keys
  <2> QED BY <2>2, FS_Singleton
<1> QED BY <1>1, <1>2

HoldsFirst(rules, i) ==
    rules[i][1] /\ \A j \in DOMAIN rules : rules[j][1] => i <= j

\* The first rule that holds decides, when one does.
LEMMA FirstRule ==
    ASSUME NEW rules, NEW n \in Nat, DOMAIN rules = 1..n, NEW k \in 1..n, rules[k][1]
    PROVE  \E i \in 1..n : HoldsFirst(rules, i) /\ FirstOf(rules) = rules[i][2]
<1> DEFINE holding == {i \in 1..n : rules[i][1]}
           first(i) == rules[i][1] /\ \A j \in DOMAIN rules : rules[j][1] => i <= j
<1>1. k \in holding /\ holding \subseteq Nat
  OBVIOUS
<1>2. PICK m \in holding : \A i \in holding : m <= i
  <2> HIDE DEF holding
  <2> QED BY <1>1, LeastOf
<1>3. m \in DOMAIN rules /\ first(m)
  BY <1>2
<1>4. FirstOf(rules) = rules[CHOOSE i \in DOMAIN rules : first(i)][2]
  BY DEF FirstOf
<1> HIDE DEF first
<1>5. (CHOOSE i \in DOMAIN rules : first(i)) \in DOMAIN rules
      /\ first(CHOOSE i \in DOMAIN rules : first(i))
  BY <1>3, Zenon
<1> QED BY <1>4, <1>5, Zenon DEF first, HoldsFirst
=============================================================================
