-------------------------------- MODULE Sums --------------------------------
(***************************************************************************)
(* Sums over finite sets.  FoldSet takes the elements one by one in an     *)
(* order of its own; the sum of integers does not depend on it.  Induction *)
(* is over sets of numbers, so that no theorem with an operator parameter  *)
(* is needed.                                                              *)
(***************************************************************************)
EXTENDS Integers, FiniteSetsExt, FiniteSetTheorems, WellFoundedInduction, NaturalsInduction, TLAPS

\* The element that a fold takes first.
FirstOf(S) == CHOOSE x \in S : TRUE

SumOf(w, S) == FoldSet(LAMBDA i, acc : w[i] + acc, 0, S)

\* g computes the sums of w over the sets of U, which is closed under taking the first element away.
Sums(g, w, U) ==
    g = [s \in U |-> IF s = {} THEN 0 ELSE w[FirstOf(s)] + g[s \ {FirstOf(s)}]]

(* Induction over the natural numbers, for a set of them.                  *)
LEMMA SetInduction ==
    ASSUME NEW G, 0 \in G, \A n \in Nat : n \in G => n + 1 \in G
    PROVE  \A n \in Nat : n \in G
<1> DEFINE B == Nat \ G
<1> SUFFICES ASSUME B # {} PROVE FALSE
  OBVIOUS
<1>1. PICK x \in B : \A y \in B : ~(<<y, x>> \in OpToRel(<, Nat))
  BY WFMin, NatLessThanWellFounded
<1>2. x \in Nat /\ x # 0
  OBVIOUS
<1>3. x - 1 \in Nat /\ (x - 1) + 1 = x
  BY <1>2
<1>4. x - 1 \in B
  BY <1>3
<1>5. <<x - 1, x>> \in Nat \X Nat /\ <<x - 1, x>>[1] < <<x - 1, x>>[2]
  BY <1>2, <1>3
<1>6. <<x - 1, x>> \in {ss \in Nat \X Nat : ss[1] < ss[2]}
  BY <1>5
<1>7. {ss \in Nat \X Nat : ss[1] < ss[2]} = OpToRel(<, Nat)
  BY Zenon DEF OpToRel
<1> QED
  BY <1>1, <1>4, <1>6, <1>7

LEMMA FirstIn == ASSUME NEW S, S # {} PROVE FirstOf(S) \in S
BY DEF FirstOf

(* Taking the first element away.                                          *)
LEMMA Smaller ==
    ASSUME NEW S, IsFiniteSet(S), NEW x \in S
    PROVE  /\ IsFiniteSet(S \ {x}) /\ Cardinality(S) \in Nat
           /\ Cardinality(S \ {x}) = Cardinality(S) - 1 /\ Cardinality(S) # 0
<1>1. S # {} /\ Cardinality(S) \in Nat
  BY FS_CardinalityType
<1> QED
  BY <1>1, FS_RemoveElement, FS_EmptySet

\* The subsets of S with at most n elements
UpTo(S, n) == {s \in SUBSET S : IsFiniteSet(s) /\ Cardinality(s) <= n}

LEMMA SumsExist ==
    ASSUME NEW w, NEW S
    PROVE  \A n \in Nat : \E g : Sums(g, w, UpTo(S, n))
<1> DEFINE G == {n \in Nat : \E g : Sums(g, w, UpTo(S, n))}
<1>1. 0 \in G
  <2>1. \A s \in UpTo(S, 0) : s = {}
    BY FS_EmptySet, FS_CardinalityType DEF UpTo
  <2>2. Sums([s \in UpTo(S, 0) |-> 0], w, UpTo(S, 0))
    BY <2>1 DEF Sums
  <2> QED
    BY <2>2
<1>2. ASSUME NEW n \in Nat, n \in G PROVE n + 1 \in G
  <2>1. PICK g : Sums(g, w, UpTo(S, n))
    BY <1>2
  <2> DEFINE h == [s \in UpTo(S, n + 1) |-> IF s = {} THEN 0 ELSE w[FirstOf(s)] + g[s \ {FirstOf(s)}]]
  <2>2. \A s \in UpTo(S, n + 1) : s # {} => s \ {FirstOf(s)} \in UpTo(S, n)
    <3> SUFFICES ASSUME NEW s \in UpTo(S, n + 1), s # {} PROVE s \ {FirstOf(s)} \in UpTo(S, n)
      OBVIOUS
    <3>1. IsFiniteSet(s) /\ Cardinality(s) <= n + 1 /\ s \in SUBSET S /\ FirstOf(s) \in s
      BY FirstIn DEF UpTo
    <3> QED
      BY <3>1, Smaller DEF UpTo
  <2>3. \A s \in UpTo(S, n) : s \in UpTo(S, n + 1)
    BY FS_CardinalityType DEF UpTo
  <2>4. \A s \in UpTo(S, n) : g[s] = IF s = {} THEN 0 ELSE w[FirstOf(s)] + g[s \ {FirstOf(s)}]
    BY <2>1, Zenon DEF Sums
  <2>5. \A s \in UpTo(S, n) : h[s] = g[s]
    BY <2>3, <2>4
  <2>6. \A s \in UpTo(S, n + 1) :
           (IF s = {} THEN 0 ELSE w[FirstOf(s)] + g[s \ {FirstOf(s)}])
             = (IF s = {} THEN 0 ELSE w[FirstOf(s)] + h[s \ {FirstOf(s)}])
    <3> HIDE DEF h
    <3> QED
      BY <2>2, <2>5
  <2>7. h = [s \in UpTo(S, n + 1) |-> IF s = {} THEN 0 ELSE w[FirstOf(s)] + h[s \ {FirstOf(s)}]]
    BY <2>6
  <2> HIDE DEF h
  <2>8. Sums(h, w, UpTo(S, n + 1))
    BY <2>7, Zenon DEF Sums
  <2> QED
    BY <2>8
<1> HIDE DEF G
<1>3. \A n \in Nat : n \in G
  BY <1>1, <1>2, SetInduction
<1> QED
  BY <1>3 DEF G

(* What a fold computes does not depend on the set it is a part of.        *)
LEMMA SumsAgree ==
    ASSUME NEW w, NEW S, NEW T, NEW g, NEW h,
           Sums(g, w, SUBSET S), Sums(h, w, SUBSET T)
    PROVE  \A R : IsFiniteSet(R) /\ R \subseteq S /\ R \subseteq T => g[R] = h[R]
<1> DEFINE Q(n) == \A R \in SUBSET (S \cap T) : IsFiniteSet(R) /\ Cardinality(R) = n => g[R] = h[R]
           G == {n \in Nat : Q(n)}
<1>0. /\ \A s \in SUBSET S : g[s] = IF s = {} THEN 0 ELSE w[FirstOf(s)] + g[s \ {FirstOf(s)}]
      /\ \A s \in SUBSET T : h[s] = IF s = {} THEN 0 ELSE w[FirstOf(s)] + h[s \ {FirstOf(s)}]
  BY Zenon DEF Sums
<1>1. 0 \in G
  <2> SUFFICES ASSUME NEW R \in SUBSET (S \cap T), IsFiniteSet(R), Cardinality(R) = 0 PROVE g[R] = h[R]
    OBVIOUS
  <2>1. R = {}
    BY FS_EmptySet
  <2> QED
    BY <1>0, <2>1
<1>2. ASSUME NEW n \in Nat, n \in G PROVE n + 1 \in G
  <2> SUFFICES ASSUME NEW R \in SUBSET (S \cap T), IsFiniteSet(R), Cardinality(R) = n + 1 PROVE g[R] = h[R]
    OBVIOUS
  <2>1. R # {}
    BY FS_EmptySet
  <2>2. FirstOf(R) \in R
    BY <2>1, FirstIn
  <2>3. IsFiniteSet(R \ {FirstOf(R)}) /\ Cardinality(R \ {FirstOf(R)}) = n
    BY <2>2, Smaller
  <2>4. g[R \ {FirstOf(R)}] = h[R \ {FirstOf(R)}]
    BY <1>2, <2>3
  <2> QED
    BY <1>0, <2>1, <2>4
<1> HIDE DEF G
<1>3. \A n \in Nat : n \in G
  BY <1>1, <1>2, SetInduction
<1> QED
  BY <1>3, FS_CardinalityType DEF G

LEMMA SumIsSums ==
    ASSUME NEW w, NEW S, IsFiniteSet(S)
    PROVE  \E g : Sums(g, w, SUBSET S) /\ SumOf(w, S) = g[S]
<1>1. UpTo(S, Cardinality(S)) = SUBSET S
  BY FS_Subset, FS_CardinalityType DEF UpTo
<1>2. \E g : Sums(g, w, SUBSET S)
  <2>1. Cardinality(S) \in Nat
    BY FS_CardinalityType
  <2>2. \A n \in Nat : \E g : Sums(g, w, UpTo(S, n))
    BY SumsExist
  <2>3. \E g : Sums(g, w, UpTo(S, Cardinality(S)))
    BY <2>1, <2>2, Zenon
  <2> QED
    BY <1>1, <2>3, Zenon
<1> DEFINE iter == CHOOSE g : g = [s \in SUBSET S |-> IF s = {} THEN 0 ELSE w[FirstOf(s)] + g[s \ {FirstOf(s)}]]
<1>3. SumOf(w, S) = iter[S]
  BY DEF SumOf, FoldSet, MapThenFoldSet, FirstOf
<1>4. Sums(iter, w, SUBSET S)
  BY <1>2 DEF Sums
<1> QED
  BY <1>3, <1>4

LEMMA SumEmpty == ASSUME NEW w PROVE SumOf(w, {}) = 0
<1>1. IsFiniteSet({})
  BY FS_EmptySet
<1>2. PICK g : Sums(g, w, SUBSET {}) /\ SumOf(w, {}) = g[{}]
  BY <1>1, SumIsSums
<1> QED
  BY <1>2 DEF Sums

LEMMA SumStep ==
    ASSUME NEW w, NEW S, IsFiniteSet(S), S # {}
    PROVE  SumOf(w, S) = w[FirstOf(S)] + SumOf(w, S \ {FirstOf(S)})
<1> DEFINE R == S \ {FirstOf(S)}
<1>1. IsFiniteSet(R) /\ R \subseteq S
  BY FirstIn, Smaller
<1>2. PICK g : Sums(g, w, SUBSET S) /\ SumOf(w, S) = g[S]
  BY SumIsSums
<1>3. PICK h : Sums(h, w, SUBSET R) /\ SumOf(w, R) = h[R]
  BY <1>1, SumIsSums
<1>4. g[R] = h[R]
  <2> HIDE DEF R
  <2>1. Sums(g, w, SUBSET S) /\ Sums(h, w, SUBSET R)
    BY <1>2, <1>3, Zenon
  <2>2. \A Q : IsFiniteSet(Q) /\ Q \subseteq S /\ Q \subseteq R => g[Q] = h[Q]
    BY <2>1, SumsAgree, SMTT(60)
  <2>3. IsFiniteSet(R) /\ R \subseteq S /\ R \subseteq R
    BY <1>1, Zenon
  <2> QED
    BY <2>2, <2>3, Zenon
<1>5. g[S] = w[FirstOf(S)] + g[R]
  BY <1>2 DEF Sums
<1> QED
  BY <1>2, <1>3, <1>4, <1>5

LEMMA SumType ==
    ASSUME NEW w, NEW D, \A i \in D : w[i] \in Int
    PROVE  \A S \in SUBSET D : IsFiniteSet(S) => SumOf(w, S) \in Int
<1> DEFINE Q(n) == \A S \in SUBSET D : IsFiniteSet(S) /\ Cardinality(S) = n => SumOf(w, S) \in Int
           G == {n \in Nat : Q(n)}
<1>1. 0 \in G
  BY FS_EmptySet, SumEmpty
<1>2. ASSUME NEW n \in Nat, n \in G PROVE n + 1 \in G
  <2> SUFFICES ASSUME NEW S \in SUBSET D, IsFiniteSet(S), Cardinality(S) = n + 1 PROVE SumOf(w, S) \in Int
    OBVIOUS
  <2>1. S # {}
    BY FS_EmptySet
  <2>2. FirstOf(S) \in S
    BY <2>1, FirstIn
  <2>3. IsFiniteSet(S \ {FirstOf(S)}) /\ Cardinality(S \ {FirstOf(S)}) = n
    BY <2>2, Smaller
  <2>4. SumOf(w, S \ {FirstOf(S)}) \in Int
    BY <1>2, <2>3
  <2>5. SumOf(w, S) = w[FirstOf(S)] + SumOf(w, S \ {FirstOf(S)})
    BY <2>1, SumStep
  <2> QED
    BY <2>2, <2>4, <2>5
<1> HIDE DEF G
<1>3. \A n \in Nat : n \in G
  BY <1>1, <1>2, SetInduction
<1> QED
  BY <1>3, FS_CardinalityType DEF G

(* Any element may be taken first.                                         *)
LEMMA SumSplit ==
    ASSUME NEW w, NEW D, \A i \in D : w[i] \in Int
    PROVE  \A S \in SUBSET D : IsFiniteSet(S) =>
               \A x \in S : SumOf(w, S) = w[x] + SumOf(w, S \ {x})
<1> DEFINE Q(n) == \A S \in SUBSET D : IsFiniteSet(S) /\ Cardinality(S) = n =>
                       \A x \in S : SumOf(w, S) = w[x] + SumOf(w, S \ {x})
           G == {n \in Nat : Q(n)}
<1>1. 0 \in G
  <2>1. \A S : IsFiniteSet(S) /\ Cardinality(S) = 0 => S = {}
    BY FS_EmptySet
  <2> QED
    BY <2>1
<1>2. ASSUME NEW n \in Nat, n \in G PROVE n + 1 \in G
  <2> SUFFICES ASSUME NEW S \in SUBSET D, IsFiniteSet(S), Cardinality(S) = n + 1, NEW x \in S
               PROVE  SumOf(w, S) = w[x] + SumOf(w, S \ {x})
    OBVIOUS
  <2> DEFINE y == FirstOf(S)
  <2>1. y \in S /\ SumOf(w, S) = w[y] + SumOf(w, S \ {y})
    BY FirstIn, SumStep
  <2> HIDE DEF y
  <2>2. CASE x = y
    BY <2>1, <2>2
  <2>3. CASE x # y
    <3>1. /\ IsFiniteSet(S \ {x}) /\ Cardinality(S \ {x}) = n /\ S \ {x} \in SUBSET D /\ y \in S \ {x}
          /\ IsFiniteSet(S \ {y}) /\ Cardinality(S \ {y}) = n /\ S \ {y} \in SUBSET D /\ x \in S \ {y}
      BY <2>1, <2>3, Smaller
    <3>2. /\ SumOf(w, S \ {x}) = w[y] + SumOf(w, (S \ {x}) \ {y})
          /\ SumOf(w, S \ {y}) = w[x] + SumOf(w, (S \ {y}) \ {x})
      BY <1>2, <3>1
    <3>3. (S \ {x}) \ {y} = (S \ {y}) \ {x}
      OBVIOUS
    <3>4. IsFiniteSet((S \ {y}) \ {x})
      BY <3>1, Smaller
    <3>5. SumOf(w, (S \ {y}) \ {x}) \in Int /\ w[x] \in Int /\ w[y] \in Int
      BY <2>1, <3>1, <3>4, SumType
    <3> DEFINE a == SumOf(w, S \ {x})
               b == SumOf(w, S \ {y})
               c == SumOf(w, (S \ {y}) \ {x})
    <3>6. a = w[y] + c /\ b = w[x] + c /\ c \in Int
      BY <3>2, <3>3, <3>5
    <3>7. SumOf(w, S) = w[y] + b /\ w[x] \in Int /\ w[y] \in Int
      BY <2>1, <3>5
    <3> HIDE DEF a, b, c
    <3>8. SumOf(w, S) = w[x] + a
      BY <3>6, <3>7
    <3> QED
      BY <3>8 DEF a
  <2> QED
    BY <2>2, <2>3
<1> HIDE DEF G
<1>3. \A n \in Nat : n \in G
  BY <1>1, <1>2, SetInduction
<1> QED
  BY <1>3, FS_CardinalityType DEF G

(* Sums of natural numbers.                                                *)
LEMMA SumNat ==
    ASSUME NEW w, NEW D, \A i \in D : w[i] \in Nat
    PROVE  \A S \in SUBSET D : IsFiniteSet(S) => SumOf(w, S) \in Nat
<1> DEFINE Q(n) == \A S \in SUBSET D : IsFiniteSet(S) /\ Cardinality(S) = n => SumOf(w, S) \in Nat
           G == {n \in Nat : Q(n)}
<1>1. 0 \in G
  BY FS_EmptySet, SumEmpty
<1>2. ASSUME NEW n \in Nat, n \in G PROVE n + 1 \in G
  <2> SUFFICES ASSUME NEW S \in SUBSET D, IsFiniteSet(S), Cardinality(S) = n + 1 PROVE SumOf(w, S) \in Nat
    OBVIOUS
  <2>1. S # {}
    BY FS_EmptySet
  <2>2. FirstOf(S) \in S
    BY <2>1, FirstIn
  <2>3. IsFiniteSet(S \ {FirstOf(S)}) /\ Cardinality(S \ {FirstOf(S)}) = n
    BY <2>2, Smaller
  <2>4. SumOf(w, S \ {FirstOf(S)}) \in Nat
    BY <1>2, <2>3
  <2>5. SumOf(w, S) = w[FirstOf(S)] + SumOf(w, S \ {FirstOf(S)})
    BY <2>1, SumStep
  <2> QED
    BY <2>2, <2>4, <2>5
<1> HIDE DEF G
<1>3. \A n \in Nat : n \in G
  BY <1>1, <1>2, SetInduction
<1> QED
  BY <1>3, FS_CardinalityType DEF G

(* The sum depends on the weights of the set's elements only.              *)
LEMMA SumSame ==
    ASSUME NEW v, NEW w, NEW D, \A i \in D : v[i] = w[i]
    PROVE  \A S \in SUBSET D : IsFiniteSet(S) => SumOf(v, S) = SumOf(w, S)
<1> DEFINE Q(n) == \A S \in SUBSET D : IsFiniteSet(S) /\ Cardinality(S) = n => SumOf(v, S) = SumOf(w, S)
           G == {n \in Nat : Q(n)}
<1>1. 0 \in G
  BY FS_EmptySet, SumEmpty
<1>2. ASSUME NEW n \in Nat, n \in G PROVE n + 1 \in G
  <2> SUFFICES ASSUME NEW S \in SUBSET D, IsFiniteSet(S), Cardinality(S) = n + 1
               PROVE SumOf(v, S) = SumOf(w, S)
    OBVIOUS
  <2>1. S # {}
    BY FS_EmptySet
  <2>2. FirstOf(S) \in S
    BY <2>1, FirstIn
  <2>3. IsFiniteSet(S \ {FirstOf(S)}) /\ Cardinality(S \ {FirstOf(S)}) = n
    BY <2>2, Smaller
  <2>4. SumOf(v, S \ {FirstOf(S)}) = SumOf(w, S \ {FirstOf(S)})
    BY <1>2, <2>3
  <2>5. /\ SumOf(v, S) = v[FirstOf(S)] + SumOf(v, S \ {FirstOf(S)})
        /\ SumOf(w, S) = w[FirstOf(S)] + SumOf(w, S \ {FirstOf(S)})
    BY <2>1, SumStep
  <2> QED
    BY <2>2, <2>4, <2>5
<1> HIDE DEF G
<1>3. \A n \in Nat : n \in G
  BY <1>1, <1>2, SetInduction
<1> QED
  BY <1>3, FS_CardinalityType DEF G

(* An element more, and an element of a sum of natural numbers.            *)
LEMMA SumAdd ==
    ASSUME NEW w, NEW D, \A i \in D : w[i] \in Int,
           NEW S \in SUBSET D, IsFiniteSet(S), NEW x \in D \ S
    PROVE  SumOf(w, S \cup {x}) = w[x] + SumOf(w, S)
<1>1. IsFiniteSet(S \cup {x}) /\ S \cup {x} \in SUBSET D /\ x \in S \cup {x}
  BY FS_AddElement
<1>2. (S \cup {x}) \ {x} = S
  OBVIOUS
<1>3. SumOf(w, S \cup {x}) = w[x] + SumOf(w, (S \cup {x}) \ {x})
  <2>1. \A R \in SUBSET D : IsFiniteSet(R) =>
           \A y \in R : SumOf(w, R) = w[y] + SumOf(w, R \ {y})
    BY SumSplit, Zenon
  <2> QED
    BY <1>1, <2>1
<1> QED
  BY <1>2, <1>3

LEMMA SumCovers ==
    ASSUME NEW w, NEW D, \A i \in D : w[i] \in Nat,
           NEW S \in SUBSET D, IsFiniteSet(S), NEW x \in S
    PROVE  w[x] <= SumOf(w, S)
<1>1. \A i \in D : w[i] \in Int
  OBVIOUS
<1>2. SumOf(w, S) = w[x] + SumOf(w, S \ {x})
  <2>1. \A R \in SUBSET D : IsFiniteSet(R) =>
           \A y \in R : SumOf(w, R) = w[y] + SumOf(w, R \ {y})
    BY <1>1, SumSplit, Zenon
  <2> QED
    BY <2>1
<1>3. IsFiniteSet(S \ {x}) /\ S \ {x} \in SUBSET D
  BY Smaller
<1>4. SumOf(w, S \ {x}) \in Nat /\ w[x] \in Nat
  BY <1>3, SumNat
<1> QED
  BY <1>2, <1>4
=============================================================================
