----------------------------- MODULE LoopLemmas -----------------------------
(***************************************************************************)
(* Lemmas about the loops of the code, which the models write as recursive *)
(* functions over the first n elements of a sequence: that such a function *)
(* exists, and how something is shown about it, element by element.  Sets  *)
(* of indices and functions take the place of predicates and operators.    *)
(***************************************************************************)
EXTENDS Integers, Sequences, SequencesExt, FiniteSets, TLAPS, FiniteSetTheorems,
        WellFoundedInduction

(* A nonempty set of naturals has a least element.                          *)
LEMMA LeastNatural ==
  ASSUME NEW S \in SUBSET Nat, S # {}
  PROVE  \E x \in S : \A y \in S : x <= y
<1>1. PICK x \in S : \A y \in S : ~ (<<y, x>> \in OpToRel(<, Nat))
  BY NatLessThanWellFounded, WFMin
<1>2. \A y \in S : ~ (y < x)
  BY <1>1 DEF OpToRel
<1> QED BY <1>2

(* What holds before the first round of a loop and is kept by each round    *)
(* holds after every round.                                                 *)
Kept(S, N) == \A n \in 1 .. N : n - 1 \in S => n \in S

(* Induction over the rounds of a loop.                                     *)
LEMMA RoundByRound ==
  ASSUME NEW N \in Nat, NEW S, 0 \in S, Kept(S, N)
  PROVE  0 .. N \subseteq S
<1> SUFFICES ASSUME ~ (0 .. N \subseteq S) PROVE FALSE
  OBVIOUS
<1> DEFINE T == (0 .. N) \ S
<1>1. T \in SUBSET Nat /\ T # {}
  OBVIOUS
<1>2. PICK x \in T : \A y \in T : x <= y
  <2> HIDE DEF T
  <2> QED BY <1>1, LeastNatural
<1>3. x \in 1 .. N /\ x - 1 \in 0 .. N
  OBVIOUS
<1>4. x - 1 \in S
  BY <1>2, <1>3
<1> QED BY <1>3, <1>4 DEF Kept

(* A recursive function over the rounds 0 .. N exists when every round is   *)
(* defined on what the rounds before can leave.                             *)
IsLoop(f, N, b, g) == f[0] = b /\ \A n \in 1 .. N : f[n] = g[n][f[n - 1]]

(* Every round is a function on the values X the loop can have.             *)
LEMMA LoopExists ==
  ASSUME NEW N \in Nat, NEW X, NEW b \in X, NEW g \in [1 .. N -> [X -> X]]
  PROVE  \E f \in [0 .. N -> X] : IsLoop(f, N, b, g)
<1> DEFINE Upto(m, f) == /\ f \in [0 .. m -> X]
                         /\ f[0] = b
                         /\ \A n \in 1 .. m : f[n] = g[n][f[n - 1]]
           S == {m \in 0 .. N : \E f : Upto(m, f)}
<1>1. 0 \in S
  <2> DEFINE h == [n \in 0 .. 0 |-> b]
  <2>1. Upto(0, h)
    OBVIOUS
  <2> HIDE DEF h, Upto
  <2> QED BY <2>1
<1>2. ASSUME NEW m \in 1 .. N, m - 1 \in S PROVE m \in S
  <2>1. PICK f : Upto(m - 1, f)
    BY <1>2
  <2> DEFINE last == g[m][f[m - 1]]
             h == [n \in 0 .. m |-> IF n < m THEN f[n] ELSE last]
  <2>2. m - 1 \in 0 .. m - 1 /\ f[m - 1] \in X /\ last \in X
    BY <2>1
  <2>3. h \in [0 .. m -> X] /\ h[0] = b
    <3> HIDE DEF last
    <3> QED BY <2>1, <2>2
  <2>4. ASSUME NEW n \in 1 .. m PROVE h[n] = g[n][h[n - 1]]
    <3>1. n - 1 \in 0 .. m /\ n - 1 < m /\ h[n - 1] = f[n - 1]
      OBVIOUS
    <3>2. CASE n < m
      <4>1. h[n] = f[n] /\ n \in 1 .. m - 1
        BY <3>2
      <4> QED BY <2>1, <3>1, <4>1
    <3>3. CASE n = m
      <4>1. h[n] = last
        BY <3>3
      <4> QED BY <3>1, <3>3, <4>1
    <3> QED BY <3>2, <3>3
  <2>5. Upto(m, h)
    <3> HIDE DEF h
    <3> QED BY <2>3, <2>4
  <2> HIDE DEF h, Upto
  <2> QED BY <2>5
<1>3. N \in S
  <2> HIDE DEF S
  <2>1. Kept(S, N)
    BY <1>2 DEF Kept
  <2> QED BY <1>1, <2>1, RoundByRound
<1>4. PICK f : Upto(N, f)
  BY <1>3
<1> QED BY <1>4 DEF IsLoop

-----------------------------------------------------------------------------
(* Sequences as lists of different things.                                  *)
LEMMA EmptyList == ToSet(<<>>) = {} /\ IsInjective(<<>>)
BY DEF ToSet, IsInjective

(* A list with one more element.                                            *)
LEMMA ToSetAppend ==
  ASSUME NEW S, NEW q \in Seq(S), NEW x \in S
  PROVE  ToSet(Append(q, x)) = ToSet(q) \cup {x}
<1>1. DOMAIN q = 1 .. Len(q) /\ DOMAIN Append(q, x) = 1 .. Len(q) + 1 /\ Len(q) \in Nat
  OBVIOUS
<1>2. \A i \in 1 .. Len(q) : Append(q, x)[i] = q[i]
  OBVIOUS
<1>3. Append(q, x)[Len(q) + 1] = x
  OBVIOUS
<1> QED BY <1>1, <1>2, <1>3 DEF ToSet

(* A new element keeps the elements of a list different.                    *)
LEMMA AppendDistinct ==
  ASSUME NEW S, NEW q \in Seq(S), NEW x \in S, IsInjective(q), x \notin ToSet(q)
  PROVE  IsInjective(Append(q, x))
<1>1. DOMAIN q = 1 .. Len(q) /\ DOMAIN Append(q, x) = 1 .. Len(q) + 1 /\ Len(q) \in Nat
  OBVIOUS
<1>2. \A i \in 1 .. Len(q) : Append(q, x)[i] = q[i] /\ q[i] # x
  BY DEF ToSet
<1>3. Append(q, x)[Len(q) + 1] = x
  OBVIOUS
<1>4. ASSUME NEW i \in 1 .. Len(q) + 1, NEW j \in 1 .. Len(q) + 1,
             Append(q, x)[i] = Append(q, x)[j]
      PROVE  i = j
  <2>1. CASE i \in 1 .. Len(q) /\ j \in 1 .. Len(q)
    <3>1. q[i] = q[j]
      BY <1>2, <1>4, <2>1
    <3> QED BY <1>1, <2>1, <3>1 DEF IsInjective
  <2>2. CASE i = Len(q) + 1 /\ j \in 1 .. Len(q)
    BY <1>2, <1>3, <1>4, <2>2
  <2>3. CASE i \in 1 .. Len(q) /\ j = Len(q) + 1
    BY <1>2, <1>3, <1>4, <2>3
  <2> QED BY <1>1, <1>4, <2>1, <2>2, <2>3
<1> QED BY <1>1, <1>4 DEF IsInjective

(* Two lists in one.                                                        *)
LEMMA ToSetConcat ==
  ASSUME NEW S, NEW p \in Seq(S), NEW q \in Seq(S)
  PROVE  ToSet(p \o q) = ToSet(p) \cup ToSet(q)
<1>1. /\ DOMAIN p = 1 .. Len(p) /\ DOMAIN q = 1 .. Len(q)
      /\ Len(p) \in Nat /\ Len(q) \in Nat
      /\ DOMAIN (p \o q) = 1 .. Len(p) + Len(q)
  OBVIOUS
<1>2. \A i \in 1 .. Len(p) : (p \o q)[i] = p[i]
  OBVIOUS
<1>3. \A i \in 1 .. Len(q) : (p \o q)[Len(p) + i] = q[i]
  OBVIOUS
<1>4. \A i \in DOMAIN (p \o q) : i \notin DOMAIN p => i - Len(p) \in 1 .. Len(q)
                                            /\ i = Len(p) + (i - Len(p))
  BY <1>1
<1>5. ToSet(p \o q) \subseteq ToSet(p) \cup ToSet(q)
  <2> SUFFICES ASSUME NEW i \in DOMAIN (p \o q)
               PROVE  (p \o q)[i] \in ToSet(p) \cup ToSet(q)
    BY DEF ToSet
  <2>1. CASE i \in DOMAIN p
    BY <1>1, <1>2, <2>1 DEF ToSet
  <2>2. CASE i \notin DOMAIN p
    <3>1. (p \o q)[i] = q[i - Len(p)] /\ i - Len(p) \in 1 .. Len(q)
      BY <1>3, <1>4, <2>2
    <3> QED BY <1>1, <3>1 DEF ToSet
  <2> QED BY <2>1, <2>2
<1>6. ToSet(p) \subseteq ToSet(p \o q)
  BY <1>1, <1>2 DEF ToSet
<1>7. ToSet(q) \subseteq ToSet(p \o q)
  <2> SUFFICES ASSUME NEW i \in DOMAIN q PROVE q[i] \in ToSet(p \o q)
    BY DEF ToSet
  <2>1. Len(p) + i \in DOMAIN (p \o q) /\ (p \o q)[Len(p) + i] = q[i]
    BY <1>1, <1>3
  <2> QED BY <2>1 DEF ToSet
<1> QED BY <1>5, <1>6, <1>7

(* The first n elements are the first n - 1 and the next.                   *)
LEMMA PrefixMore ==
  ASSUME NEW S, NEW q \in Seq(S), NEW n \in 1 .. Len(q)
  PROVE  /\ SubSeq(q, 1, n - 1) \in Seq(S) /\ q[n] \in S
         /\ SubSeq(q, 1, n) = Append(SubSeq(q, 1, n - 1), q[n])
OBVIOUS

(* What holds of the empty list, and of a list with one more element when   *)
(* it holds of the list, holds of every list.                               *)
Lengthens(P, S) == \A q \in Seq(S), x \in S : q \in P => Append(q, x) \in P

(* Lists are built by appending to the empty list.                          *)
LEMMA ListByList ==
  ASSUME NEW S, NEW P, <<>> \in P, Lengthens(P, S)
  PROVE  Seq(S) \subseteq P
<1> SUFFICES ASSUME NEW q \in Seq(S) PROVE q \in P
  OBVIOUS
<1> DEFINE N == Len(q)
           Good == {n \in 0 .. N : SubSeq(q, 1, n) \in P}
<1>1. N \in Nat /\ DOMAIN q = 1 .. N
  OBVIOUS
<1>2. SubSeq(q, 1, 0) = <<>> /\ SubSeq(q, 1, N) = q
  OBVIOUS
<1> HIDE DEF N
<1>3. ASSUME NEW n \in 1 .. N, SubSeq(q, 1, n - 1) \in P
      PROVE  SubSeq(q, 1, n) \in P
  <2>1. /\ SubSeq(q, 1, n - 1) \in Seq(S) /\ q[n] \in S
        /\ SubSeq(q, 1, n) = Append(SubSeq(q, 1, n - 1), q[n])
    <3>1. n \in 1 .. Len(q)
      BY DEF N
    <3> QED BY <3>1, PrefixMore
  <2> QED BY <1>3, <2>1 DEF Lengthens
<1>4. N \in Good
  <2>1. Kept(Good, N)
    <3>1. ASSUME NEW n \in 1 .. N, n - 1 \in Good PROVE n \in Good
      <4>1. n \in 0 .. N
        BY <1>1
      <4>2. SubSeq(q, 1, n - 1) \in P
        BY <3>1
      <4> QED BY <1>3, <4>1, <4>2
    <3> QED BY <3>1 DEF Kept
  <2>2. 0 \in Good
    <3>1. 0 \in 0 .. N
      BY <1>1
    <3>2. SubSeq(q, 1, 0) \in P
      BY <1>2
    <3> QED BY <3>1, <3>2
  <2> HIDE DEF Good, N
  <2> QED BY <1>1, <2>1, <2>2, RoundByRound
<1> QED
  <2>1. SubSeq(q, 1, N) \in P
    BY <1>4
  <2> QED BY <1>2, <2>1

(* Two lists without a common element keep their elements different.        *)
LEMMA ConcatDistinct ==
  ASSUME NEW S, NEW p \in Seq(S), NEW q \in Seq(S), IsInjective(p), IsInjective(q),
         ToSet(p) \cap ToSet(q) = {}
  PROVE  IsInjective(p \o q)
<1>1. /\ DOMAIN p = 1 .. Len(p) /\ DOMAIN q = 1 .. Len(q)
      /\ Len(p) \in Nat /\ Len(q) \in Nat
      /\ DOMAIN (p \o q) = 1 .. Len(p) + Len(q)
  OBVIOUS
<1>2. ASSUME NEW i \in DOMAIN (p \o q)
      PROVE  \/ i \in DOMAIN p /\ (p \o q)[i] = p[i] /\ p[i] \in ToSet(p)
             \/ /\ i - Len(p) \in DOMAIN q /\ (p \o q)[i] = q[i - Len(p)]
                /\ q[i - Len(p)] \in ToSet(q)
  BY <1>1 DEF ToSet
<1> SUFFICES ASSUME NEW i \in DOMAIN (p \o q), NEW j \in DOMAIN (p \o q),
                    (p \o q)[i] = (p \o q)[j]
             PROVE  i = j
  BY DEF IsInjective
<1>3. CASE i \in DOMAIN p /\ j \in DOMAIN p
  <2>1. (p \o q)[i] = p[i] /\ (p \o q)[j] = p[j]
    BY <1>3
  <2> QED BY <1>3, <2>1 DEF IsInjective
<1>4. CASE i - Len(p) \in DOMAIN q /\ j - Len(p) \in DOMAIN q
  <2>1. (p \o q)[i] = q[i - Len(p)] /\ (p \o q)[j] = q[j - Len(p)]
    BY <1>1, <1>4
  <2>2. i - Len(p) = j - Len(p)
    BY <1>4, <2>1 DEF IsInjective
  <2> QED BY <1>1, <2>2
<1> QED BY <1>1, <1>2, <1>3, <1>4

(* A finite set as a list.                                                  *)
LEMMA SetToSeqOf ==
  ASSUME NEW S, IsFiniteSet(S)
  PROVE  SetToSeq(S) \in Seq(S) /\ IsInjective(SetToSeq(S)) /\ ToSet(SetToSeq(S)) = S
<1> DEFINE n == Cardinality(S)
           q == SetToSeq(S)
<1>1. n \in Nat /\ \E f : f \in Bijection(1 .. n, S)
  BY FS_CardinalityType DEF ExistsBijection
<1>2. \E f \in [1 .. n -> S] : IsInjective(f)
  BY <1>1 DEF Bijection, Injection
<1>3. q \in [1 .. n -> S] /\ IsInjective(q)
  BY <1>2 DEF SetToSeq
<1>4. q \in Seq(S)
  <2> HIDE DEF q
  <2> QED BY <1>1, <1>3
<1>5. IsFiniteSet(1 .. n) /\ Cardinality(1 .. n) = n
  BY <1>1, FS_Interval
<1>6. q \in Injection(1 .. n, S)
  BY <1>3 DEF Injection
<1>7. q \in Surjection(1 .. n, S)
  <2> HIDE DEF q
  <2> QED BY <1>5, <1>6, FS_Injection
<1>8. ToSet(q) = S
  <2> HIDE DEF q
  <2> QED BY <1>3, <1>7 DEF Surjection, ToSet
<1> QED BY <1>3, <1>4, <1>8

(* A nonempty set of naturals contains its Min.                             *)
LEMMA MinIsMember ==
  ASSUME NEW S \in SUBSET Nat, S # {}
  PROVE  Min(S) \in S
BY LeastNatural DEF Min

-----------------------------------------------------------------------------
(* Sums over a finite set, as the folds of the community modules take them: *)
(* one element after the other.                                             *)
Pick(T) == CHOOSE x \in T : TRUE
SumStep(f, h, T) == IF T = {} THEN 0 ELSE f[Pick(T)] + h[T \ {Pick(T)}]
IsSum(h, f, S) == h = [T \in SUBSET S |-> SumStep(f, h, T)]

(* One element less, counted.                                               *)
LEMMA OneLess ==
  ASSUME NEW T, IsFiniteSet(T), NEW x \in T
  PROVE  /\ IsFiniteSet(T \ {x}) /\ Cardinality(T) \in Nat \ {0}
         /\ Cardinality(T \ {x}) = Cardinality(T) - 1
<1>1. IsFiniteSet(T \ {x}) /\ Cardinality(T \ {x}) = Cardinality(T) - 1
  BY FS_RemoveElement
<1>2. Cardinality(T) \in Nat /\ Cardinality(T \ {x}) \in Nat
  BY <1>1, FS_CardinalityType
<1> QED BY <1>1, <1>2

(* What holds of the empty set, and of a set when it holds of the set less  *)
(* one element, holds of every finite set.                                  *)
Shrinks(P, S) == \A T \in SUBSET S :
                    T # {} /\ (\A x \in T : T \ {x} \in P) => T \in P

(* A set of sets with the empty one that contains T whenever it contains T  *)
(* less any element contains every subset of a finite set.                  *)
LEMMA SetBySet ==
  ASSUME NEW S, IsFiniteSet(S), NEW P, {} \in P, Shrinks(P, S)
  PROVE  SUBSET S \subseteq P
<1> DEFINE N == Cardinality(S)
           Upto(n) == \A T \in SUBSET S : Cardinality(T) <= n => T \in P
           Good == {n \in 0 .. N : Upto(n)}
<1>1. N \in Nat /\ \A T \in SUBSET S : /\ IsFiniteSet(T) /\ Cardinality(T) \in Nat
                                       /\ Cardinality(T) <= N
  BY FS_CardinalityType, FS_Subset
<1>2. 0 \in Good
  <2>1. Upto(0)
    BY <1>1, FS_EmptySet
  <2> QED BY <1>1, <2>1
<1>3. ASSUME NEW n \in 1 .. N, n - 1 \in Good PROVE n \in Good
  <2> SUFFICES ASSUME NEW T \in SUBSET S, Cardinality(T) <= n PROVE T \in P
    BY <1>1
  <2>1. CASE T = {}
    BY <2>1
  <2>2. CASE T # {}
    <3>1. ASSUME NEW x \in T PROVE T \ {x} \in P
      <4>1. Cardinality(T \ {x}) <= n - 1
        BY <1>1, OneLess
      <4> QED BY <1>3, <4>1
    <3> QED BY <2>2, <3>1 DEF Shrinks
  <2> QED BY <2>1, <2>2
<1>4. N \in Good
  <2>1. Kept(Good, N)
    BY <1>3 DEF Kept
  <2> HIDE DEF Good, N
  <2> QED BY <1>1, <1>2, <2>1, RoundByRound
<1> QED BY <1>1, <1>4

(* Two sums agree where their terms do.                                     *)
LEMMA SumsAgree ==
  ASSUME NEW S, IsFiniteSet(S), NEW R, S \subseteq R, NEW f, NEW g, NEW h, NEW k,
         IsSum(h, f, S), IsSum(k, g, R), \A x \in S : f[x] = g[x]
  PROVE  \A T \in SUBSET S : h[T] = k[T]
<1> DEFINE P == {T \in SUBSET S : h[T] = k[T]}
<1>1. \A T \in SUBSET S : h[T] = SumStep(f, h, T) /\ k[T] = SumStep(g, k, T)
  BY DEF IsSum
<1>2. {} \in P
  BY <1>1 DEF SumStep
<1>3. Shrinks(P, S)
  <2> SUFFICES ASSUME NEW T \in SUBSET S, T # {}, \A x \in T : T \ {x} \in P
               PROVE  T \in P
    BY DEF Shrinks
  <2>1. Pick(T) \in T
    BY DEF Pick
  <2>2. h[T \ {Pick(T)}] = k[T \ {Pick(T)}]
    BY <2>1
  <2> QED BY <1>1, <2>1, <2>2 DEF SumStep
<1>4. SUBSET S \subseteq P
  <2> HIDE DEF P
  <2> QED BY <1>2, <1>3, SetBySet
<1> QED BY <1>4

(* The sum exists and is a number.                                          *)
LEMMA SumExists ==
  ASSUME NEW S, IsFiniteSet(S), NEW f \in [S -> Int]
  PROVE  \E h \in [SUBSET S -> Int] : IsSum(h, f, S)
<1> DEFINE N == Cardinality(S)
           X == [SUBSET S -> Int]
           b == [T \in SUBSET S |-> 0]
           next(h) == [T \in SUBSET S |-> SumStep(f, h, T)]
           g == [n \in 1 .. N + 1 |-> [h \in X |-> next(h)]]
<1>1. N \in Nat /\ N + 1 \in Nat
  BY FS_CardinalityType
<1>2. b \in X
  OBVIOUS
<1>3. g \in [1 .. N + 1 -> [X -> X]]
  <2>1. ASSUME NEW h \in X PROVE next(h) \in X
    <3>1. ASSUME NEW T \in SUBSET S PROVE SumStep(f, h, T) \in Int
      <4>1. CASE T = {}
        BY <4>1 DEF SumStep
      <4>2. CASE T # {}
        <5>1. Pick(T) \in T
          BY <4>2 DEF Pick
        <5>2. f[Pick(T)] \in Int /\ h[T \ {Pick(T)}] \in Int
          BY <5>1
        <5> QED BY <4>2, <5>2 DEF SumStep
      <4> QED BY <4>1, <4>2
    <3> QED BY <3>1
  <2> QED BY <2>1
<1>4. PICK F \in [0 .. N + 1 -> X] : IsLoop(F, N + 1, b, g)
  <2> HIDE DEF N, X, b, g
  <2> QED BY <1>1, <1>2, <1>3, LoopExists
<1>5. F[0] = b /\ \A n \in 1 .. N + 1 : F[n] = next(F[n - 1]) /\ F[n - 1] \in X
  <2> SUFFICES ASSUME NEW n \in 1 .. N + 1 PROVE F[n] = next(F[n - 1]) /\ F[n - 1] \in X
    BY <1>4 DEF IsLoop
  <2>1. n - 1 \in 0 .. N + 1
    BY <1>1
  <2>2. F[n - 1] \in X /\ F[n] = g[n][F[n - 1]]
    <3> HIDE DEF g, X
    <3> QED BY <1>4, <2>1 DEF IsLoop
  <2> HIDE DEF X, next
  <2> QED BY <2>2
<1>6. \A n \in 1 .. N + 1 : \A T \in SUBSET S : F[n][T] = SumStep(f, F[n - 1], T)
  <2> SUFFICES ASSUME NEW n \in 1 .. N + 1, NEW T \in SUBSET S
               PROVE  F[n][T] = SumStep(f, F[n - 1], T)
    OBVIOUS
  <2>1. F[n] = next(F[n - 1])
    <3> HIDE DEF next
    <3> QED BY <1>5
  <2> QED BY <2>1
<1> DEFINE Settled(n) == \A T \in SUBSET S : Cardinality(T) <= n => F[n][T] = F[n + 1][T]
           Good == {n \in 0 .. N : Settled(n)}
<1>7. \A T \in SUBSET S : /\ IsFiniteSet(T) /\ Cardinality(T) \in Nat
                          /\ Cardinality(T) <= N
  BY FS_CardinalityType, FS_Subset
<1>8. 0 \in Good
  <2>1. ASSUME NEW T \in SUBSET S, Cardinality(T) <= 0 PROVE F[0][T] = F[1][T]
    <3>1. T = {}
      BY <1>7, <2>1, FS_EmptySet
    <3>2. F[1][T] = SumStep(f, F[0], T)
      BY <1>1, <1>6
    <3> QED BY <1>5, <3>1, <3>2 DEF SumStep
  <2> QED BY <1>1, <2>1
<1>9. ASSUME NEW n \in 1 .. N, n - 1 \in Good PROVE n \in Good
  <2>1. ASSUME NEW T \in SUBSET S, Cardinality(T) <= n PROVE F[n][T] = F[n + 1][T]
    <3>1. /\ F[n][T] = SumStep(f, F[n - 1], T) /\ F[n + 1][T] = SumStep(f, F[n], T)
      <4>1. n \in 1 .. N + 1 /\ n + 1 \in 1 .. N + 1 /\ n + 1 - 1 = n
        BY <1>1
      <4>2. F[n + 1][T] = SumStep(f, F[n + 1 - 1], T)
        BY <1>6, <4>1
      <4> QED BY <1>6, <4>1, <4>2
    <3>2. CASE T = {}
      BY <3>1, <3>2 DEF SumStep
    <3>3. CASE T # {}
      <4>1. Pick(T) \in T
        BY <3>3 DEF Pick
      <4>2. Cardinality(T \ {Pick(T)}) <= n - 1 /\ T \ {Pick(T)} \in SUBSET S
        <5>1. IsFiniteSet(T) /\ T \ {Pick(T)} \in SUBSET S
          BY <1>7
        <5> HIDE DEF N, X, b, next, g, Good, Settled
        <5>2. Cardinality(T) \in Nat /\ Cardinality(T \ {Pick(T)}) = Cardinality(T) - 1
          BY <4>1, <5>1, OneLess
        <5>3. n \in Int
          BY <1>1, <1>9
        <5> QED BY <2>1, <5>1, <5>2, <5>3
      <4>3. F[n - 1][T \ {Pick(T)}] = F[n][T \ {Pick(T)}]
        <5>1. Settled(n - 1) /\ n - 1 + 1 = n
          BY <1>9
        <5> QED BY <4>2, <5>1
      <4> QED BY <3>1, <3>3, <4>3 DEF SumStep
    <3> QED BY <3>2, <3>3
  <2> QED BY <2>1
<1>10. N \in Good
  <2>1. Kept(Good, N)
    BY <1>9 DEF Kept
  <2> HIDE DEF Good, N
  <2> QED BY <1>1, <1>8, <2>1, RoundByRound
<1>11. N + 1 \in 1 .. N + 1 /\ N \in 0 .. N + 1 /\ N + 1 - 1 = N
  BY <1>1
<1>12. \A T \in SUBSET S : F[N][T] = SumStep(f, F[N], T)
  <2> SUFFICES ASSUME NEW T \in SUBSET S PROVE F[N][T] = SumStep(f, F[N], T)
    OBVIOUS
  <2>1. F[N][T] = F[N + 1][T]
    BY <1>7, <1>10
  <2>2. F[N + 1][T] = SumStep(f, F[N + 1 - 1], T)
    <3> HIDE DEF N
    <3> QED BY <1>6, <1>11
  <2> QED BY <1>11, <2>1, <2>2
<1>13. F[N] \in X
  <2> HIDE DEF X
  <2> QED BY <1>4, <1>11
<1>14. IsSum(F[N], f, S)
  <2> HIDE DEF N
  <2> QED BY <1>12, <1>13 DEF IsSum
<1> HIDE DEF N
<1> QED BY <1>13, <1>14

(* Whichever element is taken first, the sum is the same.                   *)
Additive(f, h, S) == \A T \in SUBSET S : \A a \in T : h[T] = f[a] + h[T \ {a}]

(* The sum over a set is that over the set less any element, and its value. *)
LEMMA SumWithout ==
  ASSUME NEW S, IsFiniteSet(S), NEW f \in [S -> Int], NEW h \in [SUBSET S -> Int],
         IsSum(h, f, S)
  PROVE  Additive(f, h, S)
<1> DEFINE P == {T \in SUBSET S : \A a \in T : h[T] = f[a] + h[T \ {a}]}
<1>1. \A T \in SUBSET S : h[T] = SumStep(f, h, T)
  BY DEF IsSum
<1>2. {} \in P
  OBVIOUS
<1>3. Shrinks(P, S)
  <2> SUFFICES ASSUME NEW T \in SUBSET S, T # {}, \A x \in T : T \ {x} \in P, NEW a \in T
               PROVE  h[T] = f[a] + h[T \ {a}]
    BY DEF Shrinks
  <2>1. PICK p \in T : p = Pick(T)
    BY DEF Pick
  <2>2. h[T] = f[p] + h[T \ {p}]
    BY <1>1, <2>1 DEF SumStep
  <2>3. CASE a # p
    <3>1. h[T \ {p}] = f[a] + h[(T \ {p}) \ {a}]
      BY <2>3
    <3>2. h[T \ {a}] = f[p] + h[(T \ {a}) \ {p}]
      BY <2>3
    <3>3. (T \ {p}) \ {a} = (T \ {a}) \ {p}
      OBVIOUS
    <3>4. f[a] \in Int /\ f[p] \in Int /\ h[(T \ {a}) \ {p}] \in Int
      OBVIOUS
    <3>5. PICK r \in Int : r = h[(T \ {a}) \ {p}]
      BY <3>4
    <3>6. h[T] = f[p] + (f[a] + r)
      BY <2>2, <3>1, <3>3, <3>5
    <3>7. h[T \ {a}] = f[p] + r
      BY <3>2, <3>5
    <3>8. f[p] + (f[a] + r) = f[a] + (f[p] + r)
      BY <3>4
    <3> HIDE DEF P
    <3> QED BY <3>6, <3>7, <3>8
  <2> QED BY <2>2, <2>3
<1>4. SUBSET S \subseteq P
  <2> HIDE DEF P
  <2> QED BY <1>2, <1>3, SetBySet
<1> QED BY <1>4 DEF Additive

(* A list of two, one after the other.                                      *)
LEMMA TwoInOrder ==
  ASSUME NEW S, NEW x \in S, NEW y \in S
  PROVE  Append(<<x>>, y) = <<x, y>>
<1>1. /\ Append(<<x>>, y) \in Seq(S) /\ Len(Append(<<x>>, y)) = 2
      /\ Append(<<x>>, y)[1] = x /\ Append(<<x>>, y)[2] = y
  OBVIOUS
<1>2. /\ <<x, y>> \in Seq(S) /\ Len(<<x, y>>) = 2
      /\ <<x, y>>[1] = x /\ <<x, y>>[2] = y
  OBVIOUS
<1>3. \A p, q \in Seq(S) :
        Len(p) = 2 /\ Len(q) = 2 /\ p[1] = q[1] /\ p[2] = q[2] => p = q
  OBVIOUS
<1> QED BY <1>1, <1>2, <1>3

(* A list is what comes before a place and what comes after it.             *)
LEMMA CutInTwo ==
  ASSUME NEW S, NEW q \in Seq(S), NEW k \in 0 .. Len(q)
  PROVE  /\ SubSeq(q, 1, k) \in Seq(S) /\ Len(SubSeq(q, 1, k)) = k
         /\ SubSeq(q, k + 1, Len(q)) \in Seq(S)
         /\ q = SubSeq(q, 1, k) \o SubSeq(q, k + 1, Len(q))
<1>0. Len(q) \in Nat /\ k \in Nat /\ k <= Len(q)
  OBVIOUS
<1>1. /\ SubSeq(q, 1, k) \in Seq(S) /\ Len(SubSeq(q, 1, k)) = k
      /\ \A i \in 1 .. k : SubSeq(q, 1, k)[i] = q[i]
  OBVIOUS
<1>2. /\ SubSeq(q, k + 1, Len(q)) \in Seq(S)
      /\ Len(SubSeq(q, k + 1, Len(q))) = Len(q) - k
      /\ \A i \in 1 .. Len(q) - k : SubSeq(q, k + 1, Len(q))[i] = q[k + i]
  OBVIOUS
<1>3. PICK a \in Seq(S), b \in Seq(S) : a = SubSeq(q, 1, k) /\ b = SubSeq(q, k + 1, Len(q))
  BY <1>1, <1>2
<1>4. PICK c \in Seq(S) : c = a \o b
  <2>1. a \o b \in Seq(S)
    OBVIOUS
  <2> QED BY <2>1
<1>5. Len(a) = k /\ Len(b) = Len(q) - k /\ Len(c) = Len(q)
  <2>1. Len(a) = k /\ Len(b) = Len(q) - k
    BY <1>1, <1>2, <1>3
  <2>2. Len(a \o b) = Len(a) + Len(b)
    OBVIOUS
  <2> QED BY <1>0, <1>4, <2>1, <2>2
<1>6. ASSUME NEW i \in 1 .. Len(q) PROVE c[i] = q[i]
  <2>1. CASE i <= k
    <3>1. c[i] = a[i] /\ i \in 1 .. k
      BY <1>0, <1>4, <1>5, <2>1
    <3> QED BY <1>1, <1>3, <3>1
  <2>2. CASE ~ (i <= k)
    <3>1. i - k \in 1 .. Len(q) - k /\ k + (i - k) = i
      BY <1>0, <2>2
    <3>2. c[i] = b[i - k]
      BY <1>0, <1>4, <1>5, <2>2
    <3>3. b[i - k] = q[k + (i - k)]
      BY <1>2, <1>3, <3>1
    <3> QED BY <3>1, <3>2, <3>3
  <2> QED BY <2>1, <2>2
<1>7. c = q
  BY <1>5, <1>6
<1> QED BY <1>1, <1>2, <1>3, <1>4, <1>7
=============================================================================
