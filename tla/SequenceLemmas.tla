---- MODULE SequenceLemmas ----
(***************************************************************************)
(* Facts about numbers and sequences that the proofs of several components *)
(* cite.  Induction is stated over a set of those for which something      *)
(* holds, not over an operator: a set can be given to a lemma as it is.    *)
(***************************************************************************)
EXTENDS Integers, Sequences, FiniteSetsExt, FiniteSetTheorems, SequenceTheorems,
        WellFoundedInduction, TLAPS

----------------------------------------------------------------------------
(* Induction. *)

\* Every set of naturals that is not empty has a least element.
LEMMA LeastElement ==
  ASSUME NEW T, T \subseteq Nat, T # {}
  PROVE  \E x \in T : \A y \in T : x <= y
<1> DEFINE R == OpToRel(<, Nat)
<1>1. IsWellFoundedOn(R, Nat)
  BY NatLessThanWellFounded
<1>2. \A x, y \in Nat : <<y, x>> \in R <=> y < x
  BY Zenon DEF OpToRel
<1> HIDE DEF R
<1>3. PICK x \in T : \A y \in T : ~(<<y, x>> \in R)
  BY <1>1, WFMin
<1>4. ASSUME NEW y \in T PROVE x <= y
  <2>1. ~(y < x)
    BY <1>2, <1>3
  <2>2. x \in Nat /\ y \in Nat
    OBVIOUS
  <2> QED
    BY <2>1, <2>2
<1> QED
  BY <1>3, <1>4

\* A set with 0, and with the successor of each natural in it, has all naturals.
LEMMA NaturalsInduct ==
  ASSUME NEW P, 0 \in P, \A n \in Nat : n \in P => n + 1 \in P
  PROVE  \A n \in Nat : n \in P
<1> DEFINE T == {n \in Nat : n \notin P}
<1>1. CASE T # {}
  <2>1. PICK x \in T : \A y \in T : x <= y
    BY <1>1, LeastElement
  <2>2. x # 0 /\ x - 1 \in Nat /\ x - 1 \notin T
    BY <2>1
  <2> QED
    BY <2>1, <2>2
<1> QED
  BY <1>1
\* What Min is of a set of naturals that is not empty.
LEMMA MinFacts ==
  ASSUME NEW S, S \subseteq Nat, S # {}
  PROVE  Min(S) \in S /\ \A y \in S : Min(S) <= y
<1>1. \E x \in S : \A y \in S : x <= y
  BY LeastElement
<1> QED
  BY <1>1 DEF Min

\* What Max is of a range's part that is not empty.
LEMMA MaxFacts ==
  ASSUME NEW n \in Nat, NEW T \in SUBSET (1..n), T # {}
  PROVE  Max(T) \in T /\ \A y \in T : y <= Max(T)
<1> DEFINE R == {n - y : y \in T}
<1>1. PICK z \in R : \A y \in R : z <= y
  <2>1. \A y \in T : y \in 1..n /\ n - y \in Nat
    OBVIOUS
  <2>2. R \subseteq Nat /\ R # {}
    BY <2>1
  <2> HIDE DEF R
  <2> QED
    BY <2>2, LeastElement
<1>2. PICK x \in T : z = n - x
  OBVIOUS
<1>3. ASSUME NEW y \in T PROVE x >= y
  <2>1. n - x <= n - y
    BY <1>1, <1>2
  <2>2. x \in Int /\ y \in Int
    OBVIOUS
  <2> QED
    BY <2>1, <2>2
<1>4. Max(T) \in T /\ \A y \in T : Max(T) >= y
  BY <1>3 DEF Max
<1>5. \A y \in T : y \in Int
  OBVIOUS
<1> QED
  BY <1>4, <1>5

\* A range with one more number.
LEMMA OneMoreInRange ==
  /\ 1..0 = {}
  /\ \A k \in Nat : 1..(k + 1) = (1..k) \cup {k + 1}
<1>1. 1..0 = {}
  OBVIOUS
<1>2. ASSUME NEW k \in Nat, NEW j PROVE j \in 1..(k + 1) <=> j \in (1..k) \cup {k + 1}
  <2>1. CASE j \in Int
    BY <2>1
  <2>2. CASE j \notin Int
    <3>1. j # k + 1
      BY <2>2
    <3> QED
      BY <2>2, <3>1
  <2> QED
    BY <2>1, <2>2
<1> QED
  BY <1>1, <1>2
----------------------------------------------------------------------------
(* Sequences. *)

\* The first element of a sequence that is not empty, and what follows it.
LEMMA HeadAndTail ==
  ASSUME NEW S, NEW s \in Seq(S), s # <<>>
  PROVE  /\ Len(s) \in Nat /\ Len(s) >= 1 /\ 1 \in 1..Len(s)
         /\ Head(s) = s[1] /\ s[1] \in S
         /\ Tail(s) \in Seq(S) /\ Len(Tail(s)) = Len(s) - 1
         /\ \A i \in 1..(Len(s) - 1) : i + 1 \in 1..Len(s) /\ Tail(s)[i] = s[i + 1]
         /\ Len(s) # 1 => Tail(s) # <<>> /\ Tail(s)[1] = s[2]
<1>1. Len(s) \in Nat /\ Len(s) >= 1
  OBVIOUS
<1>2. 1 \in 1..Len(s) /\ Head(s) = s[1] /\ s[1] \in S
  BY <1>1
<1>3. Tail(s) \in Seq(S) /\ Len(Tail(s)) = Len(s) - 1
  OBVIOUS
<1>4. \A i \in 1..(Len(s) - 1) : i + 1 \in 1..Len(s) /\ Tail(s)[i] = s[i + 1]
  BY <1>1
<1>5. Len(s) # 1 => Tail(s) # <<>> /\ Tail(s)[1] = s[2]
  <2> SUFFICES ASSUME Len(s) # 1 PROVE Tail(s) # <<>> /\ Tail(s)[1] = s[2]
    OBVIOUS
  <2>1. Len(Tail(s)) >= 1 /\ 1 \in 1..(Len(s) - 1)
    BY <1>1, <1>3
  <2>2. Tail(s)[1] = s[1 + 1]
    BY <1>4, <2>1
  <2>3. Tail(s) # <<>>
    BY <1>3, <2>1
  <2> QED
    BY <2>2, <2>3
<1> QED
  BY <1>1, <1>2, <1>3, <1>4, <1>5
----------------------------------------------------------------------------
(* Folds.  MapThenFoldSet folds by a function on the subsets of a set, which has *)
(* a value for a set if it has one for the set without the element picked.      *)

\* pick takes an element of each part of S that is not empty.
Picks(pick, S) == \A T \in SUBSET S : T # {} => pick[T] \in T

\* P has the empty set, and each part of S of which it has all but the element picked.
Inductive(P, S, pick) ==
  /\ {} \in P
  /\ \A T \in SUBSET S : T # {} /\ T \ {pick[T]} \in P => T \in P

\* A set with the empty one, and with each finite set that is in it once one
\* element, of whichever choice, is taken away, has every subset of a finite set.
LEMMA SubsetsInduct ==
  ASSUME NEW S, IsFiniteSet(S), NEW P, NEW pick, Picks(pick, S), Inductive(P, S, pick)
  PROVE  SUBSET S \subseteq P
<1> USE DEF Picks, Inductive
<1> DEFINE Q == {n \in Nat : \A T \in SUBSET S : Cardinality(T) = n => T \in P}
<1>1. \A T \in SUBSET S : IsFiniteSet(T) /\ Cardinality(T) \in Nat
  BY FS_Subset, FS_CardinalityType
<1>2. 0 \in Q
  <2>1. \A T \in SUBSET S : Cardinality(T) = 0 => T = {}
    BY <1>1, FS_EmptySet
  <2> QED
    BY <2>1
<1>3. ASSUME NEW n \in Nat, n \in Q PROVE n + 1 \in Q
  <2> SUFFICES ASSUME NEW T \in SUBSET S, Cardinality(T) = n + 1 PROVE T \in P
    OBVIOUS
  <2>1. T # {}
    <3>1. Cardinality({}) = 0 /\ n + 1 # 0
      BY FS_EmptySet
    <3> QED
      BY <3>1
  <2>2. pick[T] \in T /\ T \ {pick[T]} \in SUBSET S
    BY <2>1
  <2>3. Cardinality(T \ {pick[T]}) = Cardinality(T) - 1
    BY <1>1, <2>2, FS_RemoveElement
  <2>4. T \ {pick[T]} \in P
    BY <1>3, <2>2, <2>3
  <2> QED
    BY <2>1, <2>4
<1> HIDE DEF Q
<1>4. \A n \in Nat : n \in Q
  BY <1>2, <1>3, NaturalsInduct
<1> QED
  BY <1>1, <1>4 DEF Q

\* No step leaves W.
StaysIn(step, S, W) == \A x \in S, w \in W : step[<<x, w>>] \in W

IsFold(f, S, pick, base, step) ==
  \A T \in SUBSET S : f[T] = IF T = {} THEN base ELSE step[<<pick[T], f[T \ {pick[T]}]>>]

\* A set of values that every step of a fold stays in is where the fold has its
\* values, and the fold has one for each subset.
LEMMA FoldExists ==
  ASSUME NEW S, IsFiniteSet(S), NEW pick, Picks(pick, S),
         NEW W, NEW base \in W, NEW step, StaysIn(step, S, W)
  PROVE  \E f \in [SUBSET S -> W] : IsFold(f, S, pick, base, step)
<1> USE DEF Picks, StaysIn, IsFold
<1> DEFINE card == [T \in SUBSET S |-> Cardinality(T)]
           Small(n) == {T \in SUBSET S : card[T] <= n}
           Folds(f, D) == \A T \in D : f[T] = IF T = {} THEN base
                                              ELSE step[<<pick[T], f[T \ {pick[T]}]>>]
           P == {n \in Nat : \E f \in [Small(n) -> W] : Folds(f, Small(n))}
<1>1. \A T \in SUBSET S : IsFiniteSet(T) /\ Cardinality(T) \in Nat /\ (Cardinality(T) = 0 <=> T = {})
  BY FS_Subset, FS_CardinalityType, FS_EmptySet
<1>2. \A T \in SUBSET S : card[T] \in Nat /\ (card[T] = 0 <=> T = {})
  BY <1>1
<1>3. ASSUME NEW T \in SUBSET S, T # {}
      PROVE  pick[T] \in S /\ T \ {pick[T]} \in SUBSET S /\ card[T \ {pick[T]}] = card[T] - 1
  <2>1. pick[T] \in T
    BY <1>3
  <2> QED
    BY <1>1, <1>3, <2>1, FS_RemoveElement
<1>4. card[S] \in Nat /\ \A T \in SUBSET S : card[T] <= card[S]
  <2>1. \A T \in SUBSET S : Cardinality(T) <= Cardinality(S)
    BY FS_Subset
  <2> QED
    BY <1>2, <2>1
<1> HIDE DEF card
<1>5. 0 \in P
  <2> DEFINE f == [T \in Small(0) |-> base]
  <2>1. \A T \in Small(0) : T = {}
    BY <1>2
  <2>2. f \in [Small(0) -> W] /\ Folds(f, Small(0))
    BY <2>1
  <2> HIDE DEF f, Small, Folds
  <2> QED
    BY <2>2
<1>6. ASSUME NEW n \in Nat, n \in P PROVE n + 1 \in P
  <2> PICK f \in [Small(n) -> W] : Folds(f, Small(n))
    BY <1>6
  <2> DEFINE g == [T \in Small(n + 1) |-> IF T \in Small(n) THEN f[T]
                                          ELSE step[<<pick[T], f[T \ {pick[T]}]>>]]
  <2>1. \A T \in Small(n) : T \in Small(n + 1)
    BY <1>2
  <2>2. ASSUME NEW T \in Small(n + 1), T # {}
        PROVE  pick[T] \in S /\ T \ {pick[T]} \in Small(n) /\ T \ {pick[T]} \in Small(n + 1)
    <3>1. T \in SUBSET S /\ card[T] <= n + 1 /\ card[T] \in Nat
      BY <1>2
    <3>2. pick[T] \in S /\ T \ {pick[T]} \in SUBSET S /\ card[T \ {pick[T]}] = card[T] - 1
      BY <1>3, <2>2, <3>1
    <3>3. card[T \ {pick[T]}] <= n
      BY <3>1, <3>2
    <3>4. T \ {pick[T]} \in Small(n)
      BY <3>2, <3>3
    <3> QED
      BY <2>1, <3>2, <3>4
  <2>3. \A T \in Small(n + 1) : T \notin Small(n) => T # {}
    BY <1>2
  <2> HIDE DEF Small
  <2>4. g \in [Small(n + 1) -> W]
    <3> SUFFICES ASSUME NEW T \in Small(n + 1)
                 PROVE  (IF T \in Small(n) THEN f[T] ELSE step[<<pick[T], f[T \ {pick[T]}]>>]) \in W
      OBVIOUS
    <3>1. CASE T \in Small(n)
      BY <3>1
    <3>2. CASE T \notin Small(n)
      BY <2>2, <2>3, <3>2
    <3> QED
      BY <3>1, <3>2
  <2>5. Folds(g, Small(n + 1))
    <3> SUFFICES ASSUME NEW T \in Small(n + 1)
                 PROVE  g[T] = IF T = {} THEN base ELSE step[<<pick[T], g[T \ {pick[T]}]>>]
      OBVIOUS
    <3>1. T # {} => g[T \ {pick[T]}] = f[T \ {pick[T]}]
      BY <2>2
    <3>2. CASE T \in Small(n)
      <4>1. f[T] = IF T = {} THEN base ELSE step[<<pick[T], f[T \ {pick[T]}]>>]
        BY <3>2
      <4> QED
        BY <3>1, <3>2, <4>1
    <3>3. CASE T \notin Small(n)
      BY <2>3, <3>1, <3>3
    <3> QED
      BY <3>2, <3>3
  <2> HIDE DEF g, Folds
  <2>6. \E h \in [Small(n + 1) -> W] : Folds(h, Small(n + 1))
    BY <2>4, <2>5
  <2>7. n + 1 \in Nat
    OBVIOUS
  <2> QED
    BY <2>6, <2>7
<1>7. card[S] \in P
  <2> HIDE DEF P
  <2> QED
    BY <1>5, <1>6, <1>4, NaturalsInduct
<1>8. Small(card[S]) = SUBSET S
  BY <1>4
<1> QED
  BY <1>7, <1>8

\* A fold over 1..n takes the largest element first.
FoldsRange(f, n, base, step) ==
  \A T \in SUBSET (1..n) :
    f[T] = IF T = {} THEN base ELSE step[<<Max(T), f[T \ {Max(T)}]>>]

\* There is such a fold.
LEMMA FoldOverRange ==
  ASSUME NEW n \in Nat, NEW W, NEW base \in W, NEW step, StaysIn(step, 1..n, W)
  PROVE  \E f \in [SUBSET (1..n) -> W] : FoldsRange(f, n, base, step)
<1> DEFINE U == 1..n
           pick == [T \in SUBSET U |-> Max(T)]
<1>1. \A T \in SUBSET U : pick[T] = Max(T) /\ (T # {} => Max(T) \in T)
  BY MaxFacts
<1>2. IsFiniteSet(U) /\ StaysIn(step, U, W)
  BY FS_Interval
<1> HIDE DEF pick, U
<1>3. Picks(pick, U)
  BY <1>1 DEF Picks
<1>4. \E f \in [SUBSET U -> W] : IsFold(f, U, pick, base, step)
  BY <1>2, <1>3, FoldExists, Zenon
<1>5. ASSUME NEW f, IsFold(f, U, pick, base, step), NEW T \in SUBSET U
      PROVE  f[T] = IF T = {} THEN base ELSE step[<<Max(T), f[T \ {Max(T)}]>>]
  BY <1>1, <1>5 DEF IsFold
<1> QED
  BY <1>4, <1>5 DEF U, FoldsRange

\* The numbers up to k, as a fold over them takes them.
LEMMA RangeFacts ==
  ASSUME NEW n \in Nat
  PROVE  /\ 1..0 = {}
         /\ \A k \in 1..n : /\ 1..k \in SUBSET (1..n) /\ 1..k # {}
                            /\ Max(1..k) = k /\ (1..k) \ {k} = 1..(k - 1)
<1>1. ASSUME NEW k \in 1..n PROVE 1..k \in SUBSET (1..n) /\ 1..k # {} /\ k \in 1..k
  <2>1. k \in 1..k /\ \A x \in 1..k : x \in 1..n
    OBVIOUS
  <2> QED
    BY <2>1
<1>2. ASSUME NEW k \in 1..n PROVE Max(1..k) = k
  <2>1. Max(1..k) \in 1..k /\ k <= Max(1..k)
    BY <1>1, MaxFacts
  <2> QED
    BY <2>1
<1>3. 1..0 = {} /\ \A k \in 1..n : (1..k) \ {k} = 1..(k - 1)
  OBVIOUS
<1> QED
  BY <1>1, <1>2, <1>3

\* A fold that starts from base, and puts what v says of each element of 1..n
\* that is kept at the end.
KeptFold(g, n, K, v, base) ==
  g = [T \in SUBSET (1..n) |-> IF T = {} THEN base
                               ELSE IF Max(T) \in K THEN Append(g[T \ {Max(T)}], v[Max(T)])
                               ELSE g[T \ {Max(T)}]]

\* There is such a fold.
LEMMA KeptExists ==
  ASSUME NEW n \in Nat, NEW K, NEW S, NEW v \in [1..n -> S], NEW base \in Seq(S)
  PROVE  \E g : KeptFold(g, n, K, v, base)
<1> DEFINE U == 1..n
           pick == [T \in SUBSET U |-> Max(T)]
           step == [xw \in U \X Seq(S) |-> IF xw[1] \in K THEN Append(xw[2], v[xw[1]]) ELSE xw[2]]
<1>1. \A T \in SUBSET U : T # {} => pick[T] = Max(T) /\ Max(T) \in T /\ Max(T) \in U
  BY MaxFacts
<1>2. \A x \in U, w \in Seq(S) :
        /\ step[<<x, w>>] = IF x \in K THEN Append(w, v[x]) ELSE w
        /\ step[<<x, w>>] \in Seq(S)
  OBVIOUS
<1>3. IsFiniteSet(U)
  BY FS_Interval
<1> HIDE DEF pick, step
<1>4. PICK f \in [SUBSET U -> Seq(S)] :
        \A T \in SUBSET U : f[T] = IF T = {} THEN base ELSE step[<<pick[T], f[T \ {pick[T]}]>>]
  <2> HIDE DEF U
  <2>1. Picks(pick, U) /\ StaysIn(step, U, Seq(S))
    BY <1>1, <1>2 DEF Picks, StaysIn
  <2>2. \E f \in [SUBSET U -> Seq(S)] : IsFold(f, U, pick, base, step)
    BY <1>3, <2>1, FoldExists, Zenon
  <2> QED
    BY <2>2 DEF IsFold
<1>5. KeptFold(f, n, K, v, base)
  <2>1. ASSUME NEW T \in SUBSET U, T # {}
        PROVE  f[T] = IF Max(T) \in K THEN Append(f[T \ {Max(T)}], v[Max(T)])
                      ELSE f[T \ {Max(T)}]
    <3>1. Max(T) \in U /\ f[T \ {Max(T)}] \in Seq(S) /\ pick[T] = Max(T)
      BY <1>1, <2>1
    <3>2. f[T] = step[<<Max(T), f[T \ {Max(T)}]>>]
      BY <1>4, <2>1, <3>1
    <3> QED
      BY <1>2, <3>1, <3>2
  <2>2. f[{}] = base
    BY <1>4
  <2> QED
    BY <2>1, <2>2 DEF KeptFold
<1> QED
  BY <1>5

\* What such a fold has after each element is what r says.
Keeps(r, g, n, K, v, base, S) ==
  /\ r \in [0..n -> Seq(S)]
  /\ r[0] = base
  /\ g[1..n] = r[n]
  /\ \A k \in 1..n : r[k] = IF k \in K THEN Append(r[k - 1], v[k]) ELSE r[k - 1]

\* Such a fold goes step by step.
LEMMA KeptSteps ==
  ASSUME NEW n \in Nat, NEW K, NEW S, NEW v \in [1..n -> S], NEW base \in Seq(S),
         NEW g, KeptFold(g, n, K, v, base)
  PROVE  \E r : Keeps(r, g, n, K, v, base, S)
<1>1. g[{}] = base
  BY DEF KeptFold
<1>2. ASSUME NEW k \in 1..n
      PROVE  g[1..k] = IF k \in K THEN Append(g[1..(k - 1)], v[k]) ELSE g[1..(k - 1)]
  <2>1. 1..k \in SUBSET (1..n) /\ 1..k # {} /\ k \in 1..k
    <3>1. k \in 1..k /\ \A x \in 1..k : x \in 1..n
      OBVIOUS
    <3> QED
      BY <3>1
  <2>2. Max(1..k) = k
    <3>1. Max(1..k) \in 1..k /\ k <= Max(1..k)
      BY <2>1, MaxFacts
    <3> QED
      BY <3>1
  <2>3. (1..k) \ {k} = 1..(k - 1)
    OBVIOUS
  <2> QED
    BY <2>1, <2>2, <2>3 DEF KeptFold
<1>3. 1..0 = {} /\ \A k \in Nat : (k + 1) - 1 = k
  OBVIOUS
<1> DEFINE P == {k \in Nat : k <= n => g[1..k] \in Seq(S)}
<1>4. \A k \in Nat : k \in P
  <2>1. 0 \in P
    BY <1>1, <1>3
  <2>2. ASSUME NEW k \in Nat, k \in P PROVE k + 1 \in P
    <3> SUFFICES ASSUME k + 1 <= n PROVE g[1..(k + 1)] \in Seq(S)
      OBVIOUS
    <3>1. k + 1 \in 1..n /\ g[1..k] \in Seq(S) /\ v[k + 1] \in S
      BY <2>2
    <3>2. g[1..(k + 1)] = IF k + 1 \in K THEN Append(g[1..k], v[k + 1]) ELSE g[1..k]
      BY <1>2, <1>3, <3>1
    <3> QED
      BY <3>1, <3>2
  <2> HIDE DEF P
  <2> QED
    BY <2>1, <2>2, NaturalsInduct
<1> DEFINE r == [k \in 0..n |-> g[1..k]]
<1>5. r \in [0..n -> Seq(S)]
  BY <1>4
<1>6. r[0] = base /\ r[n] = g[1..n]
  BY <1>1, <1>3
<1>7. ASSUME NEW k \in 1..n PROVE r[k] = IF k \in K THEN Append(r[k - 1], v[k]) ELSE r[k - 1]
  <2>1. k \in 0..n /\ k - 1 \in 0..n
    OBVIOUS
  <2> QED
    BY <1>2, <2>1
<1> HIDE DEF r
<1> QED
  BY <1>5, <1>6, <1>7 DEF Keeps

----------------------------------------------------------------------------
(* What is kept of a sequence, step by step. *)

\* w has what v says of the elements of 1..n that are in K, in order.
Kept(w, n, K, v, S) ==
  \E r \in [0..n -> Seq(S)] :
    /\ r[0] = <<>>
    /\ r[n] = w
    /\ \A k \in 1..n : r[k] = IF k \in K THEN Append(r[k - 1], v[k]) ELSE r[k - 1]

\* A function of the numbers up to n that is defined step by step.
StepsOf(f, n, K, v) ==
  f = [k \in 0..n |-> IF k = 0 THEN <<>>
                      ELSE IF k \in K THEN Append(f[k - 1], v[k]) ELSE f[k - 1]]

\* There is such a function.
LEMMA StepsExist ==
  ASSUME NEW n \in Nat, NEW K, NEW S, NEW v \in [1..n -> S]
  PROVE  \E f : StepsOf(f, n, K, v)
<1> DEFINE none == <<>>
<1>1. none \in Seq(S) /\ none = <<>>
  OBVIOUS
<1> HIDE DEF none
<1>2. PICK g : KeptFold(g, n, K, v, none)
  BY <1>1, KeptExists
<1>3. PICK r : Keeps(r, g, n, K, v, none, S)
  BY <1>1, <1>2, KeptSteps
<1>4. r \in [0..n -> Seq(S)] /\ r[0] = <<>>
  BY <1>1, <1>3 DEF Keeps
<1>5. ASSUME NEW k \in 0..n
      PROVE  r[k] = IF k = 0 THEN <<>>
                    ELSE IF k \in K THEN Append(r[k - 1], v[k]) ELSE r[k - 1]
  <2>1. CASE k = 0
    BY <1>4, <2>1
  <2>2. CASE k # 0
    <3>1. k \in 1..n
      BY <2>2
    <3> QED
      BY <1>3, <2>2, <3>1 DEF Keeps
  <2> QED
    BY <2>1, <2>2
<1>6. StepsOf(r, n, K, v)
  BY <1>4, <1>5 DEF StepsOf
<1> QED
  BY <1>6

\* It keeps what it says.
LEMMA StepsKeep ==
  ASSUME NEW n \in Nat, NEW K, NEW S, NEW v \in [1..n -> S], NEW f, StepsOf(f, n, K, v)
  PROVE  Kept(f[n], n, K, v, S)
<1>0. /\ \E h : f = [k \in 0..n |-> h[k]]
      /\ \A k \in 0..n : f[k] = IF k = 0 THEN <<>>
                                ELSE IF k \in K THEN Append(f[k - 1], v[k]) ELSE f[k - 1]
  <2> DEFINE h == [k \in 0..n |-> IF k = 0 THEN <<>>
                                  ELSE IF k \in K THEN Append(f[k - 1], v[k]) ELSE f[k - 1]]
  <2>1. f = h
    BY DEF StepsOf
  <2>2. h = [k \in 0..n |-> h[k]]
    OBVIOUS
  <2>3. \A k \in 0..n : h[k] = IF k = 0 THEN <<>>
                                ELSE IF k \in K THEN Append(f[k - 1], v[k]) ELSE f[k - 1]
    OBVIOUS
  <2> HIDE DEF h
  <2> QED
    BY <2>1, <2>2, <2>3
<1>1. /\ f = [k \in 0..n |-> f[k]] /\ f[0] = <<>>
      /\ \A k \in 1..n : f[k] = IF k \in K THEN Append(f[k - 1], v[k]) ELSE f[k - 1]
  <2>1. f = [k \in 0..n |-> f[k]]
    BY <1>0
  <2>2. \A k \in 1..n : k \in 0..n /\ k # 0
    OBVIOUS
  <2>3. 0 \in 0..n
    OBVIOUS
  <2> QED
    BY <1>0, <2>1, <2>2, <2>3
<1> DEFINE P == {k \in Nat : k <= n => f[k] \in Seq(S)}
<1>2. \A k \in Nat : k \in P
  <2>1. 0 \in P
    BY <1>1
  <2>2. ASSUME NEW k \in Nat, k \in P PROVE k + 1 \in P
    <3> SUFFICES ASSUME k + 1 <= n PROVE f[k + 1] \in Seq(S)
      OBVIOUS
    <3>1. k + 1 \in 1..n /\ f[k] \in Seq(S) /\ v[k + 1] \in S /\ (k + 1) - 1 = k
      BY <2>2
    <3> QED
      BY <1>1, <3>1
  <2> HIDE DEF P
  <2> QED
    BY <2>1, <2>2, NaturalsInduct
<1>3. f \in [0..n -> Seq(S)]
  BY <1>1, <1>2
<1> QED
  BY <1>1, <1>3 DEF Kept

\* What is kept depends on what is kept of each element only.
LEMMA KeptSame ==
  ASSUME NEW n \in Nat, NEW K, NEW S, NEW v, NEW L, NEW x, NEW w, NEW u,
         Kept(w, n, K, v, S), Kept(u, n, L, x, S),
         \A k \in 1..n : (k \in K <=> k \in L) /\ (k \in K => v[k] = x[k])
  PROVE  w = u
<1>1. PICK r \in [0..n -> Seq(S)] :
        /\ r[0] = <<>> /\ r[n] = w
        /\ \A k \in 1..n : r[k] = IF k \in K THEN Append(r[k - 1], v[k]) ELSE r[k - 1]
  BY DEF Kept
<1>2. PICK s \in [0..n -> Seq(S)] :
        /\ s[0] = <<>> /\ s[n] = u
        /\ \A k \in 1..n : s[k] = IF k \in L THEN Append(s[k - 1], x[k]) ELSE s[k - 1]
  BY DEF Kept
<1> DEFINE P == {k \in Nat : k <= n => r[k] = s[k]}
<1>3. \A k \in Nat : k \in P
  <2>1. 0 \in P
    BY <1>1, <1>2
  <2>2. ASSUME NEW k \in Nat, k \in P PROVE k + 1 \in P
    <3> SUFFICES ASSUME k + 1 <= n PROVE r[k + 1] = s[k + 1]
      OBVIOUS
    <3>1. k + 1 \in 1..n /\ r[k] = s[k] /\ (k + 1) - 1 = k
      BY <2>2
    <3> QED
      BY <1>1, <1>2, <3>1
  <2> HIDE DEF P
  <2> QED
    BY <2>1, <2>2, NaturalsInduct
<1> QED
  BY <1>1, <1>2, <1>3

\* What one more element adds at the end.
LEMMA KeptLast ==
  ASSUME NEW n \in Nat, NEW K, NEW S, NEW v, NEW w, NEW L, NEW x, NEW u,
         Kept(w, n + 1, K, v, S), Kept(u, n, L, x, S),
         \A k \in 1..n : (k \in K <=> k \in L) /\ (k \in K => v[k] = x[k])
  PROVE  w = IF n + 1 \in K THEN Append(u, v[n + 1]) ELSE u
<1>1. PICK r \in [0..(n + 1) -> Seq(S)] :
        /\ r[0] = <<>> /\ r[n + 1] = w
        /\ \A k \in 1..(n + 1) : r[k] = IF k \in K THEN Append(r[k - 1], v[k]) ELSE r[k - 1]
  BY DEF Kept
<1>2. Kept(r[n], n, K, v, S)
  <2> DEFINE s == [k \in 0..n |-> r[k]]
  <2>1. \A k \in 0..n : k \in 0..(n + 1)
    OBVIOUS
  <2>2. s \in [0..n -> Seq(S)] /\ s[0] = <<>> /\ s[n] = r[n]
    BY <1>1, <2>1
  <2>3. ASSUME NEW k \in 1..n
        PROVE  s[k] = IF k \in K THEN Append(s[k - 1], v[k]) ELSE s[k - 1]
    <3>1. k \in 0..n /\ k - 1 \in 0..n /\ k \in 1..(n + 1)
      OBVIOUS
    <3> QED
      BY <1>1, <3>1
  <2> HIDE DEF s
  <2> QED
    BY <2>2, <2>3 DEF Kept
<1>3. r[n] = u
  BY <1>2, KeptSame
<1>4. n + 1 \in 1..(n + 1) /\ (n + 1) - 1 = n
  OBVIOUS
<1> QED
  BY <1>1, <1>3, <1>4

\* w is u with the first element in front, if that is kept.
StartsWith(w, K, v, u) ==
  /\ 1 \in K => w # <<>> /\ Head(w) = v[1] /\ Tail(w) = u
  /\ 1 \notin K => w = u

\* What one more element adds in front.
LEMMA KeptFirst ==
  ASSUME NEW n \in Nat, NEW K, NEW S, NEW v, NEW w, NEW L, NEW x, NEW u,
         Kept(w, n + 1, K, v, S), Kept(u, n, L, x, S),
         \A k \in 1..n : /\ k \in L <=> k + 1 \in K
                         /\ k \in L => x[k] = v[k + 1] /\ x[k] \in S,
         1 \in K => v[1] \in S
  PROVE  StartsWith(w, K, v, u)
<1>1. PICK r \in [0..(n + 1) -> Seq(S)] :
        /\ r[0] = <<>> /\ r[n + 1] = w
        /\ \A k \in 1..(n + 1) : r[k] = IF k \in K THEN Append(r[k - 1], v[k]) ELSE r[k - 1]
  BY DEF Kept
<1>2. PICK s \in [0..n -> Seq(S)] :
        /\ s[0] = <<>> /\ s[n] = u
        /\ \A k \in 1..n : s[k] = IF k \in L THEN Append(s[k - 1], x[k]) ELSE s[k - 1]
  BY DEF Kept
<1>3. r[1] = IF 1 \in K THEN Append(<<>>, v[1]) ELSE <<>>
  <2>1. 1 \in 1..(n + 1) /\ 1 - 1 = 0
    OBVIOUS
  <2> QED
    BY <1>1, <2>1
<1> DEFINE Then(k) == /\ 1 \in K => r[k + 1] # <<>> /\ Head(r[k + 1]) = v[1] /\ Tail(r[k + 1]) = s[k]
                      /\ 1 \notin K => r[k + 1] = s[k]
           P == {k \in Nat : k <= n => Then(k)}
<1>4. Then(0)
  <2>1. s[0] = <<>> /\ 0 + 1 = 1
    BY <1>2
  <2>2. ASSUME 1 \in K PROVE r[1] # <<>> /\ Head(r[1]) = v[1] /\ Tail(r[1]) = <<>>
    <3>1. v[1] \in S /\ r[1] = Append(<<>>, v[1])
      BY <1>3, <2>2
    <3> QED
      BY <3>1
  <2> QED
    BY <1>3, <2>1, <2>2
<1>5. ASSUME NEW k \in Nat, k + 1 <= n, Then(k) PROVE Then(k + 1)
  <2>1. /\ k + 1 \in 1..n /\ (k + 1) + 1 \in 1..(n + 1) /\ k \in 0..n
        /\ k + 1 \in 0..(n + 1)
        /\ ((k + 1) + 1) - 1 = k + 1 /\ (k + 1) - 1 = k
    BY <1>5
  <2>2. s[k] \in Seq(S) /\ r[k + 1] \in Seq(S)
    BY <1>1, <1>2, <2>1
  <2>3. CASE k + 1 \in L
    <3>1. /\ s[k + 1] = Append(s[k], x[k + 1]) /\ x[k + 1] \in S
          /\ r[(k + 1) + 1] = Append(r[k + 1], x[k + 1])
      BY <1>1, <1>2, <2>1, <2>3
    <3>2. CASE 1 \in K
      <4>1. r[k + 1] # <<>> /\ Head(r[k + 1]) = v[1] /\ Tail(r[k + 1]) = s[k]
        BY <1>5, <3>2
      <4>2. /\ Head(r[(k + 1) + 1]) = Head(r[k + 1])
            /\ Tail(r[(k + 1) + 1]) = Append(Tail(r[k + 1]), x[k + 1])
        BY <2>2, <3>1, <4>1, HeadTailAppend
      <4>3. r[(k + 1) + 1] # <<>>
        <5>1. Len(r[(k + 1) + 1]) = Len(r[k + 1]) + 1 /\ Len(r[k + 1]) \in Nat
          BY <2>2, <3>1
        <5>2. Len(<<>>) = 0
          OBVIOUS
        <5>3. Len(r[(k + 1) + 1]) # Len(<<>>)
          BY <5>1, <5>2
        <5> QED
          BY <5>3, Zenon
      <4> QED
        BY <3>1, <3>2, <4>1, <4>2, <4>3
    <3>3. CASE 1 \notin K
      BY <1>5, <3>1, <3>3
    <3> QED
      BY <3>2, <3>3
  <2>4. CASE k + 1 \notin L
    <3>1. s[k + 1] = s[k] /\ r[(k + 1) + 1] = r[k + 1]
      BY <1>1, <1>2, <2>1, <2>4
    <3> QED
      BY <1>5, <3>1
  <2> QED
    BY <2>3, <2>4
<1> HIDE DEF Then
<1>6. \A k \in Nat : k \in P
  <2>1. 0 \in P
    BY <1>4
  <2>2. ASSUME NEW k \in Nat, k \in P PROVE k + 1 \in P
    BY <1>5, <2>2
  <2> HIDE DEF P
  <2> QED
    BY <2>1, <2>2, NaturalsInduct
<1>7. Then(n)
  BY <1>6
<1> QED
  BY <1>1, <1>2, <1>7 DEF Then, StartsWith

\* f says where in 1..n each element of w was kept from.
KeptFrom(f, w, n, K, v) ==
  /\ f \in [1..Len(w) -> K \cap (1..n)]
  /\ \A i \in 1..Len(w) : w[i] = v[f[i]]
  /\ \A i, j \in 1..Len(w) : i < j => f[i] < f[j]
  /\ \A k \in K \cap (1..n) : \E i \in 1..Len(w) : f[i] = k

\* What is kept is in order, each once.
LEMMA KeptInPlace ==
  ASSUME NEW n \in Nat, NEW K, NEW S, NEW v, NEW w, Kept(w, n, K, v, S),
         \A k \in K \cap (1..n) : v[k] \in S
  PROVE  w \in Seq(S) /\ \E f : KeptFrom(f, w, n, K, v)
<1> PICK r \in [0..n -> Seq(S)] :
      /\ r[0] = <<>> /\ r[n] = w
      /\ \A k \in 1..n : r[k] = IF k \in K THEN Append(r[k - 1], v[k]) ELSE r[k - 1]
  BY DEF Kept
<1>1. \E f : KeptFrom(f, r[0], 0, K, v)
  <2> DEFINE f == [i \in 1..0 |-> 0]
  <2>1. Len(r[0]) = 0 /\ 1..0 = {}
    OBVIOUS
  <2>2. KeptFrom(f, r[0], 0, K, v)
    BY <2>1 DEF KeptFrom
  <2> QED
    BY <2>2
<1>2. ASSUME NEW k \in Nat, k + 1 <= n, NEW f, KeptFrom(f, r[k], k, K, v)
      PROVE  \E h : KeptFrom(h, r[k + 1], k + 1, K, v)
  <2>1. k + 1 \in 1..n /\ (k + 1) - 1 = k /\ k \in 0..n
    BY <1>2
  <2>2. r[k] \in Seq(S) /\ Len(r[k]) \in Nat
    BY <2>1
  <2> DEFINE m == Len(r[k])
  <2>3. CASE k + 1 \notin K
    <3>1. r[k + 1] = r[k]
      BY <2>1, <2>3
    <3>2. K \cap (1..(k + 1)) = K \cap (1..k)
      BY <2>3, OneMoreInRange
    <3>3. KeptFrom(f, r[k], k + 1, K, v)
      BY <1>2, <3>2, Zenon DEF KeptFrom
    <3> QED
      BY <3>1, <3>3
  <2>4. CASE k + 1 \in K
    <3> DEFINE h == [i \in 1..(m + 1) |-> IF i <= m THEN f[i] ELSE k + 1]
    <3>1. v[k + 1] \in S /\ r[k + 1] = Append(r[k], v[k + 1])
      BY <2>1, <2>4
    <3>2. /\ Len(r[k + 1]) = m + 1 /\ r[k + 1][m + 1] = v[k + 1]
          /\ \A i \in 1..m : r[k + 1][i] = r[k][i]
      BY <2>2, <3>1, AppendProperties
    <3>3. K \cap (1..(k + 1)) = (K \cap (1..k)) \cup {k + 1}
      BY <2>4, OneMoreInRange
    <3>4. /\ h[m + 1] = k + 1 /\ \A i \in 1..m : h[i] = f[i]
          /\ \A i \in 1..(m + 1) : i \in 1..m \/ i = m + 1
          /\ \A i \in 1..m : f[i] \in K \cap (1..k)
      <4>1. \A i \in 1..m : f[i] \in K \cap (1..k)
        BY <1>2 DEF KeptFrom
      <4>2. \A i \in 1..(m + 1) : i \in 1..m \/ i = m + 1
        <5> HIDE DEF m
        <5>1. 1..(m + 1) = (1..m) \cup {m + 1}
          BY <2>2, OneMoreInRange DEF m
        <5> QED
          BY <5>1
      <4>3. m + 1 \in 1..(m + 1) /\ ~(m + 1 <= m)
        BY <2>2
      <4>4. \A i \in 1..m : i \in 1..(m + 1) /\ i <= m
        BY <2>2
      <4> HIDE DEF m
      <4> QED
        BY <4>1, <4>2, <4>3, <4>4
    <3> DEFINE z == r[k + 1]
    <3>9. h \in [1..(m + 1) -> K \cap (1..(k + 1))]
      <4> SUFFICES ASSUME NEW i \in 1..(m + 1)
                   PROVE  (IF i <= m THEN f[i] ELSE k + 1) \in K \cap (1..(k + 1))
        OBVIOUS
      <4>1. CASE i \in 1..m
        BY <3>3, <3>4, <4>1
      <4>2. CASE i = m + 1
        BY <2>2, <3>3, <4>2
      <4> QED
        BY <3>4, <4>1, <4>2
    <3> HIDE DEF h, m, z
    <3>5. \A i \in 1..(m + 1) : z[i] = v[h[i]]
      BY <1>2, <3>2, <3>4 DEF KeptFrom, z, m
    <3>6. \A i, j \in 1..(m + 1) : i < j => h[i] < h[j]
      <4> SUFFICES ASSUME NEW i \in 1..(m + 1), NEW j \in 1..(m + 1), i < j PROVE h[i] < h[j]
        OBVIOUS
      <4>1. i \in 1..m
        BY <2>2, <3>4 DEF m
      <4>2. CASE j \in 1..m
        BY <1>2, <3>4, <4>1, <4>2 DEF KeptFrom, m
      <4>3. CASE j = m + 1
        <5>1. f[i] \in 1..k /\ h[i] = f[i] /\ h[j] = k + 1
          BY <3>4, <4>1, <4>3
        <5> QED
          BY <5>1
      <4> QED
        BY <3>4, <4>2, <4>3
    <3>7. \A x \in K \cap (1..(k + 1)) : \E i \in 1..(m + 1) : h[i] = x
      <4> SUFFICES ASSUME NEW x \in K \cap (1..(k + 1)) PROVE \E i \in 1..(m + 1) : h[i] = x
        OBVIOUS
      <4>1. CASE x = k + 1
        <5>1. m + 1 \in 1..(m + 1)
          BY <2>2 DEF m
        <5> QED
          BY <3>4, <4>1, <5>1
      <4>2. CASE x \in K \cap (1..k)
        <5>1. PICK i \in 1..m : f[i] = x
          BY <1>2, <4>2 DEF KeptFrom, m
        <5>2. i \in 1..(m + 1) /\ h[i] = x
          BY <2>2, <3>4, <5>1 DEF m
        <5> QED
          BY <5>2
      <4> QED
        BY <3>3, <4>1, <4>2
    <3>8. KeptFrom(h, z, k + 1, K, v)
      <4>1. Len(z) = m + 1
        BY <3>2 DEF z
      <4> QED
        BY <3>5, <3>6, <3>7, <3>9, <4>1 DEF KeptFrom
    <3> QED
      BY <3>8 DEF z
  <2> QED
    BY <2>3, <2>4
<1> DEFINE Q(k) == \E f : KeptFrom(f, r[k], k, K, v)
           P == {k \in Nat : k <= n => Q(k)}
<1>3. Q(0) /\ \A k \in Nat : k + 1 <= n /\ Q(k) => Q(k + 1)
  BY <1>1, <1>2, Zenon
<1> HIDE DEF Q
<1>4. \A k \in Nat : k \in P
  <2>1. 0 \in P
    BY <1>3
  <2>2. ASSUME NEW k \in Nat, k \in P PROVE k + 1 \in P
    BY <1>3, <2>2
  <2> HIDE DEF P
  <2> QED
    BY <2>1, <2>2, NaturalsInduct
<1>5. Q(n) /\ r[n] \in Seq(S)
  <2>1. n \in 0..n /\ n \in P
    BY <1>4
  <2> QED
    BY <2>1
<1> QED
  BY <1>5 DEF Q
====
