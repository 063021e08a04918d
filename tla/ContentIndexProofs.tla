--------------------------- MODULE ContentIndexProofs ---------------------------
(***************************************************************************)
(* What the arithmetic of content indexes computes by recursion: sequences *)
(* of finite length, whatever the version and the store.  The recursions   *)
(* are all of one form, which LinearRecursion and RankInduction are about. *)
(***************************************************************************)
EXTENDS ContentIndex, FiniteSetTheorems, WellFoundedInduction, TLAPS

--------------------------------------------------------------------------------
(* Induction and recursion *)

(* A set of numbers has a least one.                                       *)
LEMMA LeastNumber ==
    ASSUME NEW S \in SUBSET Nat, S # {}
    PROVE  \E m \in S : \A k \in S : m <= k
<1>1. \A k, m \in Nat : k < m => <<k, m>> \in OpToRel(<, Nat)
  BY DEF OpToRel
<1>2. PICK m \in S : \A k \in S : ~(<<k, m>> \in OpToRel(<, Nat))
  BY NatLessThanWellFounded, WFMin
<1>3. \A k \in S : ~(k < m)
  BY <1>1, <1>2
<1> QED
  BY <1>3

(* A set that has 0, and with a number the next one, has all numbers.      *)
LEMMA NumberInduction ==
    ASSUME NEW Q, 0 \in Q, \A n \in Q : n + 1 \in Q
    PROVE  Nat \subseteq Q
<1> SUFFICES ASSUME ~(Nat \subseteq Q) PROVE FALSE
  OBVIOUS
<1>1. PICK m \in Nat \ Q : \A k \in Nat \ Q : m <= k
  BY LeastNumber
<1>2. m # 0 /\ m - 1 \in Nat /\ (m - 1) + 1 = m
  BY <1>1
<1>3. m - 1 \in Q
  BY <1>1, <1>2
<1> QED
  BY <1>1, <1>2, <1>3

(* What holds of an element if it holds of all of a lower rank holds of    *)
(* all elements.                                                           *)
LEMMA RankInduction ==
    ASSUME NEW D, NEW rank \in [D -> Nat], NEW Q,
           \A x \in D : (\A y \in D : rank[y] < rank[x] => y \in Q) => x \in Q
    PROVE  D \subseteq Q
<1> SUFFICES ASSUME ~(D \subseteq Q) PROVE FALSE
  OBVIOUS
<1> DEFINE R == {rank[x] : x \in D \ Q}
<1>1. R \in SUBSET Nat /\ R # {}
  OBVIOUS
<1>2. PICK m \in R : \A k \in R : m <= k
  <2> HIDE DEF R
  <2> QED
    BY <1>1, LeastNumber
<1>3. PICK x \in D \ Q : rank[x] = m
  OBVIOUS
<1>4. ASSUME NEW y \in D, rank[y] < rank[x] PROVE y \in Q
  <2>1. y \notin Q => m <= rank[y]
    BY <1>2
  <2>2. rank[y] \in Nat /\ rank[x] \in Nat
    BY <1>3
  <2> QED
    BY <1>3, <1>4, <2>1, <2>2
<1> QED
  BY <1>3, <1>4

(* A function f is defined by its values on some elements, and by its value *)
(* for an element of a lower rank on the others.                           *)
IsRecursion(D, V, base, value, next, step, rank, n) ==
    /\ value \in [D -> V] /\ next \in [D \ base -> D] /\ step \in [D \ base -> [V -> V]]
    /\ rank \in [D -> Nat] /\ n \in Nat /\ \A x \in D : rank[x] < n
    /\ \A x \in D \ base : rank[next[x]] < rank[x]
Solves(f, D, base, value, next, step) ==
    \A x \in D : f[x] = IF x \in base THEN value[x] ELSE step[x][f[next[x]]]

(* There is a function that solves such a recursion.                       *)
LEMMA LinearRecursion ==
    ASSUME NEW D, NEW V, NEW base, NEW value, NEW next, NEW step, NEW rank, NEW n,
           IsRecursion(D, V, base, value, next, step, rank, n)
    PROVE  \E f \in [D -> V] : Solves(f, D, base, value, next, step)
<1>0. /\ value \in [D -> V] /\ next \in [D \ base -> D] /\ step \in [D \ base -> [V -> V]]
      /\ rank \in [D -> Nat] /\ n \in Nat /\ \A x \in D : rank[x] < n
      /\ \A x \in D \ base : rank[next[x]] < rank[x]
  BY DEF IsRecursion
<1> DEFINE Low(k) == {x \in D : rank[x] < k}
           Good(f, k) == \A x \in Low(k) :
                           f[x] = IF x \in base THEN value[x] ELSE step[x][f[next[x]]]
           Done == {k \in Nat : \E f \in [Low(k) -> V] : Good(f, k)}
<1>1. 0 \in Done
  <2> DEFINE f == [x \in {} |-> x]
  <2>1. Low(0) = {}
    BY <1>0
  <2>2. f \in [Low(0) -> V] /\ Good(f, 0)
    BY <2>1
  <2> QED
    BY <2>2
<1>2. ASSUME NEW k \in Done PROVE k + 1 \in Done
  <2>1. k \in Nat
    OBVIOUS
  <2>2. PICK f \in [Low(k) -> V] : Good(f, k)
    OBVIOUS
  <2> DEFINE g == [x \in Low(k + 1) |-> IF x \in base THEN value[x] ELSE step[x][f[next[x]]]]
  <2>3. ASSUME NEW x \in Low(k + 1) PROVE x \notin base => next[x] \in Low(k)
    BY <1>0, <2>1
  <2>4. g \in [Low(k + 1) -> V]
    <3> SUFFICES ASSUME NEW x \in Low(k + 1)
                 PROVE  (IF x \in base THEN value[x] ELSE step[x][f[next[x]]]) \in V
      OBVIOUS
    <3>1. x \in D /\ value[x] \in V /\ (x \notin base => step[x] \in [V -> V])
      BY <1>0
    <3>2. x \notin base => f[next[x]] \in V
      BY <2>3
    <3> QED
      BY <3>1, <3>2
  <2>5. \A x \in Low(k) : x \in Low(k + 1) /\ g[x] = f[x]
    BY <1>0, <2>1, <2>2
  <2>6. Good(g, k + 1)
    <3> SUFFICES ASSUME NEW x \in Low(k + 1)
                 PROVE  g[x] = IF x \in base THEN value[x] ELSE step[x][g[next[x]]]
      OBVIOUS
    <3>1. g[x] = IF x \in base THEN value[x] ELSE step[x][f[next[x]]]
      OBVIOUS
    <3> HIDE DEF g
    <3>2. x \notin base => g[next[x]] = f[next[x]]
      BY <2>3, <2>5
    <3> QED
      BY <3>1, <3>2
  <2> HIDE DEF g, Good, Low
  <2>7. \E h \in [Low(k + 1) -> V] : Good(h, k + 1)
    BY <2>4, <2>6
  <2> QED
    BY <2>1, <2>7
<1>3. n \in Done
  <2> HIDE DEF Done
  <2> QED
    BY <1>0, <1>1, <1>2, NumberInduction
<1>4. PICK f \in [Low(n) -> V] : Good(f, n)
  BY <1>3
<1>5. Low(n) = D
  BY <1>0
<1> QED
  BY <1>4, <1>5 DEF Solves

--------------------------------------------------------------------------------
(* Folds over a sequence *)

(* Some indexes are finitely many.                                         *)
LEMMA IndexesAreFinite ==
    ASSUME NEW n \in Nat, NEW S \in SUBSET (1..n)
    PROVE  IsFiniteSet(S) /\ Cardinality(S) \in Nat /\ Cardinality(S) <= n
<1> DEFINE I == 1..n
<1>1. IsFiniteSet(I) /\ Cardinality(I) = n
  BY FS_Interval
<1>2. S \in SUBSET I
  OBVIOUS
<1> HIDE DEF I
<1> QED
  BY <1>1, <1>2, FS_Subset, FS_CardinalityType

(* The last index of some of a sequence, and what is left without it.      *)
LEMMA LastIndex ==
    ASSUME NEW n \in Nat, NEW S \in SUBSET (1..n), S # {}
    PROVE  /\ Max(S) \in S /\ S \ {Max(S)} \in SUBSET (1..n)
           /\ Cardinality(S \ {Max(S)}) < Cardinality(S)
           /\ \A y \in S : y <= Max(S)
<1> DEFINE back == {n - x : x \in S}
<1>1. back \in SUBSET Nat /\ back # {}
  <2>1. \A x \in S : n - x \in Nat
    OBVIOUS
  <2> QED
    BY <2>1
<1>2. PICK m \in back : \A k \in back : m <= k
  <2> HIDE DEF back
  <2> QED
    BY <1>1, LeastNumber
<1>3. PICK x \in S : m = n - x
  BY <1>2
<1>4. \A y \in S : x >= y
  <2> TAKE y \in S
  <2>1. m <= n - y /\ x \in Nat /\ y \in Nat
    BY <1>2
  <2> QED
    BY <1>3, <2>1
<1>5. Max(S) \in S /\ \A y \in S : y <= Max(S)
  <2>1. \E z \in S : \A y \in S : z >= y
    BY <1>3, <1>4
  <2>2. Max(S) \in S /\ \A y \in S : Max(S) >= y
    BY <2>1 DEF Max
  <2> QED
    BY <2>2
<1>6. IsFiniteSet(S)
  BY IndexesAreFinite
<1>7. Cardinality(S \ {Max(S)}) = Cardinality(S) - 1 /\ Cardinality(S) \in Nat
  BY <1>5, <1>6, FS_RemoveElement, FS_CardinalityType
<1> DEFINE c == Cardinality(S)
           x1 == Max(S)
<1>8. c - 1 < c /\ x1 \in S
  BY <1>5, <1>7
<1> HIDE DEF c, x1
<1> QED
  BY <1>5, <1>7, <1>8 DEF c, x1

(* The function that folds n values, its steps given as functions.         *)
AreSteps(n, V, first, move) == n \in Nat /\ first \in V /\ move \in [1..n -> [V -> V]]
Folds(f, n, first, move) ==
    \A S \in SUBSET (1..n) :
        f[S] = IF S = {} THEN first ELSE move[Max(S)][f[S \ {Max(S)}]]

(* So there is one that folds n steps.                                     *)
LEMMA FoldExists ==
    ASSUME NEW n, NEW V, NEW first, NEW move, AreSteps(n, V, first, move)
    PROVE  \E f \in [SUBSET (1..n) -> V] : Folds(f, n, first, move)
<1>0. n \in Nat /\ first \in V /\ move \in [1..n -> [V -> V]]
  BY DEF AreSteps
<1> DEFINE D == SUBSET (1..n)
           base == {{}}
           value == [S \in D |-> first]
           next == [S \in D \ base |-> S \ {Max(S)}]
           step == [S \in D \ base |-> move[Max(S)]]
           rank == [S \in D |-> Cardinality(S)]
<1>1. ASSUME NEW S \in D
      PROVE  Cardinality(S) \in Nat /\ Cardinality(S) <= n
  BY <1>0, IndexesAreFinite
<1>2. ASSUME NEW S \in D \ base
      PROVE  /\ Max(S) \in 1..n /\ S \ {Max(S)} \in D
             /\ Cardinality(S \ {Max(S)}) < Cardinality(S)
  BY <1>0, LastIndex
<1>3. IsRecursion(D, V, base, value, next, step, rank, n + 1)
  <2>1. value \in [D -> V] /\ next \in [D \ base -> D] /\ rank \in [D -> Nat] /\ n + 1 \in Nat
    <3>1. value \in [D -> V]
      BY <1>0
    <3>2. next \in [D \ base -> D]
      <4>1. \A S \in D \ base : S \ {Max(S)} \in D
        BY <1>2
      <4> HIDE DEF D, base
      <4> QED
        BY <4>1
    <3>3. rank \in [D -> Nat]
      <4>1. \A S \in D : Cardinality(S) \in Nat
        BY <1>1
      <4> HIDE DEF D
      <4> QED
        BY <4>1
    <3> QED
      BY <1>0, <3>1, <3>2, <3>3
  <2>2. step \in [D \ base -> [V -> V]]
    <3>1. \A S \in D \ base : move[Max(S)] \in [V -> V]
      BY <1>0, <1>2
    <3> HIDE DEF D, base
    <3> QED
      BY <3>1
  <2>3. \A S \in D : rank[S] < n + 1
    BY <1>0, <1>1
  <2>4. \A S \in D \ base : rank[next[S]] < rank[S]
    <3> TAKE S \in D \ base
    <3>1. next[S] = S \ {Max(S)} /\ next[S] \in D
      BY <1>2
    <3>2. rank[next[S]] = Cardinality(S \ {Max(S)}) /\ rank[S] = Cardinality(S)
      BY <3>1
    <3> QED
      BY <1>2, <3>2
  <2> HIDE DEF D, base, value, next, step, rank
  <2> QED
    BY <2>1, <2>2, <2>3, <2>4 DEF IsRecursion
<1>4. PICK f \in [D -> V] : Solves(f, D, base, value, next, step)
  <2>1. n + 1 \in Nat
    BY <1>0
  <2> DEFINE m == n + 1
  <2> HIDE DEF D, base, value, next, step, rank, m
  <2> QED
    BY <1>3, LinearRecursion DEF m
<1>5. \A S \in D : f[S] = IF S = {} THEN first ELSE move[Max(S)][f[S \ {Max(S)}]]
  BY <1>4 DEF Solves
<1> QED
  BY <1>5 DEF Folds

(* What holds of 0 and is passed on from number to number.                 *)
LEMMA RangeInduction ==
    ASSUME NEW n \in Nat, NEW Q, 0 \in Q, \A k \in 1..n : k - 1 \in Q => k \in Q
    PROVE  \A k \in 0..n : k \in Q
<1> DEFINE R == {k \in Nat : k <= n => k \in Q}
<1>1. 0 \in R
  OBVIOUS
<1>2. ASSUME NEW k \in R PROVE k + 1 \in R
  <2> SUFFICES ASSUME k + 1 <= n PROVE k + 1 \in Q
    OBVIOUS
  <2>1. k \in Q /\ k + 1 \in 1..n /\ (k + 1) - 1 = k
    OBVIOUS
  <2> QED
    BY <2>1
<1>3. Nat \subseteq R
  <2> HIDE DEF R
  <2> QED
    BY <1>1, <1>2, NumberInduction
<1> QED
  BY <1>3

(* The results of a fold step by step.                                     *)
IsRun(g, n, first, move) == g[0] = first /\ \A k \in 1..n : g[k] = move[k][g[k - 1]]

(* The function of a fold makes its steps, from a value of V to the next.  *)
FoldsIn(fold, n, V, first, move) ==
    /\ fold[{}] = first
    /\ \A S \in SUBSET (1..n) : S # {} /\ fold[S \ {Max(S)}] \in V =>
         fold[S] = move[Max(S)][fold[S \ {Max(S)}]]

(* A fold goes over a sequence from the left to the right.                 *)
LEMMA FoldSteps ==
    ASSUME NEW n, NEW V, NEW first, NEW move, NEW fold,
           AreSteps(n, V, first, move), FoldsIn(fold, n, V, first, move)
    PROVE  \E g \in [0..n -> V] : IsRun(g, n, first, move) /\ fold[1..n] = g[n]
<1>0. /\ n \in Nat /\ first \in V /\ move \in [1..n -> [V -> V]]
      /\ fold[{}] = first
      /\ \A S \in SUBSET (1..n) : S # {} /\ fold[S \ {Max(S)}] \in V =>
           fold[S] = move[Max(S)][fold[S \ {Max(S)}]]
  BY DEF AreSteps, FoldsIn
<1> DEFINE g == [k \in 0..n |-> fold[1..k]]
           Q == {k \in 0..n : g[k] \in V /\ (k # 0 => g[k] = move[k][g[k - 1]])}
<1>1. 0 \in Q /\ g[0] = first
  <2>1. 0 \in 0..n /\ 1..0 = {}
    BY <1>0
  <2> QED
    BY <1>0, <2>1
<1>2. ASSUME NEW k \in 1..n, k - 1 \in Q PROVE k \in Q
  <2> DEFINE S == 1..k
  <2>1. S \in SUBSET (1..n) /\ S # {} /\ Max(S) = k
    <3>1. S \in SUBSET (1..n) /\ S # {} /\ k \in S /\ \A x \in S : k >= x
      <4>1. k \in Nat /\ k >= 1 /\ k <= n /\ n \in Nat
        BY <1>0
      <4>2. k \in S
        BY <4>1
      <4>3. \A x \in S : x \in 1..n /\ k >= x
        BY <4>1
      <4> QED
        BY <4>2, <4>3
    <3>2. Max(S) \in S /\ \A x \in S : Max(S) >= x
      BY <3>1 DEF Max
    <3> QED
      BY <3>1, <3>2
  <2>2. S \ {k} = 1..(k - 1)
    BY <1>0
  <2>3. fold[1..(k - 1)] \in V /\ g[k - 1] = fold[1..(k - 1)] /\ g[k] = fold[S]
    <3>1. k \in 0..n /\ k - 1 \in 0..n
      BY <1>0
    <3> QED
      BY <1>2, <3>1
  <2> HIDE DEF S
  <2>4. fold[S] = move[k][fold[1..(k - 1)]]
    BY <1>0, <2>1, <2>2, <2>3
  <2>5. move[k][fold[1..(k - 1)]] \in V
    BY <1>0, <2>3
  <2> HIDE DEF g
  <2> QED
    BY <2>3, <2>4, <2>5
<1>3. \A k \in 0..n : k \in Q
  <2> HIDE DEF Q
  <2> QED
    BY <1>0, <1>1, <1>2, RangeInduction
<1>4. n \in 0..n /\ g[n] = fold[1..n]
  BY <1>0
<1>5. g \in [0..n -> V] /\ \A k \in 1..n : g[k] = move[k][g[k - 1]]
  <2>1. \A k \in 1..n : k \in 0..n /\ k # 0
    BY <1>0
  <2> HIDE DEF g
  <2>2. \A k \in 0..n : g[k] \in V
    BY <1>3
  <2>3. g = [k \in 0..n |-> g[k]]
    BY DEF g
  <2> QED
    BY <1>3, <2>1, <2>2, <2>3
<1> HIDE DEF g
<1> QED
  BY <1>1, <1>4, <1>5 DEF IsRun

(* The results of Without up to each index.                                *)
IsWithout(g, s, S) ==
    \A k \in 1..Len(s) : g[k] = IF s[k] \in S THEN g[k - 1] ELSE Append(g[k - 1], s[k])

(* Without, step by step.                                                  *)
LEMMA WithoutSteps ==
    ASSUME NEW H, NEW s \in Seq(H), NEW S
    PROVE  \E g \in [0..Len(s) -> Seq(H)] :
             /\ g[0] = <<>> /\ Without(s, S) = g[Len(s)]
             /\ IsWithout(g, s, S)
<1> DEFINE n == Len(s)
           D == SUBSET (1..n)
           V == Seq(H)
           Move(k, v) == IF s[k] \in S THEN v ELSE Append(v, s[k])
           IsFold(f) == f = [T \in D |-> IF T = {} THEN <<>>
                                         ELSE Move(Max(T), f[T \ {Max(T)}])]
           fold == CHOOSE f : IsFold(f)
           move == [k \in 1..n |-> [v \in V |-> Move(k, v)]]
           none == <<>>
<1>1. n \in Nat /\ DOMAIN s = 1..n /\ none \in V
  OBVIOUS
<1>2. Without(s, S) = fold[1..n]
  BY <1>1 DEF Without, FoldLeft, MapThenFoldSet
<1>3. ASSUME NEW k \in 1..n, NEW v \in V PROVE Move(k, v) \in V
  BY <1>1
<1> HIDE DEF V, Move, n
<1>4. move \in [1..n -> [V -> V]]
  BY <1>3
<1>5. PICK f \in [D -> V] :
        \A T \in D : f[T] = IF T = {} THEN none ELSE move[Max(T)][f[T \ {Max(T)}]]
  <2>1. AreSteps(n, V, none, move)
    <3> HIDE DEF move, none
    <3> QED
      BY <1>1, <1>4 DEF AreSteps
  <2> HIDE DEF move, none
  <2>2. PICK f \in [SUBSET (1..n) -> V] : Folds(f, n, none, move)
    BY ONLY <2>1, FoldExists
  <2> QED
    BY <2>2 DEF Folds
<1>6. ASSUME NEW T \in D, T # {} PROVE Max(T) \in 1..n /\ T \ {Max(T)} \in D
  BY <1>1, <1>6, LastIndex
<1>7. IsFold(f)
  <2>1. ASSUME NEW T \in D, T # {}
        PROVE  f[T] = Move(Max(T), f[T \ {Max(T)}])
    BY <1>5, <1>6, <2>1
  <2>2. {} \in D /\ f[{}] = none
    BY <1>5
  <2> HIDE DEF D, move
  <2> QED
    BY <1>5, <2>1, <2>2
<1>8. IsFold(fold)
  <2> HIDE DEF IsFold
  <2> QED
    BY <1>7
<1> HIDE DEF fold
<1>9. ASSUME NEW T \in D
      PROVE  fold[T] = IF T = {} THEN none ELSE Move(Max(T), fold[T \ {Max(T)}])
  <2> HIDE DEF D
  <2> QED
    BY <1>8
<1>10. fold[{}] = none
  BY <1>9
<1>11. ASSUME NEW T \in D, T # {}, fold[T \ {Max(T)}] \in V
       PROVE  fold[T] = move[Max(T)][fold[T \ {Max(T)}]]
  BY <1>6, <1>9, <1>11
<1>12. PICK g \in [0..n -> V] : IsRun(g, n, none, move) /\ fold[1..n] = g[n]
  <2>1. \A T \in SUBSET (1..n) : T # {} /\ fold[T \ {Max(T)}] \in V =>
          fold[T] = move[Max(T)][fold[T \ {Max(T)}]]
    BY <1>11
  <2> HIDE DEF move, none
  <2>2. AreSteps(n, V, none, move)
    BY <1>1, <1>4 DEF AreSteps
  <2>3. FoldsIn(fold, n, V, none, move)
    BY <1>10, <2>1 DEF FoldsIn
  <2> QED
    BY ONLY <2>2, <2>3, FoldSteps
<1>13. \A k \in 1..n : g[k] = Move(k, g[k - 1])
  <2>1. \A k \in 1..n : k - 1 \in 0..n
    BY <1>1
  <2>2. \A k \in 1..n : g[k - 1] \in V
    BY <2>1
  <2> QED
    BY <1>12, <2>2 DEF IsRun
<1> QED
  BY <1>2, <1>12, <1>13 DEF V, n, Move, IsRun, IsWithout

(* UniqueHashes, step by step.                                             *)
LEMMA UniqueSteps ==
    ASSUME NEW H, NEW s \in Seq(H)
    PROVE  \E g \in [0..Len(s) -> Seq(H)] :
             /\ g[0] = <<>> /\ UniqueHashes(s) = g[Len(s)]
             /\ \A k \in 1..Len(s) :
                  g[k] = IF s[k] \in ToSet(g[k - 1]) THEN g[k - 1] ELSE Append(g[k - 1], s[k])
<1> DEFINE n == Len(s)
           D == SUBSET (1..n)
           V == Seq(H)
           Move(k, v) == IF s[k] \in ToSet(v) THEN v ELSE Append(v, s[k])
           IsFold(f) == f = [T \in D |-> IF T = {} THEN <<>>
                                         ELSE Move(Max(T), f[T \ {Max(T)}])]
           fold == CHOOSE f : IsFold(f)
           move == [k \in 1..n |-> [v \in V |-> Move(k, v)]]
           none == <<>>
<1>1. n \in Nat /\ DOMAIN s = 1..n /\ none \in V
  OBVIOUS
<1>2. UniqueHashes(s) = fold[1..n]
  BY <1>1 DEF UniqueHashes, FoldLeft, MapThenFoldSet
<1>3. ASSUME NEW k \in 1..n, NEW v \in V PROVE Move(k, v) \in V
  BY <1>1
<1> HIDE DEF V, Move, n
<1>4. move \in [1..n -> [V -> V]]
  BY <1>3
<1>5. PICK f \in [D -> V] :
        \A T \in D : f[T] = IF T = {} THEN none ELSE move[Max(T)][f[T \ {Max(T)}]]
  <2>1. AreSteps(n, V, none, move)
    <3> HIDE DEF move, none
    <3> QED
      BY <1>1, <1>4 DEF AreSteps
  <2> HIDE DEF move, none
  <2>2. PICK f \in [SUBSET (1..n) -> V] : Folds(f, n, none, move)
    BY ONLY <2>1, FoldExists
  <2> QED
    BY <2>2 DEF Folds
<1>6. ASSUME NEW T \in D, T # {} PROVE Max(T) \in 1..n /\ T \ {Max(T)} \in D
  BY <1>1, <1>6, LastIndex
<1>7. IsFold(f)
  <2>1. ASSUME NEW T \in D, T # {}
        PROVE  f[T] = Move(Max(T), f[T \ {Max(T)}])
    BY <1>5, <1>6, <2>1
  <2>2. {} \in D /\ f[{}] = none
    BY <1>5
  <2> HIDE DEF D, move
  <2> QED
    BY <1>5, <2>1, <2>2
<1>8. IsFold(fold)
  <2> HIDE DEF IsFold
  <2> QED
    BY <1>7
<1> HIDE DEF fold
<1>9. ASSUME NEW T \in D
      PROVE  fold[T] = IF T = {} THEN none ELSE Move(Max(T), fold[T \ {Max(T)}])
  <2> HIDE DEF D
  <2> QED
    BY <1>8
<1>10. fold[{}] = none
  BY <1>9
<1>11. ASSUME NEW T \in D, T # {}, fold[T \ {Max(T)}] \in V
       PROVE  fold[T] = move[Max(T)][fold[T \ {Max(T)}]]
  BY <1>6, <1>9, <1>11
<1>12. PICK g \in [0..n -> V] : IsRun(g, n, none, move) /\ fold[1..n] = g[n]
  <2>1. \A T \in SUBSET (1..n) : T # {} /\ fold[T \ {Max(T)}] \in V =>
          fold[T] = move[Max(T)][fold[T \ {Max(T)}]]
    BY <1>11
  <2> HIDE DEF move, none
  <2>2. AreSteps(n, V, none, move)
    BY <1>1, <1>4 DEF AreSteps
  <2>3. FoldsIn(fold, n, V, none, move)
    BY <1>10, <2>1 DEF FoldsIn
  <2> QED
    BY ONLY <2>2, <2>3, FoldSteps
<1>13. \A k \in 1..n : g[k] = Move(k, g[k - 1])
  <2>1. \A k \in 1..n : k - 1 \in 0..n
    BY <1>1
  <2>2. \A k \in 1..n : g[k - 1] \in V
    BY <2>1
  <2> QED
    BY <1>12, <2>2 DEF IsRun
<1> QED
  BY <1>2, <1>12, <1>13 DEF V, n, Move, IsRun

(* The sum of the sizes of chunks, step by step.                           *)
LEMMA SumSteps ==
    ASSUME NEW H, NEW s \in Seq(H), NEW f, \A h \in H : f[h] \in Nat
    PROVE  \E g \in [0..Len(s) -> Nat] :
             /\ g[0] = 0 /\ SumOver(f, s) = g[Len(s)]
             /\ \A k \in 1..Len(s) :
                  g[k] = g[k - 1] + f[s[k]]
<1> DEFINE n == Len(s)
           D == SUBSET (1..n)
           V == Nat
           Move(k, v) == v + f[s[k]]
           IsFold(e) == e = [T \in D |-> IF T = {} THEN 0
                                         ELSE Move(Max(T), e[T \ {Max(T)}])]
           fold == CHOOSE e : IsFold(e)
           move == [k \in 1..n |-> [v \in V |-> Move(k, v)]]
           none == 0
<1>1. n \in Nat /\ DOMAIN s = 1..n /\ none \in V
  OBVIOUS
<1>2. SumOver(f, s) = fold[1..n]
  BY <1>1 DEF SumOver, FoldLeft, MapThenFoldSet
<1>3. ASSUME NEW k \in 1..n, NEW v \in V PROVE Move(k, v) \in V
  BY <1>1
<1> HIDE DEF V, Move, n
<1>4. move \in [1..n -> [V -> V]]
  BY <1>3
<1>5. PICK e \in [D -> V] :
        \A T \in D : e[T] = IF T = {} THEN none ELSE move[Max(T)][e[T \ {Max(T)}]]
  <2>1. AreSteps(n, V, none, move)
    <3> HIDE DEF move, none
    <3> QED
      BY <1>1, <1>4 DEF AreSteps
  <2> HIDE DEF move, none
  <2>2. PICK e \in [SUBSET (1..n) -> V] : Folds(e, n, none, move)
    BY ONLY <2>1, FoldExists
  <2> QED
    BY <2>2 DEF Folds
<1>6. ASSUME NEW T \in D, T # {} PROVE Max(T) \in 1..n /\ T \ {Max(T)} \in D
  BY <1>1, <1>6, LastIndex
<1>7. IsFold(e)
  <2>1. ASSUME NEW T \in D, T # {}
        PROVE  e[T] = Move(Max(T), e[T \ {Max(T)}])
    BY <1>5, <1>6, <2>1
  <2>2. {} \in D /\ e[{}] = none
    BY <1>5
  <2> HIDE DEF D, move
  <2> QED
    BY <1>5, <2>1, <2>2
<1>8. IsFold(fold)
  <2> HIDE DEF IsFold
  <2> QED
    BY <1>7
<1> HIDE DEF fold
<1>9. ASSUME NEW T \in D
      PROVE  fold[T] = IF T = {} THEN none ELSE Move(Max(T), fold[T \ {Max(T)}])
  <2> HIDE DEF D
  <2> QED
    BY <1>8
<1>10. fold[{}] = none
  BY <1>9
<1>11. ASSUME NEW T \in D, T # {}, fold[T \ {Max(T)}] \in V
       PROVE  fold[T] = move[Max(T)][fold[T \ {Max(T)}]]
  BY <1>6, <1>9, <1>11
<1>12. PICK g \in [0..n -> V] : IsRun(g, n, none, move) /\ fold[1..n] = g[n]
  <2>1. \A T \in SUBSET (1..n) : T # {} /\ fold[T \ {Max(T)}] \in V =>
          fold[T] = move[Max(T)][fold[T \ {Max(T)}]]
    BY <1>11
  <2> HIDE DEF move, none
  <2>2. AreSteps(n, V, none, move)
    BY <1>1, <1>4 DEF AreSteps
  <2>3. FoldsIn(fold, n, V, none, move)
    BY <1>10, <2>1 DEF FoldsIn
  <2> QED
    BY ONLY <2>2, <2>3, FoldSteps
<1>13. \A k \in 1..n : g[k] = Move(k, g[k - 1])
  <2>1. \A k \in 1..n : k - 1 \in 0..n
    BY <1>1
  <2>2. \A k \in 1..n : g[k - 1] \in V
    BY <2>1
  <2> QED
    BY <1>12, <2>2 DEF IsRun
<1> QED
  BY <1>2, <1>12, <1>13 DEF V, n, Move, IsRun

(* The blocks that are filled, step by step.                               *)
LEMMA FillSteps ==
    ASSUME NEW H, NEW hashes, NEW s \in Seq(H), s = UniqueHashes(hashes)
    PROVE  \E g \in [0..Len(s) -> Seq(Seq(H))] :
             /\ g[0] = <<>> /\ CreateContentIndexRaw(hashes).blocks = g[Len(s)]
             /\ \A k \in 1..Len(s) :
                  g[k] = IF g[k - 1] # <<>> /\ FitsInBlock(Last(g[k - 1]), s[k])
                         THEN ReplaceAt(g[k - 1], Len(g[k - 1]), Append(Last(g[k - 1]), s[k]))
                         ELSE Append(g[k - 1], <<s[k]>>)
<1> DEFINE n == Len(s)
           D == SUBSET (1..n)
           V == Seq(Seq(H))
           Move(k, v) == IF v # <<>> /\ FitsInBlock(Last(v), s[k])
                         THEN ReplaceAt(v, Len(v), Append(Last(v), s[k]))
                         ELSE Append(v, <<s[k]>>)
           IsFold(f) == f = [T \in D |-> IF T = {} THEN <<>>
                                         ELSE Move(Max(T), f[T \ {Max(T)}])]
           fold == CHOOSE f : IsFold(f)
           move == [k \in 1..n |-> [v \in V |-> Move(k, v)]]
           none == <<>>
<1>1. n \in Nat /\ DOMAIN s = 1..n /\ none \in V
  OBVIOUS
<1>2. CreateContentIndexRaw(hashes).blocks = fold[1..n]
  BY <1>1 DEF CreateContentIndexRaw, ContentIndexFromBlocks, FoldLeft, MapThenFoldSet
<1>3. ASSUME NEW k \in 1..n, NEW v \in V PROVE Move(k, v) \in V
  <2>1. v \in Seq(Seq(H)) /\ s[k] \in H
    BY <1>1
  <2>2. ASSUME v # <<>> PROVE ReplaceAt(v, Len(v), Append(Last(v), s[k])) \in Seq(Seq(H))
    <3> DEFINE l == Len(v)
               last == Append(Last(v), s[k])
    <3>1. l \in Nat /\ DOMAIN v = 1..l /\ l > 0 /\ \A i \in 1..l : v[i] \in Seq(H)
      BY <2>1, <2>2
    <3>2. last \in Seq(H)
      <4>1. v[l] \in Seq(H)
        BY <3>1
      <4> QED
        BY <2>1, <4>1 DEF Last
    <3>3. ReplaceAt(v, l, last) = [i \in 1..l |-> IF i = l THEN last ELSE v[i]]
      <4> HIDE DEF l, last
      <4> QED
        BY <3>1 DEF ReplaceAt
    <3> HIDE DEF l, last
    <3>4. ReplaceAt(v, l, last) \in Seq(Seq(H))
      BY <3>1, <3>2, <3>3
    <3> QED
      BY <3>4 DEF l, last
  <2>3. Append(v, <<s[k]>>) \in Seq(Seq(H))
    BY <2>1
  <2> QED
    BY <2>2, <2>3
<1> HIDE DEF V, Move, n
<1>4. move \in [1..n -> [V -> V]]
  BY <1>3
<1>5. PICK f \in [D -> V] :
        \A T \in D : f[T] = IF T = {} THEN none ELSE move[Max(T)][f[T \ {Max(T)}]]
  <2>1. AreSteps(n, V, none, move)
    <3> HIDE DEF move, none
    <3> QED
      BY <1>1, <1>4 DEF AreSteps
  <2> HIDE DEF move, none
  <2>2. PICK f \in [SUBSET (1..n) -> V] : Folds(f, n, none, move)
    BY ONLY <2>1, FoldExists
  <2> QED
    BY <2>2 DEF Folds
<1>6. ASSUME NEW T \in D, T # {} PROVE Max(T) \in 1..n /\ T \ {Max(T)} \in D
  BY <1>1, <1>6, LastIndex
<1>7. IsFold(f)
  <2>1. ASSUME NEW T \in D, T # {}
        PROVE  f[T] = Move(Max(T), f[T \ {Max(T)}])
    BY <1>5, <1>6, <2>1
  <2>2. {} \in D /\ f[{}] = none
    BY <1>5
  <2> HIDE DEF D, move
  <2> QED
    BY <1>5, <2>1, <2>2
<1>8. IsFold(fold)
  <2> HIDE DEF IsFold
  <2> QED
    BY <1>7
<1> HIDE DEF fold
<1>9. ASSUME NEW T \in D
      PROVE  fold[T] = IF T = {} THEN none ELSE Move(Max(T), fold[T \ {Max(T)}])
  <2> HIDE DEF D
  <2> QED
    BY <1>8
<1>10. fold[{}] = none
  BY <1>9
<1>11. ASSUME NEW T \in D, T # {}, fold[T \ {Max(T)}] \in V
       PROVE  fold[T] = move[Max(T)][fold[T \ {Max(T)}]]
  BY <1>6, <1>9, <1>11
<1>12. PICK g \in [0..n -> V] : IsRun(g, n, none, move) /\ fold[1..n] = g[n]
  <2>1. \A T \in SUBSET (1..n) : T # {} /\ fold[T \ {Max(T)}] \in V =>
          fold[T] = move[Max(T)][fold[T \ {Max(T)}]]
    BY <1>11
  <2> HIDE DEF move, none
  <2>2. AreSteps(n, V, none, move)
    BY <1>1, <1>4 DEF AreSteps
  <2>3. FoldsIn(fold, n, V, none, move)
    BY <1>10, <2>1 DEF FoldsIn
  <2> QED
    BY ONLY <2>2, <2>3, FoldSteps
<1>13. \A k \in 1..n : g[k] = Move(k, g[k - 1])
  <2>1. \A k \in 1..n : k - 1 \in 0..n
    BY <1>1
  <2>2. \A k \in 1..n : g[k - 1] \in V
    BY <2>1
  <2> QED
    BY <1>12, <2>2 DEF IsRun
<1> QED
  BY <1>2, <1>12, <1>13 DEF V, n, Move, IsRun

(* Without and UniqueHashes give sequences, the blocks that chunks are put *)
(* in are sequences of them.                                               *)
LEMMA SequencesKept ==
    /\ \A H, S : \A s \in Seq(H) : Without(s, S) \in Seq(H) /\ UniqueHashes(s) \in Seq(H)
    /\ \A H, hashes : UniqueHashes(hashes) \in Seq(H) =>
         CreateContentIndexRaw(hashes).blocks \in Seq(Seq(H))
<1>1. ASSUME NEW H, NEW S, NEW s \in Seq(H)
      PROVE  Without(s, S) \in Seq(H) /\ UniqueHashes(s) \in Seq(H)
  <2>1. Len(s) \in Nat
    OBVIOUS
  <2>2. Len(s) \in 0..Len(s)
    BY <2>1
  <2>3. Without(s, S) \in Seq(H)
    BY ONLY <2>2, s \in Seq(H), WithoutSteps
  <2>4. UniqueHashes(s) \in Seq(H)
    BY ONLY <2>2, s \in Seq(H), UniqueSteps
  <2> QED
    BY <2>3, <2>4
<1>2. ASSUME NEW H, NEW hashes, UniqueHashes(hashes) \in Seq(H)
      PROVE  CreateContentIndexRaw(hashes).blocks \in Seq(Seq(H))
  <2> DEFINE s == UniqueHashes(hashes)
  <2>1. Len(s) \in Nat
    BY <1>2
  <2>2. Len(s) \in 0..Len(s)
    BY <2>1
  <2> QED
    BY <1>2, <2>2, FillSteps
<1> QED
  BY <1>1, <1>2

--------------------------------------------------------------------------------
(* What sequences have *)

Distinct(s) == \A i, j \in DOMAIN s : s[i] = s[j] => i = j

(* A function of the first numbers is a sequence.                          *)
LEMMA SequenceOf ==
    ASSUME NEW n \in Nat, NEW H, NEW s \in [1..n -> H]
    PROVE  s \in Seq(H) /\ Len(s) = n /\ DOMAIN s = 1..n
OBVIOUS

(* Appending adds an element.                                              *)
LEMMA AppendFacts ==
    ASSUME NEW H, NEW v \in Seq(H), NEW x
    PROVE  /\ ToSet(Append(v, x)) = ToSet(v) \cup {x}
           /\ Distinct(v) /\ x \notin ToSet(v) => Distinct(Append(v, x))
<1> DEFINE l == Len(v)
           w == Append(v, x)
<1>1. l \in Nat /\ DOMAIN v = 1..l /\ DOMAIN w = 1..(l + 1)
  OBVIOUS
<1>2. \A i \in 1..l : w[i] = v[i]
  OBVIOUS
<1>3. w[l + 1] = x
  OBVIOUS
<1> HIDE DEF l, w
<1>4. 1..(l + 1) = 1..l \cup {l + 1} /\ l + 1 \notin 1..l
  BY <1>1
<1>5. ToSet(w) = ToSet(v) \cup {x}
  BY <1>1, <1>2, <1>3, <1>4 DEF ToSet
<1>6. ASSUME Distinct(v), x \notin ToSet(v) PROVE Distinct(w)
  BY <1>1, <1>2, <1>3, <1>4, <1>6 DEF ToSet, Distinct
<1> QED
  BY <1>5, <1>6 DEF w

(* The elements of a sequence up to an index, which grow by one each time. *)
Upto(s, k) == {s[i] : i \in 1..k}

(* They are none, some and all.                                            *)
LEMMA UptoFacts ==
    ASSUME NEW H, NEW s \in Seq(H)
    PROVE  /\ Upto(s, 0) = {} /\ Upto(s, Len(s)) = ToSet(s)
           /\ \A k \in 1..Len(s) : /\ Upto(s, k) = Upto(s, k - 1) \cup {s[k]}
                                   /\ Distinct(s) => s[k] \notin Upto(s, k - 1)
<1>1. Len(s) \in Nat /\ DOMAIN s = 1..Len(s)
  OBVIOUS
<1>2. ASSUME NEW k \in 1..Len(s)
      PROVE  1..k = 1..(k - 1) \cup {k} /\ \A i \in 1..(k - 1) : i \in 1..Len(s) /\ i # k
  BY <1>1
<1>3. Upto(s, 0) = {}
  BY DEF Upto
<1>4. Upto(s, Len(s)) = ToSet(s)
  BY <1>1 DEF Upto, ToSet
<1>5. ASSUME NEW k \in 1..Len(s)
      PROVE  /\ Upto(s, k) = Upto(s, k - 1) \cup {s[k]}
             /\ Distinct(s) => s[k] \notin Upto(s, k - 1)
  BY <1>1, <1>2 DEF Upto, Distinct
<1> QED
  BY <1>3, <1>4, <1>5

(* Without takes away the members of a set.                                *)
LEMMA WithoutMembers ==
    ASSUME NEW H, NEW s \in Seq(H), NEW S
    PROVE  /\ Without(s, S) \in Seq(H)
           /\ ToSet(Without(s, S)) = ToSet(s) \ S
           /\ Distinct(s) => Distinct(Without(s, S))
<1> DEFINE n == Len(s)
<1>1. n \in Nat /\ \A k \in 1..n : s[k] \in H
  OBVIOUS
<1>2. PICK g \in [0..n -> Seq(H)] : g[0] = <<>> /\ Without(s, S) = g[n] /\ IsWithout(g, s, S)
  BY WithoutSteps
<1>21. \A k \in 1..n : g[k] = IF s[k] \in S THEN g[k - 1] ELSE Append(g[k - 1], s[k])
  BY <1>2 DEF IsWithout
<1> DEFINE Q == {k \in 0..n : /\ ToSet(g[k]) = Upto(s, k) \ S
                              /\ Distinct(s) => Distinct(g[k])}
<1>3. /\ Upto(s, 0) = {} /\ Upto(s, n) = ToSet(s)
      /\ \A k \in 1..n : /\ Upto(s, k) = Upto(s, k - 1) \cup {s[k]}
                         /\ Distinct(s) => s[k] \notin Upto(s, k - 1)
  BY UptoFacts
<1> HIDE DEF n
<1>4. 0 \in Q
  <2>1. ToSet(g[0]) = {} /\ Distinct(g[0])
    BY <1>2 DEF ToSet, Distinct
  <2> QED
    BY <1>1, <1>3, <2>1
<1>5. ASSUME NEW k \in 1..n, k - 1 \in Q PROVE k \in Q
  <2>1. k \in 0..n /\ k - 1 \in 0..n /\ g[k - 1] \in Seq(H)
    BY <1>1
  <2>2. ToSet(g[k - 1]) = Upto(s, k - 1) \ S /\ (Distinct(s) => Distinct(g[k - 1]))
    BY <1>5
  <2>3. CASE s[k] \in S
    BY <1>21, <1>3, <2>1, <2>2, <2>3
  <2>4. CASE s[k] \notin S
    <3> DEFINE v == g[k - 1]
               x == s[k]
    <3>1. v \in Seq(H)
      BY <2>1
    <3> HIDE DEF v, x
    <3>2. /\ ToSet(Append(v, x)) = ToSet(v) \cup {x}
          /\ Distinct(v) /\ x \notin ToSet(v) => Distinct(Append(v, x))
      BY <3>1, AppendFacts
    <3>3. g[k] = Append(v, x)
      BY <1>21, <2>4 DEF v, x
    <3>4. Upto(s, k) = Upto(s, k - 1) \cup {x} /\ (Distinct(s) => x \notin Upto(s, k - 1))
      BY <1>3 DEF x
    <3>5. x \notin S /\ ToSet(v) = Upto(s, k - 1) \ S /\ (Distinct(s) => Distinct(v))
      BY <2>2, <2>4 DEF v, x
    <3> QED
      BY <2>1, <3>2, <3>3, <3>4, <3>5
  <2> QED
    BY <2>3, <2>4
<1>6. \A k \in 0..n : k \in Q
  <2> HIDE DEF Q
  <2> QED
    BY <1>1, <1>4, <1>5, RangeInduction
<1>7. n \in 0..n
  BY <1>1
<1> QED
  BY <1>2, <1>3, <1>6, <1>7 DEF n

(* UniqueHashes keeps each hash once.                                      *)
LEMMA UniqueMembers ==
    ASSUME NEW H, NEW s \in Seq(H)
    PROVE  /\ UniqueHashes(s) \in Seq(H)
           /\ ToSet(UniqueHashes(s)) = ToSet(s)
           /\ Distinct(UniqueHashes(s))
<1> DEFINE n == Len(s)
<1>1. n \in Nat /\ 0 \in 0..n /\ \A k \in 1..n : s[k] \in H
  OBVIOUS
<1>2. PICK g \in [0..n -> Seq(H)] :
        /\ g[0] = <<>> /\ UniqueHashes(s) = g[n]
        /\ \A k \in 1..n :
             g[k] = IF s[k] \in ToSet(g[k - 1]) THEN g[k - 1] ELSE Append(g[k - 1], s[k])
  BY UniqueSteps
<1> DEFINE Q == {k \in 0..n : ToSet(g[k]) = Upto(s, k) /\ Distinct(g[k])}
<1>3. /\ Upto(s, 0) = {} /\ Upto(s, n) = ToSet(s)
      /\ \A k \in 1..n : Upto(s, k) = Upto(s, k - 1) \cup {s[k]}
  BY UptoFacts
<1> HIDE DEF n
<1>4. 0 \in Q
  <2>1. ToSet(g[0]) = {} /\ Distinct(g[0])
    BY <1>2 DEF ToSet, Distinct
  <2> QED
    BY ONLY <1>1, <1>3, <2>1
<1>5. ASSUME NEW k \in 1..n, k - 1 \in Q PROVE k \in Q
  <2>1. k \in 0..n /\ k - 1 \in 0..n /\ g[k - 1] \in Seq(H)
    BY <1>1
  <2>2. ToSet(g[k - 1]) = Upto(s, k - 1) /\ Distinct(g[k - 1])
    BY <1>5
  <2>3. CASE s[k] \in ToSet(g[k - 1])
    <3>1. g[k] = g[k - 1]
      BY <1>2, <2>3
    <3>2. Upto(s, k) = Upto(s, k - 1)
      <4> DEFINE x == s[k]
      <4>1. Upto(s, k) = Upto(s, k - 1) \cup {x} /\ x \in Upto(s, k - 1)
        BY <1>3, <2>2, <2>3
      <4> HIDE DEF x
      <4> QED
        BY <4>1
    <3> QED
      BY <2>1, <2>2, <3>1, <3>2
  <2>4. CASE s[k] \notin ToSet(g[k - 1])
    <3> DEFINE v == g[k - 1]
               x == s[k]
    <3>1. v \in Seq(H)
      BY <2>1
    <3> HIDE DEF v, x
    <3>2. /\ ToSet(Append(v, x)) = ToSet(v) \cup {x}
          /\ Distinct(v) /\ x \notin ToSet(v) => Distinct(Append(v, x))
      BY <3>1, AppendFacts
    <3>3. g[k] = Append(v, x)
      BY <1>2, <2>4 DEF v, x
    <3>4. Upto(s, k) = Upto(s, k - 1) \cup {x}
      BY <1>3 DEF x
    <3>5. x \notin ToSet(v) /\ ToSet(v) = Upto(s, k - 1) /\ Distinct(v)
      BY <2>2, <2>4 DEF v, x
    <3> QED
      BY ONLY <2>1, <3>2, <3>3, <3>4, <3>5
  <2> QED
    BY <2>3, <2>4
<1>6. \A k \in 0..n : k \in Q
  <2> HIDE DEF Q
  <2> QED
    BY <1>1, <1>4, <1>5, RangeInduction
<1>7. n \in 0..n
  BY <1>1
<1> QED
  BY <1>2, <1>3, <1>6, <1>7 DEF n

--------------------------------------------------------------------------------
(* Numbers in order *)

(* Each number of a finite set has its place in the order.                 *)
LEMMA PlacesAreTaken ==
    ASSUME NEW S \in SUBSET Nat, IsFiniteSet(S), NEW k \in 1..Cardinality(S)
    PROVE  \E p \in S : Cardinality({q \in S : q < p}) = k - 1
<1> DEFINE Below(T, p) == {q \in T : q < p}
           Ordered(T, n) == \A i \in 1..n : \E p \in T : Cardinality(Below(T, p)) = i - 1
           Q == {n \in Nat : \A T \in SUBSET Nat :
                    IsFiniteSet(T) /\ Cardinality(T) = n => Ordered(T, n)}
<1>1. 0 \in Q
  OBVIOUS
<1>2. ASSUME NEW n \in Q PROVE n + 1 \in Q
  <2> SUFFICES ASSUME NEW T \in SUBSET Nat, IsFiniteSet(T), Cardinality(T) = n + 1,
                      NEW i \in 1..(n + 1)
               PROVE  \E p \in T : Cardinality(Below(T, p)) = i - 1
    OBVIOUS
  <2>0. n \in Nat
    OBVIOUS
  <2>1. T # {}
    BY <2>0, FS_EmptySet
  <2>2. PICK m \in T : \A p \in T : m <= p
    BY <2>1, LeastNumber
  <2> DEFINE U == T \ {m}
  <2>3. U \in SUBSET Nat /\ IsFiniteSet(U) /\ Cardinality(U) = n
    BY <2>0, FS_RemoveElement
  <2>4. CASE i = 1
    <3>1. Below(T, m) = {}
      <4>1. \A q \in T : ~(q < m)
        BY <2>2
      <4> QED
        BY <4>1
    <3>2. Cardinality(Below(T, m)) = 0
      BY <3>1, FS_EmptySet
    <3>3. i - 1 = 0
      BY <2>4
    <3> HIDE DEF Below
    <3> QED
      BY <3>2, <3>3
  <2>5. CASE i # 1
    <3>1. i - 1 \in 1..n
      BY <2>0, <2>5
    <3>2. Ordered(U, n)
      BY <2>3
    <3>3. PICK p \in U : Cardinality(Below(U, p)) = (i - 1) - 1
      BY <3>1, <3>2
    <3> DEFINE B == Below(U, p)
    <3>4. Below(T, p) = B \cup {m} /\ m \notin B
      BY <2>2
    <3>5. IsFiniteSet(B)
      <4>1. B \in SUBSET U
        OBVIOUS
      <4> QED
        BY <2>3, <4>1, FS_Subset
    <3>6. Cardinality(B \cup {m}) = Cardinality(B) + 1
      <4> HIDE DEF B
      <4> QED
        BY <3>4, <3>5, FS_AddElement
    <3>7. Cardinality(Below(T, p)) = i - 1
      BY <3>3, <3>4, <3>6
    <3> QED
      BY <3>7
  <2> QED
    BY <2>4, <2>5
<1>3. Nat \subseteq Q
  <2> HIDE DEF Q
  <2> QED
    BY <1>1, <1>2, NumberInduction
<1>4. Cardinality(S) \in Nat
  BY FS_CardinalityType
<1>5. Ordered(S, Cardinality(S))
  BY <1>3, <1>4
<1> QED
  BY <1>5

(* InOrder lists the members of a set, each once.                          *)
LEMMA OrderMembers ==
    ASSUME NEW S \in SUBSET Nat, IsFiniteSet(S)
    PROVE  /\ InOrder(S) \in Seq(S)
           /\ ToSet(InOrder(S)) = S
           /\ Distinct(InOrder(S))
<1> DEFINE n == Cardinality(S)
           Below(p) == {q \in S : q < p}
           Rank(p) == Cardinality(Below(p))
           At(k) == CHOOSE p \in S : Rank(p) = k - 1
<1>1. n \in Nat
  BY FS_CardinalityType
<1>2. ASSUME NEW k \in 1..n PROVE At(k) \in S /\ Rank(At(k)) = k - 1
  <2>1. \E p \in S : Rank(p) = k - 1
    BY PlacesAreTaken
  <2> HIDE DEF Rank
  <2> QED
    BY <2>1
<1>3. InOrder(S) = [k \in 1..n |-> At(k)]
  BY DEF InOrder
<1>4. ASSUME NEW p \in S
      PROVE  IsFiniteSet(Below(p)) /\ Rank(p) \in Nat /\ Rank(p) + 1 \in 1..n
  <2> DEFINE B == Below(p)
  <2>1. B \subseteq S /\ p \notin B
    OBVIOUS
  <2> HIDE DEF B
  <2>2. IsFiniteSet(B) /\ Cardinality(B) \in Nat /\ Cardinality(B) <= n
    BY <2>1, FS_Subset, FS_CardinalityType
  <2>3. Cardinality(B) # n
    BY <2>1, FS_Subset
  <2> QED
    BY <1>1, <2>2, <2>3 DEF B
<1>5. ASSUME NEW p \in S, NEW q \in S, q < p PROVE Rank(q) < Rank(p)
  <2> DEFINE B == Below(p)
             C == Below(q)
  <2>1. C \subseteq B /\ q \in B /\ q \notin C
    <3>1. p \in Nat /\ q \in Nat
      OBVIOUS
    <3>2. q \in B
      BY <1>5
    <3>3. q \notin C
      BY <3>1
    <3>4. \A x \in C : x \in Nat /\ x \in S /\ x < q
      OBVIOUS
    <3>5. \A x \in Nat : x < q => x < p
      BY <1>5, <3>1
    <3>6. C \subseteq B
      BY <3>4, <3>5
    <3> QED
      BY <3>2, <3>3, <3>6
  <2>2. IsFiniteSet(B) /\ Cardinality(B) \in Nat /\ Cardinality(C) \in Nat
    BY <1>4
  <2> HIDE DEF B, C
  <2>3. Cardinality(C) <= Cardinality(B) /\ Cardinality(C) # Cardinality(B)
    BY <2>1, <2>2, FS_Subset
  <2> QED
    BY <2>2, <2>3 DEF B, C
<1> HIDE DEF n, Rank, At
<1>6. ASSUME NEW p \in S PROVE \E k \in 1..n : At(k) = p
  <2> DEFINE k == Rank(p) + 1
             q == At(k)
  <2>1. k \in 1..n /\ k - 1 = Rank(p)
    <3> DEFINE r == Rank(p)
    <3>1. r \in Nat /\ r + 1 \in 1..n
      BY <1>4
    <3> HIDE DEF r
    <3>2. (r + 1) - 1 = r
      BY <3>1
    <3> QED
      BY <3>1, <3>2 DEF r
  <2>2. q \in S /\ Rank(q) = Rank(p)
    BY <1>2, <2>1
  <2>3. ~(q < p) /\ ~(p < q)
    <3>1. q < p => Rank(q) < Rank(p)
      BY <1>5, <2>2
    <3>2. p < q => Rank(p) < Rank(q)
      BY <1>5, <2>2
    <3>3. Rank(p) \in Nat
      BY <1>4
    <3> HIDE DEF q
    <3> QED
      BY <2>2, <3>1, <3>2, <3>3
  <2>4. q = p
    <3>1. q \in Nat /\ p \in Nat
      BY <2>2
    <3> HIDE DEF q
    <3> QED
      BY <2>3, <3>1
  <2> QED
    BY <2>1, <2>4
<1>7. InOrder(S) \in Seq(S) /\ DOMAIN InOrder(S) = 1..n
  BY <1>1, <1>2, <1>3
<1>8. ToSet(InOrder(S)) = S
  <2>1. ToSet(InOrder(S)) = {At(k) : k \in 1..n}
    BY <1>3 DEF ToSet
  <2> QED
    BY <1>2, <1>6, <2>1
<1>9. \A i, j \in 1..n : At(i) = At(j) => i = j
  BY <1>1, <1>2
<1> QED
  BY <1>3, <1>7, <1>8, <1>9 DEF Distinct

--------------------------------------------------------------------------------
(* Sequences one after the other *)

(* FlattenSeq, step by step.                                               *)
LEMMA FlattenSteps ==
    ASSUME NEW H, NEW seqs \in Seq(Seq(H))
    PROVE  \E g \in [0..Len(seqs) -> Seq(H)] :
             /\ g[0] = <<>> /\ FlattenSeq(seqs) = g[Len(seqs)]
             /\ \A k \in 1..Len(seqs) : g[k] = g[k - 1] \o seqs[k]
<1> DEFINE n == Len(seqs)
           D == 1..n
           V == Seq(H)
           IsFlat(f) == f = [i \in D |-> IF i = 1 THEN seqs[i] ELSE f[i - 1] \o seqs[i]]
           flat == CHOOSE f : IsFlat(f)
           rank == [i \in D |-> i]
<1>1. n \in Nat /\ 0 \in 0..n /\ \A i \in D : seqs[i] \in V
  OBVIOUS
<1>2. n = 0 => FlattenSeq(seqs) = <<>>
  BY DEF FlattenSeq
<1>3. n # 0 => FlattenSeq(seqs) = flat[n]
  BY DEF FlattenSeq
<1>4. \E f : IsFlat(f)
  <2> DEFINE base == {1}
             next == [i \in D \ base |-> i - 1]
             step == [i \in D \ base |-> [v \in V |-> v \o seqs[i]]]
  <2>1. IsRecursion(D, V, base, seqs, next, step, rank, n + 1)
    <3>1. seqs \in [D -> V] /\ next \in [D \ base -> D]
      BY <1>1
    <3>2. ASSUME NEW i \in D PROVE [v \in V |-> v \o seqs[i]] \in [V -> V]
      <4>1. \A v \in V : v \o seqs[i] \in V
        BY <1>1
      <4> HIDE DEF V
      <4> QED
        BY <4>1
    <3>3. step \in [D \ base -> [V -> V]]
      <4> HIDE DEF V, D
      <4> QED
        BY <3>2
    <3>4. rank \in [D -> Nat] /\ n + 1 \in Nat /\ \A i \in D : rank[i] < n + 1
      BY <1>1
    <3>5. \A i \in D \ base : rank[next[i]] < rank[i]
      BY <1>1
    <3> HIDE DEF D, V, base, next, step, rank
    <3> QED
      BY <3>1, <3>3, <3>4, <3>5 DEF IsRecursion
  <2>2. PICK f \in [D -> V] : Solves(f, D, base, seqs, next, step)
    <3> DEFINE m == n + 1
    <3> HIDE DEF D, V, base, next, step, rank, m
    <3> QED
      BY <2>1, LinearRecursion DEF m
  <2>3. ASSUME NEW i \in D
        PROVE  f[i] = IF i = 1 THEN seqs[i] ELSE f[i - 1] \o seqs[i]
    <3>1. f[i] = IF i \in base THEN seqs[i] ELSE step[i][f[next[i]]]
      BY <2>2 DEF Solves
    <3>2. i # 1 => next[i] = i - 1 /\ f[i - 1] \in V
      <4>1. i # 1 => i - 1 \in D
        BY <1>1
      <4> HIDE DEF V, D
      <4> QED
        BY <4>1
    <3> HIDE DEF V, D
    <3> QED
      BY <3>1, <3>2
  <2>4. IsFlat(f)
    <3> HIDE DEF D, V
    <3> QED
      BY <2>3
  <2> QED
    BY <2>4
<1>5. IsFlat(flat)
  <2> HIDE DEF IsFlat
  <2> QED
    BY <1>4
<1> HIDE DEF flat
<1>6. ASSUME NEW i \in D PROVE flat[i] = IF i = 1 THEN seqs[i] ELSE flat[i - 1] \o seqs[i]
  <2> HIDE DEF D
  <2> QED
    BY <1>5
<1> DEFINE g == [k \in 0..n |-> IF k = 0 THEN <<>> ELSE flat[k]]
           Q == {k \in 0..n : g[k] \in V /\ (k # 0 => g[k] = g[k - 1] \o seqs[k])}
<1>7. g[0] = <<>> /\ 0 \in Q
  <2>1. g[0] = <<>>
    BY <1>1
  <2>2. <<>> \in V
    OBVIOUS
  <2> QED
    BY <1>1, <2>1, <2>2
<1>8. ASSUME NEW k \in 1..n, k - 1 \in Q PROVE k \in Q
  <2>1. k \in 0..n /\ k - 1 \in 0..n /\ k # 0 /\ k \in D
    BY <1>1
  <2>2. g[k] = flat[k] /\ g[k - 1] \in V
    BY <1>8, <2>1
  <2>3. g[k] = g[k - 1] \o seqs[k]
    <3>1. CASE k = 1
      <4>1. g[k - 1] = <<>> /\ seqs[k] \in Seq(H)
        BY <1>1, <1>7, <3>1
      <4>2. <<>> \o seqs[k] = seqs[k]
        BY <4>1
      <4> QED
        BY <1>6, <2>1, <2>2, <3>1, <4>1, <4>2
    <3>2. CASE k # 1
      <4>1. k - 1 # 0
        BY <2>1, <3>2
      <4>2. g[k - 1] = flat[k - 1]
        BY <2>1, <4>1
      <4> QED
        BY <1>6, <2>1, <2>2, <3>2, <4>2
    <3> QED
      BY <3>1, <3>2
  <2>4. g[k] \in V
    <3> DEFINE e == g[k - 1]
               t == seqs[k]
    <3>1. g[k] = e \o t /\ e \in Seq(H) /\ t \in Seq(H)
      BY <1>1, <2>1, <2>2, <2>3
    <3> HIDE DEF e, t, g
    <3> QED
      BY <3>1
  <2> HIDE DEF g
  <2> QED
    BY <2>1, <2>3, <2>4
<1>9. \A k \in 0..n : k \in Q
  <2> HIDE DEF Q
  <2> QED
    BY <1>1, <1>7, <1>8, RangeInduction
<1>10. FlattenSeq(seqs) = g[n]
  BY <1>1, <1>2, <1>3
<1>11. g \in [0..n -> V] /\ \A k \in 1..n : g[k] = g[k - 1] \o seqs[k]
  <2>1. \A k \in 1..n : k \in 0..n /\ k # 0
    BY <1>1
  <2>2. g = [k \in 0..n |-> g[k]]
    OBVIOUS
  <2> HIDE DEF g, V
  <2>3. \A k \in 0..n : g[k] \in V
    BY <1>9
  <2>4. \A k \in 1..n : g[k] = g[k - 1] \o seqs[k]
    BY <1>9, <2>1
  <2> QED
    BY <2>2, <2>3, <2>4
<1> HIDE DEF g
<1> QED
  BY <1>7, <1>10, <1>11

(* Where F has the elements of the first m of seqs: e has the index at     *)
(* which each of them ends.                                                *)
Placed(F, seqs, m, e) ==
    /\ \A i \in 1..m : \A j \in 1..Len(seqs[i]) :
         e[i - 1] + j \in 1..Len(F) /\ F[e[i - 1] + j] = seqs[i][j]
    /\ \A k \in 1..Len(F) : \E i \in 1..m : \E j \in 1..Len(seqs[i]) : k = e[i - 1] + j

(* One more sequence is put behind the others.                             *)
LEMMA PlacedNext ==
    ASSUME NEW H, NEW seqs \in Seq(Seq(H)), NEW m \in 1..Len(seqs), NEW e, NEW F \in Seq(H),
           Placed(F, seqs, m - 1, e), e[m - 1] = Len(F)
    PROVE  Placed(F \o seqs[m], seqs, m, e)
<1> DEFINE t == seqs[m]
           G == F \o t
           l == Len(F)
<1>1. /\ t \in Seq(H) /\ l \in Nat /\ Len(t) \in Nat /\ Len(seqs) \in Nat
      /\ \A i \in 1..(m - 1) : i \in 1..m /\ i # m
      /\ \A i \in 1..m : i # m => i \in 1..(m - 1)
  OBVIOUS
<1>2. Len(G) = l + Len(t) /\ (\A k \in 1..l : G[k] = F[k]) /\ \A j \in 1..Len(t) : G[l + j] = t[j]
  <2> HIDE DEF t, l
  <2>1. t \in Seq(H) /\ F \in Seq(H)
    BY <1>1
  <2>2. Len(G) = Len(F) + Len(t) /\ (\A k \in 1..Len(F) : G[k] = F[k])
    BY <2>1
  <2>3. \A j \in 1..Len(t) : G[Len(F) + j] = t[j]
    BY <2>1
  <2> QED
    BY <2>2, <2>3 DEF l
<1> HIDE DEF G, t, l
<1>3. ASSUME NEW i \in 1..m, NEW j \in 1..Len(seqs[i])
      PROVE  e[i - 1] + j \in 1..Len(G) /\ G[e[i - 1] + j] = seqs[i][j]
  <2>1. CASE i = m
    <3>1. e[i - 1] = l /\ seqs[i] = t
      BY <2>1 DEF l, t
    <3>2. j \in 1..Len(t)
      BY <3>1
    <3>3. l + j \in 1..Len(G)
      BY <1>1, <1>2, <3>2
    <3> QED
      BY <1>2, <3>1, <3>2, <3>3
  <2>2. CASE i # m
    <3>1. e[i - 1] + j \in 1..l /\ F[e[i - 1] + j] = seqs[i][j]
      BY <1>1, <2>2 DEF Placed, l
    <3>2. l \in Nat /\ Len(t) \in Nat /\ Len(G) = l + Len(t) /\ e[i - 1] + j \in 1..l
      BY <1>1, <1>2, <3>1
    <3>3. e[i - 1] + j \in 1..Len(G)
      BY ONLY <3>2
    <3> QED
      BY <1>2, <3>1, <3>3
  <2> QED
    BY <2>1, <2>2
<1>4. ASSUME NEW k \in 1..Len(G)
      PROVE  \E i \in 1..m : \E j \in 1..Len(seqs[i]) : k = e[i - 1] + j
  <2>1. CASE k <= l
    <3>1. k \in 1..l
      BY <1>1, <1>2, <2>1
    <3>2. PICK i \in 1..(m - 1) : \E j \in 1..Len(seqs[i]) : k = e[i - 1] + j
      BY <3>1 DEF Placed, l
    <3> QED
      BY <1>1, <3>2
  <2>2. CASE ~(k <= l)
    <3>1. k - l \in 1..Len(t) /\ k = l + (k - l)
      BY <1>1, <1>2, <2>2
    <3>2. m \in 1..m /\ e[m - 1] = l /\ seqs[m] = t
      BY <1>1 DEF l, t
    <3> QED
      BY <3>1, <3>2
  <2> QED
    BY <2>1, <2>2
<1> QED
  BY <1>3, <1>4 DEF Placed, G, t

(* The ends of sequences that are put one after the other.                 *)
AreEnds(e, seqs) ==
    /\ e \in [0..Len(seqs) -> Nat] /\ e[0] = 0
    /\ \A i \in 1..Len(seqs) : e[i] = e[i - 1] + Len(seqs[i])

(* FlattenSeq has each element of each sequence, and nothing else.         *)
LEMMA FlattenPlaces ==
    ASSUME NEW H, NEW seqs \in Seq(Seq(H))
    PROVE  /\ FlattenSeq(seqs) \in Seq(H)
           /\ \E e : /\ AreEnds(e, seqs) /\ Placed(FlattenSeq(seqs), seqs, Len(seqs), e)
                    /\ Len(FlattenSeq(seqs)) = e[Len(seqs)]
<1> DEFINE n == Len(seqs)
<1>1. n \in Nat /\ 0 \in 0..n /\ n \in 0..n /\ \A i \in 1..n : seqs[i] \in Seq(H)
  OBVIOUS
<1>2. PICK g \in [0..n -> Seq(H)] :
        /\ g[0] = <<>> /\ FlattenSeq(seqs) = g[n]
        /\ \A k \in 1..n : g[k] = g[k - 1] \o seqs[k]
  BY FlattenSteps
<1> DEFINE e == [k \in 0..n |-> Len(g[k])]
           Q == {k \in 0..n : Placed(g[k], seqs, k, e)}
<1>3. \A k \in 1..n : k \in 0..n /\ k - 1 \in 0..n /\ g[k - 1] \in Seq(H)
  <2>1. \A k \in 1..n : k \in 0..n /\ k - 1 \in 0..n
    BY <1>1
  <2> QED
    BY <2>1
<1>4. AreEnds(e, seqs)
  <2>1. \A k \in 0..n : Len(g[k]) \in Nat
    <3>1. \A k \in 0..n : g[k] \in Seq(H)
      OBVIOUS
    <3> QED
      BY <3>1
  <2>2. e \in [0..n -> Nat]
    BY <2>1
  <2>3. e[0] = 0
    BY <1>1, <1>2
  <2>4. ASSUME NEW i \in 1..n PROVE e[i] = e[i - 1] + Len(seqs[i])
    <3> DEFINE u == g[i - 1]
               t == seqs[i]
    <3>1. u \in Seq(H) /\ t \in Seq(H) /\ g[i] = u \o t
      BY <1>1, <1>2, <1>3
    <3>2. e[i] = Len(g[i]) /\ e[i - 1] = Len(u)
      BY <1>3
    <3> HIDE DEF u, t, e
    <3>3. Len(g[i]) = Len(u) + Len(t)
      BY <3>1
    <3> QED
      BY <3>2, <3>3 DEF t
  <2> QED
    BY <2>2, <2>3, <2>4 DEF AreEnds
<1>5. 0 \in Q
  <2>1. Len(g[0]) = 0 /\ 1..0 = {}
    BY <1>2
  <2>2. Placed(g[0], seqs, 0, e)
    BY <2>1 DEF Placed
  <2> HIDE DEF e
  <2> QED
    BY <1>1, <2>2
<1>6. ASSUME NEW k \in 1..n, k - 1 \in Q PROVE k \in Q
  <2> DEFINE u == g[k - 1]
  <2>1. u \in Seq(H) /\ Placed(u, seqs, k - 1, e) /\ g[k] = u \o seqs[k]
    BY <1>2, <1>3, <1>6
  <2>2. e[k - 1] = Len(u)
    BY <1>3
  <2> HIDE DEF e, u
  <2>3. Placed(u \o seqs[k], seqs, k, e)
    BY <2>1, <2>2, PlacedNext
  <2> QED
    BY <1>3, <2>1, <2>3
<1>7. \A k \in 0..n : k \in Q
  <2> HIDE DEF Q
  <2> QED
    BY <1>1, <1>5, <1>6, RangeInduction
<1>8. Len(g[n]) = e[n]
  BY <1>1
<1> HIDE DEF e
<1>9. Placed(g[n], seqs, n, e) /\ g[n] \in Seq(H)
  BY <1>1, <1>7
<1> QED
  BY <1>2, <1>4, <1>8, <1>9

(* FlattenSeq has the elements of all.                                     *)
LEMMA FlattenMembers ==
    ASSUME NEW H, NEW seqs \in Seq(Seq(H))
    PROVE  /\ FlattenSeq(seqs) \in Seq(H)
           /\ ToSet(FlattenSeq(seqs)) = UNION {ToSet(seqs[i]) : i \in DOMAIN seqs}
<1> DEFINE F == FlattenSeq(seqs)
<1>1. F \in Seq(H) /\ \E e : AreEnds(e, seqs) /\ Placed(F, seqs, Len(seqs), e)
  BY FlattenPlaces
<1>2. PICK e : Placed(F, seqs, Len(seqs), e)
  BY <1>1
<1>3. /\ DOMAIN F = 1..Len(F) /\ DOMAIN seqs = 1..Len(seqs)
      /\ \A i \in DOMAIN seqs : DOMAIN seqs[i] = 1..Len(seqs[i])
  <2>1. \A i \in DOMAIN seqs : seqs[i] \in Seq(H)
    OBVIOUS
  <2> QED
    BY <1>1, <2>1
<1> HIDE DEF F
<1>4. ASSUME NEW x \in ToSet(F) PROVE \E i \in DOMAIN seqs : x \in ToSet(seqs[i])
  <2>1. PICK k \in 1..Len(F) : x = F[k]
    BY <1>3 DEF ToSet
  <2>2. PICK i \in 1..Len(seqs) : \E j \in 1..Len(seqs[i]) : k = e[i - 1] + j
    BY <1>2 DEF Placed
  <2>3. PICK j \in 1..Len(seqs[i]) : k = e[i - 1] + j
    BY <2>2
  <2>4. x = seqs[i][j]
    BY <1>2, <2>1, <2>3 DEF Placed
  <2> QED
    BY <1>3, <2>4 DEF ToSet
<1>5. ASSUME NEW i \in DOMAIN seqs, NEW x \in ToSet(seqs[i]) PROVE x \in ToSet(F)
  <2>1. PICK j \in 1..Len(seqs[i]) : x = seqs[i][j]
    BY <1>3 DEF ToSet
  <2>2. i \in 1..Len(seqs)
    BY <1>3
  <2>3. e[i - 1] + j \in 1..Len(F) /\ F[e[i - 1] + j] = x
    BY <1>2, <2>1, <2>2 DEF Placed
  <2> QED
    BY <1>3, <2>3 DEF ToSet
<1> QED
  BY <1>1, <1>4, <1>5 DEF F

--------------------------------------------------------------------------------
(* Content indexes: blocks, and chunks that are each in one of them *)

(* What a content has is typed.                                            *)
LEMMA ChunksAreTyped ==
    ASSUME NEW ci, IsContent(ci)
    PROVE  /\ Len(ci.chunks) \in Nat /\ DOMAIN ci.chunks = 1..Len(ci.chunks)
           /\ Len(ci.blocks) \in Nat /\ DOMAIN ci.blocks = 1..Len(ci.blocks)
           /\ \A i \in DOMAIN ci.chunks : ci.chunks[i].hash \in Nat /\ ci.chunks[i].block \in Nat
           /\ \A b \in DOMAIN ci.blocks : ci.blocks[b] \in Seq(Nat)
<1> DEFINE s == ci.chunks
           t == ci.blocks
           R == [hash : Nat, block : Nat]
<1>1. s \in Seq(R) /\ t \in Seq(Seq(Nat))
  BY DEF IsContent
<1> HIDE DEF s, t
<1>2. Len(t) \in Nat /\ DOMAIN t = 1..Len(t) /\ \A b \in DOMAIN t : t[b] \in Seq(Nat)
  BY <1>1
<1>3. Len(s) \in Nat /\ DOMAIN s = 1..Len(s) /\ \A i \in DOMAIN s : s[i] \in R
  <2> HIDE DEF R
  <2> QED
    BY <1>1
<1>4. \A i \in DOMAIN s : s[i].hash \in Nat /\ s[i].block \in Nat
  BY <1>3
<1> QED
  BY <1>2, <1>3, <1>4 DEF s, t

(* The first index of a set of indexes.                                    *)
LEMMA FirstIndex ==
    ASSUME NEW n \in Nat, NEW I \in SUBSET (1..n), I # {}
    PROVE  Min(I) \in I /\ \A k \in I : Min(I) <= k
<1>1. I \in SUBSET Nat
  OBVIOUS
<1>2. \E x \in I : \A y \in I : x <= y
  BY <1>1, LeastNumber
<1> QED
  BY <1>2 DEF Min

(* The index of a member of a sequence.                                    *)
LEMMA IndexOf ==
    ASSUME NEW H, NEW s \in Seq(H), NEW x \in ToSet(s)
    PROVE  LET k == IndexIn(s, x)
           IN  k \in DOMAIN s /\ s[k] = x /\ \A j \in DOMAIN s : s[j] = x => k <= j
<1> DEFINE I == {i \in 1..Len(s) : s[i] = x}
           k == IndexIn(s, x)
<1>1. Len(s) \in Nat /\ DOMAIN s = 1..Len(s)
  OBVIOUS
<1>2. I \in SUBSET (1..Len(s)) /\ I # {}
  BY <1>1 DEF ToSet
<1>3. Min(I) \in I /\ \A j \in I : Min(I) <= j
  <2> HIDE DEF I
  <2> QED
    BY <1>1, <1>2, FirstIndex
<1>4. k = Min(I)
  BY <1>2 DEF IndexIn, SelectInSeq
<1> QED
  BY <1>1, <1>3, <1>4

(* The blocks of chunks are blocks.                                        *)
LEMMA BlocksOfChunks ==
    ASSUME NEW ci, IsContent(ci), NEW i \in DOMAIN ci.chunks
    PROVE  BlockHashAt(ci, i) \in Seq(Nat) /\ BlockHashAt(ci, i) \in ToSet(ci.blocks)
<1>1. ci.chunks[i].block \in DOMAIN ci.blocks /\ ci.blocks \in Seq(Seq(Nat))
  BY DEF IsContent
<1> QED
  BY <1>1 DEF BlockHashAt, ToSet

(* Two content indexes say the same of a chunk each.                       *)
SameChunk(ci, i, new, k) ==
    new.chunks[k].hash = ci.chunks[i].hash /\ BlockHashAt(new, k) = BlockHashAt(ci, i)

(* The blocks of some chunks are among these.                              *)
AreBlocksOf(blocks, ci, S) == \A i \in S : BlockHashAt(ci, i) \in ToSet(blocks)

(* The chunks new has first are those at the indexes of ci.                *)
ListsChunks(new, ci, indexes) ==
    \A k \in DOMAIN indexes : SameChunk(ci, indexes[k], new, k)

(* Some chunks of a content, listed with blocks that have theirs.          *)
LEMMA ListedChunks ==
    ASSUME NEW ci, IsContent(ci), NEW S, NEW indexes \in Seq(S), S \subseteq DOMAIN ci.chunks,
           NEW blocks \in Seq(Seq(Nat)), AreBlocksOf(blocks, ci, S),
           NEW new, new.blocks = blocks, new.chunks = ListChunks(ci, indexes, blocks)
    PROVE  /\ IsContent(new)
           /\ DOMAIN new.chunks = DOMAIN indexes
           /\ ListsChunks(new, ci, indexes)
<1>1. DOMAIN new.chunks = DOMAIN indexes /\ DOMAIN indexes = 1..Len(indexes) /\ Len(indexes) \in Nat
  BY DEF ListChunks
<1>2. \A i \in DOMAIN ci.chunks : ci.chunks[i].hash \in Nat
  BY ChunksAreTyped
<1>3. ASSUME NEW k \in DOMAIN indexes
      PROVE  /\ new.chunks[k].hash \in Nat /\ new.chunks[k].block \in DOMAIN new.blocks
             /\ SameChunk(ci, indexes[k], new, k)
  <2> DEFINE i == indexes[k]
             h == BlockHashAt(ci, i)
             n == IndexIn(blocks, h)
  <2>1. i \in S /\ i \in DOMAIN ci.chunks
    BY <1>1
  <2>2. h \in ToSet(blocks) /\ ci.chunks[i].hash \in Nat
    BY <1>2, <2>1 DEF AreBlocksOf
  <2>3. n \in DOMAIN blocks /\ blocks[n] = h
    <3> HIDE DEF h
    <3> QED
      BY <2>2, IndexOf
  <2>4. new.chunks[k].hash = ci.chunks[i].hash /\ new.chunks[k].block = n
    BY DEF ListChunks
  <2>5. BlockHashAt(new, k) = blocks[n]
    BY <2>4 DEF BlockHashAt
  <2> HIDE DEF n, i, h
  <2> QED
    BY <2>2, <2>3, <2>4, <2>5 DEF SameChunk, h, i
<1>4. new.chunks \in Seq([hash : Nat, block : Nat])
  <2> DEFINE R == [hash : Nat, block : Nat]
             n == Len(indexes)
  <2>1. \A k \in 1..n : [hash |-> ci.chunks[indexes[k]].hash,
                         block |-> IndexIn(blocks, BlockHashAt(ci, indexes[k]))] \in R
    <3> TAKE k \in 1..n
    <3>1. k \in DOMAIN indexes
      BY <1>1
    <3>2. new.chunks[k] = [hash |-> ci.chunks[indexes[k]].hash,
                           block |-> IndexIn(blocks, BlockHashAt(ci, indexes[k]))]
      BY <3>1 DEF ListChunks
    <3>3. new.chunks[k].hash \in Nat /\ new.chunks[k].block \in Nat
      BY <1>3, <3>1
    <3> QED
      BY <3>2, <3>3
  <2>2. new.chunks \in [1..n -> R]
    <3> HIDE DEF R
    <3> QED
      BY <1>1, <2>1 DEF ListChunks
  <2> HIDE DEF R, n
  <2>3. n \in Nat
    BY <1>1 DEF n
  <2>4. new.chunks \in Seq(R)
    BY <2>2, <2>3, SequenceOf
  <2> QED
    BY <2>4 DEF R
<1> QED
  BY <1>1, <1>3, <1>4 DEF IsContent, ListsChunks

(* The content index of some chunks of a content names the blocks of them. *)
LEMMA KeptChunks ==
    ASSUME NEW ci, IsContent(ci), NEW S, NEW indexes \in Seq(S), S \subseteq DOMAIN ci.chunks,
           ToSet(indexes) = S, NEW new, new = KeepChunks(ci, indexes)
    PROVE  /\ IsContent(new)
           /\ DOMAIN new.chunks = DOMAIN indexes
           /\ ListsChunks(new, ci, indexes)
           /\ ToSet(new.blocks) = {BlockHashAt(ci, i) : i \in S}
           /\ Distinct(new.blocks)
<1> DEFINE named == [k \in DOMAIN indexes |-> BlockHashAt(ci, indexes[k])]
           blocks == UniqueHashes(named)
<1>1. DOMAIN indexes = 1..Len(indexes) /\ Len(indexes) \in Nat
  OBVIOUS
<1>2. \A k \in DOMAIN indexes : indexes[k] \in S /\ BlockHashAt(ci, indexes[k]) \in Seq(Nat)
  BY BlocksOfChunks
<1>3. named \in Seq(Seq(Nat))
  BY <1>1, <1>2
<1>4. ToSet(named) = {BlockHashAt(ci, i) : i \in S}
  <2>1. S = {indexes[k] : k \in DOMAIN indexes}
    BY DEF ToSet
  <2> QED
    BY <2>1 DEF ToSet
<1>5. blocks \in Seq(Seq(Nat)) /\ ToSet(blocks) = ToSet(named) /\ Distinct(blocks)
  <2> HIDE DEF named
  <2> QED
    BY <1>3, UniqueMembers
<1>6. new.blocks = blocks
  BY DEF KeepChunks
<1>7. new.chunks = ListChunks(ci, indexes, blocks)
  BY DEF KeepChunks
<1> HIDE DEF blocks, named
<1>8. AreBlocksOf(blocks, ci, S)
  BY <1>4, <1>5 DEF AreBlocksOf
<1>9. /\ IsContent(new) /\ DOMAIN new.chunks = DOMAIN indexes
      /\ ListsChunks(new, ci, indexes)
  BY <1>5, <1>6, <1>7, <1>8, ListedChunks
<1> QED
  BY <1>4, <1>5, <1>6, <1>9

(* What is listed of blocks: each chunk where its block has it, from the   *)
(* ends e of the blocks before it.                                         *)
ListsAt(ci, k, h, b) ==
    k \in DOMAIN ci.chunks /\ ci.chunks[k].hash = h /\ ci.chunks[k].block = b
ListsBlocks(ci, blocks, e) ==
    /\ AreEnds(e, blocks)
    /\ \A b \in DOMAIN blocks : \A j \in DOMAIN blocks[b] :
         ListsAt(ci, e[b - 1] + j, blocks[b][j], b)
    /\ \A k \in DOMAIN ci.chunks : \E b \in DOMAIN blocks : \E j \in DOMAIN blocks[b] :
         k = e[b - 1] + j /\ ListsAt(ci, k, blocks[b][j], b)

(* The content index of some blocks.                                       *)
LEMMA ContentOfBlocks ==
    ASSUME NEW blocks \in Seq(Seq(Nat)), NEW ci, ci = ContentIndexFromBlocks(blocks)
    PROVE  IsContent(ci) /\ ci.blocks = blocks /\ \E e : ListsBlocks(ci, blocks, e)
<1> DEFINE R == [hash : Nat, block : Nat]
           Chunks(b) == [i \in DOMAIN blocks[b] |-> [hash |-> blocks[b][i], block |-> b]]
           seqs == [b \in DOMAIN blocks |-> Chunks(b)]
           F == FlattenSeq(seqs)
<1>1. /\ Len(blocks) \in Nat /\ DOMAIN blocks = 1..Len(blocks)
      /\ \A b \in DOMAIN blocks : b \in Nat /\ blocks[b] \in Seq(Nat)
  OBVIOUS
<1>2. ASSUME NEW b \in DOMAIN blocks
      PROVE  /\ Chunks(b) \in Seq(R) /\ Len(Chunks(b)) = Len(blocks[b])
             /\ DOMAIN blocks[b] = 1..Len(blocks[b])
             /\ \A j \in 1..Len(blocks[b]) : Chunks(b)[j] = [hash |-> blocks[b][j], block |-> b]
  <2> DEFINE t == blocks[b]
             u == [i \in DOMAIN t |-> [hash |-> t[i], block |-> b]]
  <2>1. t \in Seq(Nat) /\ b \in Nat /\ u = Chunks(b)
    BY <1>1
  <2> HIDE DEF t, Chunks
  <2>2. DOMAIN t = 1..Len(t) /\ Len(t) \in Nat /\ \A i \in DOMAIN t : t[i] \in Nat
    BY <2>1
  <2>3. u \in [1..Len(t) -> R]
    BY <2>1, <2>2
  <2>4. u \in Seq(R) /\ Len(u) = Len(t)
    <3> DEFINE n == Len(t)
    <3> HIDE DEF u, R, n
    <3>1. n \in Nat /\ u \in [1..n -> R]
      BY <2>2, <2>3 DEF n
    <3> QED
      BY <3>1, SequenceOf DEF n
  <2>5. \A j \in 1..Len(t) : u[j] = [hash |-> t[j], block |-> b]
    BY <2>2
  <2> HIDE DEF u, R
  <2> QED
    BY <2>1, <2>2, <2>4, <2>5 DEF t
<1>3. seqs \in Seq(Seq(R)) /\ Len(seqs) = Len(blocks) /\ DOMAIN seqs = DOMAIN blocks
  <2> HIDE DEF Chunks, R
  <2> DEFINE n == Len(blocks)
             V == Seq(R)
  <2>1. \A b \in 1..n : Chunks(b) \in V
    BY <1>1, <1>2
  <2>2. n \in Nat /\ DOMAIN blocks = 1..n
    BY <1>1
  <2> HIDE DEF V, n
  <2>3. seqs \in [1..n -> V]
    BY <2>1, <2>2
  <2> HIDE DEF seqs
  <2>4. seqs \in Seq(V) /\ Len(seqs) = n /\ DOMAIN seqs = 1..n
    BY <2>2, <2>3, SequenceOf
  <2> QED
    BY <2>2, <2>4 DEF n, V
<1>4. PICK e : F \in Seq(R) /\ AreEnds(e, seqs) /\ Placed(F, seqs, Len(seqs), e)
  <2> HIDE DEF R, seqs
  <2> QED
    BY <1>3, FlattenPlaces
<1>5. ci.blocks = blocks /\ ci.chunks = F
  BY DEF ContentIndexFromBlocks
<1>6. \A b \in DOMAIN blocks : /\ seqs[b] = Chunks(b)
                               /\ Len(seqs[b]) = Len(blocks[b])
  <2> HIDE DEF Chunks
  <2> QED
    BY <1>2
<1>7. DOMAIN F = 1..Len(F)
  <2> HIDE DEF F, R
  <2> QED
    BY <1>4
<1> HIDE DEF F, seqs, Chunks
<1>8. AreEnds(e, blocks)
  BY <1>1, <1>3, <1>4, <1>6 DEF AreEnds
<1>9. ASSUME NEW b \in DOMAIN blocks, NEW j \in DOMAIN blocks[b]
      PROVE  ListsAt(ci, e[b - 1] + j, blocks[b][j], b)
  <2>1. b \in 1..Len(seqs) /\ j \in 1..Len(seqs[b]) /\ j \in 1..Len(blocks[b])
    BY <1>1, <1>2, <1>3, <1>6
  <2>2. e[b - 1] + j \in 1..Len(F) /\ F[e[b - 1] + j] = seqs[b][j]
    BY <1>4, <2>1 DEF Placed
  <2>3. seqs[b][j] = [hash |-> blocks[b][j], block |-> b]
    BY <1>2, <1>6, <2>1
  <2> QED
    BY <1>5, <1>7, <2>2, <2>3 DEF ListsAt
<1>10. ASSUME NEW k \in DOMAIN F
       PROVE  \E b \in DOMAIN blocks : \E j \in DOMAIN blocks[b] :
                k = e[b - 1] + j /\ ListsAt(ci, k, blocks[b][j], b)
  <2>1. PICK b \in 1..Len(seqs) : \E j \in 1..Len(seqs[b]) : k = e[b - 1] + j
    BY <1>4, <1>7 DEF Placed
  <2>2. PICK j \in 1..Len(seqs[b]) : k = e[b - 1] + j
    BY <2>1
  <2>3. b \in DOMAIN blocks /\ j \in DOMAIN blocks[b]
    BY <1>1, <1>2, <1>3, <1>6
  <2> QED
    BY <1>9, <2>2, <2>3
<1>11. ListsBlocks(ci, blocks, e)
  BY <1>5, <1>8, <1>9, <1>10 DEF ListsBlocks
<1>12. \A k \in DOMAIN F : F[k].block \in DOMAIN blocks
  <2> TAKE k \in DOMAIN F
  <2>1. PICK b \in DOMAIN blocks : \E j \in DOMAIN blocks[b] : ListsAt(ci, k, blocks[b][j], b)
    BY <1>10
  <2> QED
    BY <1>5, <2>1 DEF ListsAt
<1> QED
  BY <1>4, <1>5, <1>11, <1>12 DEF IsContent

(* Its chunks are those of the blocks.                                     *)
LEMMA ChunksOfBlocks ==
    ASSUME NEW blocks \in Seq(Seq(Nat)), NEW ci, ci = ContentIndexFromBlocks(blocks)
    PROVE  /\ \A i \in DOMAIN ci.chunks : ci.chunks[i].hash \in ToSet(BlockHashAt(ci, i))
           /\ \A b \in DOMAIN blocks : \A h \in ToSet(blocks[b]) :
                \E i \in DOMAIN ci.chunks : ListsAt(ci, i, h, b)
<1>1. ci.blocks = blocks /\ \E e : ListsBlocks(ci, blocks, e)
  BY ContentOfBlocks
<1>2. PICK e : ListsBlocks(ci, blocks, e)
  BY <1>1
<1>3. ASSUME NEW i \in DOMAIN ci.chunks PROVE ci.chunks[i].hash \in ToSet(BlockHashAt(ci, i))
  <2>1. PICK b \in DOMAIN blocks : \E j \in DOMAIN blocks[b] : ListsAt(ci, i, blocks[b][j], b)
    BY <1>2 DEF ListsBlocks
  <2>2. BlockHashAt(ci, i) = blocks[b]
    BY <1>1, <2>1 DEF BlockHashAt, ListsAt
  <2> QED
    BY <2>1, <2>2 DEF ToSet, ListsAt
<1>4. ASSUME NEW b \in DOMAIN blocks, NEW h \in ToSet(blocks[b])
      PROVE  \E i \in DOMAIN ci.chunks : ListsAt(ci, i, h, b)
  <2>1. PICK j \in DOMAIN blocks[b] : h = blocks[b][j]
    BY DEF ToSet
  <2>2. ListsAt(ci, e[b - 1] + j, h, b)
    BY <1>2, <2>1 DEF ListsBlocks
  <2> QED
    BY <2>2 DEF ListsAt
<1> QED
  BY <1>3, <1>4

(* Blocks that are not empty: the chunks are listed block by block.        *)
LEMMA BlocksAreGrouped ==
    ASSUME NEW blocks \in Seq(Seq(Nat)), NEW ci, ci = ContentIndexFromBlocks(blocks),
           \A b \in DOMAIN blocks : blocks[b] # <<>>
    PROVE  Grouped(ci)
<1>1. IsContent(ci) /\ ci.blocks = blocks /\ \E e : ListsBlocks(ci, blocks, e)
  BY ContentOfBlocks
<1>2. PICK e : ListsBlocks(ci, blocks, e)
  BY <1>1
<1>3. Len(blocks) \in Nat /\ DOMAIN blocks = 1..Len(blocks)
  OBVIOUS
<1>4. \A b \in DOMAIN blocks : Len(blocks[b]) \in Nat /\ Len(blocks[b]) >= 1
  <2> TAKE b \in DOMAIN blocks
  <2> DEFINE t == blocks[b]
  <2>1. t \in Seq(Nat) /\ t # <<>>
    OBVIOUS
  <2> HIDE DEF t
  <2>2. Len(t) \in Nat /\ Len(t) # 0
    BY <2>1
  <2> QED
    BY <2>2 DEF t
<1>5. e[0] = 0 /\ \A b \in 1..Len(blocks) : /\ e[b - 1] \in Nat
                                             /\ e[b] = e[b - 1] + Len(blocks[b])
  <2>1. \A b \in 1..Len(blocks) : b - 1 \in 0..Len(blocks)
    BY <1>3
  <2> QED
    BY <1>1, <1>2, <2>1 DEF ListsBlocks, AreEnds
<1>6. ASSUME NEW b \in DOMAIN blocks, NEW j \in DOMAIN blocks[b]
      PROVE  ListsAt(ci, e[b - 1] + j, blocks[b][j], b)
  BY <1>2 DEF ListsBlocks
<1>7. \A b \in DOMAIN blocks : DOMAIN blocks[b] = 1..Len(blocks[b])
  <2>1. \A b \in DOMAIN blocks : blocks[b] \in Seq(Nat)
    OBVIOUS
  <2> QED
    BY <2>1
<1>8. ASSUME NEW k \in DOMAIN ci.chunks
      PROVE  \/ k = 1 /\ ci.chunks[k].block = 1
             \/ k - 1 \in DOMAIN ci.chunks /\
                  ci.chunks[k].block \in {ci.chunks[k - 1].block, ci.chunks[k - 1].block + 1}
  <2>1. PICK b \in DOMAIN blocks : \E j \in DOMAIN blocks[b] :
          k = e[b - 1] + j /\ ListsAt(ci, k, blocks[b][j], b)
    BY <1>2 DEF ListsBlocks
  <2>2. PICK j \in DOMAIN blocks[b] : k = e[b - 1] + j /\ ListsAt(ci, k, blocks[b][j], b)
    BY <2>1
  <2>3. /\ ci.chunks[k].block = b /\ b \in 1..Len(blocks) /\ e[b - 1] \in Nat
        /\ j \in 1..Len(blocks[b])
    BY <1>3, <1>5, <1>7, <2>2 DEF ListsAt
  <2>4. CASE j # 1
    <3>1. j - 1 \in 1..Len(blocks[b]) /\ k - 1 = e[b - 1] + (j - 1)
      <4> DEFINE m == Len(blocks[b])
                 o == e[b - 1]
      <4>1. m \in Nat /\ j \in 1..m /\ o \in Nat /\ k = o + j
        BY <1>4, <2>2, <2>3
      <4> HIDE DEF m, o
      <4>2. j - 1 \in 1..m /\ k - 1 = o + (j - 1)
        BY <2>4, <4>1
      <4> QED
        BY <4>2 DEF m, o
    <3> DEFINE i == j - 1
    <3>2. i \in DOMAIN blocks[b]
      BY <1>7, <3>1
    <3> HIDE DEF i
    <3>3. ListsAt(ci, e[b - 1] + i, blocks[b][i], b)
      BY <1>6, <3>2
    <3>4. ListsAt(ci, k - 1, blocks[b][i], b)
      BY <3>1, <3>3 DEF i
    <3> QED
      BY <2>3, <3>4 DEF ListsAt
  <2>5. CASE j = 1 /\ b = 1
    <3>1. e[b - 1] = 0
      BY <1>5, <2>5
    <3> QED
      BY <2>2, <2>3, <2>5, <3>1
  <2>6. CASE j = 1 /\ b # 1
    <3>1. b - 1 \in 1..Len(blocks) /\ (b - 1) - 1 = b - 2 /\ (b - 1) + 1 = b
      <4>1. b \in 1..Len(blocks) /\ b # 1 /\ Len(blocks) \in Nat
        BY <1>3, <2>3, <2>6
      <4> QED
        BY ONLY <4>1
    <3> DEFINE c == b - 1
               l == Len(blocks[c])
    <3>2. e[c] = e[c - 1] + l /\ l \in 1..l /\ e[c - 1] \in Nat
      <4>1. c \in DOMAIN blocks
        BY <1>3, <3>1
      <4>2. l \in Nat /\ l >= 1
        BY <1>4, <4>1
      <4> HIDE DEF l, c
      <4>3. c \in 1..Len(blocks)
        BY <1>3, <4>1
      <4>4. e[c] = e[c - 1] + l /\ e[c - 1] \in Nat
        BY ONLY <1>5, <4>3 DEF l
      <4>5. l \in 1..l
        BY ONLY <4>2
      <4> QED
        BY <4>4, <4>5
    <3>3. k - 1 = e[c - 1] + l
      <4>1. k = e[c] + 1 /\ e[c] \in Nat
        BY <2>2, <2>3, <2>6
      <4> HIDE DEF c, l
      <4> QED
        BY <3>2, <4>1
    <3>4. c \in DOMAIN blocks /\ DOMAIN blocks[c] = 1..l
      BY <1>3, <1>7, <3>1
    <3> HIDE DEF l, c
    <3>5. ListsAt(ci, e[c - 1] + l, blocks[c][l], c)
      BY <1>6, <3>2, <3>4
    <3>6. ListsAt(ci, k - 1, blocks[c][l], c)
      BY <3>3, <3>5
    <3> QED
      BY <2>3, <3>1, <3>6 DEF c, ListsAt
  <2> QED
    BY <2>4, <2>5, <2>6
<1>9. DOMAIN ci.chunks = 1..Len(ci.chunks) /\ Len(ci.chunks) \in Nat
  BY <1>1, ChunksAreTyped
<1>10. ci.chunks # <<>> => ci.chunks[1].block = 1
  <2> DEFINE s == ci.chunks
  <2>1. s \in Seq([hash : Nat, block : Nat])
    BY <1>1 DEF IsContent
  <2> HIDE DEF s
  <2>2. s # <<>> => 1 \in DOMAIN s
    <3> DEFINE R == [hash : Nat, block : Nat]
    <3> HIDE DEF R
    <3>1. s \in Seq(R)
      BY <2>1 DEF R
    <3> QED
      BY <3>1
  <2>3. 1 - 1 \notin DOMAIN s
    BY <1>9 DEF s
  <2> QED
    BY <1>8, <2>2, <2>3 DEF s
<1>11. ASSUME NEW i \in 2..Len(ci.chunks)
       PROVE  ci.chunks[i].block \in {ci.chunks[i - 1].block, ci.chunks[i - 1].block + 1}
  <2>1. i \in DOMAIN ci.chunks /\ i # 1
    BY <1>9
  <2> QED
    BY <1>8, <2>1
<1> QED
  BY <1>10, <1>11 DEF Grouped

(* Blocks that have no chunk in common and none twice: no chunk is listed  *)
(* twice, and no block.                                                    *)
LEMMA BlocksAreCompact ==
    ASSUME NEW blocks \in Seq(Seq(Nat)), NEW ci, ci = ContentIndexFromBlocks(blocks),
           \A b \in DOMAIN blocks : blocks[b] # <<>>,
           \A b, c \in DOMAIN blocks : \A i \in DOMAIN blocks[b] : \A j \in DOMAIN blocks[c] :
             blocks[b][i] = blocks[c][j] => b = c /\ i = j
    PROVE  Compact(ci)
<1>1. IsContent(ci) /\ ci.blocks = blocks /\ \E e : ListsBlocks(ci, blocks, e)
  BY ContentOfBlocks
<1>2. PICK e : ListsBlocks(ci, blocks, e)
  BY <1>1
<1>3. \A b \in DOMAIN blocks : DOMAIN blocks[b] = 1..Len(blocks[b]) /\ 1 \in DOMAIN blocks[b]
  <2> TAKE b \in DOMAIN blocks
  <2> DEFINE t == blocks[b]
  <2>1. t \in Seq(Nat) /\ t # <<>>
    OBVIOUS
  <2> HIDE DEF t
  <2>2. DOMAIN t = 1..Len(t) /\ 1 \in DOMAIN t
    BY <2>1
  <2> QED
    BY <2>2 DEF t
<1>4. ASSUME NEW k \in DOMAIN ci.chunks
      PROVE  \E b \in DOMAIN blocks : \E j \in DOMAIN blocks[b] :
               k = e[b - 1] + j /\ ci.chunks[k].hash = blocks[b][j]
  BY <1>2 DEF ListsBlocks, ListsAt
<1>5. ASSUME NEW k \in DOMAIN ci.chunks, NEW l \in DOMAIN ci.chunks,
             ci.chunks[k].hash = ci.chunks[l].hash
      PROVE  k = l
  <2>1. PICK b \in DOMAIN blocks : \E j \in DOMAIN blocks[b] :
          k = e[b - 1] + j /\ ci.chunks[k].hash = blocks[b][j]
    BY <1>4
  <2>2. PICK i \in DOMAIN blocks[b] : k = e[b - 1] + i /\ ci.chunks[k].hash = blocks[b][i]
    BY <2>1
  <2>3. PICK c \in DOMAIN blocks : \E j \in DOMAIN blocks[c] :
          l = e[c - 1] + j /\ ci.chunks[l].hash = blocks[c][j]
    BY <1>4
  <2>4. PICK j \in DOMAIN blocks[c] : l = e[c - 1] + j /\ ci.chunks[l].hash = blocks[c][j]
    BY <2>3
  <2>5. blocks[b][i] = blocks[c][j]
    BY <1>5, <2>2, <2>4
  <2>6. b = c /\ i = j
    BY <2>5
  <2> QED
    BY <2>2, <2>4, <2>6
<1>6. \A b, c \in DOMAIN blocks : blocks[b] = blocks[c] => b = c
  BY <1>3
<1>7. \A b \in DOMAIN blocks : \E i \in DOMAIN ci.chunks : ci.chunks[i].block = b
  <2> TAKE b \in DOMAIN blocks
  <2>1. ListsAt(ci, e[b - 1] + 1, blocks[b][1], b)
    BY <1>2, <1>3 DEF ListsBlocks
  <2> QED
    BY <2>1 DEF ListsAt
<1> QED
  BY <1>1, <1>5, <1>6, <1>7 DEF Compact

(* The chunks at some indexes, in order.                                   *)
LEMMA IndexesInOrder ==
    ASSUME NEW ci, IsContent(ci), NEW S \in SUBSET DOMAIN ci.chunks
    PROVE  InOrder(S) \in Seq(S) /\ ToSet(InOrder(S)) = S /\ Distinct(InOrder(S))
<1>1. Len(ci.chunks) \in Nat /\ DOMAIN ci.chunks = 1..Len(ci.chunks)
  BY ChunksAreTyped
<1>2. S \in SUBSET Nat /\ IsFiniteSet(S)
  BY <1>1, IndexesAreFinite
<1> QED
  BY <1>2, OrderMembers

(* What a content says of the chunks at some indexes.                      *)
PairsAt(ci, S) == {<<ci.chunks[i].hash, BlockHashAt(ci, i)>> : i \in S}
HashesAt(ci, S) == {ci.chunks[i].hash : i \in S}
AllHashes(ci) == ToSet(ChunkHashes(ci))

LEMMA AllAt ==
    ASSUME NEW ci
    PROVE  /\ Pairs(ci) = PairsAt(ci, DOMAIN ci.chunks)
           /\ AllHashes(ci) = HashesAt(ci, DOMAIN ci.chunks)
           /\ \A h : HasChunk(ci, h) <=> h \in AllHashes(ci)
<1>1. Pairs(ci) = PairsAt(ci, DOMAIN ci.chunks)
  BY DEF Pairs, PairsAt
<1>2. AllHashes(ci) = HashesAt(ci, DOMAIN ci.chunks)
  BY DEF AllHashes, HashesAt, ToSet, ChunkHashes
<1>3. \A h : HasChunk(ci, h) <=> h \in AllHashes(ci)
  BY DEF HasChunk, AllHashes
<1> QED
  BY <1>1, <1>2, <1>3

(* Listed chunks say what they said.                                       *)
LEMMA ListedPairs ==
    ASSUME NEW ci, NEW new, NEW indexes, NEW S, ToSet(indexes) = S,
           DOMAIN new.chunks = DOMAIN indexes, ListsChunks(new, ci, indexes)
    PROVE  Pairs(new) = PairsAt(ci, S) /\ AllHashes(new) = HashesAt(ci, S)
<1>1. S = {indexes[k] : k \in DOMAIN indexes}
  BY DEF ToSet
<1>2. \A k \in DOMAIN indexes : /\ new.chunks[k].hash = ci.chunks[indexes[k]].hash
                                /\ BlockHashAt(new, k) = BlockHashAt(ci, indexes[k])
  BY DEF ListsChunks, SameChunk
<1>3. PairsAt(new, DOMAIN indexes) = PairsAt(ci, S)
  BY <1>1, <1>2 DEF PairsAt
<1>4. HashesAt(new, DOMAIN indexes) = HashesAt(ci, S)
  BY <1>1, <1>2 DEF HashesAt
<1> QED
  BY <1>3, <1>4, AllAt

(* The chunks a set of indexes names once each.                            *)
OnceEach(ci, S) == \A i, j \in S : ci.chunks[i].hash = ci.chunks[j].hash => i = j

(* KeepChunks keeps what it is told to, and nothing twice that is not.     *)
LEMMA KeepsChunks ==
    ASSUME NEW ci, IsContent(ci), NEW S \in SUBSET DOMAIN ci.chunks,
           NEW new, new = KeepChunks(ci, InOrder(S))
    PROVE  /\ IsContent(new)
           /\ Pairs(new) = PairsAt(ci, S) /\ AllHashes(new) = HashesAt(ci, S)
           /\ ToSet(new.blocks) = {BlockHashAt(ci, i) : i \in S}
           /\ Distinct(new.blocks)
           /\ OnceEach(ci, S) => Compact(new)
<1> DEFINE indexes == InOrder(S)
<1>1. indexes \in Seq(S) /\ ToSet(indexes) = S /\ Distinct(indexes)
  BY IndexesInOrder
<1> HIDE DEF indexes
<1>2. new = KeepChunks(ci, indexes)
  BY DEF indexes
<1>3. /\ IsContent(new) /\ DOMAIN new.chunks = DOMAIN indexes
      /\ ListsChunks(new, ci, indexes)
      /\ ToSet(new.blocks) = {BlockHashAt(ci, i) : i \in S} /\ Distinct(new.blocks)
  BY <1>1, <1>2, KeptChunks
<1>4. Pairs(new) = PairsAt(ci, S) /\ AllHashes(new) = HashesAt(ci, S)
  BY <1>1, <1>3, ListedPairs
<1>5. ASSUME OnceEach(ci, S) PROVE Compact(new)
  <2>1. \A k \in DOMAIN indexes : indexes[k] \in S
    BY <1>1
  <2>2. \A i, j \in DOMAIN new.chunks : new.chunks[i].hash = new.chunks[j].hash => i = j
    BY <1>1, <1>3, <1>5, <2>1 DEF OnceEach, ListsChunks, SameChunk, Distinct
  <2>3. ASSUME NEW b \in DOMAIN new.blocks
        PROVE  \E i \in DOMAIN new.chunks : new.chunks[i].block = b
    <3>1. new.blocks[b] \in ToSet(new.blocks)
      BY DEF ToSet
    <3>2. PICK i \in S : new.blocks[b] = BlockHashAt(ci, i)
      BY <1>3, <3>1
    <3>3. PICK k \in DOMAIN indexes : i = indexes[k]
      BY <1>1 DEF ToSet
    <3>4. BlockHashAt(new, k) = new.blocks[b]
      BY <1>3, <3>2, <3>3 DEF ListsChunks, SameChunk
    <3>5. new.chunks[k].block \in DOMAIN new.blocks /\ k \in DOMAIN new.chunks
      BY <1>3, <3>3 DEF IsContent
    <3>6. new.chunks[k].block = b
      BY <1>3, <3>4, <3>5 DEF BlockHashAt, Distinct
    <3> QED
      BY <3>5, <3>6
  <2> QED
    BY <1>3, <2>2, <2>3 DEF Compact, Distinct
<1> QED
  BY <1>3, <1>4, <1>5

(* RetargetContent gives each chunk that is wanted and there once, with    *)
(* its block.                                                              *)
LEMMA RetargetExact ==
    ASSUME NEW reference, IsContent(reference), NEW requested
    PROVE  /\ RetargetIsExact(reference, requested)
           /\ IsContent(RetargetContent(reference, requested))
<1> DEFINE S == {i \in DOMAIN reference.chunks :
                   /\ HasChunk(requested, reference.chunks[i].hash)
                   /\ \A j \in 1..(i - 1) : reference.chunks[j].hash # reference.chunks[i].hash}
           r == RetargetContent(reference, requested)
           n == Len(reference.chunks)
<1>1. n \in Nat /\ DOMAIN reference.chunks = 1..n
  BY ChunksAreTyped
<1>2. S \in SUBSET DOMAIN reference.chunks /\ r = KeepChunks(reference, InOrder(S))
  BY DEF RetargetContent
<1>3. OnceEach(reference, S)
  <2> SUFFICES ASSUME NEW i \in S, NEW j \in S, i # j,
                      reference.chunks[i].hash = reference.chunks[j].hash
               PROVE  FALSE
    BY DEF OnceEach
  <2>1. i \in 1..n /\ j \in 1..n
    BY <1>1
  <2>2. i \in 1..(j - 1) \/ j \in 1..(i - 1)
    <3> HIDE DEF n, S
    <3> QED
      BY <1>1, <2>1
  <2> QED
    BY <2>2
<1>4. HashesAt(reference, S) = AllHashes(reference) \cap AllHashes(requested)
  <2>1. \A i \in S : reference.chunks[i].hash \in AllHashes(requested)
    BY AllAt
  <2>2. ASSUME NEW h \in AllHashes(reference) \cap AllHashes(requested)
        PROVE  \E i \in S : reference.chunks[i].hash = h
    <3> DEFINE I == {i \in 1..n : reference.chunks[i].hash = h}
               m == Min(I)
    <3>1. I \in SUBSET (1..n) /\ I # {}
      BY <1>1, <2>2, AllAt DEF HashesAt
    <3>2. m \in I /\ \A k \in I : m <= k
      <4> HIDE DEF I
      <4> QED
        BY <1>1, <3>1, FirstIndex
    <3> HIDE DEF m
    <3>3. m \in DOMAIN reference.chunks /\ reference.chunks[m].hash = h
      BY <1>1, <3>2
    <3>4. ASSUME NEW j \in 1..(m - 1) PROVE reference.chunks[j].hash # h
      <4>1. j \in 1..n /\ ~(m <= j)
        BY <1>1, <3>2
      <4> QED
        BY <3>2, <4>1
    <3>5. HasChunk(requested, h)
      BY <2>2, AllAt
    <3> QED
      BY <3>3, <3>4, <3>5
  <2> HIDE DEF S
  <2>3. HashesAt(reference, S) \subseteq AllHashes(reference)
    BY <1>2, AllAt DEF HashesAt
  <2> QED
    BY <2>1, <2>2, <2>3 DEF HashesAt
<1> HIDE DEF S, r
<1>5. IsContent(r) /\ Pairs(r) = PairsAt(reference, S) /\ AllHashes(r) = HashesAt(reference, S) /\ Compact(r)
  BY <1>2, <1>3, KeepsChunks
<1>6. PairsAt(reference, S) \subseteq Pairs(reference)
  BY <1>2, AllAt DEF PairsAt
<1> QED
  BY <1>4, <1>5, <1>6 DEF RetargetIsExact, r, AllHashes

(* GetMissingContent gives the blocks that have a new chunk, whole.        *)
LEMMA MissingWhole ==
    ASSUME NEW reference, NEW ci, IsContent(ci)
    PROVE  MissingBlocksAreWhole(reference, ci)
<1> DEFINE new == {j \in DOMAIN ci.chunks : ~HasChunk(reference, ci.chunks[j].hash)}
           wanted == {BlockHashAt(ci, i) : i \in new}
           some == KeepChunks(ci, InOrder(new))
           blocks == some.blocks
           S == {i \in DOMAIN ci.chunks : BlockHashAt(ci, i) \in ToSet(blocks)}
           kept == InOrder(S)
           m == GetMissingContent(reference, ci)
<1>1. new \in SUBSET DOMAIN ci.chunks /\ S \in SUBSET DOMAIN ci.chunks
  OBVIOUS
<1>2. m.blocks = blocks /\ m.chunks = ListChunks(ci, kept, blocks)
  BY DEF GetMissingContent
<1> HIDE DEF m
<1>3. IsContent(some) /\ ToSet(blocks) = wanted
  <2> HIDE DEF new
  <2> QED
    BY <1>1, KeepsChunks
<1>4. blocks \in Seq(Seq(Nat))
  BY <1>3 DEF IsContent
<1> HIDE DEF blocks
<1>5. AreBlocksOf(blocks, ci, S)
  BY DEF AreBlocksOf
<1>6. kept \in Seq(S) /\ ToSet(kept) = S
  <2> HIDE DEF S
  <2> QED
    BY <1>1, IndexesInOrder
<1> HIDE DEF kept
<1>7. DOMAIN m.chunks = DOMAIN kept /\ ListsChunks(m, ci, kept)
  <2> HIDE DEF S
  <2> QED
    BY <1>1, <1>2, <1>4, <1>5, <1>6, ListedChunks
<1>8. Pairs(m) = PairsAt(ci, S)
  <2> HIDE DEF S
  <2> QED
    BY <1>6, <1>7, ListedPairs
<1>9. Pairs(m) = {pair \in Pairs(ci) : pair[2] \in wanted}
  BY <1>3, <1>8 DEF Pairs, PairsAt
<1> QED
  BY <1>9 DEF MissingBlocksAreWhole, m

(* The chunks of one content behind those of another, with blocks that     *)
(* have those of both.                                                     *)
LEMMA JoinedChunks ==
    ASSUME NEW c, NEW d, IsContent(c), IsContent(d),
           \A b \in DOMAIN c.blocks : b \in DOMAIN d.blocks /\ d.blocks[b] = c.blocks[b],
           NEW g, g.blocks = d.blocks, g.chunks = c.chunks \o d.chunks
    PROVE  IsContent(g) /\ Pairs(g) = Pairs(c) \cup Pairs(d)
<1> DEFINE R == [hash : Nat, block : Nat]
           s == c.chunks
           t == d.chunks
           u == g.chunks
           n == Len(s)
           m == Len(t)
<1>1. s \in Seq(R) /\ t \in Seq(R) /\ u = s \o t
  BY DEF IsContent
<1>2. /\ u \in Seq(R) /\ n \in Nat /\ m \in Nat
      /\ DOMAIN s = 1..n /\ DOMAIN t = 1..m /\ DOMAIN u = 1..(n + m)
      /\ \A i \in 1..n : u[i] = s[i]
      /\ \A i \in 1..m : u[n + i] = t[i]
  <2> HIDE DEF R, s, t, u
  <2>1. u \in Seq(R) /\ n \in Nat /\ m \in Nat /\ DOMAIN s = 1..n /\ DOMAIN t = 1..m
    BY <1>1
  <2>2. DOMAIN u = 1..(n + m)
    BY <1>1
  <2>3. \A i \in 1..n : u[i] = s[i]
    BY <1>1
  <2>4. \A i \in 1..m : u[n + i] = t[i]
    BY <1>1
  <2> QED
    BY <2>1, <2>2, <2>3, <2>4
<1>3. ASSUME NEW i \in 1..n
      PROVE  /\ i \in DOMAIN u /\ u[i].hash = s[i].hash /\ BlockHashAt(g, i) = BlockHashAt(c, i)
             /\ u[i].block \in DOMAIN g.blocks
  <2>1. s[i].block \in DOMAIN c.blocks
    BY <1>2 DEF IsContent
  <2>2. i \in DOMAIN u /\ u[i] = s[i]
    <3> HIDE DEF n, m, u, s
    <3> QED
      BY <1>2
  <2> QED
    BY <2>1, <2>2 DEF BlockHashAt
<1>4. ASSUME NEW i \in 1..m
      PROVE  /\ n + i \in DOMAIN u /\ u[n + i].hash = t[i].hash
             /\ BlockHashAt(g, n + i) = BlockHashAt(d, i)
             /\ u[n + i].block \in DOMAIN g.blocks
  <2>1. t[i].block \in DOMAIN d.blocks
    BY <1>2 DEF IsContent
  <2>2. n + i \in DOMAIN u /\ u[n + i] = t[i]
    <3> HIDE DEF n, m, u, t
    <3> QED
      BY <1>2
  <2> QED
    BY <2>1, <2>2 DEF BlockHashAt
<1>5. ASSUME NEW k \in DOMAIN u PROVE k \in 1..n \/ \E i \in 1..m : k = n + i
  <2> SUFFICES ASSUME k \notin 1..n PROVE k - n \in 1..m /\ k = n + (k - n)
    OBVIOUS
  <2> HIDE DEF n, m, u
  <2> QED
    BY <1>2
<1> DEFINE P(e, k) == <<e.chunks[k].hash, BlockHashAt(e, k)>>
<1>6. ASSUME NEW k \in DOMAIN g.chunks PROVE P(g, k) \in Pairs(c) \cup Pairs(d)
  <2>1. CASE k \in 1..n
    BY <1>2, <1>3, <2>1 DEF Pairs
  <2>2. CASE \E i \in 1..m : k = n + i
    <3>1. PICK i \in 1..m : k = n + i
      BY <2>2
    <3>2. P(g, k) = P(d, i)
      <4> HIDE DEF n, m
      <4> QED
        BY <1>4, <3>1
    <3> QED
      BY <1>2, <3>2 DEF Pairs
  <2> QED
    BY <1>5, <2>1, <2>2
<1>7. ASSUME NEW k \in DOMAIN c.chunks PROVE P(c, k) \in Pairs(g)
  BY <1>2, <1>3 DEF Pairs
<1>8. ASSUME NEW k \in DOMAIN d.chunks PROVE P(d, k) \in Pairs(g)
  <2>1. n + k \in DOMAIN g.chunks /\ P(g, n + k) = P(d, k)
    <3>1. k \in 1..m
      BY <1>2
    <3> HIDE DEF n, m
    <3> QED
      BY <1>4, <3>1
  <2> HIDE DEF n
  <2> QED
    BY <2>1 DEF Pairs
<1>9. \A k \in DOMAIN g.chunks : g.chunks[k].block \in DOMAIN g.blocks
  BY <1>3, <1>4, <1>5
<1>10. IsContent(g)
  BY <1>2, <1>9 DEF IsContent
<1> QED
  BY <1>6, <1>7, <1>8, <1>10 DEF Pairs

(* One sequence behind another.                                            *)
LEMMA ConcatFacts ==
    ASSUME NEW H, NEW s \in Seq(H), NEW t \in Seq(H)
    PROVE  LET u == s \o t IN
           /\ u \in Seq(H) /\ DOMAIN s = 1..Len(s) /\ DOMAIN t = 1..Len(t)
           /\ Len(s) \in Nat /\ Len(t) \in Nat /\ DOMAIN u = 1..(Len(s) + Len(t))
           /\ \A i \in DOMAIN s : i \in DOMAIN u /\ u[i] = s[i]
           /\ \A i \in DOMAIN u \ DOMAIN s : i - Len(s) \in DOMAIN t /\ u[i] = t[i - Len(s)]
           /\ ToSet(u) = ToSet(s) \cup ToSet(t)
<1> DEFINE u == s \o t
           n == Len(s)
           m == Len(t)
<1>1. u \in Seq(H) /\ DOMAIN s = 1..n /\ DOMAIN t = 1..m /\ n \in Nat /\ m \in Nat
  OBVIOUS
<1>2. DOMAIN u = 1..(n + m) /\ \A i \in 1..n : u[i] = s[i]
  OBVIOUS
<1>3. \A i \in 1..m : u[n + i] = t[i]
  OBVIOUS
<1> HIDE DEF u, n, m
<1>4. ASSUME NEW i \in DOMAIN s PROVE i \in DOMAIN u /\ u[i] = s[i]
  BY <1>1, <1>2
<1>5. ASSUME NEW i \in DOMAIN u \ DOMAIN s
      PROVE  i - n \in DOMAIN t /\ u[i] = t[i - n]
  <2> DEFINE k == i - n
  <2>1. k \in 1..m /\ i = n + k
    BY <1>1, <1>2
  <2> HIDE DEF k
  <2>2. k \in DOMAIN t /\ u[i] = t[k]
    BY <1>1, <1>3, <2>1
  <2> QED
    BY <2>2 DEF k
<1>6. ASSUME NEW k \in DOMAIN t PROVE \E i \in DOMAIN u : u[i] = t[k]
  <2>1. n + k \in DOMAIN u /\ u[n + k] = t[k]
    BY <1>1, <1>2, <1>3
  <2> QED
    BY <2>1
<1>7. ToSet(u) = ToSet(s) \cup ToSet(t)
  BY <1>4, <1>5, <1>6 DEF ToSet
<1> QED
  BY <1>1, <1>2, <1>4, <1>5, <1>7 DEF u, n, m

(* The hashes and the blocks of what a content says.                       *)
LEMMA PairsHashes ==
    ASSUME NEW ci
    PROVE  AllHashes(ci) = {pair[1] : pair \in Pairs(ci)}
<1> DEFINE D == DOMAIN ci.chunks
           P(i) == <<ci.chunks[i].hash, BlockHashAt(ci, i)>>
<1>1. AllHashes(ci) = {ci.chunks[i].hash : i \in D}
  BY AllAt DEF HashesAt
<1>2. Pairs(ci) = {P(i) : i \in D}
  BY DEF Pairs
<1>3. \A i \in D : P(i)[1] = ci.chunks[i].hash
  OBVIOUS
<1> HIDE DEF P
<1> QED
  BY <1>1, <1>2, <1>3

(* MergeContentIndex has what either content has.                          *)
LEMMA MergeExact ==
    ASSUME NEW localContent, NEW new, IsContent(localContent), IsContent(new),
           NEW g, g = MergeContentIndex(localContent, new)
    PROVE  /\ IsContent(g)
           /\ MergeIsUnion(localContent, new)
           /\ AllHashes(g) = AllHashes(new) \cup AllHashes(localContent)
           /\ ToSet(g.blocks) \subseteq ToSet(new.blocks) \cup ToSet(localContent.blocks)
<1> DEFINE S == {i \in DOMAIN localContent.chunks :
                   ~HasChunk(new, localContent.chunks[i].hash)}
           kept == InOrder(S)
           some == KeepChunks(localContent, kept)
           own == new.blocks
           rest == Without(some.blocks, ToSet(own))
           blocks == own \o rest
           d == [blocks |-> blocks, chunks |-> ListChunks(localContent, kept, blocks)]
<1>1. S \in SUBSET DOMAIN localContent.chunks
  OBVIOUS
<1>2. g.blocks = d.blocks /\ g.chunks = new.chunks \o d.chunks
  BY DEF MergeContentIndex
<1>3. /\ IsContent(some) /\ Distinct(some.blocks)
      /\ ToSet(some.blocks) = {BlockHashAt(localContent, i) : i \in S}
  <2> HIDE DEF S
  <2> QED
    BY <1>1, KeepsChunks
<1>4. kept \in Seq(S) /\ ToSet(kept) = S
  <2> HIDE DEF S
  <2> QED
    BY <1>1, IndexesInOrder
<1>5. own \in Seq(Seq(Nat)) /\ some.blocks \in Seq(Seq(Nat))
  BY <1>3 DEF IsContent
<1>6. /\ rest \in Seq(Seq(Nat)) /\ Distinct(rest)
      /\ ToSet(rest) = ToSet(some.blocks) \ ToSet(own)
  <2> DEFINE t == some.blocks
             known == ToSet(own)
  <2>1. t \in Seq(Seq(Nat)) /\ Distinct(t)
    BY <1>3, <1>5
  <2> HIDE DEF t, known
  <2>2. /\ Without(t, known) \in Seq(Seq(Nat)) /\ Distinct(Without(t, known))
        /\ ToSet(Without(t, known)) = ToSet(t) \ known
    BY <2>1, WithoutMembers
  <2> QED
    BY <2>2 DEF t, known
<1> HIDE DEF some, rest, kept
<1>7. /\ blocks \in Seq(Seq(Nat)) /\ Len(own) \in Nat /\ DOMAIN own = 1..Len(own)
      /\ \A i \in DOMAIN own : i \in DOMAIN blocks /\ blocks[i] = own[i]
      /\ \A i \in DOMAIN blocks \ DOMAIN own :
           /\ i \in Nat
           /\ i - Len(own) \in DOMAIN rest /\ blocks[i] = rest[i - Len(own)]
      /\ ToSet(blocks) = ToSet(own) \cup ToSet(rest)
  <2> HIDE DEF own, S
  <2>1. /\ blocks \in Seq(Seq(Nat)) /\ Len(own) \in Nat /\ DOMAIN own = 1..Len(own)
        /\ \A i \in DOMAIN own : i \in DOMAIN blocks /\ blocks[i] = own[i]
        /\ \A i \in DOMAIN blocks \ DOMAIN own :
             i - Len(own) \in DOMAIN rest /\ blocks[i] = rest[i - Len(own)]
        /\ ToSet(blocks) = ToSet(own) \cup ToSet(rest)
    BY <1>5, <1>6, ConcatFacts
  <2>2. \A i \in DOMAIN blocks : i \in Nat
    <3> HIDE DEF blocks
    <3> QED
      BY <2>1
  <2> QED
    BY <2>1, <2>2
<1>8. AreBlocksOf(blocks, localContent, S)
  BY <1>3, <1>6, <1>7 DEF AreBlocksOf
<1>9. IsContent(d) /\ DOMAIN d.chunks = DOMAIN kept /\ ListsChunks(d, localContent, kept)
  <2>1. d.blocks = blocks /\ d.chunks = ListChunks(localContent, kept, blocks)
    OBVIOUS
  <2> HIDE DEF S, d, blocks
  <2> QED
    BY <1>1, <1>4, <1>7, <1>8, <2>1, ListedChunks
<1>10. Pairs(d) = PairsAt(localContent, S)
  <2> HIDE DEF S, d
  <2> QED
    BY <1>4, <1>9, ListedPairs
<1>11. IsContent(g) /\ Pairs(g) = Pairs(new) \cup Pairs(d)
  <2>1. \A b \in DOMAIN new.blocks : b \in DOMAIN d.blocks /\ d.blocks[b] = new.blocks[b]
    BY <1>7
  <2> HIDE DEF d
  <2> QED
    BY <1>2, <1>9, <2>1, JoinedChunks
<1>12. Pairs(d) = {pair \in Pairs(localContent) : ~HasChunk(new, pair[1])}
  <2> HIDE DEF d
  <2> QED
    BY <1>10 DEF PairsAt, Pairs
<1>13. ASSUME NEW b \in DOMAIN g.blocks, NEW c \in DOMAIN g.blocks, g.blocks[b] = g.blocks[c]
       PROVE  b = c \/ {b, c} \subseteq DOMAIN new.blocks
  <2>1. g.blocks = blocks
    BY <1>2
  <2>2. \A i \in DOMAIN own : blocks[i] \in ToSet(own)
    BY <1>7 DEF ToSet
  <2>3. \A i \in DOMAIN blocks \ DOMAIN own : blocks[i] \notin ToSet(own)
    BY <1>6, <1>7 DEF ToSet
  <2>4. CASE b \notin DOMAIN own /\ c \notin DOMAIN own
    <3>1. b - Len(own) = c - Len(own)
      BY <1>6, <1>7, <1>13, <2>1, <2>4 DEF Distinct
    <3>2. b \in Nat /\ c \in Nat /\ Len(own) \in Nat
      BY <1>7, <2>1, <2>4
    <3> HIDE DEF own
    <3> QED
      BY <3>1, <3>2
  <2> QED
    BY <1>13, <2>1, <2>2, <2>3, <2>4
<1>14. MergeIsUnion(localContent, new)
  <2> HIDE DEF d
  <2> QED
    BY <1>11, <1>12, <1>13 DEF MergeIsUnion
<1>15. AllHashes(g) = AllHashes(new) \cup AllHashes(localContent)
  <2>1. AllHashes(g) = {pair[1] : pair \in Pairs(g)}
    BY PairsHashes
  <2>2. AllHashes(new) = {pair[1] : pair \in Pairs(new)}
    BY PairsHashes
  <2>3. AllHashes(localContent) = {pair[1] : pair \in Pairs(localContent)}
    BY PairsHashes
  <2>4. \A h : HasChunk(new, h) <=> h \in AllHashes(new)
    BY AllAt
  <2>5. Pairs(g) = Pairs(new) \cup {pair \in Pairs(localContent) : ~HasChunk(new, pair[1])}
    BY <1>11, <1>12
  <2> HIDE DEF d
  <2> QED
    BY <2>1, <2>2, <2>3, <2>4, <2>5
<1>16. ToSet(g.blocks) \subseteq ToSet(new.blocks) \cup ToSet(localContent.blocks)
  <2>1. \A i \in S : BlockHashAt(localContent, i) \in ToSet(localContent.blocks)
    BY BlocksOfChunks
  <2> QED
    BY <1>2, <1>3, <1>6, <1>7, <2>1
<1> QED
  BY <1>11, <1>14, <1>15, <1>16

(* AddContentIndex has what both contents have.                            *)
LEMMA AddExact ==
    ASSUME NEW localContent, NEW new, IsContent(localContent), IsContent(new)
    PROVE  AddKeepsBoth(localContent, new)
<1> DEFINE own == localContent.blocks
           others == new.blocks
           n == Len(own)
           s == new.chunks
           t == [i \in DOMAIN s |-> [s[i] EXCEPT !.block = @ + n]]
           d == [blocks |-> own \o others, chunks |-> t]
           g == AddContentIndex(localContent, new)
           R == [hash : Nat, block : Nat]
<1>1. /\ own \in Seq(Seq(Nat)) /\ others \in Seq(Seq(Nat)) /\ s \in Seq(R)
      /\ \A i \in DOMAIN s : s[i].block \in DOMAIN others
  BY DEF IsContent
<1>2. /\ own \o others \in Seq(Seq(Nat)) /\ DOMAIN (own \o others) = 1..(n + Len(others))
      /\ \A i \in 1..n : (own \o others)[i] = own[i]
      /\ \A i \in 1..Len(others) : (own \o others)[n + i] = others[i]
      /\ n \in Nat /\ Len(others) \in Nat /\ DOMAIN own = 1..n /\ DOMAIN others = 1..Len(others)
  <2>0. own \in Seq(Seq(Nat)) /\ others \in Seq(Seq(Nat))
    BY <1>1
  <2> DEFINE a == own
             b == others
  <2> HIDE DEF a, b
  <2>1. a \in Seq(Seq(Nat)) /\ b \in Seq(Seq(Nat))
    BY <2>0 DEF a, b
  <2>2. \A i \in 1..Len(a) : (a \o b)[i] = a[i]
    BY <2>1
  <2>3. \A i \in 1..Len(b) : (a \o b)[Len(a) + i] = b[i]
    BY <2>1
  <2>4. /\ Len(a) \in Nat /\ Len(b) \in Nat /\ DOMAIN a = 1..Len(a) /\ DOMAIN b = 1..Len(b)
        /\ a \o b \in Seq(Seq(Nat)) /\ DOMAIN (a \o b) = 1..(Len(a) + Len(b))
    BY <2>1
  <2> QED
    BY <2>2, <2>3, <2>4 DEF a, b
<1>3. g.blocks = d.blocks /\ g.chunks = localContent.chunks \o d.chunks
  BY DEF AddContentIndex
<1>4. Len(s) \in Nat /\ DOMAIN s = 1..Len(s) /\ \A i \in DOMAIN s : s[i] \in R
  <2> HIDE DEF s, R
  <2> QED
    BY <1>1
<1>5. ASSUME NEW i \in DOMAIN s
      PROVE  /\ t[i] \in R /\ t[i].hash = s[i].hash /\ t[i].block = s[i].block + n
             /\ s[i].block \in 1..Len(others)
             /\ t[i].block \in 1..(n + Len(others))
             /\ d.blocks[t[i].block] = others[s[i].block]
  <2> DEFINE c == s[i]
             k == Len(others)
  <2>1. c \in R /\ c.block \in 1..k /\ t[i] = [c EXCEPT !.block = @ + n]
    BY <1>1, <1>2, <1>4
  <2>2. n \in Nat /\ k \in Nat
    BY <1>2
  <2> HIDE DEF c, k, n
  <2>3. t[i] \in R /\ t[i].hash = c.hash /\ t[i].block = c.block + n
    BY <2>1, <2>2
  <2>4. c.block + n \in 1..(n + k) /\ c.block + n = n + c.block
    BY <2>1, <2>2
  <2>5. (own \o others)[n + c.block] = others[c.block]
    BY <1>2, <2>1 DEF k
  <2> HIDE DEF t
  <2> QED
    BY <2>1, <2>3, <2>4, <2>5 DEF c, k
<1>6. t \in Seq(R) /\ DOMAIN t = DOMAIN s
  <2> DEFINE l == Len(s)
  <2>1. DOMAIN t = 1..l /\ l \in Nat /\ t = [i \in 1..l |-> t[i]]
    BY <1>4
  <2> HIDE DEF t, R, s, l
  <2>2. t \in [1..l -> R]
    BY <1>4, <1>5, <2>1 DEF l
  <2>3. t \in Seq(R)
    BY <2>1, <2>2, SequenceOf
  <2> QED
    BY <1>4, <2>1, <2>3 DEF l
<1> HIDE DEF t
<1>7. IsContent(d)
  <2>1. \A i \in DOMAIN d.chunks : d.chunks[i].block \in DOMAIN d.blocks
    BY <1>2, <1>5, <1>6
  <2> QED
    BY <1>2, <1>6, <2>1 DEF IsContent
<1>8. Pairs(d) = Pairs(new)
  <2>1. \A i \in DOMAIN s : /\ d.chunks[i].hash = s[i].hash
                            /\ BlockHashAt(d, i) = BlockHashAt(new, i)
    BY <1>5 DEF BlockHashAt
  <2> HIDE DEF s
  <2>2. DOMAIN d.chunks = DOMAIN s
    BY <1>6
  <2> HIDE DEF d
  <2> QED
    BY <2>1, <2>2 DEF Pairs, s
<1>9. \A b \in DOMAIN localContent.blocks :
        b \in DOMAIN d.blocks /\ d.blocks[b] = localContent.blocks[b]
  <2> TAKE b \in DOMAIN localContent.blocks
  <2>1. b \in 1..n
    BY <1>2
  <2>2. b \in 1..(n + Len(others))
    <3> DEFINE k == Len(others)
    <3> HIDE DEF n, k
    <3> QED
      BY <1>2, <2>1 DEF k
  <2> QED
    BY <1>2, <2>1, <2>2
<1> HIDE DEF d, g
<1>10. Pairs(g) = Pairs(localContent) \cup Pairs(d)
  BY <1>3, <1>7, <1>9, JoinedChunks
<1> QED
  BY <1>8, <1>10 DEF AddKeepsBoth, g

--------------------------------------------------------------------------------
(* Blocks that are filled *)

(* There is nothing to add up in an empty sequence.                        *)
LEMMA SumOfNone ==
    ASSUME NEW H, NEW f, \A h \in H : f[h] \in Nat
    PROVE  SumOver(f, <<>>) = 0
<1> DEFINE s == <<>>
<1>1. s \in Seq(H)
  OBVIOUS
<1>2. Len(s) = 0
  OBVIOUS
<1> HIDE DEF s
<1>3. \E g \in [0..Len(s) -> Nat] :
        /\ g[0] = 0 /\ SumOver(f, s) = g[Len(s)]
        /\ \A k \in 1..Len(s) : g[k] = g[k - 1] + f[s[k]]
  <2>1. \A h \in H : f[h] \in Nat
    OBVIOUS
  <2> QED
    BY ONLY <1>1, <2>1, SumSteps
<1> QED
  BY <1>2, <1>3 DEF s

(* A sum over one more.                                                    *)
LEMMA SumOfAppend ==
    ASSUME NEW H, NEW s \in Seq(H), NEW x \in H, NEW f, \A h \in H : f[h] \in Nat
    PROVE  /\ SumOver(f, s) \in Nat
           /\ SumOver(f, Append(s, x)) = SumOver(f, s) + f[x]
<1> DEFINE n == Len(s)
           t == Append(s, x)
<1>1. /\ n \in Nat /\ t \in Seq(H) /\ Len(t) = n + 1 /\ t[n + 1] = x
      /\ \A i \in 1..n : t[i] = s[i]
  OBVIOUS
<1> HIDE DEF n, t
<1>2. PICK g \in [0..n -> Nat] :
        /\ g[0] = 0 /\ SumOver(f, s) = g[n]
        /\ \A k \in 1..n : g[k] = g[k - 1] + f[s[k]]
  <2>1. \E g \in [0..Len(s) -> Nat] :
          /\ g[0] = 0 /\ SumOver(f, s) = g[Len(s)]
          /\ \A k \in 1..Len(s) : g[k] = g[k - 1] + f[s[k]]
    BY SumSteps
  <2> QED
    BY <2>1 DEF n
<1>3. PICK e \in [0..(n + 1) -> Nat] :
        /\ e[0] = 0 /\ SumOver(f, t) = e[n + 1]
        /\ \A k \in 1..(n + 1) : e[k] = e[k - 1] + f[t[k]]
  <2>1. \E e \in [0..Len(t) -> Nat] :
          /\ e[0] = 0 /\ SumOver(f, t) = e[Len(t)]
          /\ \A k \in 1..Len(t) : e[k] = e[k - 1] + f[t[k]]
    <3>1. t \in Seq(H) /\ \A h \in H : f[h] \in Nat
      BY <1>1
    <3> HIDE DEF t
    <3> QED
      BY ONLY <3>1, SumSteps, SMTT(30)
  <2> QED
    BY <1>1, <2>1
<1> DEFINE Q == {k \in 0..n : e[k] = g[k]}
<1>4. 0 \in Q
  BY <1>1, <1>2, <1>3
<1>5. ASSUME NEW k \in 1..n, k - 1 \in Q PROVE k \in Q
  <2>1. k \in 0..n /\ k \in 1..(n + 1) /\ t[k] = s[k]
    BY <1>1
  <2>2. e[k] = e[k - 1] + f[t[k]] /\ g[k] = g[k - 1] + f[s[k]]
    BY <1>2, <1>3, <2>1
  <2> QED
    BY <1>5, <2>1, <2>2
<1>6. n \in Q
  <2>1. \A k \in 0..n : k \in Q
    <3> HIDE DEF Q
    <3> QED
      BY <1>1, <1>4, <1>5, RangeInduction
  <2> QED
    BY <1>1, <2>1
<1>7. n + 1 \in 1..(n + 1) /\ (n + 1) - 1 = n /\ n \in 0..n
  BY <1>1
<1>8. e[n + 1] = e[n] + f[x] /\ g[n] \in Nat
  BY <1>1, <1>2, <1>3, <1>7
<1> QED
  BY <1>2, <1>3, <1>6, <1>8 DEF t

(* A sum of one is it.                                                     *)
LEMMA SumOfOne ==
    ASSUME NEW H, NEW x \in H, NEW f, \A h \in H : f[h] \in Nat
    PROVE  SumOver(f, <<x>>) = f[x]
<1>1. <<>> \in Seq(H) /\ Append(<<>>, x) = <<x>> /\ Len(<<>>) = 0
  OBVIOUS
<1>2. SumOver(f, <<>>) = 0
  <2> DEFINE s == <<>>
  <2>1. s \in Seq(H)
    OBVIOUS
  <2>0. Len(s) = 0
    OBVIOUS
  <2> HIDE DEF s
  <2>2. \E g \in [0..Len(s) -> Nat] :
          /\ g[0] = 0 /\ SumOver(f, s) = g[Len(s)]
          /\ \A k \in 1..Len(s) : g[k] = g[k - 1] + f[s[k]]
    <3>1. \A h \in H : f[h] \in Nat
      OBVIOUS
    <3> QED
      BY ONLY <2>1, <3>1, SumSteps
  <2> QED
    BY <2>0, <2>2 DEF s
<1>3. SumOver(f, Append(<<>>, x)) = 0 + f[x]
  BY <1>1, <1>2, SumOfAppend
<1>4. f[x] \in Nat
  OBVIOUS
<1> QED
  BY <1>1, <1>3, <1>4

(* A block within the limits.                                              *)
FitsLimits(block) ==
    /\ Len(block) <= MaxChunksPerBlock
    /\ Len(block) = 1 \/ SumOver(ChunkSize, block) * 10 <= MaxBlockSize * 11
    /\ \A h \in ToSet(block) : ChunkTag[h] = ChunkTag[Head(block)]

(* Blocks with different chunks in all their places, none of them empty.   *)
ChunksIn(blocks) == UNION {ToSet(blocks[b]) : b \in DOMAIN blocks}
OnceIn(blocks) ==
    \A b, c \in DOMAIN blocks : \A i \in DOMAIN blocks[b] : \A j \in DOMAIN blocks[c] :
      blocks[b][i] = blocks[c][j] => b = c /\ i = j
AreFilled(blocks, H) ==
    /\ blocks \in Seq(Seq(H)) /\ OnceIn(blocks)
    /\ \A b \in DOMAIN blocks : blocks[b] # <<>> /\ FitsLimits(blocks[b])

(* Sizes of chunks.                                                        *)
HaveSizes(H) == \A h \in H : ChunkSize[h] \in Nat

(* A chunk that fits is put in a block.                                    *)
LEMMA BlockGrows ==
    ASSUME NEW H, HaveSizes(H), NEW block \in Seq(H), block # <<>>, FitsLimits(block),
           NEW h \in H, FitsInBlock(block, h)
    PROVE  FitsLimits(Append(block, h))
<1> DEFINE n == Len(block)
           t == Append(block, h)
<1>1. /\ n \in Nat /\ n # 0 /\ Len(t) = n + 1 /\ Head(t) = Head(block)
      /\ ToSet(t) = ToSet(block) \cup {h}
  <2>1. n \in Nat /\ n # 0 /\ Len(t) = n + 1
    OBVIOUS
  <2>2. Head(t) = Head(block)
    <3>1. Head(block) = block[1] /\ Head(t) = t[1] /\ t[1] = block[1]
      BY <2>1
    <3> QED
      BY <3>1
  <2> QED
    BY <2>1, <2>2, AppendFacts
<1>2. n <= MaxChunksPerBlock /\ n # MaxChunksPerBlock
  BY DEF FitsLimits, FitsInBlock
<1>3. Len(t) <= MaxChunksPerBlock
  <2> HIDE DEF n, t
  <2> QED
    BY <1>1, <1>2, LimitsType
<1>4. SumOver(ChunkSize, t) * 10 <= MaxBlockSize * 11
  <2> DEFINE m == SumOver(ChunkSize, block)
             k == ChunkSize[h]
  <2>1. m \in Nat /\ SumOver(ChunkSize, t) = m + k
    BY SumOfAppend DEF HaveSizes
  <2>2. k \in Nat
    BY DEF HaveSizes
  <2>3. m + k <= MaxBlockSize + MaxBlockSize \div 10
    BY DEF FitsInBlock
  <2> HIDE DEF m, k
  <2>4. (m + k) * 10 <= MaxBlockSize * 11
    BY <2>1, <2>2, <2>3, LimitsType
  <2> QED
    BY <2>1, <2>4
<1>5. \A g \in ToSet(t) : ChunkTag[g] = ChunkTag[Head(t)]
  BY <1>1 DEF FitsLimits, FitsInBlock
<1> QED
  BY <1>3, <1>4, <1>5 DEF FitsLimits, t

(* A block of one chunk.                                                   *)
LEMMA BlockOfOne ==
    ASSUME NEW H, NEW h \in H
    PROVE  <<h>> \in Seq(H) /\ <<h>> # <<>> /\ ToSet(<<h>>) = {h} /\ FitsLimits(<<h>>)
<1>1. <<h>> \in Seq(H) /\ Len(<<h>>) = 1 /\ <<h>> # <<>> /\ Head(<<h>>) = h
  OBVIOUS
<1>2. ToSet(<<h>>) = {h}
  BY DEF ToSet
<1> QED
  BY <1>1, <1>2, LimitsType DEF FitsLimits

(* The blocks when a chunk is put in one.                                  *)
Fills(next, blocks, h) ==
    next = IF blocks # <<>> /\ FitsInBlock(Last(blocks), h)
           THEN ReplaceAt(blocks, Len(blocks), Append(Last(blocks), h))
           ELSE Append(blocks, <<h>>)

(* A chunk of no block is put in the last block or in a new one.           *)
LEMMA FilledGrow ==
    ASSUME NEW H, HaveSizes(H), NEW blocks, AreFilled(blocks, H),
           NEW h \in H, h \notin ChunksIn(blocks),
           NEW next, Fills(next, blocks, h)
    PROVE  AreFilled(next, H) /\ ChunksIn(next) = ChunksIn(blocks) \cup {h}
<1> DEFINE n == Len(blocks)
<1>1. /\ blocks \in Seq(Seq(H)) /\ n \in Nat /\ DOMAIN blocks = 1..n
      /\ \A b \in DOMAIN blocks : blocks[b] \in Seq(H)
  BY DEF AreFilled
<1>2. ASSUME NEW b \in DOMAIN blocks, NEW i \in DOMAIN blocks[b] PROVE blocks[b][i] # h
  BY DEF ChunksIn, ToSet
<1>3. CASE blocks # <<>> /\ FitsInBlock(Last(blocks), h)
  <2> DEFINE old == blocks[n]
             new == Append(old, h)
             l == Len(old)
  <2>1. n \in DOMAIN blocks /\ next = [blocks EXCEPT ![n] = new] /\ FitsInBlock(old, h)
    <3>1. n # 0
      BY <1>1, <1>3
    <3> QED
      BY <1>1, <1>3, <3>1 DEF Fills, Last, ReplaceAt
  <2>2. old \in Seq(H) /\ old # <<>> /\ FitsLimits(old)
    BY <1>1, <2>1 DEF AreFilled
  <2>3. new \in Seq(H) /\ new # <<>> /\ FitsLimits(new) /\ ToSet(new) = ToSet(old) \cup {h}
    <3>1. FitsLimits(new)
      BY <2>1, <2>2, BlockGrows
    <3>2. ToSet(new) = ToSet(old) \cup {h}
      BY <2>2, AppendFacts
    <3> HIDE DEF old
    <3>3. new \in Seq(H) /\ new # <<>>
      BY <2>2
    <3> QED
      BY <3>1, <3>2, <3>3
  <2>4. /\ l \in Nat /\ DOMAIN old = 1..l /\ DOMAIN new = 1..(l + 1)
        /\ (\A i \in 1..l : new[i] = old[i]) /\ new[l + 1] = h
    <3> HIDE DEF old
    <3> QED
      BY <2>2
  <2> HIDE DEF new
  <2>5. /\ DOMAIN next = DOMAIN blocks /\ next[n] = new
        /\ \A b \in DOMAIN blocks \ {n} : next[b] = blocks[b]
    BY <2>1
  <2>6. next \in Seq(Seq(H))
    <3> DEFINE V == Seq(H)
    <3>1. new \in V /\ blocks \in Seq(V)
      BY <1>1, <2>3
    <3> HIDE DEF V, old
    <3>2. DOMAIN next = 1..Len(blocks) /\ \A b \in 1..Len(blocks) : next[b] \in V
      <4>1. DOMAIN blocks = 1..Len(blocks) /\ \A b \in 1..Len(blocks) : blocks[b] \in V
        BY ONLY <3>1
      <4> QED
        BY ONLY <2>5, <3>1, <4>1
    <3>3. next = [b \in 1..Len(blocks) |-> next[b]] /\ Len(blocks) \in Nat
      BY <1>1, <2>1, <3>2
    <3> HIDE DEF n
    <3>4. next \in [1..Len(blocks) -> V]
      BY <3>2, <3>3
    <3>5. next \in Seq(V)
      BY <3>3, <3>4, SequenceOf
    <3> QED
      BY <3>5 DEF V
  <2>7. ASSUME NEW b \in DOMAIN next, NEW i \in DOMAIN next[b]
        PROVE  \/ b \in DOMAIN blocks /\ i \in DOMAIN blocks[b] /\ next[b][i] = blocks[b][i]
               \/ b = n /\ i = l + 1 /\ next[b][i] = h
    <3>1. CASE b # n
      BY <2>5, <3>1
    <3>2. CASE b = n
      <4>1. i \in 1..l \/ i = l + 1
        <5> HIDE DEF l
        <5> QED
          BY <2>4, <2>5, <3>2
      <4> QED
        BY <2>1, <2>4, <2>5, <3>2, <4>1
    <3> QED
      BY <3>1, <3>2
  <2>8. OnceIn(next)
    <3> SUFFICES ASSUME NEW b \in DOMAIN next, NEW c \in DOMAIN next,
                        NEW i \in DOMAIN next[b], NEW j \in DOMAIN next[c],
                        next[b][i] = next[c][j]
                 PROVE  b = c /\ i = j
      BY DEF OnceIn
    <3> HIDE DEF n, l
    <3> QED
      BY <1>2, <2>7 DEF AreFilled, OnceIn
  <2>9. \A b \in DOMAIN next : next[b] # <<>> /\ FitsLimits(next[b])
    <3> HIDE DEF n
    <3> QED
      BY <2>3, <2>5 DEF AreFilled
  <2>10. ChunksIn(next) = ChunksIn(blocks) \cup {h}
    <3>1. \A b \in DOMAIN next : ToSet(next[b]) = IF b = n THEN ToSet(blocks[n]) \cup {h}
                                                           ELSE ToSet(blocks[b])
      BY <2>3, <2>5
    <3> HIDE DEF n
    <3> QED
      BY <2>1, <2>5, <3>1 DEF ChunksIn
  <2> QED
    BY <2>6, <2>8, <2>9, <2>10 DEF AreFilled
<1>4. CASE ~(blocks # <<>> /\ FitsInBlock(Last(blocks), h))
  <2> DEFINE new == <<h>>
             m == n + 1
  <2>1. next = Append(blocks, new)
    BY <1>4 DEF Fills
  <2>2. new \in Seq(H) /\ new # <<>> /\ FitsLimits(new) /\ ToSet(new) = {h}
    BY BlockOfOne
  <2>3. DOMAIN new = {1} /\ new[1] = h
    OBVIOUS
  <2> HIDE DEF new
  <2>4. /\ next \in Seq(Seq(H)) /\ DOMAIN next = DOMAIN blocks \cup {m} /\ next[m] = new
        /\ m \notin DOMAIN blocks
        /\ \A b \in DOMAIN blocks : next[b] = blocks[b]
    <3> DEFINE V == Seq(H)
    <3>1. new \in V /\ blocks \in Seq(V)
      BY <1>1, <2>2
    <3> HIDE DEF V
    <3>2. next \in Seq(V) /\ DOMAIN next = 1..m /\ next[m] = new
      BY <2>1, <3>1
    <3>3. \A b \in 1..n : next[b] = blocks[b]
      BY <2>1, <3>1
    <3>4. 1..m = 1..n \cup {m} /\ m \notin 1..n
      <4> HIDE DEF n
      <4> QED
        BY <1>1
    <3> QED
      BY <1>1, <3>2, <3>3, <3>4 DEF V
  <2> HIDE DEF m
  <2>5. ASSUME NEW b \in DOMAIN next, NEW i \in DOMAIN next[b]
        PROVE  \/ b \in DOMAIN blocks /\ i \in DOMAIN blocks[b] /\ next[b][i] = blocks[b][i]
               \/ b = m /\ i = 1 /\ next[b][i] = h
    BY <2>3, <2>4
  <2>6. OnceIn(next)
    <3> SUFFICES ASSUME NEW b \in DOMAIN next, NEW c \in DOMAIN next,
                        NEW i \in DOMAIN next[b], NEW j \in DOMAIN next[c],
                        next[b][i] = next[c][j]
                 PROVE  b = c /\ i = j
      BY DEF OnceIn
    <3> QED
      BY <1>2, <2>5 DEF AreFilled, OnceIn
  <2>7. \A b \in DOMAIN next : next[b] # <<>> /\ FitsLimits(next[b])
    BY <2>2, <2>4 DEF AreFilled
  <2>8. ChunksIn(next) = ChunksIn(blocks) \cup {h}
    BY <2>2, <2>4 DEF ChunksIn
  <2> QED
    BY <2>4, <2>6, <2>7, <2>8 DEF AreFilled
<1> QED
  BY <1>3, <1>4

(* CreateContentIndexRaw puts each hash in a block, none twice, and keeps  *)
(* the limits.                                                             *)
LEMMA BlocksAreFilled ==
    ASSUME NEW hashes, NEW H, HaveSizes(H), UniqueHashes(hashes) \in Seq(H),
           Distinct(UniqueHashes(hashes))
    PROVE  LET blocks == CreateContentIndexRaw(hashes).blocks
           IN  AreFilled(blocks, H) /\ ChunksIn(blocks) = ToSet(UniqueHashes(hashes))
<1> DEFINE s == UniqueHashes(hashes)
           n == Len(s)
           blocks == CreateContentIndexRaw(hashes).blocks
           Grown(v, k) == IF v # <<>> /\ FitsInBlock(Last(v), s[k])
                          THEN ReplaceAt(v, Len(v), Append(Last(v), s[k]))
                          ELSE Append(v, <<s[k]>>)
<1>1. n \in Nat /\ s \in Seq(H) /\ n \in 0..n /\ 0 \in 0..n /\ \A k \in 1..n : s[k] \in H
  OBVIOUS
<1>2. PICK g \in [0..n -> Seq(Seq(H))] :
        /\ g[0] = <<>> /\ blocks = g[n] /\ \A k \in 1..n : g[k] = Grown(g[k - 1], k)
  BY FillSteps
<1>3. /\ Upto(s, 0) = {} /\ Upto(s, n) = ToSet(s)
      /\ \A k \in 1..n : /\ Upto(s, k) = Upto(s, k - 1) \cup {s[k]}
                         /\ s[k] \notin Upto(s, k - 1)
  <2>1. Distinct(s)
    OBVIOUS
  <2> HIDE DEF s
  <2> QED
    BY <1>1, <2>1, UptoFacts
<1> HIDE DEF s, n, blocks
<1> DEFINE Q == {k \in 0..n : AreFilled(g[k], H) /\ ChunksIn(g[k]) = Upto(s, k)}
<1>4. 0 \in Q
  <2>1. AreFilled(<<>>, H) /\ ChunksIn(<<>>) = {}
    BY DEF AreFilled, OnceIn, ChunksIn
  <2> QED
    BY <1>1, <1>2, <1>3, <2>1
<1>5. ASSUME NEW k \in 1..n, k - 1 \in Q PROVE k \in Q
  <2> DEFINE v == g[k - 1]
             w == g[k]
             x == s[k]
  <2>1. w = Grown(v, k) /\ AreFilled(v, H) /\ ChunksIn(v) = Upto(s, k - 1) /\ x \in H
    BY <1>1, <1>2, <1>5
  <2>2. x \notin ChunksIn(v) /\ Upto(s, k) = ChunksIn(v) \cup {x}
    BY <1>3, <2>1
  <2>3. k \in 0..n
    BY <1>1
  <2>4. Fills(w, v, x)
    BY <2>1 DEF Fills
  <2> HIDE DEF v, w, x
  <2>5. AreFilled(w, H) /\ ChunksIn(w) = ChunksIn(v) \cup {x}
    BY <2>1, <2>2, <2>4, FilledGrow
  <2> QED
    BY <2>2, <2>3, <2>5 DEF w
<1>6. n \in Q
  <2>1. \A k \in 0..n : k \in Q
    <3> HIDE DEF Q
    <3> QED
      BY <1>1, <1>4, <1>5, RangeInduction
  <2> QED
    BY <1>1, <2>1
<1> QED
  BY <1>2, <1>3, <1>6 DEF s, blocks

(* A sequence of what it has, and of more.                                 *)
LEMMA SequenceIn ==
    ASSUME NEW H, NEW s \in Seq(H)
    PROVE  /\ s \in Seq(ToSet(s))
           /\ \A K : H \subseteq K => s \in Seq(K)
           /\ \A x : Contains(s, x) <=> x \in ToSet(s)
           /\ IsFiniteSet(ToSet(s)) /\ Cardinality(ToSet(s)) \in Nat
           /\ Cardinality(ToSet(s)) <= Len(s)
           /\ Distinct(s) => Cardinality(ToSet(s)) = Len(s)
<1> DEFINE n == Len(s)
           I == 1..n
<1>1. n \in Nat /\ DOMAIN s = I /\ s = [i \in I |-> s[i]] /\ \A i \in I : s[i] \in H
  OBVIOUS
<1>2. \A i \in I : s[i] \in ToSet(s)
  BY <1>1 DEF ToSet
<1>3. s \in [I -> ToSet(s)]
  <2> DEFINE T == ToSet(s)
  <2> HIDE DEF T, I
  <2> QED
    BY <1>1, <1>2 DEF T
<1>4. s \in Seq(ToSet(s))
  BY <1>1, <1>3, SequenceOf
<1>5. ASSUME NEW K, H \subseteq K PROVE s \in Seq(K)
  <2>1. s \in [I -> K]
    <3> HIDE DEF I
    <3> QED
      BY <1>1, <1>5
  <2> QED
    BY <1>1, <2>1, SequenceOf
<1>6. \A x : Contains(s, x) <=> x \in ToSet(s)
  BY <1>1 DEF Contains, ToSet
<1>7. IsFiniteSet(I) /\ Cardinality(I) = n
  <2>1. n \in Nat
    BY <1>1
  <2> HIDE DEF n
  <2> QED
    BY <2>1, FS_Interval
<1>8. s \in Surjection(I, ToSet(s))
  <2> HIDE DEF I
  <2> QED
    BY <1>1, <1>3 DEF Surjection, ToSet
<1>9. IsFiniteSet(ToSet(s)) /\ Cardinality(ToSet(s)) <= n
  <2> HIDE DEF I, n
  <2> QED
    BY <1>7, <1>8, FS_Surjection
<1>10. ASSUME Distinct(s) PROVE Cardinality(ToSet(s)) = n
  <2>1. s \in Bijection(I, ToSet(s))
    <3> HIDE DEF I
    <3> QED
      BY <1>1, <1>8, <1>10 DEF Bijection, Injection, IsInjective, Surjection, Distinct
  <2> HIDE DEF I, n
  <2> QED
    BY <1>7, <2>1, FS_Bijection DEF ExistsBijection
<1>11. Cardinality(ToSet(s)) \in Nat
  BY <1>9, FS_CardinalityType
<1> QED
  BY <1>4, <1>5, <1>6, <1>9, <1>10, <1>11

(* CreateContentIndexRaw gives the index of its blocks.                    *)
LEMMA RawIsOfBlocks ==
    ASSUME NEW hashes, NEW ci, ci = CreateContentIndexRaw(hashes)
    PROVE  ci = ContentIndexFromBlocks(ci.blocks)
BY DEF CreateContentIndexRaw, ContentIndexFromBlocks

(* CreateContentIndexRaw gives an index of what it is given, in blocks     *)
(* that keep the limits.                                                   *)
LEMMA RawExact ==
    ASSUME NEW hashes \in Seq(Nat), HaveSizes(ToSet(hashes)),
           NEW ci, ci = CreateContentIndexRaw(hashes)
    PROVE  /\ IsContent(ci)
           /\ AllHashes(ci) = ToSet(hashes) /\ ChunksIn(ci.blocks) = ToSet(hashes)
           /\ Compact(ci) /\ Grouped(ci) /\ WithinLimits(ci)
<1> DEFINE blocks == ci.blocks
           s == UniqueHashes(hashes)
           H == ToSet(hashes)
<1>1. s \in Seq(Nat) /\ ToSet(s) = H /\ Distinct(s)
  BY UniqueMembers
<1>2. s \in Seq(H)
  <2>1. s \in Seq(ToSet(s))
    <3> HIDE DEF s
    <3> QED
      BY <1>1, SequenceIn
  <2> QED
    BY <1>1, <2>1
<1>3. AreFilled(blocks, H) /\ ChunksIn(blocks) = H
  <2>1. LET b == CreateContentIndexRaw(hashes).blocks
        IN  AreFilled(b, H) /\ ChunksIn(b) = ToSet(UniqueHashes(hashes))
    <3> HIDE DEF H
    <3> QED
      BY <1>1, <1>2, BlocksAreFilled DEF H
  <2> QED
    BY <1>1, <2>1
<1>4. blocks \in Seq(Seq(Nat))
  <2>1. H \subseteq Nat
    BY <1>1 DEF ToSet
  <2>2. Seq(H) \subseteq Seq(Nat)
    <3> HIDE DEF H
    <3> QED
      BY <2>1, SequenceIn
  <2>3. blocks \in Seq(Seq(H))
    BY <1>3 DEF AreFilled
  <2> DEFINE A == Seq(H)
             B == Seq(Nat)
  <2> HIDE DEF A, B, blocks
  <2>4. blocks \in Seq(A) /\ A \subseteq B
    BY <2>2, <2>3 DEF A, B
  <2>5. blocks \in Seq(B)
    BY <2>4, SequenceIn
  <2> QED
    BY <2>5 DEF B
<1>5. ci = ContentIndexFromBlocks(blocks)
  BY RawIsOfBlocks
<1> HIDE DEF blocks, s, H
<1>6. IsContent(ci) /\ ci.blocks = blocks
  BY <1>4, <1>5, ContentOfBlocks
<1>7. \A b \in DOMAIN blocks : blocks[b] # <<>> /\ FitsLimits(blocks[b])
  BY <1>3 DEF AreFilled
<1>8. Grouped(ci)
  BY <1>4, <1>5, <1>7, BlocksAreGrouped
<1>9. Compact(ci)
  <2>1. \A b, c \in DOMAIN blocks : \A i \in DOMAIN blocks[b] : \A j \in DOMAIN blocks[c] :
          blocks[b][i] = blocks[c][j] => b = c /\ i = j
    BY <1>3 DEF AreFilled, OnceIn
  <2>2. \A b \in DOMAIN blocks : blocks[b] # <<>>
    BY <1>7
  <2> QED
    BY <1>4, <1>5, <2>1, <2>2, BlocksAreCompact
<1>10. WithinLimits(ci)
  BY <1>6, <1>7 DEF WithinLimits, FitsLimits
<1>11. AllHashes(ci) = ChunksIn(blocks)
  <2>1. AllHashes(ci) = {ci.chunks[i].hash : i \in DOMAIN ci.chunks}
    BY AllAt DEF HashesAt
  <2>2. ASSUME NEW i \in DOMAIN ci.chunks PROVE ci.chunks[i].hash \in ChunksIn(blocks)
    <3>1. ci.chunks[i].hash \in ToSet(BlockHashAt(ci, i))
      BY <1>4, <1>5, ChunksOfBlocks
    <3>2. ci.chunks[i].block \in DOMAIN blocks
      BY <1>6 DEF IsContent
    <3> QED
      BY <1>6, <3>1, <3>2 DEF BlockHashAt, ChunksIn
  <2>3. ASSUME NEW h \in ChunksIn(blocks)
        PROVE  \E i \in DOMAIN ci.chunks : ci.chunks[i].hash = h
    <3>1. PICK b \in DOMAIN blocks : h \in ToSet(blocks[b])
      BY DEF ChunksIn
    <3>2. \E i \in DOMAIN ci.chunks : ListsAt(ci, i, h, b)
      BY <1>4, <1>5, <3>1, ChunksOfBlocks
    <3> QED
      BY <3>2 DEF ListsAt
  <2> QED
    BY <2>1, <2>2, <2>3
<1> QED
  BY <1>3, <1>6, <1>8, <1>9, <1>10, <1>11 DEF H

(* What a content made of blocks says is true, whatever is taken of it.    *)
LEMMA BlocksAreTrue ==
    ASSUME NEW blocks \in Seq(Seq(Nat)), NEW ci, ci = ContentIndexFromBlocks(blocks)
    PROVE  PairsAreTrue(ci)
<1> SUFFICES ASSUME NEW i \in DOMAIN ci.chunks
             PROVE  Contains(BlockHashAt(ci, i), ci.chunks[i].hash)
  BY DEF PairsAreTrue, Pairs
<1>1. IsContent(ci)
  BY ContentOfBlocks
<1>2. BlockHashAt(ci, i) \in Seq(Nat)
  BY <1>1, BlocksOfChunks
<1>3. ci.chunks[i].hash \in ToSet(BlockHashAt(ci, i))
  BY ChunksOfBlocks
<1> QED
  BY <1>2, <1>3, SequenceIn

--------------------------------------------------------------------------------
(* Versions *)

IsFolder(v) ==
    /\ DOMAIN v \in SUBSET Nat /\ IsFiniteSet(DOMAIN v)
    /\ \A p \in DOMAIN v : v[p].chunks \in Seq(Nat)

ChunksOf(v, S) == UNION {ToSet(v[p].chunks) : p \in S}

(* The chunks of some assets, one asset after the other.                   *)
LEMMA AssetsChunks ==
    ASSUME NEW v, IsFolder(v), NEW order \in Seq(DOMAIN v)
    PROVE  /\ ChunksOfAssets(v, order) \in Seq(Nat)
           /\ ToSet(ChunksOfAssets(v, order)) = ChunksOf(v, ToSet(order))
<1> DEFINE n == Len(order)
           chunks == [i \in DOMAIN order |-> v[order[i]].chunks]
<1>1. n \in Nat /\ DOMAIN order = 1..n /\ \A i \in DOMAIN order : order[i] \in DOMAIN v
  OBVIOUS
<1>2. chunks \in Seq(Seq(Nat)) /\ DOMAIN chunks = DOMAIN order
  <2> DEFINE A == Seq(Nat)
  <2>1. \A i \in 1..n : v[order[i]].chunks \in A
    BY <1>1 DEF IsFolder
  <2> HIDE DEF A, n
  <2>2. chunks \in [1..n -> A]
    BY <1>1, <2>1
  <2> HIDE DEF chunks
  <2>3. chunks \in Seq(A) /\ DOMAIN chunks = 1..n
    BY <1>1, <2>2, SequenceOf
  <2> QED
    BY <1>1, <2>3 DEF A
<1>3. \A i \in DOMAIN order : chunks[i] = v[order[i]].chunks
  OBVIOUS
<1>4. ChunksOfAssets(v, order) = FlattenSeq(chunks)
  BY DEF ChunksOfAssets
<1> HIDE DEF chunks
<1>5. /\ FlattenSeq(chunks) \in Seq(Nat)
      /\ ToSet(FlattenSeq(chunks)) = UNION {ToSet(chunks[i]) : i \in DOMAIN chunks}
  BY <1>2, FlattenMembers
<1>6. UNION {ToSet(chunks[i]) : i \in DOMAIN chunks} = ChunksOf(v, ToSet(order))
  <2>1. ToSet(order) = {order[i] : i \in DOMAIN order}
    BY DEF ToSet
  <2> DEFINE A == UNION {ToSet(chunks[i]) : i \in DOMAIN chunks}
             B == UNION {ToSet(v[p].chunks) : p \in ToSet(order)}
  <2>2. A \subseteq B
    BY <1>2, <1>3, <2>1
  <2>3. ASSUME NEW x \in B PROVE x \in A
    <3>1. PICK p \in ToSet(order) : x \in ToSet(v[p].chunks)
      OBVIOUS
    <3>2. PICK i \in DOMAIN order : p = order[i]
      BY <2>1
    <3> QED
      BY <1>2, <1>3, <3>1, <3>2
  <2> QED
    BY <2>2, <2>3 DEF ChunksOf
<1> QED
  BY <1>4, <1>5, <1>6

(* The chunks of a version, once each.                                     *)
LEMMA VersionMembers ==
    ASSUME NEW v, IsFolder(v)
    PROVE  /\ VersionChunks(v) \in Seq(Nat) /\ Distinct(VersionChunks(v))
           /\ ToSet(VersionChunks(v)) = ChunksOf(v, DOMAIN v)
<1> DEFINE D == DOMAIN v
           order == InOrder(D)
           s == ChunksOfAssets(v, order)
<1>1. order \in Seq(D) /\ ToSet(order) = D
  <2>1. D \in SUBSET Nat /\ IsFiniteSet(D)
    BY DEF IsFolder
  <2> HIDE DEF D
  <2> QED
    BY <2>1, OrderMembers
<1>2. s \in Seq(Nat) /\ ToSet(s) = ChunksOf(v, D)
  <2> HIDE DEF order
  <2> QED
    BY <1>1, AssetsChunks
<1>3. VersionChunks(v) = UniqueHashes(s)
  BY DEF VersionChunks
<1> HIDE DEF s
<1> QED
  BY <1>2, <1>3, UniqueMembers

(* DiffHashes: those of the new ones that are not known.                   *)
LEMMA DiffMembers ==
    ASSUME NEW known, NEW s \in Seq(Nat), Distinct(s)
    PROVE  /\ DiffHashes(known, s) \in Seq(Nat)
           /\ ToSet(DiffHashes(known, s)) = ToSet(s) \ ToSet(known)
<1>1. Cardinality(ToSet(s)) = Len(s) /\ Len(s) \in Nat
  BY SequenceIn
<1>2. SubSeq(s, 1, Len(s)) = s
  <2>1. \A i \in 1..Len(s) : SubSeq(s, 1, Len(s))[i] = s[i]
    BY <1>1
  <2>2. SubSeq(s, 1, Len(s)) \in Seq(Nat) /\ Len(SubSeq(s, 1, Len(s))) = Len(s)
    BY <1>1
  <2> QED
    BY <2>1, <2>2
<1>3. DiffHashes(known, s) = Without(s, ToSet(known))
  BY <1>1, <1>2 DEF DiffHashes
<1> DEFINE S == ToSet(known)
<1> HIDE DEF S
<1>4. Without(s, S) \in Seq(Nat) /\ ToSet(Without(s, S)) = ToSet(s) \ S
  BY WithoutMembers
<1> QED
  BY <1>3, <1>4 DEF S

(* CreateMissingContent has what the version has and the reference does    *)
(* not.                                                                    *)
LEMMA MissingExact ==
    ASSUME NEW ci, NEW v, IsFolder(v), HaveSizes(ChunksOf(v, DOMAIN v)),
           NEW m, m = CreateMissingContent(ci, v)
    PROVE  /\ MissingIsExact(ci, v)
           /\ IsContent(m) /\ PairsAreTrue(m)
           /\ AllHashes(m) = ChunksOf(v, DOMAIN v) \ AllHashes(ci)
           /\ ChunksIn(m.blocks) \subseteq ChunksOf(v, DOMAIN v)
<1> DEFINE s == VersionChunks(v)
           hashes == DiffHashes(ChunkHashes(ci), s)
<1>1. s \in Seq(Nat) /\ Distinct(s) /\ ToSet(s) = ChunksOf(v, DOMAIN v)
  BY VersionMembers
<1>2. hashes \in Seq(Nat) /\ ToSet(hashes) = ToSet(s) \ AllHashes(ci)
  <2> HIDE DEF s
  <2> QED
    BY <1>1, DiffMembers DEF AllHashes
<1>3. m = CreateContentIndexRaw(hashes)
  BY DEF CreateMissingContent
<1> HIDE DEF hashes
<1>4. HaveSizes(ToSet(hashes))
  BY <1>1, <1>2 DEF HaveSizes
<1>5. /\ IsContent(m)
      /\ AllHashes(m) = ToSet(hashes) /\ ChunksIn(m.blocks) = ToSet(hashes)
      /\ Compact(m) /\ Grouped(m) /\ WithinLimits(m)
  BY <1>2, <1>3, <1>4, RawExact
<1>6. MissingIsExact(ci, v)
  BY <1>1, <1>2, <1>5 DEF MissingIsExact, AllHashes
<1>7. PairsAreTrue(m)
  <2>1. m.blocks \in Seq(Seq(Nat))
    BY <1>5 DEF IsContent
  <2>2. m = ContentIndexFromBlocks(m.blocks)
    BY <1>3, RawIsOfBlocks
  <2> QED
    BY <2>1, <2>2, BlocksAreTrue
<1> QED
  BY <1>1, <1>2, <1>5, <1>6, <1>7

(* Merged with what there is, it has all of the version.                   *)
LEMMA MergedIsValid ==
    ASSUME NEW ci, IsContent(ci), NEW v, IsFolder(v), HaveSizes(ChunksOf(v, DOMAIN v))
    PROVE  ValidateContent(MergeContentIndex(ci, CreateMissingContent(ci, v)), v)
<1> DEFINE m == CreateMissingContent(ci, v)
           g == MergeContentIndex(ci, m)
<1>1. IsContent(m) /\ AllHashes(m) = ChunksOf(v, DOMAIN v) \ AllHashes(ci)
  BY MissingExact
<1> HIDE DEF m
<1>2. AllHashes(g) = AllHashes(m) \cup AllHashes(ci)
  BY <1>1, MergeExact
<1>3. ToSet(VersionChunks(v)) = ChunksOf(v, DOMAIN v)
  BY VersionMembers
<1> QED
  BY <1>1, <1>2, <1>3 DEF ValidateContent, AllHashes, m

(* The diff of two versions is what is between them.                       *)
LEMMA DiffExact ==
    ASSUME NEW source, NEW target, IsFolder(source), IsFolder(target),
           HaveSizes(ChunksOf(target, DOMAIN target)),
           \A v \in {source, target} : \A p \in DOMAIN v :
             v[p] = [chunks |-> v[p].chunks, perm |-> v[p].perm]
    PROVE  DiffIsExact(source, target)
<1> DEFINE diff == CreateVersionDiff(source, target)
           rewritten == diff.added \cup diff.modified
           D == DOMAIN target
           patched == [p \in (DOMAIN source \ diff.removed) \cup rewritten |->
                         IF p \in rewritten THEN target[p].chunks ELSE source[p].chunks]
<1>1. /\ diff.removed = DOMAIN source \ D /\ diff.added = D \ DOMAIN source
      /\ diff.modified = {p \in DOMAIN source \cap D : source[p].chunks # target[p].chunks}
      /\ \A p \in D : p \in rewritten \/ p \in diff.permissions
                        \/ (source[p].chunks = target[p].chunks
                              /\ source[p].perm = target[p].perm /\ p \in DOMAIN source)
  BY DEF CreateVersionDiff
<1> HIDE DEF diff
<1>2. patched = [p \in D |-> target[p].chunks]
  <2>1. (DOMAIN source \ diff.removed) \cup rewritten = D
    BY <1>1
  <2>2. \A p \in D : p \notin rewritten => source[p].chunks = target[p].chunks
    BY <1>1
  <2> HIDE DEF rewritten
  <2> QED
    BY <2>1, <2>2
<1>3. \A p \in D : p \in rewritten \cup diff.permissions \/ source[p] = target[p]
  BY <1>1
<1>4. ToSet(ChunkHashes(CreateContentIndexFromDiff(target, diff)))
        = UNION {ToSet(target[p].chunks) : p \in rewritten}
  <2> DEFINE a == InOrder(diff.added)
             b == InOrder(diff.modified)
             order == a \o b
             s == ChunksOfAssets(target, order)
  <2>1. diff.added \in SUBSET D /\ diff.modified \in SUBSET D
    BY <1>1
  <2>2. D \in SUBSET Nat /\ IsFiniteSet(D)
    BY DEF IsFolder
  <2>3. ASSUME NEW S \in SUBSET D PROVE InOrder(S) \in Seq(D) /\ ToSet(InOrder(S)) = S
    <3>1. S \in SUBSET Nat /\ IsFiniteSet(S)
      <4> HIDE DEF D
      <4> QED
        BY <2>2, FS_Subset
    <3>2. InOrder(S) \in Seq(S) /\ ToSet(InOrder(S)) = S
      BY <3>1, OrderMembers
    <3> QED
      BY <3>2, SequenceIn
  <2>4. /\ a \in Seq(D) /\ ToSet(a) = diff.added
        /\ b \in Seq(D) /\ ToSet(b) = diff.modified
    BY <2>1, <2>3
  <2> HIDE DEF a, b
  <2>5. order \in Seq(D) /\ ToSet(order) = rewritten
    <3> HIDE DEF D
    <3> QED
      BY <2>4, ConcatFacts
  <2> HIDE DEF order
  <2>6. s \in Seq(Nat) /\ ToSet(s) = ChunksOf(target, rewritten)
    <3> HIDE DEF rewritten
    <3> QED
      BY <2>5, AssetsChunks
  <2>7. CreateContentIndexFromDiff(target, diff) = CreateContentIndexRaw(s)
    BY DEF CreateContentIndexFromDiff, WrittenAssets, order, a, b
  <2> HIDE DEF s
  <2>8. HaveSizes(ToSet(s))
    <3>1. rewritten \subseteq D
      BY <2>1
    <3> HIDE DEF rewritten
    <3> QED
      BY <2>6, <3>1 DEF HaveSizes, ChunksOf
  <2>9. AllHashes(CreateContentIndexRaw(s)) = ToSet(s)
    BY <2>6, <2>8, RawExact
  <2> QED
    BY <2>6, <2>7, <2>9 DEF AllHashes, ChunksOf
<1> QED
  BY <1>2, <1>3, <1>4 DEF DiffIsExact, diff

--------------------------------------------------------------------------------
(* What is read from where AssetPart says *)

ArePositive(H) == \A h \in H : ChunkSize[h] \in Nat \ {0}

(* Where the chunks of an asset begin and where it ends.                   *)
OffsetsAreSums(chunks) ==
    LET n == Len(chunks) IN
    /\ OffsetOf(chunks, 1) = 0 /\ OffsetOf(chunks, n + 1) = SumOver(ChunkSize, chunks)
    /\ \A i \in 1..(n + 1) : OffsetOf(chunks, i) \in Nat
    /\ \A i \in 1..n : /\ ChunkSize[chunks[i]] \in Nat \ {0}
                       /\ OffsetOf(chunks, i + 1) = OffsetOf(chunks, i) + ChunkSize[chunks[i]]
    /\ \A i \in 1..(n + 1) : \A j \in 1..(n + 1) :
         i < j => OffsetOf(chunks, i) < OffsetOf(chunks, j)

(* Each chunk begins where the one before it ends.                         *)
LEMMA OffsetSteps ==
    ASSUME NEW H, ArePositive(H), NEW chunks \in Seq(H)
    PROVE  OffsetsAreSums(chunks)
<1> DEFINE n == Len(chunks)
           o == [k \in 0..n |-> OffsetOf(chunks, k + 1)]
<1>1. n \in Nat /\ DOMAIN chunks = 1..n /\ \A i \in 1..n : chunks[i] \in H
  OBVIOUS
<1>2. \A h \in H : ChunkSize[h] \in Nat /\ ChunkSize[h] > 0
  BY DEF ArePositive
<1>3. ASSUME NEW k \in 1..n
      PROVE  o[k - 1] \in Nat /\ o[k] = o[k - 1] + ChunkSize[chunks[k]]
  <2> DEFINE s == SubSeq(chunks, 1, k - 1)
             x == chunks[k]
  <2>1. k \in Nat /\ k - 1 \in 0..n /\ k \in 0..n /\ (k - 1) + 1 = k /\ (k + 1) - 1 = k
    BY <1>1
  <2>2. s \in Seq(H) /\ x \in H /\ SubSeq(chunks, 1, k) = Append(s, x)
    <3>1. s \in Seq(H) /\ Len(s) = k - 1 /\ \A i \in 1..(k - 1) : s[i] = chunks[i]
      BY <1>1, <2>1
    <3>2. SubSeq(chunks, 1, k) \in Seq(H) /\ Len(SubSeq(chunks, 1, k)) = k
      BY <1>1, <2>1
    <3>3. \A i \in 1..k : SubSeq(chunks, 1, k)[i] = chunks[i]
      BY <1>1, <2>1
    <3>4. Append(s, x) \in Seq(H) /\ Len(Append(s, x)) = k /\ Append(s, x)[k] = x
      BY <1>1, <2>1, <3>1
    <3>5. \A i \in 1..(k - 1) : Append(s, x)[i] = chunks[i]
      BY <1>1, <2>1, <3>1
    <3>6. \A i \in 1..k : Append(s, x)[i] = SubSeq(chunks, 1, k)[i]
      <4> TAKE i \in 1..k
      <4>1. i \in 1..(k - 1) \/ i = k
        BY <2>1
      <4>2. k \in 1..k
        BY <1>1
      <4> HIDE DEF s, x
      <4> QED
        BY <3>3, <3>4, <3>5, <4>1, <4>2 DEF x
    <3> DEFINE a == Append(s, x)
               b == SubSeq(chunks, 1, k)
    <3>7. a \in Seq(H) /\ b \in Seq(H) /\ Len(a) = k /\ Len(b) = k /\ \A i \in 1..k : a[i] = b[i]
      BY <3>2, <3>4, <3>6
    <3> HIDE DEF a, b
    <3>8. a = b
      BY <3>7
    <3>9. x \in H
      BY <1>1
    <3> QED
      BY <3>1, <3>8, <3>9 DEF a, b
  <2>3. o[k - 1] = SumOver(ChunkSize, s) /\ o[k] = SumOver(ChunkSize, Append(s, x))
    <3>1. o[k - 1] = OffsetOf(chunks, (k - 1) + 1) /\ o[k] = OffsetOf(chunks, k + 1)
      BY <2>1
    <3>2. OffsetOf(chunks, (k - 1) + 1) = SumOver(ChunkSize, s)
      BY <2>1 DEF OffsetOf
    <3>3. OffsetOf(chunks, k + 1) = SumOver(ChunkSize, Append(s, x))
      BY <2>1, <2>2 DEF OffsetOf
    <3> QED
      BY <3>1, <3>2, <3>3
  <2> HIDE DEF s, o
  <2>4. \A h \in H : ChunkSize[h] \in Nat
    BY <1>2
  <2>5. /\ SumOver(ChunkSize, s) \in Nat
        /\ SumOver(ChunkSize, Append(s, x)) = SumOver(ChunkSize, s) + ChunkSize[x]
    <3> HIDE DEF x
    <3> QED
      BY <2>2, <2>4, SumOfAppend
  <2> QED
    BY <2>3, <2>5
<1>4. \A i \in 1..(n + 1) : OffsetOf(chunks, i) = o[i - 1]
  <2> TAKE i \in 1..(n + 1)
  <2>1. i - 1 \in 0..n /\ (i - 1) + 1 = i
    BY <1>1
  <2> QED
    BY <2>1
<1>5. OffsetOf(chunks, 1) = 0 /\ OffsetOf(chunks, n + 1) = SumOver(ChunkSize, chunks)
  <2>1. SubSeq(chunks, 1, 0) = <<>> /\ SubSeq(chunks, 1, n) = chunks
    OBVIOUS
  <2>2. SumOver(ChunkSize, <<>>) = 0
    BY <1>2, SumOfNone
  <2>3. (n + 1) - 1 = n /\ 1 - 1 = 0
    BY <1>1
  <2> QED
    BY <2>1, <2>2, <2>3 DEF OffsetOf
<1> HIDE DEF o, n
<1>6. ASSUME NEW i \in 1..n, NEW j \in 1..(n + 1), i < j
      PROVE  o[i - 1] < o[j - 1]
  <2> DEFINE Q == {k \in 0..n : i <= k => o[k] \in Nat /\ o[i - 1] < o[k]}
  <2>1. 0 \in Q
    BY <1>1
  <2>2. ASSUME NEW k \in 1..n, k - 1 \in Q PROVE k \in Q
    <3>1. k \in 0..n /\ o[k - 1] \in Nat /\ o[k] = o[k - 1] + ChunkSize[chunks[k]]
      BY <1>1, <1>3
    <3>2. ChunkSize[chunks[k]] \in Nat /\ ChunkSize[chunks[k]] > 0
      BY <1>1, <1>2
    <3>3. o[k] \in Nat /\ o[k - 1] < o[k]
      BY <3>1, <3>2
    <3>4. CASE i = k
      BY <3>1, <3>3, <3>4
    <3>5. CASE i # k /\ i <= k
      <4>1. i <= k - 1
        BY <1>1, <3>5
      <4>2. o[i - 1] < o[k - 1] /\ o[i - 1] \in Nat
        BY <1>3, <2>2, <4>1
      <4> QED
        BY <3>1, <3>3, <4>2
    <3> QED
      BY <3>1, <3>4, <3>5
  <2>3. \A k \in 0..n : k \in Q
    <3> HIDE DEF Q
    <3> QED
      BY <1>1, <2>1, <2>2, RangeInduction
  <2>4. j - 1 \in 0..n /\ i <= j - 1
    BY <1>1, <1>6
  <2> QED
    BY <2>3, <2>4
<1>7. \A k \in 0..n : o[k] \in Nat
  <2>1. 0 \in 0..n /\ o[0] \in Nat
    BY <1>1, <1>4, <1>5
  <2>2. ASSUME NEW k \in 1..n PROVE o[k] \in Nat
    BY <1>1, <1>2, <1>3
  <2> QED
    BY <1>1, <2>1, <2>2
<1>8. ASSUME NEW i \in 1..n
      PROVE  /\ ChunkSize[chunks[i]] \in Nat \ {0}
             /\ OffsetOf(chunks, i + 1) = OffsetOf(chunks, i) + ChunkSize[chunks[i]]
  <2>1. i \in 1..(n + 1) /\ i + 1 \in 1..(n + 1) /\ (i + 1) - 1 = i
    BY <1>1
  <2>2. OffsetOf(chunks, i) = o[i - 1] /\ OffsetOf(chunks, i + 1) = o[i]
    BY <1>4, <2>1
  <2> QED
    BY <1>1, <1>2, <1>3, <2>2
<1>9. ASSUME NEW i \in 1..(n + 1) PROVE OffsetOf(chunks, i) \in Nat
  <2>1. i - 1 \in 0..n
    BY <1>1
  <2>2. OffsetOf(chunks, i) = o[i - 1]
    BY <1>4
  <2>3. o[i - 1] \in Nat
    BY <1>7, <2>1
  <2> QED
    BY <2>2, <2>3
<1>10. ASSUME NEW i \in 1..(n + 1), NEW j \in 1..(n + 1), i < j
       PROVE  OffsetOf(chunks, i) < OffsetOf(chunks, j)
  <2>1. i \in 1..n
    BY <1>1, <1>10
  <2>2. o[i - 1] < o[j - 1]
    BY <1>6, <1>10, <2>1
  <2> QED
    BY <1>4, <2>2
<1>11. /\ \A i \in 1..n : /\ ChunkSize[chunks[i]] \in Nat \ {0}
                          /\ OffsetOf(chunks, i + 1) = OffsetOf(chunks, i) + ChunkSize[chunks[i]]
       /\ \A i \in 1..(n + 1) : \A j \in 1..(n + 1) :
            i < j => OffsetOf(chunks, i) < OffsetOf(chunks, j)
  BY <1>8, <1>10
<1>12. \A i \in 1..(n + 1) : OffsetOf(chunks, i) \in Nat
  BY <1>9
<1> QED
  BY ONLY <1>5, <1>11, <1>12 DEF OffsetsAreSums, n

(* The offsets of the chunks of an asset grow.                             *)
LEMMA OffsetsGrow ==
    ASSUME NEW H, ArePositive(H), NEW chunks \in Seq(H)
    PROVE  /\ \A i \in DOMAIN chunks : OffsetOf(chunks, i) \in Nat
           /\ \A i \in DOMAIN chunks : \A j \in DOMAIN chunks :
                OffsetOf(chunks, i) = OffsetOf(chunks, j) => i = j
<1> DEFINE n == Len(chunks)
<1>1. n \in Nat /\ DOMAIN chunks = 1..n /\ \A i \in 1..n : i \in 1..(n + 1) /\ i \in Nat
  OBVIOUS
<1>2. /\ \A i \in 1..(n + 1) : OffsetOf(chunks, i) \in Nat
      /\ \A i \in 1..(n + 1) : \A j \in 1..(n + 1) :
           i < j => OffsetOf(chunks, i) < OffsetOf(chunks, j)
  BY OffsetSteps DEF OffsetsAreSums
<1> HIDE DEF n
<1>3. ASSUME NEW i \in 1..n, NEW j \in 1..n, OffsetOf(chunks, i) = OffsetOf(chunks, j)
      PROVE  i = j
  <2>1. OffsetOf(chunks, i) \in Nat /\ OffsetOf(chunks, j) \in Nat
    BY <1>1, <1>2
  <2>2. ~(i < j) /\ ~(j < i)
    BY <1>1, <1>2, <1>3, <2>1
  <2> QED
    BY <1>1, <2>2
<1> QED
  BY <1>1, <1>2, <1>3

(* Where a chunk of a version is.                                          *)
LEMMA PartHasChunk ==
    ASSUME NEW v, IsFolder(v), NEW h \in ChunksOf(v, DOMAIN v),
           NEW part, part = AssetPart(v, h)
    PROVE  /\ part.path \in DOMAIN v
           /\ LET chunks == v[part.path].chunks IN
              \E k \in DOMAIN chunks : chunks[k] = h /\ part.offset = OffsetOf(chunks, k)
<1> DEFINE S == {p \in DOMAIN v : Contains(v[p].chunks, h)}
           path == CHOOSE p \in DOMAIN v :
                     /\ Contains(v[p].chunks, h)
                     /\ \A q \in DOMAIN v : q < p => ~Contains(v[q].chunks, h)
           chunks == v[path].chunks
<1>1. S \in SUBSET Nat /\ S # {}
  <2>1. PICK p \in DOMAIN v : h \in ToSet(v[p].chunks)
    BY DEF ChunksOf
  <2>2. v[p].chunks \in Seq(Nat)
    BY DEF IsFolder
  <2>3. Contains(v[p].chunks, h)
    BY <2>1, <2>2, SequenceIn
  <2> QED
    BY <2>3 DEF IsFolder
<1>2. PICK m \in S : \A k \in S : m <= k
  <2> HIDE DEF S
  <2> QED
    BY <1>1, LeastNumber
<1>3. \A q \in DOMAIN v : q < m => ~Contains(v[q].chunks, h)
  <2> TAKE q \in DOMAIN v
  <2>1. q \in Nat /\ m \in Nat
    BY DEF IsFolder
  <2> QED
    BY <1>2, <2>1
<1>4. path \in DOMAIN v /\ Contains(chunks, h)
  BY <1>2, <1>3
<1>5. part = [path |-> path, offset |-> OffsetOf(chunks, IndexIn(chunks, h))]
  BY DEF AssetPart
<1> HIDE DEF path
<1>6. chunks \in Seq(Nat) /\ h \in ToSet(chunks)
  <2>1. chunks \in Seq(Nat)
    BY <1>4 DEF IsFolder
  <2> HIDE DEF chunks
  <2> QED
    BY <1>4, <2>1, SequenceIn
<1> DEFINE k == IndexIn(chunks, h)
<1>7. k \in DOMAIN chunks /\ chunks[k] = h
  <2> HIDE DEF chunks
  <2> QED
    BY <1>6, IndexOf
<1>8. part.path = path /\ part.offset = OffsetOf(chunks, k)
  BY <1>5
<1> HIDE DEF k
<1> QED
  BY <1>4, <1>7, <1>8

(* A version is a folder, and its chunks have sizes.                       *)
LEMMA VersionFacts ==
    ASSUME NEW v, IsVersion(v)
    PROVE  /\ IsFolder(v)
           /\ ArePositive(ChunksOf(v, DOMAIN v)) /\ HaveSizes(ChunksOf(v, DOMAIN v))
           /\ \A p \in DOMAIN v : v[p] = [chunks |-> v[p].chunks, perm |-> v[p].perm]
<1>1. \A p \in DOMAIN v : v[p] \in [chunks : Seq(Nat), perm : {"ro", "rw"}]
  BY DEF IsVersion
<1>2. IsFolder(v)
  <2>1. \A p \in DOMAIN v : v[p].chunks \in Seq(Nat)
    BY <1>1
  <2> QED
    BY <2>1, PathsType DEF IsVersion, IsFolder
<1>3. ArePositive(ChunksOf(v, DOMAIN v))
  BY DEF IsVersion, ArePositive, ChunksOf
<1>4. HaveSizes(ChunksOf(v, DOMAIN v))
  BY <1>3 DEF ArePositive, HaveSizes
<1>5. \A p \in DOMAIN v : v[p] = [chunks |-> v[p].chunks, perm |-> v[p].perm]
  BY <1>1
<1> QED
  BY <1>2, <1>3, <1>4, <1>5
================================================================================
