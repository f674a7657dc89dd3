----------------------------- MODULE FoldLemmas ----------------------------
(***************************************************************************)
(* Induction over numbers, stated for sets so that it can be cited, and    *)
(* from it what a fold over a sequence is: the last value of a run that    *)
(* starts with the base and takes one step per element.                    *)
(***************************************************************************)
EXTENDS Kept, FiniteSetTheorems, SequenceTheorems, TLAPS

(***************************************************************************)
(* Every nonempty set of naturals has a least element: the initial         *)
(* segments up to them are finite sets, which strict inclusion orders in a *)
(* well-founded way.                                                       *)
(***************************************************************************)
LEMMA Least ==
  ASSUME NEW T \in SUBSET Nat, T # {}
  PROVE  \E n \in T : \A m \in T : n <= m
<1> DEFINE R == StrictSubsetOrdering(Nat)
           I == {0 .. n : n \in T}
<1>1. I # {} /\ I \subseteq FiniteSubsetsOf(Nat)
  <2>1. ASSUME NEW n \in Nat PROVE 0 .. n \in FiniteSubsetsOf(Nat)
    <3>1. IsFiniteSet(0 .. n) /\ 0 .. n \subseteq Nat
      BY FS_Interval
    <3> QED
      BY <3>1 DEF FiniteSubsetsOf
  <2> QED
    BY <2>1
<1>2. IsWellFoundedOn(R, FiniteSubsetsOf(Nat))
  BY FS_StrictSubsetOrderingWellFounded
<1> HIDE DEF R
<1>3. PICK x \in I : \A y \in I : <<y, x>> \notin R
  BY <1>1, <1>2, WFMin
<1>4. PICK n \in T : x = 0 .. n
  OBVIOUS
<1>5. ASSUME NEW m \in T, m < n PROVE FALSE
  <2>1. 0 .. m \in I /\ 0 .. m \subseteq 0 .. n /\ n \in 0 .. n /\ n \notin 0 .. m
    BY <1>5
  <2>2. <<0 .. m, 0 .. n>> \in R
    BY <2>1 DEF R, StrictSubsetOrdering
  <2> QED
    BY <1>3, <1>4, <2>1, <2>2
<1> QED
  BY <1>5

LEMMA InductNat ==
  ASSUME NEW S, 0 \in S, \A n \in Nat : n \in S => n + 1 \in S
  PROVE  Nat \subseteq S
<1> SUFFICES ASSUME Nat \ S # {} PROVE FALSE
  OBVIOUS
<1>1. PICK n \in Nat \ S : \A m \in Nat \ S : n <= m
  BY Least
<1>2. n # 0 /\ n - 1 \in Nat /\ n - 1 \in S
  BY <1>1
<1> QED
  BY <1>1, <1>2

\* Induction up to a bound.
LEMMA InductUpTo ==
  ASSUME NEW n \in Nat, NEW S, 0 \in S, \A i \in 1 .. n : i - 1 \in S => i \in S
  PROVE  0 .. n \subseteq S
<1> DEFINE U == {i \in Nat : i <= n => i \in S}
<1>1. 0 \in U
  OBVIOUS
<1>2. ASSUME NEW i \in Nat, i \in U PROVE i + 1 \in U
  <2>1. CASE i + 1 <= n
    <3>1. i \in S /\ i + 1 \in 1 .. n /\ (i + 1) - 1 = i
      BY <1>2, <2>1
    <3> QED
      BY <3>1
  <2>2. CASE ~(i + 1 <= n)
    BY <2>2
  <2> QED
    BY <2>1, <2>2
<1>3. Nat \subseteq U
  <2> HIDE DEF U
  <2> QED BY <1>1, <1>2, InductNat
<1> QED
  BY <1>3

-----------------------------------------------------------------------------
(***************************************************************************)
(* Extremes of sets of numbers.                                            *)
(***************************************************************************)
LEMMA MinNat ==
  ASSUME NEW T \in SUBSET Nat, T # {}
  PROVE  Min(T) \in T /\ \A x \in T : Min(T) <= x
BY Least DEF Min

LEMMA MaxUpTo ==
  ASSUME NEW n \in Int, NEW T \in SUBSET Int, T # {}, \A x \in T : x <= n
  PROVE  Max(T) \in T /\ \A x \in T : x <= Max(T)
<1> DEFINE D == {n - x : x \in T}
<1>1. D \in SUBSET Nat /\ D # {}
  <2>1. \A x \in T : n - x \in Nat
    OBVIOUS
  <2> QED
    BY <2>1
<1>2. PICK d \in D : \A e \in D : d <= e
  BY <1>1, Least
<1>3. PICK m \in T : d = n - m
  OBVIOUS
<1>4. \A x \in T : m >= x
  <2> SUFFICES ASSUME NEW x \in T PROVE m >= x
    OBVIOUS
  <2>1. n - m <= n - x
    BY <1>2, <1>3
  <2> QED
    BY <2>1
<1>5. \E y \in T : \A x \in T : y >= x
  BY <1>4
<1>6. Max(T) \in T /\ \A x \in T : Max(T) >= x
  BY <1>5 DEF Max
<1>7. Max(T) \in Int
  BY <1>6
<1> QED
  BY <1>6, <1>7

LEMMA MaxOfInterval ==
  ASSUME NEW k \in Nat \ {0}
  PROVE  Max(1 .. k) = k /\ (1 .. k) \ {k} = 1 .. k - 1
<1>1. Max(1 .. k) \in 1 .. k /\ \A x \in 1 .. k : x <= Max(1 .. k)
  <2> DEFINE T == 1 .. k
  <2>1. T \in SUBSET Int /\ T # {} /\ k \in Int /\ \A x \in T : x <= k
    OBVIOUS
  <2> HIDE DEF T
  <2>2. Max(T) \in T /\ \A x \in T : x <= Max(T)
    BY <2>1, MaxUpTo
  <2> QED
    BY <2>2 DEF T
<1> QED
  BY <1>1

-----------------------------------------------------------------------------
(***************************************************************************)
(* The function on sets of positions by which FoldLeft is defined exists,  *)
(* for a step g and a base within a set V of values.                       *)
(***************************************************************************)
FoldOf(F, n, V, base, g) ==
  /\ F \in [SUBSET (1 .. n) -> V]
  /\ \A t \in SUBSET (1 .. n) : F[t] = IF t = {} THEN base ELSE g[<<Max(t), F[t \ {Max(t)}]>>]

LEMMA FoldExists ==
  ASSUME NEW n \in Nat, NEW V, NEW base \in V, NEW g \in [(1 .. n) \X V -> V]
  PROVE  \E F : FoldOf(F, n, V, base, g)
<1> DEFINE Good(F, k) == \A t \in SUBSET (1 .. k) :
                           F[t] = IF t = {} THEN base ELSE g[<<Max(t), F[t \ {Max(t)}]>>]
           S == {k \in 0 .. n : \E F \in [SUBSET (1 .. k) -> V] : Good(F, k)}
<1>1. 0 \in S
  <2> DEFINE Start == [t \in SUBSET (1 .. 0) |-> base]
  <2>1. Start \in [SUBSET (1 .. 0) -> V] /\ \A t \in SUBSET (1 .. 0) : t = {} /\ Start[t] = base
    OBVIOUS
  <2>2. Good(Start, 0)
    BY <2>1
  <2> HIDE DEF Start, Good
  <2>3. 0 \in 0 .. n
    OBVIOUS
  <2> QED
    BY <2>1, <2>2, <2>3
<1>2. ASSUME NEW k \in 1 .. n, k - 1 \in S PROVE k \in S
  <2>1. PICK F \in [SUBSET (1 .. k - 1) -> V] : Good(F, k - 1)
    BY <1>2
  <2> DEFINE G == [t \in SUBSET (1 .. k) |-> IF k \in t THEN g[<<k, F[t \ {k}]>>] ELSE F[t]]
  <2>2. ASSUME NEW t \in SUBSET (1 .. k), t # {} PROVE Max(t) \in t /\ \A x \in t : x <= Max(t)
    <3>1. t \in SUBSET Int /\ k \in Int /\ \A x \in t : x <= k
      OBVIOUS
    <3> QED
      BY <2>2, <3>1, MaxUpTo
  <2>3. ASSUME NEW t \in SUBSET (1 .. k) PROVE t \ {k} \in SUBSET (1 .. k - 1)
    OBVIOUS
  <2>4. ASSUME NEW t \in SUBSET (1 .. k) PROVE G[t] \in V
    <3>1. CASE k \in t
      <4>1. <<k, F[t \ {k}]>> \in (1 .. n) \X V
        BY <2>3
      <4> QED
        BY <3>1, <4>1
    <3>2. CASE k \notin t
      <4>1. t \in SUBSET (1 .. k - 1)
        BY <3>2
      <4> QED
        BY <3>2, <4>1
    <3> QED
      BY <3>1, <3>2
  <2>5. ASSUME NEW t \in SUBSET (1 .. k)
        PROVE  G[t] = IF t = {} THEN base ELSE g[<<Max(t), G[t \ {Max(t)}]>>]
    <3>1. CASE k \in t
      <4>1. Max(t) = k
        <5>1. Max(t) \in t /\ k <= Max(t)
          BY <2>2, <3>1
        <5>2. Max(t) \in 1 .. k
          BY <5>1
        <5> HIDE DEF G, Good
        <5> QED
          BY <5>1, <5>2
      <4>2. G[t \ {k}] = F[t \ {k}]
        BY <2>3
      <4> HIDE DEF G
      <4>3. G[t] = g[<<k, F[t \ {k}]>>]
        BY <3>1 DEF G
      <4> QED
        BY <3>1, <4>1, <4>2, <4>3
    <3>2. CASE k \notin t
      <4>1. t \in SUBSET (1 .. k - 1)
        BY <3>2
      <4>2. \A u \in SUBSET t : G[u] = F[u]
        BY <3>2, <4>1
      <4>3. F[t] = IF t = {} THEN base ELSE g[<<Max(t), F[t \ {Max(t)}]>>]
        BY <2>1, <4>1
      <4> HIDE DEF G
      <4> QED
        BY <4>2, <4>3
    <3> QED
      BY <3>1, <3>2
  <2>6. G \in [SUBSET (1 .. k) -> V]
    BY <2>4
  <2> HIDE DEF G
  <2>7. Good(G, k)
    BY <2>5
  <2> HIDE DEF Good
  <2> QED
    BY <2>6, <2>7
<1>3. n \in S
  <2> HIDE DEF S
  <2> QED BY <1>1, <1>2, InductUpTo
<1> QED
  BY <1>3 DEF FoldOf

(***************************************************************************)
(* The value of such a function on 1 .. k is the k-th of a run of values.  *)
(* The equation is asked for only where the value before is in V, which is *)
(* all a concrete step says.                                               *)
(***************************************************************************)
Folds(F, n, V, base, g) ==
  /\ F[{}] = base
  /\ \A t \in SUBSET (1 .. n) : t # {} /\ F[t \ {Max(t)}] \in V => F[t] = g[<<Max(t), F[t \ {Max(t)}]>>]
RunOf(R, n, V, base, g) ==
  /\ R \in [0 .. n -> V]
  /\ R[0] = base
  /\ \A k \in 1 .. n : R[k] = g[<<k, R[k - 1]>>]

LEMMA FoldRun ==
  ASSUME NEW n \in Nat, NEW V, NEW base \in V, NEW g \in [(1 .. n) \X V -> V], NEW F,
         Folds(F, n, V, base, g)
  PROVE  RunOf([k \in 0 .. n |-> F[1 .. k]], n, V, base, g)
<1> USE DEF Folds
<1> DEFINE S == {k \in 0 .. n : F[1 .. k] \in V}
<1>1. 1 .. 0 = {}
  OBVIOUS
<1>2. ASSUME NEW k \in 1 .. n, F[1 .. k - 1] \in V PROVE F[1 .. k] = g[<<k, F[1 .. k - 1]>>] /\ F[1 .. k] \in V
  <2>1. 1 .. k \in SUBSET (1 .. n) /\ 1 .. k # {} /\ k \in Nat \ {0}
    OBVIOUS
  <2>2. F[1 .. k] = g[<<k, F[1 .. k - 1]>>]
    BY <1>2, <2>1, MaxOfInterval
  <2> QED
    BY <1>2, <2>2
<1>3. 0 \in S
  BY <1>1
<1>4. ASSUME NEW k \in 1 .. n, k - 1 \in S PROVE k \in S
  <2>1. F[1 .. k - 1] \in V /\ k \in 0 .. n
    BY <1>4
  <2> QED
    BY <1>2, <2>1
<1>5. 0 .. n \subseteq S
  <2> HIDE DEF S
  <2> QED BY <1>3, <1>4, InductUpTo
<1>6. \A k \in 1 .. n : k - 1 \in 0 .. n
  OBVIOUS
<1> QED
  BY <1>1, <1>2, <1>5, <1>6 DEF RunOf

-----------------------------------------------------------------------------
(***************************************************************************)
(* Kept, one element after the other.                                      *)
(***************************************************************************)
Keeps(R, E, s, A) ==
  /\ R \in [0 .. Len(s) -> Seq(E)]
  /\ R[0] = <<>>
  /\ \A k \in 1 .. Len(s) : R[k] = IF s[k] \in A THEN Append(R[k - 1], s[k]) ELSE R[k - 1]
  /\ Kept(s, A) = R[Len(s)]

LEMMA KeptRun ==
  ASSUME NEW E, NEW s \in Seq(E), NEW A
  PROVE  \E R : Keeps(R, E, s, A)
<1> DEFINE n == Len(s)
           V == Seq(E)
           empty == <<>>
           g == [p \in (1 .. n) \X V |-> IF s[p[1]] \in A THEN Append(p[2], s[p[1]]) ELSE p[2]]
           Eq(F) == F = [t \in SUBSET DOMAIN s |->
                           IF t = {} THEN <<>>
                           ELSE IF s[Max(t)] \in A THEN Append(F[t \ {Max(t)}], s[Max(t)]) ELSE F[t \ {Max(t)}]]
           fold == CHOOSE F : Eq(F)
<1>1. n \in Nat /\ DOMAIN s = 1 .. n /\ <<>> \in V /\ \A k \in 1 .. n : s[k] \in E
  OBVIOUS
<1>2. ASSUME NEW k \in 1 .. n, NEW v \in V
      PROVE  g[<<k, v>>] = (IF s[k] \in A THEN Append(v, s[k]) ELSE v) /\ g[<<k, v>>] \in V
  <2>1. <<k, v>> \in (1 .. n) \X V /\ s[k] \in E
    OBVIOUS
  <2> QED
    BY <2>1
<1>3. g \in [(1 .. n) \X V -> V]
  <2>1. \A p \in (1 .. n) \X V : p[1] \in 1 .. n /\ p[2] \in V /\ s[p[1]] \in E
    OBVIOUS
  <2> QED
    BY <2>1
<1> HIDE DEF n, V, g
<1>4. PICK F : FoldOf(F, n, V, empty, g)
  <2> empty \in V
    BY <1>1
  <2> HIDE DEF empty
  <2> QED
    BY <1>1, <1>3, FoldExists
<1>5. ASSUME NEW t \in SUBSET (1 .. n), t # {} PROVE Max(t) \in 1 .. n /\ t \ {Max(t)} \in SUBSET (1 .. n)
  <2>1. t \in SUBSET Int /\ n \in Int /\ \A x \in t : x <= n
    BY <1>1
  <2>2. Max(t) \in t
    BY <1>5, <2>1, MaxUpTo
  <2> QED
    BY <2>2
<1>6. Eq(F)
  <2>1. ASSUME NEW t \in SUBSET (1 .. n), t # {}
        PROVE  F[t] = IF s[Max(t)] \in A THEN Append(F[t \ {Max(t)}], s[Max(t)]) ELSE F[t \ {Max(t)}]
    BY <1>2, <1>4, <1>5, <2>1 DEF FoldOf
  <2>2. F[{}] = <<>> /\ F \in [SUBSET (1 .. n) -> V]
    BY <1>4 DEF FoldOf
  <2>3. F = [t \in SUBSET (1 .. n) |->
               IF t = {} THEN <<>>
               ELSE IF s[Max(t)] \in A THEN Append(F[t \ {Max(t)}], s[Max(t)]) ELSE F[t \ {Max(t)}]]
    BY <2>1, <2>2
  <2> QED
    BY <1>1, <2>3
<1>7. Eq(fold)
  <2> HIDE DEF Eq
  <2> QED BY <1>6
<1>8. Folds(fold, n, V, empty, g)
  <2> DEFINE f == fold
  <2>1. Eq(f)
    BY <1>7
  <2> HIDE DEF f, fold
  <2>2. f[{}] = <<>>
    BY <1>1, <2>1
  <2>3. ASSUME NEW t \in SUBSET (1 .. n), t # {}, f[t \ {Max(t)}] \in V
        PROVE  f[t] = g[<<Max(t), f[t \ {Max(t)}]>>]
    <3>1. f[t] = IF s[Max(t)] \in A THEN Append(f[t \ {Max(t)}], s[Max(t)]) ELSE f[t \ {Max(t)}]
      BY <1>1, <2>1, <2>3
    <3> QED
      BY <1>2, <1>5, <2>3, <3>1
  <2> QED
    BY <2>2, <2>3 DEF f, Folds
<1>9. Kept(s, A) = fold[1 .. n]
  BY <1>1 DEF Kept, FoldLeft, MapThenFoldSet
<1> HIDE DEF fold
<1> DEFINE R == [k \in 0 .. n |-> fold[1 .. k]]
<1>10. RunOf(R, n, V, empty, g)
  <2> empty \in V
    BY <1>1
  <2> HIDE DEF empty
  <2> QED
    BY <1>1, <1>3, <1>8, FoldRun
<1>11. Kept(s, A) = R[n]
  BY <1>1, <1>9
<1> HIDE DEF R
<1>12. ASSUME NEW k \in 1 .. n PROVE R[k] = IF s[k] \in A THEN Append(R[k - 1], s[k]) ELSE R[k - 1]
  <2>1. k - 1 \in 0 .. n
    BY <1>1
  <2>2. R[k] = g[<<k, R[k - 1]>>] /\ R[k - 1] \in V
    BY <1>10, <2>1 DEF RunOf
  <2> QED
    BY <1>2, <2>2
<1> QED
  BY <1>10, <1>11, <1>12 DEF n, V, RunOf, Keeps

(***************************************************************************)
(* Kept(s, A) lists the positions of s that hold an element of A, in order *)
(* and each once.                                                          *)
(***************************************************************************)
Picks(h, m, k, s, A) ==
  /\ h \in [1 .. m -> 1 .. k]
  /\ \A i, j \in 1 .. m : i < j => h[i] < h[j]
  /\ \A i \in 1 .. k : s[i] \in A <=> \E j \in 1 .. m : h[j] = i

LEMMA KeptPicks ==
  ASSUME NEW E, NEW s \in Seq(E), NEW A
  PROVE  /\ Kept(s, A) \in Seq(E)
         /\ \E h : /\ Picks(h, Len(Kept(s, A)), Len(s), s, A)
                   /\ \A i \in 1 .. Len(Kept(s, A)) : Kept(s, A)[i] = s[h[i]]
<1>0. PICK R : Keeps(R, E, s, A)
  BY KeptRun
<1>1. /\ R \in [0 .. Len(s) -> Seq(E)] /\ R[0] = <<>>
      /\ \A k \in 1 .. Len(s) : R[k] = IF s[k] \in A THEN Append(R[k - 1], s[k]) ELSE R[k - 1]
      /\ Kept(s, A) = R[Len(s)]
  BY <1>0 DEF Keeps
<1> DEFINE Lists(h, k) == Picks(h, Len(R[k]), k, s, A) /\ \A i \in 1 .. Len(R[k]) : R[k][i] = s[h[i]]
           S == {k \in 0 .. Len(s) : \E h : Lists(h, k)}
<1>2. 0 \in S
  <2>1. Lists([i \in 1 .. 0 |-> 0], 0)
    BY <1>1 DEF Picks
  <2> QED
    BY <2>1
<1>3. ASSUME NEW k \in 1 .. Len(s), k - 1 \in S PROVE k \in S
  <2>1. PICK h : Lists(h, k - 1)
    BY <1>3
  <2> DEFINE m == Len(R[k - 1])
  <2>2. k - 1 \in 0 .. Len(s) /\ k \in 0 .. Len(s) /\ R[k - 1] \in Seq(E) /\ m \in Nat /\ s[k] \in E
    BY <1>1
  <2>3. CASE s[k] \in A
    <3> DEFINE H == [i \in 1 .. m + 1 |-> IF i = m + 1 THEN k ELSE h[i]]
    <3>1. R[k] = Append(R[k - 1], s[k])
      BY <1>1, <2>3
    <3>2. Len(R[k]) = m + 1 /\ R[k][m + 1] = s[k] /\ \A i \in 1 .. m : R[k][i] = R[k - 1][i]
      BY <2>2, <3>1
    <3>3. /\ h \in [1 .. m -> 1 .. k - 1]
          /\ \A i, j \in 1 .. m : i < j => h[i] < h[j]
          /\ \A i \in 1 .. k - 1 : s[i] \in A <=> \E j \in 1 .. m : h[j] = i
          /\ \A i \in 1 .. m : R[k - 1][i] = s[h[i]]
      BY <2>1 DEF Picks
    <3> HIDE DEF m
    <3>4. H \in [1 .. m + 1 -> 1 .. k]
      BY <2>2, <3>3
    <3>5. ASSUME NEW i \in 1 .. m + 1, NEW j \in 1 .. m + 1, i < j PROVE H[i] < H[j]
      <4>1. i \in 1 .. m /\ h[i] \in 1 .. k - 1 /\ H[i] = h[i]
        BY <2>2, <3>3, <3>5
      <4>2. CASE j = m + 1
        BY <4>1, <4>2
      <4>3. CASE j # m + 1
        <5>1. j \in 1 .. m /\ H[j] = h[j]
          BY <2>2, <4>3
        <5> QED
          BY <3>3, <3>5, <4>1, <5>1
      <4> QED
        BY <4>2, <4>3
    <3>6. ASSUME NEW i \in 1 .. k PROVE s[i] \in A <=> \E j \in 1 .. m + 1 : H[j] = i
      <4>1. CASE i = k
        <5>1. m + 1 \in 1 .. m + 1 /\ H[m + 1] = k
          BY <2>2
        <5> HIDE DEF H
        <5> QED
          BY <2>3, <4>1, <5>1
      <4>2. CASE i # k
        <5>1. i \in 1 .. k - 1
          BY <4>2
        <5>2. s[i] \in A <=> \E j \in 1 .. m : h[j] = i
          BY <3>3, <5>1
        <5>3. \A j \in 1 .. m + 1 : H[j] = i <=> j \in 1 .. m /\ h[j] = i
          BY <2>2, <4>2
        <5>4. \A j \in 1 .. m : j \in 1 .. m + 1
          BY <2>2
        <5> HIDE DEF H
        <5> QED
          BY <5>2, <5>3, <5>4
      <4> QED
        BY <4>1, <4>2
    <3>7. \A i \in 1 .. m + 1 : R[k][i] = s[H[i]]
      <4> SUFFICES ASSUME NEW i \in 1 .. m + 1 PROVE R[k][i] = s[H[i]]
        OBVIOUS
      <4>1. CASE i = m + 1
        BY <3>2, <4>1
      <4>2. CASE i # m + 1
        <5>1. i \in 1 .. m /\ H[i] = h[i]
          BY <2>2, <4>2
        <5> QED
          BY <3>2, <3>3, <5>1
      <4> QED
        BY <4>1, <4>2
    <3> HIDE DEF H
    <3>8. Lists(H, k)
      BY <3>2, <3>4, <3>5, <3>6, <3>7 DEF Picks
    <3> HIDE DEF Lists
    <3> QED
      BY <2>2, <3>8
  <2>4. CASE s[k] \notin A
    <3>1. R[k] = R[k - 1]
      BY <1>1, <2>4
    <3>2. Lists(h, k)
      <4>1. /\ h \in [1 .. m -> 1 .. k - 1]
            /\ \A i, j \in 1 .. m : i < j => h[i] < h[j]
            /\ \A i \in 1 .. k - 1 : s[i] \in A <=> \E j \in 1 .. m : h[j] = i
            /\ \A i \in 1 .. m : R[k - 1][i] = s[h[i]]
        BY <2>1 DEF Picks
      <4> HIDE DEF m
      <4>2. h \in [1 .. m -> 1 .. k]
        BY <4>1
      <4>3. ASSUME NEW i \in 1 .. k PROVE s[i] \in A <=> \E j \in 1 .. m : h[j] = i
        <5>1. CASE i = k
          <6>1. \A j \in 1 .. m : h[j] # k
            BY <4>1
          <6> QED
            BY <2>4, <5>1, <6>1
        <5>2. CASE i # k
          <6>1. i \in 1 .. k - 1
            BY <5>2
          <6> QED
            BY <4>1, <6>1
        <5> QED
          BY <5>1, <5>2
      <4> QED
        BY <3>1, <4>1, <4>2, <4>3 DEF Picks, m
    <3> HIDE DEF Lists
    <3> QED
      BY <2>2, <3>2
  <2> QED
    BY <2>3, <2>4
<1>4. Len(s) \in S
  <2> DEFINE n == Len(s)
  <2> HIDE DEF S
  <2>1. n \in Nat /\ \A k \in 1 .. n : k - 1 \in S => k \in S
    BY <1>3
  <2> HIDE DEF n
  <2>2. 0 .. n \subseteq S
    BY <1>2, <2>1, InductUpTo
  <2> QED
    BY <2>1, <2>2 DEF n
<1> QED
  BY <1>1, <1>4

(***************************************************************************)
(* How many there are.                                                     *)
(***************************************************************************)
LEMMA KeptLength ==
  ASSUME NEW E, NEW s \in Seq(E), NEW A
  PROVE  /\ Kept(s, A) \in Seq(E)
         /\ IsFiniteSet({i \in 1 .. Len(s) : s[i] \in A})
         /\ Len(Kept(s, A)) = Cardinality({i \in 1 .. Len(s) : s[i] \in A})
<1> DEFINE T == {i \in 1 .. Len(s) : s[i] \in A}
           m == Len(Kept(s, A))
<1>1. PICK h : Picks(h, m, Len(s), s, A)
  BY KeptPicks
<1>2. Kept(s, A) \in Seq(E) /\ m \in Nat
  BY KeptPicks
<1> HIDE DEF m
<1>3. h \in Bijection(1 .. m, T)
  <2>1. h \in [1 .. m -> T]
    BY <1>1 DEF Picks
  <2>2. \A i, j \in 1 .. m : h[i] = h[j] => i = j
    <3> SUFFICES ASSUME NEW i \in 1 .. m, NEW j \in 1 .. m, h[i] = h[j], i # j PROVE FALSE
      OBVIOUS
    <3>1. h[i] \in 1 .. Len(s) /\ h[j] \in 1 .. Len(s)
      BY <1>1 DEF Picks
    <3>2. i < j \/ j < i
      BY <1>2
    <3>3. h[i] < h[j] \/ h[j] < h[i]
      BY <1>1, <3>2 DEF Picks
    <3> QED
      BY <3>1, <3>3
  <2>3. \A i \in T : \E j \in 1 .. m : h[j] = i
    BY <1>1 DEF Picks
  <2> QED
    BY <2>1, <2>2, <2>3 DEF Bijection, Injection, Surjection, IsInjective
<1>4. IsFiniteSet(1 .. m) /\ Cardinality(1 .. m) = m
  BY <1>2, FS_Interval
<1>5. ExistsBijection(1 .. m, T)
  BY <1>3 DEF ExistsBijection
<1>6. IsFiniteSet(T) /\ Cardinality(T) = m
  BY <1>4, <1>5, FS_Bijection
<1> QED
  BY <1>2, <1>6 DEF m
=============================================================================
