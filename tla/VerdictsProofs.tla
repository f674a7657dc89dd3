--------------------------- MODULE VerdictsProofs ---------------------------
(***************************************************************************)
(* The plugins that pass judgement and the plugins that list items, for    *)
(* any versions, manifests and pools of items and any answers; with the    *)
(* invariants of every family together, that every run of a plugin is      *)
(* typed; and the series of the GitHub activity, whose sorting is that of  *)
(* the lists.                                                              *)
(***************************************************************************)
EXTENDS PluginsProofs

-----------------------------------------------------------------------------
(***************************************************************************)
(* Versions: the code looks for the first part that differs.               *)
(***************************************************************************)
LEMMA PartsAre ==
  ASSUME NEW v, v.nums \in Seq(Nat)
  PROVE  /\ \A n \in 1 .. 3 : parseSemver(v).core[n] = Part(v, n) /\ Part(v, n) \in Nat
         /\ parseSemver(v).ok <=> v.nums # <<>>
         /\ v.nums # <<>> => Part(v, 1) = v.nums[1]
<1>1. Len(v.nums) \in Nat /\ \A n \in 1 .. Len(v.nums) : v.nums[n] \in Nat
  OBVIOUS
<1>2. v.nums # <<>> => 1 <= Len(v.nums)
  OBVIOUS
<1>3. \A n \in 1 .. 3 : Part(v, n) \in Nat
  BY <1>1 DEF Part
<1>4. /\ \A n \in 1 .. 3 : parseSemver(v).core[n] = Part(v, n)
      /\ parseSemver(v).ok <=> v.nums # <<>>
  BY DEF parseSemver, Part
<1>5. v.nums # <<>> => Part(v, 1) = v.nums[1]
  BY <1>2 DEF Part
<1> QED
  BY <1>3, <1>4, <1>5

LEMMA Compared ==
  ASSUME NEW v, v.nums \in Seq(Nat), NEW w, w.nums \in Seq(Nat)
  PROVE  cmpSemver(parseSemver(v).core, parseSemver(w).core) >= 0 <=> ~Behind(v, w)
<1> DEFINE a == parseSemver(v).core
           b == parseSemver(w).core
           D == {i \in 1 .. 3 : a[i] # b[i]}
<1>1. \A n \in 1 .. 3 : a[n] = Part(v, n) /\ b[n] = Part(w, n) /\ a[n] \in Nat /\ b[n] \in Nat
  BY PartsAre
<1>2. cmpSemver(a, b) = IF D = {} THEN 0 ELSE IF a[Min(D)] < b[Min(D)] THEN -1 ELSE 1
  BY DEF cmpSemver
<1>3. Behind(v, w) <=> \E n \in 1 .. 3 : a[n] < b[n] /\ \A m \in 1 .. n - 1 : a[m] = b[m]
  <2>1. \A n \in 1 .. 3 : \A m \in 1 .. n - 1 : m \in 1 .. 3
    OBVIOUS
  <2> QED
    BY <1>1, <2>1 DEF Behind
<1> HIDE DEF a, b
<1>4. CASE D = {}
  <2>1. \A n \in 1 .. 3 : ~(a[n] < b[n])
    BY <1>1, <1>4
  <2> QED
    BY <1>2, <1>3, <1>4, <2>1 DEF a, b
<1>5. CASE D # {}
  <2>1. D \in SUBSET Nat /\ D \subseteq 1 .. 3
    OBVIOUS
  <2> DEFINE k == Min(D)
  <2>2. k \in D /\ \A x \in D : k <= x
    BY <1>5, <2>1, MinNat
  <2> HIDE DEF k
  <2>3. k \in 1 .. 3 /\ a[k] # b[k] /\ \A m \in 1 .. k - 1 : a[m] = b[m]
    BY <2>1, <2>2
  <2>4. a[k] < b[k] => Behind(v, w)
    BY <1>3, <2>3
  <2>5. ASSUME Behind(v, w) PROVE a[k] < b[k]
    <3>1. PICK n \in 1 .. 3 : a[n] < b[n] /\ \A m \in 1 .. n - 1 : a[m] = b[m]
      BY <1>3, <2>5
    <3>2. n \in D
      BY <1>1, <3>1
    <3>3. k <= n
      BY <2>2, <3>2
    <3>4. ~(k < n)
      BY <2>3, <3>1
    <3> QED
      BY <2>3, <3>1, <3>3, <3>4
  <2>6. cmpSemver(a, b) = IF a[k] < b[k] THEN -1 ELSE 1
    BY <1>2, <1>5 DEF k
  <2>7. cmpSemver(a, b) >= 0 <=> ~(a[k] < b[k])
    BY <2>6
  <2> QED
    BY <2>4, <2>5, <2>7 DEF a, b
<1> QED
  BY <1>4, <1>5

LEMMA StatusIs ==
  ASSUME NEW v, v.nums \in Seq(Nat), NEW w, w.nums \in Seq(Nat)
  PROVE  /\ versionStatus(v, w) \in {"current", "major", "minor"}
         /\ Comparable(v, w) => /\ versionStatus(v, w) = "current" <=> ~Behind(v, w)
                                /\ versionStatus(v, w) = "major" <=> v.nums[1] < w.nums[1]
         /\ versionStatus(v, w) = "current" => w = NoVersion \/ AtLeast(v, w)
<1> DEFINE c == cmpSemver(parseSemver(v).core, parseSemver(w).core)
<1>1. c >= 0 <=> ~Behind(v, w)
  BY Compared
<1>2. /\ parseSemver(v).ok <=> v.nums # <<>>
      /\ parseSemver(w).ok <=> w.nums # <<>>
      /\ parseSemver(v).core[1] = Part(v, 1) /\ parseSemver(w).core[1] = Part(w, 1)
      /\ \A n \in 1 .. 3 : Part(v, n) \in Nat /\ Part(w, n) \in Nat
      /\ Comparable(v, w) => Part(v, 1) = v.nums[1] /\ Part(w, 1) = w.nums[1]
  BY PartsAre DEF Comparable
<1>3. versionStatus(v, w) =
        IF v = w \/ w = NoVersion THEN "current"
        ELSE IF ~parseSemver(v).ok \/ ~parseSemver(w).ok THEN "minor"
        ELSE IF c >= 0 THEN "current"
        ELSE IF parseSemver(v).core[1] < parseSemver(w).core[1] THEN "major" ELSE "minor"
  BY DEF versionStatus
<1> HIDE DEF c
<1>4. ASSUME v = w, Behind(v, w) PROVE FALSE
  <2>1. PICK n \in 1 .. 3 : Part(v, n) < Part(v, n)
    BY <1>4 DEF Behind
  <2>2. Part(v, n) \in Nat
    BY <1>2
  <2> QED
    BY <2>1, <2>2
<1>5. w = NoVersion => w.nums = <<>>
  <2>1. NoVersion.nums = <<>>
    BY DEF NoVersion
  <2> QED
    BY <2>1
<1>6. Part(v, 1) < Part(w, 1) => Behind(v, w)
  BY DEF Behind
<1>7. CASE Comparable(v, w)
  <2>1. parseSemver(v).ok /\ parseSemver(w).ok /\ w # NoVersion
    BY <1>2, <1>5, <1>7 DEF Comparable
  <2>2. versionStatus(v, w) = IF v = w \/ c >= 0 THEN "current" ELSE IF Part(v, 1) < Part(w, 1) THEN "major" ELSE "minor"
    BY <1>2, <1>3, <2>1
  <2> QED
    BY <1>1, <1>2, <1>4, <1>6, <1>7, <2>2 DEF AtLeast
<1>8. CASE ~Comparable(v, w)
  <2>1. ~parseSemver(v).ok \/ ~parseSemver(w).ok
    BY <1>2, <1>8 DEF Comparable
  <2>2. versionStatus(v, w) = IF v = w \/ w = NoVersion THEN "current" ELSE "minor"
    BY <1>3, <2>1
  <2> QED
    BY <1>8, <2>2 DEF AtLeast
<1> QED
  BY <1>7, <1>8

-----------------------------------------------------------------------------
(***************************************************************************)
(* Rows by rank: worst first, equal ranks in their order.                  *)
(***************************************************************************)
Ident(n) == [i \in 1 .. n |-> i]
Rising(s, A) ==
  /\ \A i \in 1 .. Len(s) : s[i] \in A
  /\ \A k \in A : \E i \in 1 .. Len(s) : s[i] = k
  /\ \A i, j \in 1 .. Len(s) : i < j => s[i] < s[j]
Ranked(s, rank, n, r) ==
  /\ s \in Seq(1 .. n)
  /\ \A i \in 1 .. Len(s) : rank[s[i]] <= r
  /\ \A k \in 1 .. n : rank[k] <= r => \E i \in 1 .. Len(s) : s[i] = k
  /\ \A i, j \in 1 .. Len(s) : i < j => rank[s[i]] < rank[s[j]] \/ (rank[s[i]] = rank[s[j]] /\ s[i] < s[j])

LEMMA OneRank ==
  ASSUME NEW n \in Nat, NEW A, A \subseteq 1 .. n
  PROVE  Kept(Ident(n), A) \in Seq(1 .. n) /\ Rising(Kept(Ident(n), A), A)
<1> DEFINE s == Kept(Ident(n), A)
           m == Len(s)
<1>1. Ident(n) \in Seq(1 .. n) /\ Len(Ident(n)) = n /\ \A i \in 1 .. n : Ident(n)[i] = i
  BY DEF Ident
<1> HIDE DEF Ident
<1>2. s \in Seq(1 .. n) /\ \E h : Picks(h, m, Len(Ident(n)), Ident(n), A) /\ \A i \in 1 .. m : s[i] = Ident(n)[h[i]]
  BY <1>1, KeptPicks
<1> HIDE DEF s
<1>3. PICK h : Picks(h, m, n, Ident(n), A) /\ \A i \in 1 .. m : s[i] = Ident(n)[h[i]]
  BY <1>1, <1>2
<1>4. /\ h \in [1 .. m -> 1 .. n] /\ \A i, j \in 1 .. m : i < j => h[i] < h[j]
      /\ \A k \in 1 .. n : Ident(n)[k] \in A <=> \E j \in 1 .. m : h[j] = k
  BY <1>3 DEF Picks
<1>5. \A i \in 1 .. m : s[i] = h[i] /\ h[i] \in 1 .. n
  BY <1>1, <1>3, <1>4
<1>6. \A i \in 1 .. m : s[i] \in A
  BY <1>1, <1>4, <1>5
<1>7. \A k \in A : \E i \in 1 .. m : s[i] = k
  BY <1>1, <1>4, <1>5
<1>8. \A i, j \in 1 .. m : i < j => s[i] < s[j]
  BY <1>4, <1>5
<1> QED
  BY <1>2, <1>6, <1>7, <1>8 DEF Rising, s

LEMMA FirstRank ==
  ASSUME NEW n \in Nat, NEW rank \in [1 .. n -> Nat], NEW s, s = Kept(Ident(n), {i \in 1 .. n : rank[i] = 0})
  PROVE  Ranked(s, rank, n, 0)
<1> DEFINE A == {i \in 1 .. n : rank[i] = 0}
<1>1. s \in Seq(1 .. n) /\ Rising(s, A)
  BY OneRank
<1>2. \A i \in 1 .. Len(s) : rank[s[i]] = 0
  BY <1>1 DEF Rising
<1>3. \A k \in 1 .. n : rank[k] <= 0 => k \in A
  OBVIOUS
<1> HIDE DEF A
<1>4. /\ \A k \in A : \E i \in 1 .. Len(s) : s[i] = k
      /\ \A i, j \in 1 .. Len(s) : i < j => s[i] < s[j]
  BY <1>1 DEF Rising
<1>5. \A k \in 1 .. n : rank[k] <= 0 => \E i \in 1 .. Len(s) : s[i] = k
  BY <1>3, <1>4
<1>6. \A i \in 1 .. Len(s) : rank[s[i]] <= 0
  BY <1>2
<1>7. \A i, j \in 1 .. Len(s) : i < j => rank[s[i]] = rank[s[j]] /\ s[i] < s[j]
  BY <1>2, <1>4
<1> QED
  BY <1>1, <1>5, <1>6, <1>7 DEF Ranked

LEMMA NextRank ==
  ASSUME NEW n \in Nat, NEW rank \in [1 .. n -> Nat], NEW q \in Nat, NEW r, r = q + 1, NEW s, Ranked(s, rank, n, q),
         NEW t, t = Kept(Ident(n), {i \in 1 .. n : rank[i] = r})
  PROVE  Ranked(s \o t, rank, n, r)
<1> DEFINE A == {i \in 1 .. n : rank[i] = r}
           u == s \o t
           a == Len(s)
           b == Len(t)
<1>1. t \in Seq(1 .. n) /\ Rising(t, A)
  BY OneRank
<1>2. s \in Seq(1 .. n)
  BY DEF Ranked
<1>3. \A k \in A : rank[k] = r /\ k \in 1 .. n
  OBVIOUS
<1>4. \A k \in 1 .. n : rank[k] \in Nat /\ (rank[k] <= r => rank[k] <= q \/ k \in A)
  OBVIOUS
<1> HIDE DEF A
<1>5. /\ u \in Seq(1 .. n) /\ Len(u) = a + b /\ a \in Nat /\ b \in Nat
      /\ \A i \in 1 .. a + b : u[i] = IF i <= a THEN s[i] ELSE t[i - a]
  BY <1>1, <1>2, ConcatProperties
<1> HIDE DEF u, a, b
<1>0. a \in Nat /\ b \in Nat /\ Len(u) = a + b
  BY <1>5
<1>11. \A i \in 1 .. a + b : IF i <= a THEN u[i] = s[i] /\ i \in 1 .. a
                            ELSE u[i] = t[i - a] /\ i - a \in 1 .. b
  <2> TAKE i \in 1 .. a + b
  <2>1. u[i] = IF i <= a THEN s[i] ELSE t[i - a]
    BY <1>5
  <2>2. i <= a => i \in 1 .. a
    BY <1>0
  <2>3. ~(i <= a) => i - a \in 1 .. b
    BY <1>0
  <2> QED
    BY <2>1, <2>2, <2>3
<1>6. \A i \in 1 .. a + b : \/ i \in 1 .. a /\ u[i] = s[i] /\ rank[u[i]] <= q /\ u[i] \in 1 .. n
                            \/ i - a \in 1 .. b /\ u[i] = t[i - a] /\ rank[u[i]] = r /\ u[i] \in 1 .. n
  <2> TAKE i \in 1 .. a + b
  <2>1. CASE i <= a
    <3>1. i \in 1 .. a /\ u[i] = s[i]
      BY <1>11, <2>1
    <3>2. s[i] \in 1 .. n /\ rank[s[i]] <= q
      BY <1>2, <3>1 DEF a, Ranked
    <3> QED
      BY <3>1, <3>2
  <2>2. CASE ~(i <= a)
    <3>1. i - a \in 1 .. b /\ u[i] = t[i - a]
      BY <1>11, <2>2
    <3>2. t[i - a] \in A
      BY <1>1, <3>1 DEF Rising, b
    <3> QED
      BY <1>3, <3>1, <3>2
  <2> QED
    BY <2>1, <2>2
<1>7. \A i \in 1 .. Len(u) : rank[u[i]] <= r
  <2> SUFFICES ASSUME NEW i \in 1 .. a + b PROVE rank[u[i]] <= r
    BY <1>0
  <2>1. (rank[u[i]] <= q \/ rank[u[i]] = r) /\ u[i] \in 1 .. n
    BY <1>6
  <2>2. rank[u[i]] \in Nat
    BY <1>4, <2>1
  <2> QED
    BY <2>1, <2>2
<1>8. ASSUME NEW k \in 1 .. n, rank[k] <= r PROVE \E i \in 1 .. Len(u) : u[i] = k
  <2>1. CASE rank[k] <= q
    <3>1. PICK i \in 1 .. a : s[i] = k
      BY <2>1 DEF Ranked, a
    <3>2. i \in 1 .. a + b /\ i <= a
      BY <1>5
    <3> QED
      BY <1>5, <3>1, <3>2
  <2>2. CASE k \in A
    <3>1. PICK i \in 1 .. b : t[i] = k
      BY <1>1, <2>2 DEF Rising, b
    <3>2. a + i \in 1 .. a + b /\ ~(a + i <= a) /\ (a + i) - a = i
      BY <1>5
    <3>3. u[a + i] = k
      BY <1>11, <3>1, <3>2
    <3> QED
      BY <1>0, <3>2, <3>3
  <2> QED
    BY <1>4, <1>8, <2>1, <2>2
<1>9. ASSUME NEW i \in 1 .. Len(u), NEW j \in 1 .. Len(u), i < j
      PROVE  rank[u[i]] < rank[u[j]] \/ (rank[u[i]] = rank[u[j]] /\ u[i] < u[j])
  <2>0. i \in 1 .. a + b /\ j \in 1 .. a + b
    BY <1>5
  <2>1. CASE i \in 1 .. a /\ j \in 1 .. a
    <3>0. i <= a /\ j <= a
      BY <2>1
    <3>1. u[i] = s[i] /\ u[j] = s[j]
      BY <1>11, <2>0, <3>0
    <3> QED
      BY <1>9, <2>1, <3>1 DEF Ranked, a
  <2>2. CASE i \in 1 .. a /\ ~(j \in 1 .. a)
    <3>1. ~(j <= a)
      BY <1>5, <2>0, <2>2
    <3>2. rank[u[i]] <= q /\ rank[u[j]] = r /\ u[i] \in 1 .. n
      <4>1. ~(i - a \in 1 .. b)
        BY <1>5, <2>2
      <4> QED
        BY <1>6, <2>0, <2>2, <4>1
    <3> QED
      BY <1>4, <3>2
  <2>3. CASE ~(i \in 1 .. a)
    <3>1. ~(i <= a) /\ ~(j <= a) /\ i - a \in 1 .. b /\ j - a \in 1 .. b /\ i - a < j - a
      BY <1>5, <1>9, <2>0, <2>3
    <3>2. u[i] = t[i - a] /\ u[j] = t[j - a]
      BY <1>11, <2>0, <3>1
    <3>3. rank[u[i]] = r /\ rank[u[j]] = r
      BY <1>1, <1>3, <3>1, <3>2 DEF Rising, b
    <3>4. u[i] < u[j]
      BY <1>1, <3>1, <3>2 DEF Rising, b
    <3> QED
      BY <3>3, <3>4
  <2> QED
    BY <2>1, <2>2, <2>3
<1>10. Ranked(u, rank, n, r)
  BY <1>5, <1>7, <1>8, <1>9 DEF Ranked
<1> QED
  BY <1>10 DEF u

-----------------------------------------------------------------------------
(***************************************************************************)
(* dependency-freshness.                                                   *)
(***************************************************************************)
LEMMA RankIs ==
  ASSUME NEW v, v.nums \in Seq(Nat), NEW a, a.ok => a.value.nums \in Seq(Nat)
  PROVE  /\ evalDep(v, a) \in 0 .. 3
         /\ evalDep(v, a) = rankUnknown <=> ~a.ok
         /\ a.ok /\ Comparable(v, a.value) =>
              /\ evalDep(v, a) = rankCurrent <=> ~Behind(v, a.value)
              /\ evalDep(v, a) = rankMajor <=> v.nums[1] < a.value.nums[1]
         /\ evalDep(v, a) = rankCurrent => a.value = NoVersion \/ AtLeast(v, a.value)
<1>1. CASE ~a.ok
  BY <1>1 DEF evalDep, rankUnknown, rankCurrent
<1>2. CASE a.ok
  <2> DEFINE s == versionStatus(v, a.value)
  <2>1. /\ s \in {"current", "major", "minor"}
        /\ Comparable(v, a.value) => /\ s = "current" <=> ~Behind(v, a.value)
                                     /\ s = "major" <=> v.nums[1] < a.value.nums[1]
        /\ s = "current" => a.value = NoVersion \/ AtLeast(v, a.value)
    BY <1>2, StatusIs
  <2>2. evalDep(v, a) = CASE s = "current" -> 3 [] s = "major" -> 0 [] s = "minor" -> 1
    BY <1>2 DEF evalDep, rankCurrent, rankMajor, rankOutdated
  <2> HIDE DEF s
  <2>3. /\ evalDep(v, a) \in {0, 1, 3}
        /\ evalDep(v, a) = 3 <=> s = "current"
        /\ evalDep(v, a) = 0 <=> s = "major"
    BY <2>1, <2>2
  <2> QED
    BY <1>2, <2>1, <2>3 DEF rankUnknown, rankCurrent, rankMajor
<1> QED
  BY <1>1, <1>2

\* A part of 1 .. n with n elements is all of it.
LEMMA AllOf ==
  ASSUME NEW n \in Nat, NEW A, A \subseteq 1 .. n, Cardinality(A) = n
  PROVE  A = 1 .. n
<1>1. IsFiniteSet(1 .. n) /\ Cardinality(1 .. n) = n
  BY FS_Interval
<1> QED
  BY <1>1, FS_Subset

LEMMA DepsAre ==
  ASSUME NEW E, NEW deps \in Seq(E), NEW answers,
         \A i \in 1 .. Len(deps) : evalDep(deps[i].version, answers[i]) \in 0 .. 3,
         NEW o, o = DepsResult(deps, answers)
  PROVE  /\ o.rank \in [1 .. Len(deps) -> 0 .. 3]
         /\ \A i \in 1 .. Len(deps) : o.rank[i] = evalDep(deps[i].version, answers[i])
         /\ Ranked(o.rows, o.rank, Len(deps), 3)
         /\ o.good => Len(deps) > 0 /\ \A i \in 1 .. Len(deps) : o.rank[i] = 3
<1> DEFINE n == Len(deps)
           rank == [i \in 1 .. n |-> evalDep(deps[i].version, answers[i])]
           of(r) == {i \in 1 .. n : rank[i] = r}
           part(r) == Kept(Ident(n), of(r))
           rows == part(0) \o part(1) \o part(2) \o part(3)
<1>0. n \in Nat /\ DOMAIN deps = 1 .. n
  OBVIOUS
<1>1. /\ o.rows = rows /\ o.rank = rank
      /\ o.good <=> n > 0 /\ Len(part(3)) = n
  BY <1>0 DEF DepsResult, Ident, rankCurrent
<1>2. rank \in [1 .. n -> 0 .. 3] /\ rank \in [1 .. n -> Nat]
  OBVIOUS
<1>3. \A i \in 1 .. n : rank[i] = evalDep(deps[i].version, answers[i])
  OBVIOUS
<1> HIDE DEF n, rank
<1>4. Ranked(part(0), rank, n, 0)
  BY <1>0, <1>2, FirstRank
<1>5. Ranked(part(0) \o part(1), rank, n, 1)
  <2> DEFINE s == part(0)
             t == part(1)
  <2>1. t = Kept(Ident(n), {i \in 1 .. n : rank[i] = 1}) /\ Ranked(s, rank, n, 0) /\ 1 = 0 + 1 /\ 0 \in Nat
    BY <1>4
  <2> HIDE DEF s, t
  <2>2. Ranked(s \o t, rank, n, 1)
    BY <1>0, <1>2, <2>1, NextRank
  <2> QED
    BY <2>2 DEF s, t
<1>6. Ranked(part(0) \o part(1) \o part(2), rank, n, 2)
  <2> DEFINE s == part(0) \o part(1)
             t == part(2)
  <2>1. t = Kept(Ident(n), {i \in 1 .. n : rank[i] = 2}) /\ Ranked(s, rank, n, 1) /\ 2 = 1 + 1 /\ 1 \in Nat
    BY <1>5
  <2> HIDE DEF s, t
  <2>2. Ranked(s \o t, rank, n, 2)
    BY <1>0, <1>2, <2>1, NextRank
  <2> QED
    BY <2>2 DEF s, t
<1>7. Ranked(rows, rank, n, 3)
  <2> DEFINE s == part(0) \o part(1) \o part(2)
             t == part(3)
  <2>1. t = Kept(Ident(n), {i \in 1 .. n : rank[i] = 3}) /\ Ranked(s, rank, n, 2) /\ 3 = 2 + 1 /\ 2 \in Nat
    BY <1>6
  <2> HIDE DEF s, t
  <2>2. Ranked(s \o t, rank, n, 3)
    BY <1>0, <1>2, <2>1, NextRank
  <2> QED
    BY <2>2 DEF s, t
<1>8. ASSUME Len(part(3)) = n PROVE \A i \in 1 .. n : rank[i] = 3
  <2>1. Ident(n) \in Seq(1 .. n) /\ Len(Ident(n)) = n /\ \A i \in 1 .. n : Ident(n)[i] = i
    BY <1>0 DEF Ident
  <2> HIDE DEF Ident
  <2>2. Len(part(3)) = Cardinality({i \in 1 .. n : Ident(n)[i] \in of(3)})
    <3> DEFINE A == of(3)
    <3> HIDE DEF A
    <3> DEFINE s == Ident(n)
           all == 1 .. n
    <3>1. s \in Seq(all) /\ Len(s) = n
      BY <2>1
    <3> HIDE DEF s, all
    <3>2. Len(Kept(s, A)) = Cardinality({i \in 1 .. Len(s) : s[i] \in A})
      BY <3>1, KeptLength, Zenon
    <3>3. Len(Kept(s, A)) = Cardinality({i \in 1 .. n : s[i] \in A})
      BY <3>1, <3>2
    <3> QED
      BY <3>3 DEF A, s
  <2>3. {i \in 1 .. n : Ident(n)[i] \in of(3)} = of(3)
    BY <2>1
  <2>4. of(3) = 1 .. n
    BY <1>0, <1>8, <2>2, <2>3, AllOf
  <2> QED
    BY <2>4
<1> QED
  BY <1>1, <1>2, <1>3, <1>7, <1>8 DEF n

LEMMA RowsOf ==
  ASSUME NEW n \in Nat, NEW rank \in [1 .. n -> 0 .. 3], NEW s, Ranked(s, rank, n, 3)
  PROVE  /\ IsInjective(s) /\ ToSet(s) = 1 .. n
         /\ \A i, j \in DOMAIN s : i < j => rank[s[i]] < rank[s[j]] \/ (rank[s[i]] = rank[s[j]] /\ s[i] < s[j])
<1>0. \A k \in 1 .. n : rank[k] \in Nat /\ rank[k] <= 3
  OBVIOUS
<1>1. /\ s \in Seq(1 .. n) /\ DOMAIN s = 1 .. Len(s) /\ Len(s) \in Nat
      /\ \A i \in 1 .. Len(s) : s[i] \in 1 .. n
      /\ \A k \in 1 .. n : \E i \in 1 .. Len(s) : s[i] = k
  <2>1. /\ s \in Seq(1 .. n)
        /\ \A k \in 1 .. n : rank[k] <= 3 => \E i \in 1 .. Len(s) : s[i] = k
    BY DEF Ranked
  <2>2. \A k \in 1 .. n : \E i \in 1 .. Len(s) : s[i] = k
    BY <1>0, <2>1
  <2>3. Len(s) \in Nat /\ DOMAIN s = 1 .. Len(s) /\ \A i \in 1 .. Len(s) : s[i] \in 1 .. n
    <3> DEFINE N == 1 .. n
    <3>1. s \in Seq(N)
      BY <2>1
    <3> HIDE DEF N
    <3>2. Len(s) \in Nat /\ DOMAIN s = 1 .. Len(s) /\ \A i \in 1 .. Len(s) : s[i] \in N
      BY <3>1
    <3> QED
      BY <3>2 DEF N
  <2> QED
    BY <2>1, <2>2, <2>3
<1>2. \A i, j \in 1 .. Len(s) : i < j => rank[s[i]] < rank[s[j]] \/ (rank[s[i]] = rank[s[j]] /\ s[i] < s[j])
  BY DEF Ranked
<1>3. ASSUME NEW i \in 1 .. Len(s), NEW j \in 1 .. Len(s), i < j PROVE s[i] # s[j]
  <2>1. s[i] \in 1 .. n /\ rank[s[i]] \in Nat
    BY <1>0, <1>1
  <2>2. rank[s[i]] < rank[s[j]] \/ s[i] < s[j]
    BY <1>2, <1>3
  <2> QED
    BY <2>1, <2>2
<1>4. IsInjective(s)
  <2>1. \A i, j \in 1 .. Len(s) : s[i] = s[j] => i = j
    <3> SUFFICES ASSUME NEW i \in 1 .. Len(s), NEW j \in 1 .. Len(s), i # j PROVE s[i] # s[j]
      OBVIOUS
    <3>1. CASE i < j
      BY <1>3, <3>1
    <3>2. CASE j < i
      BY <1>3, <3>2
    <3> QED
      BY <3>1, <3>2
  <2> QED
    BY <1>1, <2>1 DEF IsInjective
<1>5. ToSet(s) = 1 .. n
  BY <1>1 DEF ToSet
<1> QED
  BY <1>1, <1>2, <1>4, <1>5

-----------------------------------------------------------------------------
(***************************************************************************)
(* The other verdicts, answer by answer.                                   *)
(***************************************************************************)
LEMMA CycleIs ==
  ASSUME NEW cycles \in Seq(EOLFields), cycles # <<>>, NEW want \in Nat, NEW k, k = pickCycle(cycles, want), k # 0
  PROVE  /\ k \in DOMAIN cycles /\ (want # 0 => k = want)
         /\ want = 0 /\ parseEOL(cycles[k]).isEOL => \A i \in DOMAIN cycles : parseEOL(cycles[i]).isEOL
         /\ want = 0 /\ ~parseEOL(cycles[k]).isEOL => \A i \in 1 .. k - 1 : parseEOL(cycles[i]).isEOL
<1> DEFINE alive == {i \in DOMAIN cycles : ~parseEOL(cycles[i]).isEOL}
<1>1. k = IF want # 0 THEN IF want \in DOMAIN cycles THEN want ELSE 0
          ELSE IF alive # {} THEN Min(alive) ELSE 1
  BY DEF pickCycle
<1>2. 1 \in DOMAIN cycles /\ alive \in SUBSET Nat
  OBVIOUS
<1>3. CASE want # 0
  BY <1>1, <1>3
<1>4. CASE want = 0 /\ alive # {}
  <2> HIDE DEF alive
  <2>1. k \in alive /\ \A i \in alive : k <= i
    BY <1>1, <1>2, <1>4, MinNat
  <2>2. k \in DOMAIN cycles /\ ~parseEOL(cycles[k]).isEOL
    BY <2>1 DEF alive
  <2>3. ASSUME NEW i \in 1 .. k - 1 PROVE parseEOL(cycles[i]).isEOL
    <3>1. i \in DOMAIN cycles /\ ~(k <= i)
      BY <2>2
    <3> QED
      BY <2>1, <3>1 DEF alive
  <2> QED
    BY <1>4, <2>2, <2>3
<1>5. CASE want = 0 /\ alive = {}
  BY <1>1, <1>2, <1>5
<1> QED
  BY <1>3, <1>4, <1>5

LEMMA ProductIs ==
  ASSUME NEW want \in Nat, NEW a, a.ok => a.value \in Seq(EOLFields), NEW row, row = evalProduct(want, a)
  PROVE  /\ row \in {"error", "EOL", "EOL soon", "supported"}
         /\ row = "supported" => a.ok /\ Supports(a.value, want)
         /\ row = "EOL" /\ want = 0 => a.ok /\ ToSet(a.value) \subseteq Ended
<1>1. CASE ~a.ok \/ a.value = <<>>
  BY <1>1 DEF evalProduct
<1>2. CASE a.ok /\ a.value # <<>>
  <2> DEFINE k == pickCycle(a.value, want)
             f == a.value[k]
  <2>1. row = IF k = 0 THEN "error" ELSE IF parseEOL(f).isEOL THEN "EOL" ELSE IF f = "soon" THEN "EOL soon" ELSE "supported"
    BY <1>2 DEF evalProduct
  <2>2. CASE k = 0
    BY <2>1, <2>2
  <2>3. CASE k # 0
    <3>1. /\ k \in DOMAIN a.value /\ (want # 0 => k = want)
          /\ want = 0 /\ parseEOL(f).isEOL => \A i \in DOMAIN a.value : parseEOL(a.value[i]).isEOL
          /\ want = 0 /\ ~parseEOL(f).isEOL => \A i \in 1 .. k - 1 : parseEOL(a.value[i]).isEOL
      BY <1>2, <2>3, CycleIs
    <3>2. \A x : parseEOL(x).isEOL <=> x \in Ended
      BY DEF parseEOL, Ended
    <3> HIDE DEF k
    <3>3. row = "supported" => Supports(a.value, want)
      <4> SUFFICES ASSUME row = "supported" PROVE Supports(a.value, want)
        OBVIOUS
      <4>1. f \notin Ended /\ f # "soon" /\ f \in EOLFields
        BY <1>2, <2>1, <2>3, <3>1, <3>2
      <4>2. f \in NotEnding
        BY <4>1 DEF EOLFields, Ended, NotEnding
      <4> QED
        BY <3>1, <3>2, <4>1, <4>2 DEF Supports
    <3>4. row = "EOL" /\ want = 0 => ToSet(a.value) \subseteq Ended
      BY <2>1, <2>3, <3>1, <3>2 DEF ToSet
    <3> QED
      BY <1>2, <2>1, <3>3, <3>4
  <2> QED
    BY <2>2, <2>3
<1> QED
  BY <1>1, <1>2

LEMMA MatchIs ==
  ASSUME NEW want, NEW present, firstMatch(want, present) # 0
  PROVE  want.name \in ToSet(present) \/ (want.glob /\ want.matches \cap ToSet(present) # {})
<1> DEFINE exact == {i \in DOMAIN present : present[i] = want.name}
           glob == {i \in DOMAIN present : want.glob /\ present[i] \in want.matches}
<1>1. exact # {} \/ glob # {}
  BY DEF firstMatch
<1>2. \A i \in DOMAIN present : present[i] \in ToSet(present)
  BY DEF ToSet
<1>3. CASE exact # {}
  BY <1>2, <1>3
<1>4. CASE glob # {}
  BY <1>2, <1>4
<1> QED
  BY <1>1, <1>3, <1>4

LEMMA MilestoneIs ==
  ASSUME NEW ms, ms.open \in Nat, ms.closed \in Nat, MilestoneResult(ms).good
  PROVE  ms.open = 0 /\ ms.closed > 0
<1>1. ms.open + ms.closed > 0 /\ ms.closed = ms.open + ms.closed
  BY DEF MilestoneResult
<1> QED
  BY <1>1

\* A rate of 100 per cent is all of them, although it is rounded down.
LEMMA RateIsAll ==
  ASSUME NEW l \in Nat, l > 0, NEW s \in Nat, s <= l, (100 * s) \div l = 100
  PROVE  s = l
<1>1. 100 * s >= l * ((100 * s) \div l)
  OBVIOUS
<1> QED
  BY <1>1

LEMMA WorkflowIs ==
  ASSUME NEW C, NEW runs \in Seq(C), WorkflowResult(runs).good
  PROVE  "success" \in ToSet(runs) /\ "failure" \notin ToSet(runs)
<1> DEFINE done == ToSet(runs) \ {""}
           c == Kept(runs, done)
           l == Len(c)
           A == {i \in 1 .. l : c[i] \in {"success"}}
           s == Len(Kept(c, {"success"}))
<1>0. (IF c = <<>> THEN 0 ELSE (100 * s) \div l) = 100
  BY Zenon DEF WorkflowResult
<1>1. c # <<>> /\ (100 * s) \div l = 100
  <2> HIDE DEF c, s, l
  <2> QED
    BY <1>0
<1>2. c \in Seq(C) /\ \E h : Picks(h, l, Len(runs), runs, done) /\ \A i \in 1 .. l : c[i] = runs[h[i]]
  <2> HIDE DEF done
  <2> QED
    BY KeptPicks
<1> HIDE DEF done, c
<1>3. IsFiniteSet(A) /\ s = Cardinality(A)
  BY <1>2, KeptLength
<1>4. l \in Nat /\ l > 0
  BY <1>1, <1>2
<1>5. Cardinality(A) \in Nat /\ Cardinality(A) <= l
  <2>1. A \subseteq 1 .. l
    OBVIOUS
  <2> HIDE DEF A, l
  <2>2. IsFiniteSet(1 .. l) /\ Cardinality(1 .. l) = l
    BY <1>4, FS_Interval
  <2> HIDE DEF A
  <2> QED
    BY <1>3, <2>1, <2>2, FS_Subset, FS_CardinalityType
<1> HIDE DEF s, l, A
<1>6. s = l
  BY <1>1, <1>3, <1>4, <1>5, RateIsAll
<1>7. A = 1 .. l
  <2>1. A \subseteq 1 .. l
    BY DEF A
  <2> QED
    BY <1>3, <1>4, <1>6, <2>1, AllOf
<1>8. \A i \in 1 .. l : c[i] = "success"
  BY <1>7 DEF A
<1>9. PICK h : Picks(h, l, Len(runs), runs, done) /\ \A i \in 1 .. l : c[i] = runs[h[i]]
  BY <1>2
<1>10. /\ h \in [1 .. l -> 1 .. Len(runs)]
       /\ \A k \in 1 .. Len(runs) : runs[k] \in done <=> \E j \in 1 .. l : h[j] = k
  BY <1>9 DEF Picks
<1>11. DOMAIN runs = 1 .. Len(runs) /\ ToSet(runs) = {runs[k] : k \in 1 .. Len(runs)}
  BY DEF ToSet
<1>12. 1 \in 1 .. l
  BY <1>4
<1>13. "success" \in ToSet(runs)
  BY <1>8, <1>9, <1>10, <1>11, <1>12
<1>14. ASSUME "failure" \in ToSet(runs) PROVE FALSE
  <2>1. PICK k \in 1 .. Len(runs) : runs[k] = "failure"
    BY <1>11, <1>14
  <2>2. runs[k] \in done
    BY <1>14, <2>1 DEF done
  <2>3. PICK j \in 1 .. l : h[j] = k
    BY <1>10, <2>2
  <2> QED
    BY <1>8, <1>9, <2>1, <2>3
<1> QED
  BY <1>13, <1>14

LEMMA FileIs ==
  ASSUME NEW lines, FileResult(lines).good
  PROVE  \E i \in DOMAIN lines : lines[i].key = "go"
<1>1. extractValue(lines, "go") # <<0, "none">>
  BY DEF FileResult
<1> QED
  BY <1>1 DEF extractValue

-----------------------------------------------------------------------------
(***************************************************************************)
(* Sorting: places are a permutation, and the permutation is the order.    *)
(***************************************************************************)
\* p goes through all of 1 .. n, every index once.
Permutes(p, n) ==
  /\ p \in [1 .. n -> 1 .. n]
  /\ \A i, j \in 1 .. n : i # j => p[i] # p[j]
  /\ \A k \in 1 .. n : \E i \in 1 .. n : p[i] = k

(* i comes before j. *)
First(rank, i, j) == rank[i] < rank[j] \/ (rank[i] = rank[j] /\ i < j)
Distincts(f, S) == \A a, b \in S : a # b => f[a] # f[b]
Covers(f, S) == \A t \in S : \E a \in S : f[a] = t
Places(place, rank, S) == \A i, j \in S : First(rank, i, j) => place[i] < place[j]
Undoes(p, place, S) == \A m \in S : place[p[m]] = m
Ascends(p, rank, S) == \A k, m \in S : k < m => First(rank, p[k], p[m])

LEMMA OneToOne ==
  ASSUME NEW S, IsFiniteSet(S), NEW f \in [S -> S], Distincts(f, S)
  PROVE  Covers(f, S)
<1>1. f \in Injection(S, S)
  BY DEF Injection, IsInjective, Distincts
<1>2. f \in Surjection(S, S)
  BY <1>1, FS_Injection
<1> QED
  BY <1>2 DEF Surjection, Covers

LEMMA PlacesRise ==
  ASSUME NEW n \in Nat, NEW rank \in [1 .. n -> Int],
         NEW place, place = [j \in 1 .. n |-> Cardinality({i \in 1 .. n : rank[i] < rank[j] \/ (rank[i] = rank[j] /\ i <= j)})]
  PROVE  /\ place \in [1 .. n -> 1 .. n]
         /\ \A i, j \in 1 .. n : First(rank, i, j) => place[i] < place[j]
<1> DEFINE upto(j) == {i \in 1 .. n : rank[i] < rank[j] \/ (rank[i] = rank[j] /\ i <= j)}
<1>1. IsFiniteSet(1 .. n) /\ Cardinality(1 .. n) = n
  BY FS_Interval
<1>2. \A i \in 1 .. n : rank[i] \in Int
  OBVIOUS
<1>3. ASSUME NEW j \in 1 .. n
      PROVE  IsFiniteSet(upto(j)) /\ Cardinality(upto(j)) \in 1 .. n
  <2>1. upto(j) \in SUBSET (1 .. n) /\ j \in upto(j)
    BY <1>2
  <2> HIDE DEF upto
  <2>2. IsFiniteSet(upto(j)) /\ Cardinality(upto(j)) <= n
    BY <1>1, <2>1, FS_Subset
  <2>3. Cardinality(upto(j)) \in Nat /\ Cardinality(upto(j)) # 0
    BY <2>1, <2>2, FS_CardinalityType, FS_EmptySet
  <2> QED
    BY <2>2, <2>3
<1>4. ASSUME NEW i \in 1 .. n, NEW j \in 1 .. n, First(rank, i, j)
      PROVE  Cardinality(upto(i)) < Cardinality(upto(j))
  <2>1. \A k \in upto(i) : k \in upto(j)
    BY <1>2, <1>4 DEF First
  <2>2. j \in upto(j) /\ j \notin upto(i)
    BY <1>2, <1>4 DEF First
  <2> HIDE DEF upto
  <2>3. upto(i) \in SUBSET upto(j) /\ upto(i) # upto(j)
    BY <2>1, <2>2
  <2>4. Cardinality(upto(i)) <= Cardinality(upto(j)) /\ Cardinality(upto(i)) # Cardinality(upto(j))
    BY <1>3, <2>3, FS_Subset
  <2> QED
    BY <1>3, <2>4
<1>5. \A j \in 1 .. n : place[j] = Cardinality(upto(j))
  OBVIOUS
<1>6. place \in [1 .. n -> 1 .. n]
  <2>1. place = [j \in 1 .. n |-> Cardinality(upto(j))]
    OBVIOUS
  <2> HIDE DEF upto
  <2> QED
    BY <1>3, <2>1
<1> HIDE DEF upto
<1> QED
  BY <1>4, <1>5, <1>6

LEMMA FirstTotal ==
  ASSUME NEW S, S \subseteq Nat, NEW rank \in [S -> Int], NEW i \in S, NEW j \in S, i # j
  PROVE  First(rank, i, j) \/ First(rank, j, i)
<1>1. rank[i] \in Int /\ rank[j] \in Int /\ i \in Nat /\ j \in Nat
  OBVIOUS
<1> QED
  BY <1>1 DEF First

LEMMA PlacesOnto ==
  ASSUME NEW S, IsFiniteSet(S), S \subseteq Nat, NEW rank \in [S -> Int], NEW place \in [S -> S], Places(place, rank, S)
  PROVE  Covers(place, S)
<1>1. ASSUME NEW i \in S, NEW j \in S, i # j PROVE place[i] # place[j]
  <2>1. place[i] \in Nat /\ place[j] \in Nat
    OBVIOUS
  <2>2. place[i] < place[j] \/ place[j] < place[i]
    BY <1>1, FirstTotal DEF Places
  <2> QED
    BY <2>1, <2>2
<1>2. Distincts(place, S)
  BY <1>1 DEF Distincts
<1> QED
  BY <1>2, OneToOne

LEMMA PlacesPermute ==
  ASSUME NEW S, IsFiniteSet(S), S \subseteq Nat, NEW rank \in [S -> Int], NEW place \in [S -> S], Places(place, rank, S),
         NEW p \in [S -> S], Undoes(p, place, S)
  PROVE  Distincts(p, S) /\ Covers(p, S) /\ Ascends(p, rank, S)
<1>1. Distincts(p, S)
  BY DEF Distincts, Undoes
<1>2. Covers(p, S)
  BY <1>1, OneToOne
<1>3. ASSUME NEW k \in S, NEW m \in S, k < m PROVE First(rank, p[k], p[m])
  <2>1. place[p[k]] = k /\ place[p[m]] = m /\ p[k] \in S /\ p[m] \in S /\ k \in Nat /\ m \in Nat
    BY DEF Undoes
  <2>2. p[k] # p[m]
    BY <1>3, <2>1
  <2>3. First(rank, p[m], p[k]) => m < k
    BY <2>1 DEF Places
  <2>4. ~(m < k)
    BY <1>3, <2>1
  <2>5. First(rank, p[k], p[m]) \/ First(rank, p[m], p[k])
    BY <2>1, <2>2, FirstTotal
  <2> QED
    BY <2>3, <2>4, <2>5
<1> QED
  BY <1>1, <1>2, <1>3 DEF Ascends

LEMMA StableSorted ==
  ASSUME NEW E, NEW key \in [E -> Int], NEW s \in Seq(E)
  PROVE  \E p : /\ Permutes(p, Len(s))
                /\ StableSort(key, s) \in Seq(E) /\ Len(StableSort(key, s)) = Len(s)
                /\ \A k \in 1 .. Len(s) : StableSort(key, s)[k] = s[p[k]]
                /\ \A k, m \in 1 .. Len(s) : k < m =>
                     key[s[p[k]]] < key[s[p[m]]] \/ (key[s[p[k]]] = key[s[p[m]]] /\ p[k] < p[m])
<1> DEFINE n == Len(s)
           rank == [i \in 1 .. n |-> key[s[i]]]
           place == [j \in 1 .. n |-> Cardinality({i \in 1 .. n : rank[i] < rank[j] \/ (rank[i] = rank[j] /\ i <= j)})]
           p == [m \in 1 .. n |-> CHOOSE i \in 1 .. n : place[i] = m]
           t == StableSort(key, s)
<1>1. n \in Nat /\ DOMAIN s = 1 .. n /\ rank \in [1 .. n -> Int] /\ \A i \in 1 .. n : s[i] \in E /\ rank[i] = key[s[i]]
  OBVIOUS
<1>2. t = [m \in 1 .. n |-> s[p[m]]]
  <2> DEFINE first(i, j) == key[s[i]] < key[s[j]] \/ (key[s[i]] = key[s[j]] /\ i <= j)
             spot(j) == Cardinality({i \in 1 .. n : first(i, j)})
  <2>1. t = [m \in 1 .. n |-> s[CHOOSE i \in 1 .. n : spot(i) = m]]
    BY <1>1 DEF StableSort
  <2>2. \A j \in 1 .. n : spot(j) = place[j]
    <3> TAKE j \in 1 .. n
    <3>1. {i \in 1 .. n : first(i, j)} = {i \in 1 .. n : rank[i] < rank[j] \/ (rank[i] = rank[j] /\ i <= j)}
      BY <1>1
    <3> QED
      BY <3>1
  <2> HIDE DEF spot, place
  <2>3. \A m \in 1 .. n : (CHOOSE i \in 1 .. n : spot(i) = m) = p[m]
    <3> TAKE m \in 1 .. n
    <3>1. \A i : (i \in 1 .. n /\ spot(i) = m) <=> (i \in 1 .. n /\ place[i] = m)
      BY <2>2
    <3>2. (CHOOSE i : i \in 1 .. n /\ spot(i) = m) = (CHOOSE i : i \in 1 .. n /\ place[i] = m)
      BY <3>1
    <3> QED
      BY <3>2
  <2> QED
    BY <2>1, <2>3
<1> HIDE DEF n, rank, t
<1>3. /\ Permutes(p, n)
      /\ \A k, m \in 1 .. n : k < m => First(rank, p[k], p[m])
  <2>1. place \in [1 .. n -> 1 .. n] /\ \A i, j \in 1 .. n : First(rank, i, j) => place[i] < place[j]
    <3> DEFINE pl == place
    <3>1. pl = [j \in 1 .. n |-> Cardinality({i \in 1 .. n : rank[i] < rank[j] \/ (rank[i] = rank[j] /\ i <= j)})]
      OBVIOUS
    <3> HIDE DEF pl
    <3>2. pl \in [1 .. n -> 1 .. n] /\ \A i, j \in 1 .. n : First(rank, i, j) => pl[i] < pl[j]
      BY <1>1, <3>1, PlacesRise
    <3> QED
      BY <3>2 DEF pl
  <2> HIDE DEF place
  <2> DEFINE S == 1 .. n
  <2>2. IsFiniteSet(S) /\ S \subseteq Nat
    BY <1>1, FS_Interval
  <2>3. rank \in [S -> Int] /\ place \in [S -> S]
    BY <1>1, <2>1
  <2>4. Places(place, rank, S)
    BY <2>1 DEF Places
  <2>5. p = [m \in S |-> CHOOSE i \in S : place[i] = m]
    OBVIOUS
  <2> HIDE DEF S, p
  <2>6. Covers(place, S)
    BY <2>2, <2>3, <2>4, PlacesOnto
  <2>7. \A m \in S : p[m] \in S /\ place[p[m]] = m
    BY <2>5, <2>6 DEF Covers
  <2>8. p \in [S -> S]
    BY <2>5, <2>7
  <2>9. Distincts(p, S) /\ Covers(p, S) /\ Ascends(p, rank, S)
    <3>1. Undoes(p, place, S)
      BY <2>7 DEF Undoes
    <3> QED
      BY <2>2, <2>3, <2>4, <2>8, <3>1, PlacesPermute
  <2> QED
    BY <2>8, <2>9 DEF Permutes, S, Distincts, Covers, Ascends
<1> HIDE DEF p, place
<1>4. \A k \in 1 .. n : p[k] \in 1 .. n
  BY <1>3 DEF Permutes
<1>5. \A k, m \in 1 .. n : k < m =>
         key[s[p[k]]] < key[s[p[m]]] \/ (key[s[p[k]]] = key[s[p[m]]] /\ p[k] < p[m])
  BY <1>1, <1>3, <1>4 DEF First
<1>6. t \in Seq(E) /\ Len(t) = n /\ \A k \in 1 .. n : t[k] = s[p[k]]
  BY <1>1, <1>2, <1>4
<1> QED
  BY <1>3, <1>5, <1>6 DEF n, t

-----------------------------------------------------------------------------
(***************************************************************************)
(* A run of a judging plugin.  The answers are complete when it returns,   *)
(* and only the plugins that make a row of a failed lookup hold one.       *)
(***************************************************************************)
Npm == job.plugin = "deps" /\ job.file = "package.json"
VerdictInv ==
  /\ job \in VerdictJobs
  /\ step \in {"dependencies", "lookup", "done", "failed"}
  /\ got = [deps |-> got.deps, answers |-> got.answers]
  /\ got.deps \in Seq(Requirement) /\ got.answers \in Seq(Replies)
  /\ Npm => Alphabetical(got.deps)
  /\ ~Forgiving => \A i \in DOMAIN got.answers : got.answers[i].ok
  /\ step = "dependencies" => got.answers = <<>> /\ job.plugin = "deps"
  /\ step = "lookup" => Len(got.answers) < Lookups
  /\ step = "done" => Len(got.answers) = Lookups /\ out = Verdict(got.answers)

LEMMA VerdictJobFields ==
  ASSUME job \in VerdictJobs
  PROVE  /\ job.plugin \in Judging
         /\ job.plugin = "deps" => job.count \in Nat
         /\ job.plugin = "eol" => job.count \in Nat \ {0} /\ job.want \in Nat
BY VerdictAssumption DEF VerdictJobs, Judging

LEMMA SeqOfSeq == \A S : \A n : SeqOf(S, n) \subseteq Seq(S)
BY DEF SeqOf

LEMMA ManifestIs ==
  ASSUME NEW m \in Manifests
  PROVE  /\ m \in Seq(Requirement)
         /\ job.file # "go.mod" => \A i, j \in DOMAIN m : m[i].name = m[j].name /\ m[i].dev = m[j].dev => i = j
<1>1. \A S : \A n : SeqOf(S, n) \subseteq Seq(S)
  BY SeqOfSeq
<1>2. CASE job.file = "go.mod"
  <2>1. m \in Seq({d \in Requirement : ~d.dev})
    BY <1>1, <1>2 DEF Manifests
  <2> HIDE DEF Requirement
  <2> QED
    BY <1>2, <2>1
<1>3. CASE job.file # "go.mod"
  <2>1. /\ m \in Seq({d \in Requirement : ~d.indirect})
        /\ \A i, j \in DOMAIN m : m[i].name = m[j].name /\ m[i].dev = m[j].dev => i = j
    BY <1>1, <1>3 DEF Manifests
  <2> HIDE DEF Requirement
  <2> QED
    BY <2>1
<1> QED
  BY <1>2, <1>3

\* What is wanted of a package.json has each name once.
LEMMA WantedOnce ==
  ASSUME NEW m \in Seq(Requirement), job.file # "go.mod",
         \A i, j \in DOMAIN m : m[i].name = m[j].name /\ m[i].dev = m[j].dev => i = j
  PROVE  LET s == Kept(m, Wanted(m)) IN
         s \in Seq(Requirement) /\ \A i, j \in DOMAIN s : s[i].name = s[j].name => i = j
<1> DEFINE s == Kept(m, Wanted(m))
           n == Len(s)
<1>1. /\ s \in Seq(Requirement)
      /\ \E h : Picks(h, n, Len(m), m, Wanted(m)) /\ \A i \in 1 .. n : s[i] = m[h[i]]
  <2> HIDE DEF Requirement
  <2> QED
    BY KeptPicks
<1>2. PICK h : Picks(h, n, Len(m), m, Wanted(m)) /\ \A i \in 1 .. n : s[i] = m[h[i]]
  BY <1>1
<1>3. n \in Nat /\ DOMAIN s = 1 .. n /\ DOMAIN m = 1 .. Len(m)
  BY <1>1
<1> HIDE DEF s, n
<1>4. ASSUME NEW i \in 1 .. n PROVE h[i] \in DOMAIN m /\ s[i] = m[h[i]] /\ s[i] \in Wanted(m)
  BY <1>2, <1>3, <1>4 DEF Picks
<1>5. ASSUME NEW d \in Wanted(m), NEW e \in Wanted(m), d.name = e.name PROVE d.dev = e.dev
  <2>1. /\ d \in ToSet(m) /\ (d.dev => \A x \in ToSet(m) : x.name = d.name => x.dev)
        /\ e \in ToSet(m) /\ (e.dev => \A x \in ToSet(m) : x.name = e.name => x.dev)
    BY <1>5 DEF Wanted
  <2>2. d.dev \in BOOLEAN /\ e.dev \in BOOLEAN
    <3>1. \A x \in Requirement : x.dev \in BOOLEAN
      BY DEF Requirement
    <3>2. ToSet(m) \subseteq Requirement
      <4> HIDE DEF Requirement
      <4> QED
        BY DEF ToSet
    <3> HIDE DEF Requirement
    <3> QED
      BY <2>1, <3>1, <3>2
  <2>3. d.dev <=> e.dev
    BY <1>5, <2>1
  <2> QED
    BY <2>2, <2>3
<1>6. ASSUME NEW i \in 1 .. n, NEW j \in 1 .. n, s[i].name = s[j].name PROVE i = j
  <2>1. h[i] = h[j]
    BY <1>4, <1>5, <1>6
  <2>2. ~(i < j) /\ ~(j < i)
    <3>1. h[i] \in Nat /\ h[j] \in Nat
      BY <1>3, <1>4
    <3>2. /\ i < j => h[i] < h[j]
          /\ j < i => h[j] < h[i]
      BY <1>2 DEF Picks
    <3> QED
      BY <2>1, <3>1, <3>2
  <2> QED
    BY <1>3, <2>2
<1> QED
  BY <1>1, <1>3, <1>6 DEF s

LEMMA DirectIs ==
  ASSUME NEW m \in Manifests
  PROVE  Direct(m) \in Seq(Requirement) /\ (job.file # "go.mod" => Alphabetical(Direct(m)))
<1> DEFINE s == Kept(m, Wanted(m))
           key == [d \in Requirement |-> d.name]
           t == StableSort(key, s)
<1>1. s \in Seq(Requirement)
  <2> HIDE DEF Requirement
  <2> QED
    BY ManifestIs, KeptPicks
<1>2. CASE job.file = "go.mod"
  BY <1>1, <1>2 DEF Direct
<1>3. CASE job.file # "go.mod"
  <2>1. \A i, j \in DOMAIN s : s[i].name = s[j].name => i = j
    BY <1>3, ManifestIs, WantedOnce
  <2>2. Direct(m) = t
    BY <1>3 DEF Direct
  <2>3. key \in [Requirement -> Int] /\ \A d \in Requirement : key[d] = d.name
    BY DEF Requirement
  <2> HIDE DEF Requirement, s, key
  <2>4. DOMAIN s = 1 .. Len(s) /\ Len(s) \in Nat /\ \A i \in 1 .. Len(s) : s[i] \in Requirement
    BY <1>1
  <2>5. PICK p : /\ Permutes(p, Len(s)) /\ t \in Seq(Requirement) /\ Len(t) = Len(s)
                 /\ \A k \in 1 .. Len(s) : t[k] = s[p[k]]
                 /\ \A k, l \in 1 .. Len(s) : k < l =>
                      key[s[p[k]]] < key[s[p[l]]] \/ (key[s[p[k]]] = key[s[p[l]]] /\ p[k] < p[l])
    BY <1>1, <2>3, StableSorted, Zenon
  <2> HIDE DEF t
  <2>6. ASSUME NEW k \in 1 .. Len(s), NEW l \in 1 .. Len(s), k < l PROVE t[k].name < t[l].name
    <3>0. k # l
      BY <2>4, <2>6
    <3>1. p[k] \in DOMAIN s /\ p[l] \in DOMAIN s /\ p[k] # p[l]
      <4>1. /\ p \in [1 .. Len(s) -> 1 .. Len(s)]
            /\ \A i, j \in 1 .. Len(s) : i # j => p[i] # p[j]
        BY <2>5, Zenon DEF Permutes
      <4> QED
        BY <2>4, <3>0, <4>1
    <3>2. key[s[p[k]]] = t[k].name /\ key[s[p[l]]] = t[l].name
      BY <2>3, <2>4, <2>5, <3>1
    <3>3. t[k].name # t[l].name
      BY <2>1, <2>5, <3>1
    <3>4. key[s[p[k]]] < key[s[p[l]]] \/ key[s[p[k]]] = key[s[p[l]]]
      BY <2>5, <2>6
    <3> QED
      BY <3>2, <3>3, <3>4
  <2>7. DOMAIN t = 1 .. Len(s)
    BY <2>4, <2>5
  <2> QED
    BY <2>2, <2>5, <2>6, <2>7 DEF Alphabetical
<1> QED
  BY <1>2, <1>3

LEMMA CheckedIn ==
  ASSUME job.count \in Nat, NEW m \in Manifests
  PROVE  Checked(m) \in Seq(Requirement) /\ (job.file # "go.mod" => Alphabetical(Checked(m)))
<1> DEFINE s == Direct(m)
<1>1. s \in Seq(Requirement) /\ (job.file # "go.mod" => Alphabetical(s))
  BY DirectIs
<1>2. Checked(m) = IF Len(s) > job.count THEN SubSeq(s, 1, job.count) ELSE s
  BY DEF Checked
<1> HIDE DEF Requirement, s
<1>3. CASE Len(s) > job.count
  <2>1. \A i \in 1 .. job.count : s[i] \in Requirement /\ i \in DOMAIN s
    BY <1>1, <1>3
  <2>2. /\ SubSeq(s, 1, job.count) \in Seq(Requirement) /\ DOMAIN SubSeq(s, 1, job.count) = 1 .. job.count
        /\ \A i \in 1 .. job.count : SubSeq(s, 1, job.count)[i] = s[i]
    BY <2>1, SubSeqProperties
  <2> QED
    BY <1>1, <1>2, <1>3, <2>1, <2>2 DEF Alphabetical
<1> QED
  BY <1>1, <1>2, <1>3

LEMMA VerdictStarts == ASSUME VerdictInit PROVE VerdictInv
<1>1. /\ job \in VerdictJobs
      /\ step = IF job.plugin = "deps" THEN "dependencies" ELSE "lookup"
      /\ got = [deps |-> <<>>, answers |-> <<>>]
  BY DEF VerdictInit
<1>2. got.deps = <<>> /\ got.answers = <<>> /\ Len(got.answers) = 0
  BY <1>1
<1>3. job.plugin # "deps" => Lookups > 0
  BY <1>1, VerdictJobFields DEF Lookups
<1>4. <<>> \in Seq(Requirement) /\ <<>> \in Seq(Replies) /\ DOMAIN <<>> = {} /\ Alphabetical(<<>>)
  BY DEF Alphabetical
<1> HIDE DEF Requirement, Replies
<1> QED
  BY <1>1, <1>2, <1>3, <1>4 DEF VerdictInv

(* Nothing a run looks at changes but the answers. *)
LEMMA JobDecides ==
  ASSUME job' = job
  PROVE  /\ Replies' = Replies /\ Forgiving' = Forgiving
         /\ got'.deps = got.deps => Lookups' = Lookups
         /\ job.plugin # "deps" => Lookups' = Lookups
         /\ got'.deps = got.deps /\ (Npm => Alphabetical(got.deps)) => (Npm => Alphabetical(got.deps))'
BY DEF Replies, Values, Forgiving, Lookups, Npm, Alphabetical

LEMMA VerdictSame ==
  ASSUME job' = job, got'.deps = got.deps, NEW s, got'.answers = s
  PROVE  Verdict(got.answers)' = Verdict(s)
<1>1. EolResult(got.answers)' = EolResult(s)
  BY DEF EolResult
<1> QED
  BY <1>1 DEF Verdict

LEMMA ManifestKept ==
  ASSUME VerdictInv, ReadManifest
  PROVE  VerdictInv'
<1>1. /\ step = "dependencies" /\ job \in VerdictJobs /\ job.plugin = "deps" /\ job.count \in Nat
      /\ got.answers = <<>> /\ got.deps \in Seq(Requirement) /\ got = [deps |-> got.deps, answers |-> got.answers]
      /\ Npm => Alphabetical(got.deps)
  BY VerdictJobFields DEF VerdictInv, ReadManifest
<1>2. job' = job
  BY DEF ReadManifest, Abort, Return, Proceed
<1>3. Forgiving'
  BY <1>1, <1>2 DEF Forgiving
<1>4. CASE Abort
  <2>1. step' = "failed" /\ got' = got
    BY <1>4 DEF Abort
  <2>2. Replies' = Replies
    BY <1>2, JobDecides
  <2>3. <<>> \in Seq(Replies)
    OBVIOUS
  <2>4. (Npm => Alphabetical(got.deps))'
    BY <1>1, <1>2, <2>1, JobDecides
  <2> HIDE DEF Requirement, Replies
  <2> QED
    BY <1>1, <1>2, <1>3, <2>1, <2>2, <2>3, <2>4 DEF VerdictInv
<1>5. ASSUME NEW deps \in Seq(Requirement), Npm => Alphabetical(deps),
             got' = [deps |-> deps, answers |-> <<>>],
             \/ deps = <<>> /\ step' = "done" /\ out' = DepsResult(deps, <<>>)
             \/ deps # <<>> /\ step' = "lookup"
      PROVE  VerdictInv'
  <2>1. /\ got'.deps = deps /\ got'.answers = <<>> /\ Len(got'.answers) = 0
        /\ <<>> \in Seq(Replies') /\ DOMAIN <<>> = {}
    BY <1>5
  <2>2. Lookups' = Len(deps)
    BY <1>1, <1>2, <2>1 DEF Lookups
  <2>3. Verdict(got.answers)' = DepsResult(deps, <<>>)
    BY <1>1, <1>2, <2>1 DEF Verdict
  <2>4. deps # <<>> => 0 < Len(deps)
    OBVIOUS
  <2>5. deps = <<>> => Len(deps) = 0
    OBVIOUS
  <2>6. (Npm => Alphabetical(got.deps))'
    BY <1>2, <1>5, <2>1 DEF Npm, Alphabetical
  <2> HIDE DEF Requirement
  <2> QED
    BY <1>1, <1>2, <1>3, <1>5, <2>1, <2>2, <2>3, <2>4, <2>5, <2>6 DEF VerdictInv
<1>6. ASSUME NEW m \in Manifests,
             LET deps == Checked(m) IN
             IF deps = <<>> THEN Return(DepsResult(deps, <<>>), [deps |-> deps, answers |-> <<>>])
             ELSE Proceed("lookup", [deps |-> deps, answers |-> <<>>])
      PROVE  VerdictInv'
  <2>1. Checked(m) \in Seq(Requirement) /\ (job.file # "go.mod" => Alphabetical(Checked(m)))
    BY <1>1, CheckedIn
  <2> DEFINE deps == Checked(m)
  <2> HIDE DEF deps
  <2>2. \/ deps = <<>> /\ Return(DepsResult(deps, <<>>), [deps |-> deps, answers |-> <<>>])
        \/ deps # <<>> /\ Proceed("lookup", [deps |-> deps, answers |-> <<>>])
    BY <1>6 DEF deps
  <2>3. deps \in Seq(Requirement) /\ (Npm => Alphabetical(deps))
    BY <2>1 DEF deps, Npm
  <2> QED
    BY <1>5, <2>2, <2>3 DEF Return, Proceed
<1> QED
  BY <1>4, <1>6 DEF ReadManifest

LEMMA LookupKept ==
  ASSUME VerdictInv, Lookup
  PROVE  VerdictInv'
<1>1. /\ step = "lookup" /\ job \in VerdictJobs /\ Len(got.answers) < Lookups
      /\ got.answers \in Seq(Replies) /\ got.deps \in Seq(Requirement) /\ got = [deps |-> got.deps, answers |-> got.answers]
      /\ ~Forgiving => \A i \in DOMAIN got.answers : got.answers[i].ok
      /\ Npm => Alphabetical(got.deps)
  BY DEF VerdictInv, Lookup
<1>2. job' = job
  BY DEF Lookup, Abort, Return, Proceed
<1>3. CASE Abort
  <2>1. step' = "failed" /\ got' = got
    BY <1>3 DEF Abort
  <2>2. Replies' = Replies /\ Forgiving' = Forgiving /\ (Npm => Alphabetical(got.deps))'
    BY <1>1, <1>2, <2>1, JobDecides
  <2> HIDE DEF Replies, Forgiving, Requirement
  <2> QED
    BY <1>1, <1>2, <2>1, <2>2 DEF VerdictInv
<1>4. ASSUME NEW a \in Replies, a.ok \/ Forgiving, NEW g, g = [got EXCEPT !.answers = Append(@, a)],
             IF Len(g.answers) < Lookups THEN Proceed("lookup", g) ELSE Return(Verdict(g.answers), g)
      PROVE  VerdictInv'
  <2> DEFINE s == Append(got.answers, a)
  <2>1. g = [deps |-> got.deps, answers |-> s]
    BY <1>1, <1>4
  <2>2. g.deps = got.deps /\ g.answers = s /\ g = [deps |-> g.deps, answers |-> g.answers]
    BY <2>1
  <2>3. /\ s \in Seq(Replies) /\ Len(s) = Len(got.answers) + 1 /\ Len(got.answers) \in Nat
        /\ \A i \in DOMAIN s : (i \in DOMAIN got.answers /\ s[i] = got.answers[i]) \/ s[i] = a
    <3> HIDE DEF Replies
    <3> QED
      BY <1>1, <1>4, AppendProperties
  <2> HIDE DEF s
  <2>4. got' = g
    BY <1>4 DEF Proceed, Return
  <2>5. Replies' = Replies /\ Forgiving' = Forgiving /\ Lookups' = Lookups /\ (Npm => Alphabetical(got.deps))'
    BY <1>1, <1>2, <2>2, <2>4, JobDecides
  <2>6. ~Forgiving => \A i \in DOMAIN s : s[i].ok
    BY <1>1, <1>4, <2>3
  <2>7. Verdict(got.answers)' = Verdict(s)
    BY <1>2, <2>2, <2>4, VerdictSame
  <2>8. \/ step' = "lookup" /\ Len(s) < Lookups
        \/ step' = "done" /\ ~(Len(s) < Lookups) /\ out' = Verdict(s)
    BY <1>4, <2>2 DEF Proceed, Return
  <2>9. Lookups \in Nat
    BY <1>1, VerdictJobFields DEF Lookups
  <2>10. ~(Len(s) < Lookups) => Len(s) = Lookups
    BY <1>1, <2>3, <2>9
  <2> HIDE DEF Replies, Forgiving, Lookups, Requirement, Verdict
  <2> QED
    BY <1>1, <1>2, <2>2, <2>3, <2>4, <2>5, <2>6, <2>7, <2>8, <2>10 DEF VerdictInv
<1> QED
  BY <1>3, <1>4 DEF Lookup

LEMMA VerdictKept ==
  ASSUME VerdictInv, [VerdictNext]_runVars
  PROVE  VerdictInv'
<1>1. CASE UNCHANGED runVars
  <2>1. job' = job /\ got' = got /\ step' = step /\ out' = out
    BY <1>1 DEF runVars
  <2>2. Replies' = Replies /\ Forgiving' = Forgiving /\ Lookups' = Lookups /\ (Npm => Alphabetical(got.deps))'
    BY <2>1, JobDecides DEF VerdictInv
  <2>3. Verdict(got.answers)' = Verdict(got.answers)
    BY <2>1, VerdictSame
  <2> QED
    BY <2>1, <2>2, <2>3 DEF VerdictInv
<1> QED
  BY <1>1, ManifestKept, LookupKept DEF VerdictNext

LEMMA ReplyIs ==
  ASSUME NEW a \in Replies
  PROVE  a.ok \in BOOLEAN /\ (a.ok => a.value \in Values)
<1>1. CASE a \in {[ok |-> FALSE]}
  <2>1. a = [ok |-> FALSE]
    BY <1>1
  <2>2. a.ok = FALSE
    BY <2>1
  <2> QED
    BY <2>2
<1>2. CASE a \in {[ok |-> TRUE, value |-> v] : v \in Values}
  <2>1. PICK v \in Values : a = [ok |-> TRUE, value |-> v]
    BY <1>2
  <2>2. a.ok /\ a.value = v
    BY <2>1
  <2> QED
    BY <2>1, <2>2
<1> QED
  BY <1>1, <1>2 DEF Replies

\* What a run that returned was told.
LEMMA Told ==
  ASSUME VerdictInv, step = "done"
  PROVE  /\ Len(got.answers) = Lookups /\ DOMAIN got.answers = 1 .. Len(got.answers) /\ out = Verdict(got.answers)
         /\ \A i \in DOMAIN got.answers : got.answers[i].ok \in BOOLEAN /\ (got.answers[i].ok => got.answers[i].value \in Values)
         /\ ~Forgiving => \A i \in DOMAIN got.answers : got.answers[i].ok
<1>1. got.answers \in Seq(Replies) /\ Len(got.answers) = Lookups /\ out = Verdict(got.answers)
      /\ (~Forgiving => \A i \in DOMAIN got.answers : got.answers[i].ok)
  BY DEF VerdictInv
<1>2. DOMAIN got.answers = 1 .. Len(got.answers) /\ \A i \in DOMAIN got.answers : got.answers[i] \in Replies
  <2> HIDE DEF Replies
  <2> QED
    BY <1>1
<1>3. \A i \in DOMAIN got.answers : got.answers[i].ok \in BOOLEAN /\ (got.answers[i].ok => got.answers[i].value \in Values)
  BY <1>2, ReplyIs
<1> QED
  BY <1>1, <1>2, <1>3

LEMMA DepsTold ==
  ASSUME VerdictInv, step = "done", job.plugin = "deps"
  PROVE  LET n == Len(got.deps) IN
         /\ n \in Nat /\ DOMAIN got.deps = 1 .. n /\ DOMAIN got.answers = 1 .. n
         /\ out.rank \in [1 .. n -> 0 .. 3]
         /\ \A i \in 1 .. n : out.rank[i] = evalDep(got.deps[i].version, got.answers[i])
         /\ Ranked(out.rows, out.rank, n, 3)
         /\ out.good => n > 0 /\ \A i \in 1 .. n : out.rank[i] = 3
         /\ \A i \in 1 .. n : /\ got.deps[i].version.nums \in Seq(Nat)
                              /\ got.answers[i].ok \in BOOLEAN
                              /\ got.answers[i].ok => got.answers[i].value.nums \in Seq(Nat)
<1> DEFINE n == Len(got.deps)
<1>1. got.deps \in Seq(Requirement)
  BY DEF VerdictInv
<1>2. n \in Nat /\ DOMAIN got.deps = 1 .. n /\ \A i \in 1 .. n : got.deps[i].version \in Versions
  <2>1. \A d \in Requirement : d.version \in Versions
    BY DEF Requirement
  <2> HIDE DEF Requirement
  <2> QED
    BY <1>1, <2>1
<1>3. DOMAIN got.answers = 1 .. n /\ out = DepsResult(got.deps, got.answers)
  BY Told DEF Lookups, Verdict
<1>4. \A i \in 1 .. n : got.answers[i].ok \in BOOLEAN /\ (got.answers[i].ok => got.answers[i].value \in Versions \cup {NoVersion})
  BY <1>3, Told DEF Values
<1>5. \A v \in Versions \cup {NoVersion} : v.nums \in Seq(Nat)
  <2>1. NoVersion.nums = <<>> /\ <<>> \in Seq(Nat)
    BY DEF NoVersion
  <2>2. \A v \in Versions : v.nums \in Seq(Nat)
    BY VerdictAssumption
  <2> QED
    BY <2>1, <2>2
<1>6. \A i \in 1 .. n : /\ got.deps[i].version.nums \in Seq(Nat)
                        /\ got.answers[i].ok => got.answers[i].value.nums \in Seq(Nat)
  BY <1>2, <1>4, <1>5
<1>7. \A i \in 1 .. n : evalDep(got.deps[i].version, got.answers[i]) \in 0 .. 3
  BY <1>6, RankIs
<1> HIDE DEF Requirement
<1>8. /\ out.rank \in [1 .. n -> 0 .. 3]
      /\ \A i \in 1 .. n : out.rank[i] = evalDep(got.deps[i].version, got.answers[i])
      /\ Ranked(out.rows, out.rank, n, 3)
      /\ out.good => n > 0 /\ \A i \in 1 .. n : out.rank[i] = 3
  BY <1>1, <1>3, <1>7, DepsAre
<1> QED
  BY <1>2, <1>3, <1>4, <1>6, <1>8

LEMMA DepsAreHonest == ASSUME VerdictInv PROVE DepsHonest
<1> SUFFICES ASSUME step = "done", job.plugin = "deps" PROVE DepsHonest
  BY DEF DepsHonest, Returned
<1> DEFINE n == Len(got.deps)
<1>1. /\ n \in Nat /\ DOMAIN got.deps = 1 .. n
      /\ out.rank \in [1 .. n -> 0 .. 3]
      /\ \A i \in 1 .. n : out.rank[i] = evalDep(got.deps[i].version, got.answers[i])
      /\ Ranked(out.rows, out.rank, n, 3)
      /\ \A i \in 1 .. n : /\ got.deps[i].version.nums \in Seq(Nat)
                           /\ got.answers[i].ok => got.answers[i].value.nums \in Seq(Nat)
  BY DepsTold
<1>0. job.file = "package.json" => Alphabetical(got.deps)
  BY DEF VerdictInv, Npm
<1> HIDE DEF n
<1>2. /\ IsInjective(out.rows) /\ ToSet(out.rows) = 1 .. n
      /\ \A i, j \in DOMAIN out.rows : i < j =>
           \/ out.rank[out.rows[i]] < out.rank[out.rows[j]]
           \/ out.rank[out.rows[i]] = out.rank[out.rows[j]] /\ out.rows[i] < out.rows[j]
  BY <1>1, RowsOf
<1>3. ASSUME NEW i \in 1 .. n, NEW v, v = got.deps[i].version, NEW a, a = got.answers[i]
      PROVE  /\ out.rank[i] = rankUnknown <=> ~a.ok
             /\ a.ok /\ Comparable(v, a.value) =>
                  /\ out.rank[i] = rankCurrent <=> ~Behind(v, a.value)
                  /\ out.rank[i] = rankMajor <=> v.nums[1] < a.value.nums[1]
  <2>1. /\ out.rank[i] = evalDep(v, a) /\ v.nums \in Seq(Nat) /\ (a.ok => a.value.nums \in Seq(Nat))
    BY <1>1, <1>3
  <2> QED
    BY <2>1, RankIs
<1> QED
  BY <1>0, <1>1, <1>2, <1>3, Zenon DEF DepsHonest

LEMMA EolTold ==
  ASSUME VerdictInv, step = "done", job.plugin = "eol"
  PROVE  /\ job.want \in Nat /\ out = EolResult(got.answers) /\ Len(got.answers) > 0
         /\ \A i \in DOMAIN got.answers : got.answers[i].ok \in BOOLEAN /\ (got.answers[i].ok => got.answers[i].value \in Seq(EOLFields))
<1>1. Values \subseteq Seq(EOLFields)
  BY SeqOfSeq DEF Values
<1>2. job.want \in Nat /\ job.count \in Nat \ {0}
  BY VerdictJobFields DEF VerdictInv
<1>3. Len(got.answers) = job.count /\ out = EolResult(got.answers)
  BY Told DEF Lookups, Verdict
<1> QED
  BY <1>1, <1>2, <1>3, Told

LEMMA EOLRowsMeanAll == ASSUME VerdictInv PROVE EOLMeansAll
<1> SUFFICES ASSUME step = "done", job.plugin = "eol" PROVE EOLMeansAll
  BY DEF EOLMeansAll, Returned
<1> DEFINE rows == [i \in DOMAIN got.answers |-> evalProduct(job.want, got.answers[i])]
<1>1. /\ out.rows = rows
      /\ out.risk = Cardinality({i \in DOMAIN rows : rows[i] \in {"EOL", "EOL soon"}})
  <2> DEFINE risk == Cardinality({i \in DOMAIN rows : rows[i] \in {"EOL", "EOL soon"}})
             good == \A i \in DOMAIN rows : rows[i] = "supported"
  <2>1. out = [rows |-> rows, risk |-> risk, good |-> good]
    BY EolTold, Zenon DEF EolResult
  <2> HIDE DEF good, risk, rows
  <2>2. out.rows = rows /\ out.risk = risk
    BY <2>1
  <2> QED
    BY <2>2 DEF risk
<1>2. \A i \in DOMAIN got.answers :
         /\ rows[i] \in {"error", "EOL", "EOL soon", "supported"}
         /\ rows[i] = "EOL" /\ job.want = 0 => ToSet(got.answers[i].value) \subseteq Ended
  <2> TAKE i \in DOMAIN got.answers
  <2>1. job.want \in Nat /\ (got.answers[i].ok => got.answers[i].value \in Seq(EOLFields))
    BY EolTold
  <2>2. rows[i] = evalProduct(job.want, got.answers[i])
    OBVIOUS
  <2> HIDE DEF rows
  <2> QED
    BY <2>1, <2>2, ProductIs
<1>3. DOMAIN rows = DOMAIN got.answers
  OBVIOUS
<1> HIDE DEF rows
<1>4. {i \in DOMAIN rows : rows[i] \in {"EOL", "EOL soon"}} = {i \in DOMAIN rows : rows[i] \notin {"supported", "error"}}
  BY <1>2, <1>3
<1> QED
  BY <1>1, <1>2, <1>3, <1>4 DEF EOLMeansAll

LEMMA GreenHasEvidence == ASSUME VerdictInv PROVE GreenNeedsEvidence
<1> SUFFICES ASSUME step = "done", out.good PROVE GreenNeedsEvidence
  BY DEF GreenNeedsEvidence, Returned
<1> DEFINE a == got.answers
           v == got.answers[1].value
<1>1. job.plugin \in Judging
  BY VerdictJobFields DEF VerdictInv
<1>2. /\ Len(a) = Lookups /\ DOMAIN a = 1 .. Len(a) /\ out = Verdict(a)
      /\ \A i \in DOMAIN a : a[i].ok \in BOOLEAN /\ (a[i].ok => a[i].value \in Values)
      /\ ~Forgiving => \A i \in DOMAIN a : a[i].ok
  BY Told
<1> HIDE DEF a
<1>3. Len(a) > 0 => a # <<>>
  OBVIOUS
<1>4. CASE job.plugin = "deps"
  <2> DEFINE n == Len(got.deps)
  <2>1. /\ n \in Nat /\ n > 0 /\ DOMAIN got.deps = 1 .. n /\ DOMAIN a = 1 .. n /\ Len(a) = n
        /\ \A i \in 1 .. n : /\ evalDep(got.deps[i].version, a[i]) = 3
                             /\ got.deps[i].version.nums \in Seq(Nat) /\ a[i].ok \in BOOLEAN
                             /\ a[i].ok => a[i].value.nums \in Seq(Nat)
    BY <1>2, <1>4, DepsTold DEF Lookups, a
  <2> HIDE DEF n
  <2>2. ASSUME NEW i \in 1 .. n, NEW cur, cur = got.deps[i].version, NEW b, b = a[i]
        PROVE  b.ok /\ (b.value = NoVersion \/ AtLeast(cur, b.value))
    <3>1. evalDep(cur, b) = 3 /\ cur.nums \in Seq(Nat) /\ b.ok \in BOOLEAN /\ (b.ok => b.value.nums \in Seq(Nat))
      BY <2>1, <2>2
    <3>2. /\ evalDep(cur, b) = rankUnknown <=> ~b.ok
          /\ evalDep(cur, b) = rankCurrent => b.value = NoVersion \/ AtLeast(cur, b.value)
      BY <3>1, RankIs
    <3> QED
      BY <3>1, <3>2 DEF rankUnknown, rankCurrent
  <2> QED
    BY <1>3, <1>4, <2>1, <2>2 DEF GreenNeedsEvidence, a
<1>5. CASE job.plugin = "eol"
  <2>1. /\ job.want \in Nat /\ out = EolResult(a) /\ Len(a) > 0
        /\ \A i \in DOMAIN a : a[i].ok \in BOOLEAN /\ (a[i].ok => a[i].value \in Seq(EOLFields))
    BY <1>5, EolTold DEF a
  <2>2. \A i \in DOMAIN a : evalProduct(job.want, a[i]) = "supported"
    BY <2>1 DEF EolResult
  <2>3. \A i \in DOMAIN a : a[i].ok /\ Supports(a[i].value, job.want)
    BY <2>1, <2>2, ProductIs
  <2> QED
    BY <1>3, <1>5, <2>1, <2>3 DEF GreenNeedsEvidence, a
<1>6. ASSUME job.plugin \notin {"deps", "eol"}
      PROVE  /\ Len(a) = 1 /\ DOMAIN a = {1} /\ a # <<>>
             /\ ~Forgiving => a[1].ok /\ a[1].value \in Values
  <2>1. Len(a) = 1
    BY <1>2, <1>6 DEF Lookups
  <2>2. DOMAIN a = {1}
    BY <1>2, <2>1
  <2> QED
    BY <1>2, <1>3, <2>1, <2>2
<1>7. ASSUME job.plugin \in {"osv", "artifacts", "milestone", "workflow", "file"}
      PROVE  a # <<>> /\ DOMAIN a = {1} /\ a[1].ok /\ v \in Values
  BY <1>6, <1>7 DEF Forgiving, a
<1>8. CASE job.plugin = "osv"
  <2>1. v = {}
    BY <1>2, <1>8 DEF Verdict, OsvResult, a
  <2> QED
    BY <1>7, <1>8, <2>1 DEF GreenNeedsEvidence, a
<1>9. CASE job.plugin = "artifacts"
  <2>1. \A i \in DOMAIN job.expected : firstMatch(job.expected[i], v) # 0
    <3>1. out = ArtifactsResult(job.expected, v)
      BY <1>2, <1>9 DEF Verdict, a
    <3> QED
      BY <3>1 DEF ArtifactsResult
  <2>2. \A w \in ToSet(job.expected) : w.name \in ToSet(v) \/ (w.glob /\ w.matches \cap ToSet(v) # {})
    <3>1. \A w \in ToSet(job.expected) : firstMatch(w, v) # 0
      BY <2>1 DEF ToSet
    <3> HIDE DEF v
    <3> QED
      BY <3>1, MatchIs
  <2> QED
    BY <1>7, <1>9, <2>2 DEF GreenNeedsEvidence, a
<1>10. CASE job.plugin = "milestone"
  <2>1. MilestoneResult(v).good
    BY <1>2, <1>10 DEF Verdict, a
  <2>2. v.open \in Nat /\ v.closed \in Nat
    BY <1>7, <1>10 DEF Values
  <2>3. v.open = 0 /\ v.closed > 0
    BY <2>1, <2>2, MilestoneIs
  <2> QED
    BY <1>7, <1>10, <2>3 DEF GreenNeedsEvidence, a
<1>11. CASE job.plugin = "workflow"
  <2>1. WorkflowResult(v).good
    BY <1>2, <1>11 DEF Verdict, a
  <2>2. v \in Seq({"", "success", "failure"})
    BY <1>7, <1>11, SeqOfSeq DEF Values
  <2>3. "success" \in ToSet(v) /\ "failure" \notin ToSet(v)
    BY <2>1, <2>2, WorkflowIs
  <2> QED
    BY <1>7, <1>11, <2>3 DEF GreenNeedsEvidence, a
<1>12. CASE job.plugin = "health"
  <2>1. HealthResult(a[1], 200).good
    BY <1>2, <1>12 DEF Verdict
  <2>2. a[1].ok /\ a[1].value = 200
    BY <2>1 DEF HealthResult
  <2> QED
    BY <1>6, <1>12, <2>2 DEF GreenNeedsEvidence, a
<1>13. CASE job.plugin = "file"
  <2>1. FileResult(v).good
    BY <1>2, <1>13 DEF Verdict, a
  <2>2. \E i \in DOMAIN v : v[i].key = "go"
    BY <2>1, FileIs
  <2> QED
    BY <1>7, <1>13, <2>2 DEF GreenNeedsEvidence, a
<1> QED
  BY <1>1, <1>4, <1>5, <1>8, <1>9, <1>10, <1>11, <1>12, <1>13 DEF Judging

VerdictInvariantOfRun == job.plugin \in Judging => VerdictInv

(***************************************************************************)
(* The inductive invariant of the judging plugins: when a run returns, the *)
(* answers are complete and the verdict is the one they lead to.           *)
(***************************************************************************)
THEOREM VerdictInvariant == Spec => []VerdictInvariantOfRun
<1>1. Init => VerdictInvariantOfRun
  BY Begins, VerdictStarts DEF VerdictInvariantOfRun
<1>2. VerdictInvariantOfRun /\ [Next]_runVars => VerdictInvariantOfRun'
  BY StepsOf, JobStays, VerdictKept DEF VerdictInvariantOfRun
<1> QED
  BY <1>1, <1>2, PTL DEF Spec

(***************************************************************************)
(* The rows of dependency-freshness and endoflife are true of the versions *)
(* and cycles they were told: nothing behind is shown as current, whatever *)
(* the parts of the versions (evalDep of gomod, pickCycle of endoflife).   *)
(***************************************************************************)
THEOREM VerdictsCorrect == Spec => []VerdictsHonest
<1>1. VerdictInv => VerdictsHonest
  BY DepsAreHonest, EOLRowsMeanAll DEF VerdictsHonest
<1>2. job.plugin \notin Judging => VerdictsHonest
  BY DEF VerdictsHonest, DepsHonest, EOLMeansAll, Judging
<1>3. VerdictInvariantOfRun => VerdictsHonest
  BY <1>1, <1>2 DEF VerdictInvariantOfRun
<1> QED
  BY <1>3, VerdictInvariant, PTL

(***************************************************************************)
(* A green card of the eight judging plugins rests on answers that all     *)
(* came and say so: there is none for an empty manifest, a milestone       *)
(* without issues or a workflow none of whose runs is completed.           *)
(***************************************************************************)
THEOREM GreenCorrect == Spec => []GreenNeedsEvidence
<1>1. VerdictInvariantOfRun => GreenNeedsEvidence
  BY GreenHasEvidence DEF VerdictInvariantOfRun, GreenNeedsEvidence
<1> QED
  BY <1>1, VerdictInvariant, PTL

-----------------------------------------------------------------------------
(***************************************************************************)
(* Capped: the first of what is in order.                                  *)
(***************************************************************************)
(* rows are the first of e, taken in the order of p. *)
FirstOf(rows, e, p) ==
  /\ IsInjective(rows) /\ ToSet(rows) \subseteq ToSet(e)
  /\ Len(rows) < job.count => ToSet(rows) = ToSet(e)
  /\ Len(rows) <= job.count
  /\ \A i \in DOMAIN rows : \A x \in ToSet(e) :
       (x \notin ToSet(rows) \/ \E j \in DOMAIN rows : j > i /\ rows[j] = x) =>
         i \in 1 .. Len(e) /\ rows[i] = e[p[i]] /\ \E j \in 1 .. Len(e) : i < j /\ x = e[p[j]]

LEMMA CappedIs ==
  ASSUME job.count \in Nat, NEW s \in Seq(Pool)
  PROVE  LET r == Capped(s) IN
         /\ r \in Seq(Pool) /\ Len(r) = (IF Len(s) > job.count THEN job.count ELSE Len(s))
         /\ \A i \in 1 .. Len(r) : r[i] = s[i]
<1> DEFINE c == job.count
           n == Len(s)
<1>1. n \in Nat /\ c \in Nat
  OBVIOUS
<1>2. CASE n > c
  <2>1. \A i \in 1 .. c : s[i] \in Pool
    BY <1>1, <1>2
  <2> DEFINE r == SubSeq(s, 1, c)
  <2>2. r \in Seq(Pool) /\ Len(r) = c /\ \A i \in 1 .. c : r[i] = s[i]
    <3> HIDE DEF c
    <3>1. /\ r \in Seq(Pool)
          /\ Len(r) = IF 1 <= c THEN c - 1 + 1 ELSE 0
          /\ \A i \in 1 .. c - 1 + 1 : r[i] = s[1 + i - 1]
      BY <1>1, <2>1, SubSeqProperties
    <3>2. c - 1 + 1 = c /\ (~(1 <= c) => c = 0) /\ \A i \in 1 .. c : 1 + i - 1 = i
      BY <1>1
    <3> HIDE DEF r
    <3> QED
      BY <3>1, <3>2
  <2>3. Capped(s) = r
    BY <1>2 DEF Capped
  <2> QED
    BY <1>2, <2>2, <2>3
<1>3. CASE ~(n > c)
  BY <1>1, <1>3 DEF Capped
<1> QED
  BY <1>2, <1>3

LEMMA FirstAre ==
  ASSUME job.count \in Nat, NEW e \in Seq(Pool), IsInjective(e), NEW p, Permutes(p, Len(e)),
         NEW t \in Seq(Pool), Len(t) = Len(e), \A k \in 1 .. Len(e) : t[k] = e[p[k]]
  PROVE  FirstOf(Capped(t), e, p)
<1> DEFINE rows == Capped(t)
           n == Len(e)
           m == Len(rows)
<1>1. /\ n \in Nat /\ DOMAIN e = 1 .. n /\ m \in Nat /\ DOMAIN rows = 1 .. m
      /\ m = (IF n > job.count THEN job.count ELSE n) /\ job.count \in Nat
      /\ \A i \in 1 .. m : rows[i] = t[i]
  <2> DEFINE r == Capped(t)
  <2>1. /\ r \in Seq(Pool) /\ Len(r) = (IF Len(t) > job.count THEN job.count ELSE Len(t))
        /\ \A i \in 1 .. Len(r) : r[i] = t[i]
    BY CappedIs
  <2>2. n \in Nat /\ DOMAIN e = 1 .. n /\ Len(t) = n
    OBVIOUS
  <2> HIDE DEF r, n
  <2>3. Len(r) \in Nat /\ DOMAIN r = 1 .. Len(r)
    BY <2>1
  <2> QED
    BY <2>1, <2>2, <2>3 DEF r
<1>2. /\ p \in [1 .. n -> 1 .. n]
      /\ \A i, j \in 1 .. n : i # j => p[i] # p[j]
      /\ \A k \in 1 .. n : \E i \in 1 .. n : p[i] = k
  BY DEF Permutes
<1>3. \A i, j \in 1 .. n : e[i] = e[j] => i = j
  BY <1>1 DEF IsInjective
<1>4. \A k \in 1 .. n : t[k] = e[p[k]]
  OBVIOUS
<1> HIDE DEF rows, n, m
<1>5. m <= n /\ m <= job.count /\ (m < job.count => m = n)
  BY <1>1
<1>6. \A i \in 1 .. m : i \in 1 .. n /\ rows[i] = e[p[i]] /\ p[i] \in 1 .. n
  <2> TAKE i \in 1 .. m
  <2>1. i \in 1 .. n
    BY <1>1, <1>5
  <2>2. rows[i] = t[i] /\ t[i] = e[p[i]]
    BY <1>1, <1>4, <2>1
  <2>3. p[i] \in 1 .. n
    BY <1>2, <2>1
  <2> QED
    BY <2>1, <2>2, <2>3
<1>7. IsInjective(rows)
  <2>1. \A i, j \in 1 .. m : rows[i] = rows[j] => i = j
    <3> SUFFICES ASSUME NEW i \in 1 .. m, NEW j \in 1 .. m, rows[i] = rows[j] PROVE i = j
      OBVIOUS
    <3>1. i \in 1 .. n /\ j \in 1 .. n /\ e[p[i]] = e[p[j]] /\ p[i] \in 1 .. n /\ p[j] \in 1 .. n
      BY <1>6
    <3>2. p[i] = p[j]
      BY <1>3, <3>1
    <3> QED
      BY <1>2, <3>1, <3>2
  <2> QED
    BY <1>1, <2>1 DEF IsInjective
<1>8. ToSet(e) = {e[i] : i \in 1 .. n} /\ ToSet(rows) = {rows[i] : i \in 1 .. m}
  BY <1>1 DEF ToSet
<1>9. \A x \in ToSet(e) : \E k \in 1 .. n : x = e[p[k]]
  <2> SUFFICES ASSUME NEW x \in ToSet(e) PROVE \E k \in 1 .. n : x = e[p[k]]
    OBVIOUS
  <2>1. PICK i \in 1 .. n : x = e[i]
    BY <1>8
  <2>2. PICK k \in 1 .. n : p[k] = i
    BY <1>2
  <2> QED
    BY <2>1, <2>2
<1>10. ToSet(rows) \subseteq ToSet(e)
  BY <1>6, <1>8
<1>11. ASSUME m < job.count PROVE ToSet(rows) = ToSet(e)
  <2>1. \A x \in ToSet(e) : x \in ToSet(rows)
    BY <1>5, <1>6, <1>8, <1>9, <1>11
  <2> QED
    BY <1>10, <2>1
<1>12. ASSUME NEW i \in 1 .. m, NEW x \in ToSet(e),
              x \notin ToSet(rows) \/ \E j \in 1 .. m : j > i /\ rows[j] = x
       PROVE  i \in 1 .. n /\ rows[i] = e[p[i]] /\ \E j \in 1 .. n : i < j /\ x = e[p[j]]
  <2>1. i \in 1 .. n /\ rows[i] = e[p[i]]
    BY <1>6
  <2>2. CASE x \notin ToSet(rows)
    <3>1. PICK k \in 1 .. n : x = e[p[k]]
      BY <1>9
    <3>2. k \notin 1 .. m
      BY <1>6, <1>8, <2>2, <3>1
    <3>3. i < k
      BY <1>1, <3>2
    <3> QED
      BY <2>1, <3>1, <3>3
  <2>3. CASE \E j \in 1 .. m : j > i /\ rows[j] = x
    <3>1. PICK j \in 1 .. m : j > i /\ rows[j] = x
      BY <2>3
    <3>2. j \in 1 .. n /\ x = e[p[j]] /\ i < j
      BY <1>1, <1>6, <3>1
    <3> QED
      BY <2>1, <3>2
  <2> QED
    BY <1>12, <2>2, <2>3
<1>13. FirstOf(rows, e, p)
  BY <1>1, <1>5, <1>7, <1>10, <1>11, <1>12 DEF FirstOf, m, n
<1> QED
  BY <1>13 DEF rows

\* Left in the order it came.
LEMMA Identity ==
  ASSUME NEW n \in Nat
  PROVE  Permutes([i \in 1 .. n |-> i], n)
BY DEF Permutes

-----------------------------------------------------------------------------
(***************************************************************************)
(* What the sources had to offer.                                          *)
(***************************************************************************)
LEMMA FlattenOne ==
  ASSUME NEW S, NEW a \in Seq(S)
  PROVE  FlattenSeq([i \in 1 .. 1 |-> a]) = a
<1> DEFINE s == [i \in 1 .. 1 |-> a]
           Eq(f) == f = [i \in 1 .. 1 |-> IF i = 1 THEN s[i] ELSE f[i - 1] \o s[i]]
<1>1. Len(s) = 1 /\ s[1] = a
  OBVIOUS
<1>2. FlattenSeq(s) = (CHOOSE f : Eq(f))[1]
  BY <1>1 DEF FlattenSeq
<1>3. Eq(s)
  OBVIOUS
<1> HIDE DEF s
<1>4. Eq(CHOOSE f : Eq(f))
  BY <1>3
<1> DEFINE g == CHOOSE f : Eq(f)
<1> HIDE DEF g
<1>5. g[1] = s[1]
  <2>1. Eq(g)
    BY <1>4 DEF g
  <2> QED
    BY <2>1
<1> QED
  BY <1>1, <1>2, <1>5 DEF s, g

LEMMA FlattenTwo ==
  ASSUME NEW S, NEW a \in Seq(S), NEW b \in Seq(S)
  PROVE  FlattenSeq([i \in 1 .. 2 |-> IF i = 1 THEN a ELSE b]) = a \o b
<1> DEFINE s == [i \in 1 .. 2 |-> IF i = 1 THEN a ELSE b]
           Eq(f) == f = [i \in 1 .. 2 |-> IF i = 1 THEN s[i] ELSE f[i - 1] \o s[i]]
           w == [i \in 1 .. 2 |-> IF i = 1 THEN a ELSE a \o b]
<1>1. Len(s) = 2 /\ s[1] = a /\ s[2] = b
  OBVIOUS
<1>2. FlattenSeq(s) = (CHOOSE f : Eq(f))[2]
  BY <1>1 DEF FlattenSeq
<1>3. Eq(w)
  OBVIOUS
<1> HIDE DEF s, w
<1> DEFINE g == CHOOSE f : Eq(f)
<1>4. Eq(g)
  BY <1>3
<1> HIDE DEF g
<1>5. g[2] = g[1] \o s[2] /\ g[1] = s[1]
  <2> DEFINE F(i) == IF i = 1 THEN s[i] ELSE g[i - 1] \o s[i]
  <2>1. g = [i \in 1 .. 2 |-> F(i)]
    BY <1>4
  <2>2. F(1) = s[1] /\ F(2) = g[1] \o s[2]
    OBVIOUS
  <2> HIDE DEF F
  <2>3. g[1] = F(1) /\ g[2] = F(2)
    BY <2>1
  <2> QED
    BY <2>2, <2>3
<1> QED
  BY <1>1, <1>2, <1>5 DEF s, g

(* What a list plugin may be asked: one or two sources, all different when *)
(* they are repositories.                                                  *)
LEMMA AskedAre ==
  ASSUME ListInit
  PROVE  /\ job.plugin \in Listing /\ job.count \in Nat
         /\ Len(Asked) \in 1 .. 2 /\ DOMAIN Asked = 1 .. Len(Asked)
         /\ job.plugin \notin {"issues", "prs", "stale"} => Len(Asked) = 1
         /\ job.plugin \in {"issues", "prs"} => \A i \in 1 .. Len(Asked) : Asked[i] \in Repos \cup {"bad"}
         /\ job.plugin \in {"issues", "prs"} => \A i, j \in 1 .. Len(Asked) : i # j => Asked[i] # Asked[j]
<1>1. /\ job.plugin \in Listing /\ job.count \in 1 .. 2 /\ job.searches \in 1 .. 2
      /\ job.repos \in SeqOf(Repos \cup {"bad"}, 2) /\ job.repos # <<>> /\ IsInjective(job.repos)
  BY DEF ListInit, ListJobs
<1>2. job.repos \in Seq(Repos \cup {"bad"}) /\ Len(job.repos) \in 1 .. 2 /\ DOMAIN job.repos = 1 .. Len(job.repos)
  <2>1. \E m \in 0 .. 2 : job.repos \in [1 .. m -> Repos \cup {"bad"}]
    BY <1>1 DEF SeqOf
  <2>2. PICK m \in 0 .. 2 : job.repos \in [1 .. m -> Repos \cup {"bad"}]
    BY <2>1
  <2>3. m # 0
    BY <1>1, <2>2
  <2> DEFINE T == Repos \cup {"bad"}
             r == job.repos
  <2>4. r \in [1 .. m -> T] /\ m \in Nat
    BY <2>2
  <2> HIDE DEF T, r
  <2>5. r \in Seq(T) /\ Len(r) = m /\ DOMAIN r = 1 .. m
    BY <2>4
  <2> QED
    BY <2>3, <2>5 DEF T, r
<1>3. CASE job.plugin \in {"issues", "prs"}
  <2>1. Asked = job.repos
    BY <1>3 DEF Asked
  <2>2. \A i, j \in 1 .. Len(job.repos) : i # j => job.repos[i] # job.repos[j]
    BY <1>1, <1>2 DEF IsInjective
  <2>3. \A i \in 1 .. Len(job.repos) : job.repos[i] \in Repos \cup {"bad"}
    BY <1>2
  <2> QED
    BY <1>1, <1>2, <1>3, <2>1, <2>2, <2>3
<1>4. CASE job.plugin = "stale"
  <2>1. Asked = [i \in 1 .. job.searches |-> "search"]
    BY <1>4 DEF Asked
  <2>2. Len(Asked) = job.searches /\ DOMAIN Asked = 1 .. job.searches
    BY <1>1, <2>1
  <2> QED
    BY <1>1, <1>4, <2>2
<1>5. CASE job.plugin \notin {"issues", "prs", "stale"}
  <2>1. Asked = <<"source">>
    BY <1>5 DEF Asked
  <2> QED
    BY <1>1, <1>5, <2>1
<1> QED
  BY <1>3, <1>4, <1>5

(* A run of a list plugin; what it was asked stays what it is. *)
ListInv ==
  /\ job.plugin \in Listing /\ job.count \in Nat
  /\ Len(Asked) \in 1 .. 2 /\ DOMAIN Asked = 1 .. Len(Asked)
  /\ job.plugin \notin {"issues", "prs", "stale"} => Len(Asked) = 1
  /\ job.plugin \in {"issues", "prs"} => \A i \in 1 .. Len(Asked) : Asked[i] \in Repos \cup {"bad"}
  /\ job.plugin \in {"issues", "prs"} => \A i, j \in 1 .. Len(Asked) : i # j => Asked[i] # Asked[j]
  /\ step \in {"ask", "done", "failed"}
  /\ DOMAIN got = 1 .. Len(got) /\ got \in Seq(Answer)
  /\ \A i \in 1 .. Len(got) : i <= Len(Asked) /\ got[i] \in Answers(Asked[i]) /\ (Tolerant \/ got[i].ok)
  /\ step = "ask" => Len(got) < Len(Asked)
  /\ step = "done" => Len(got) = Len(Asked) /\ out \in Results(got)

LEMMA AnswersAre ==
  ASSUME NEW source, NEW a \in Answers(source)
  PROVE  /\ a \in Answer /\ a.ok \in BOOLEAN /\ a.items \in Seq(Pool) /\ IsInjective(a.items)
         /\ source = "bad" => a.items = <<>>
         /\ source \in Repos => \A i \in DOMAIN a.items : a.items[i].repo = source
<1>1. IsInjective(<<>>) /\ <<>> \in Seq(Pool)
  BY DEF IsInjective
<1>2. CASE a = NoAnswer
  <2>1. a.ok = FALSE /\ a.items = <<>>
    BY <1>2 DEF NoAnswer
  <2>2. a = [ok |-> FALSE, items |-> <<>>]
    BY <1>2 DEF NoAnswer
  <2> QED
    BY <1>1, <2>1, <2>2 DEF Answer
<1>3. CASE a # NoAnswer
  <2> DEFINE held == {it \in Pool : Holds(source, it)}
             n == IF Searches THEN job.count ELSE 2
  <2>1. source # "bad" /\ a \in {[ok |-> TRUE, items |-> s] : s \in {t \in SeqOf(held, n) : IsInjective(t)}}
    BY <1>3 DEF Answers
  <2>2. PICK s \in SeqOf(held, n) : IsInjective(s) /\ a = [ok |-> TRUE, items |-> s]
    BY <2>1
  <2>3. a.ok = TRUE /\ a.items = s
    BY <2>2
  <2>4. s \in Seq(held)
    BY SeqOfSeq
  <2>5. s \in Seq(Pool) /\ \A i \in DOMAIN s : Holds(source, s[i])
    BY <2>4
  <2>6. source \in Repos => \A i \in DOMAIN s : s[i].repo = source
    BY <2>5 DEF Holds, Repos
  <2> HIDE DEF held, n
  <2>7. a \in Answer
    BY <2>2, <2>5 DEF Answer
  <2> QED
    BY <2>1, <2>2, <2>3, <2>5, <2>6, <2>7
<1> QED
  BY <1>2, <1>3

LEMMA ListStarts == ASSUME ListInit PROVE ListInv
<1>1. step = "ask" /\ got = <<>>
  BY DEF ListInit
<1>2. Len(Asked) \in 1 .. 2
  BY AskedAre
<1>3. Len(got) = 0 /\ DOMAIN got = 1 .. Len(got) /\ got \in Seq(Answer) /\ 1 .. 0 = {}
  BY <1>1
<1> QED
  BY <1>1, <1>2, <1>3, AskedAre DEF ListInv

LEMMA ListKept ==
  ASSUME ListInv, [ListNext]_runVars
  PROVE  ListInv'
<1>1. job' = job
  BY DEF ListNext, AskSource, Abort, Proceed, Return, runVars
<1>2. /\ Asked' = Asked /\ Tolerant' = Tolerant
      /\ \A s : Answers(s)' = Answers(s)
  BY <1>1 DEF Asked, Tolerant, Answers, Holds, Searches, Valid
<1>3. ASSUME UNCHANGED <<got, out>>, step' = step \/ step' = "failed" PROVE ListInv'
  <2>1. Results(got)' = Results(got)
    BY <1>1, <1>3 DEF Results, IssuesResult, PullsResult, StaleResults, ReviewResult, ReleasesResult, FeedResult, Capped
  <2> HIDE DEF Answer, Results, Asked, Tolerant, Answers
  <2> QED
    BY <1>1, <1>2, <1>3, <2>1 DEF ListInv
<1>4. ASSUME step = "ask", NEW a \in Answers(Asked[Len(got) + 1]), a.ok \/ Tolerant, got' = Append(got, a),
             IF Len(got') < Len(Asked) THEN step' = "ask"
             ELSE step' = "done" /\ out' \in Results(got')
      PROVE  ListInv'
  <2>1. a \in Answer /\ got \in Seq(Answer) /\ Len(got) < Len(Asked) /\ Len(Asked) \in 1 .. 2
    BY <1>4, AnswersAre DEF ListInv
  <2>2. /\ got' \in Seq(Answer) /\ Len(got') = Len(got) + 1 /\ DOMAIN got' = 1 .. Len(got') /\ Len(got) \in Nat
        /\ \A i \in 1 .. Len(got) : got'[i] = got[i]
        /\ got'[Len(got) + 1] = a
    <3> HIDE DEF Answer
    <3> QED
      BY <1>4, <2>1, AppendProperties
  <2>3. \A i \in 1 .. Len(got') : i <= Len(Asked) /\ got'[i] \in Answers(Asked[i]) /\ (Tolerant \/ got'[i].ok)
    <3> TAKE i \in 1 .. Len(got')
    <3>1. CASE i \in 1 .. Len(got)
      BY <2>2, <3>1 DEF ListInv
    <3>2. CASE i = Len(got) + 1
      BY <1>4, <2>1, <2>2, <3>2
    <3> QED
      BY <2>2, <3>1, <3>2
  <2>4. ~(Len(got') < Len(Asked)) => Len(got') = Len(Asked)
    BY <2>1, <2>2
  <2>5. Results(got)' = Results(got')
    BY <1>1 DEF Results, IssuesResult, PullsResult, StaleResults, ReviewResult, ReleasesResult, FeedResult, Capped
  <2> HIDE DEF Answer
  <2> QED
    BY <1>1, <1>2, <1>4, <2>2, <2>3, <2>4, <2>5 DEF ListInv
<1> QED
  <2>1. CASE UNCHANGED runVars
    BY <1>3, <2>1 DEF runVars
  <2>2. CASE ListNext
    <3>1. step = "ask"
      BY <2>2 DEF ListNext, AskSource
    <3>2. PICK a \in Answers(Asked[Len(got) + 1]) :
            LET answers == Append(got, a) IN
            IF ~a.ok /\ ~Tolerant THEN Abort
            ELSE IF Len(answers) < Len(Asked) THEN Proceed("ask", answers)
            ELSE \E r \in Results(answers) : Return(r, answers)
      BY <2>2, Zenon DEF ListNext, AskSource
    <3>3. CASE ~a.ok /\ ~Tolerant
      BY <1>3, <3>2, <3>3 DEF Abort
    <3>4. CASE a.ok \/ Tolerant
      <4> DEFINE answers == Append(got, a)
      <4> HIDE DEF answers
      <4>1. IF Len(answers) < Len(Asked) THEN Proceed("ask", answers)
            ELSE \E r \in Results(answers) : Return(r, answers)
        BY <3>2, <3>4 DEF answers
      <4>2. got' = answers /\ IF Len(answers) < Len(Asked) THEN step' = "ask" ELSE step' = "done" /\ out' \in Results(answers)
        BY <4>1 DEF Proceed, Return
      <4>3. got' = Append(got, a)
        BY <4>2 DEF answers
      <4> QED
        BY <1>4, <3>1, <3>4, <4>2, <4>3
    <3> QED
      BY <3>3, <3>4
  <2> QED
    BY <2>1, <2>2

-----------------------------------------------------------------------------
(***************************************************************************)
(* The eligible items.                                                     *)
(***************************************************************************)
LEMMA Flattened ==
  ASSUME ListInv, step = "done"
  PROVE  \/ Len(Asked) = 1 /\ All(got) = got[1].items
         \/ Len(Asked) = 2 /\ All(got) = got[1].items \o got[2].items
<1>1. DOMAIN got = 1 .. Len(Asked) /\ Len(Asked) \in 1 .. 2 /\ \A i \in 1 .. Len(Asked) : got[i] \in Answers(Asked[i])
  BY DEF ListInv
<1>2. \A i \in 1 .. Len(Asked) : got[i].items \in Seq(Pool)
  BY <1>1, AnswersAre
<1>3. CASE Len(Asked) = 1
  <2> DEFINE a == got[1].items
  <2>1. a \in Seq(Pool)
    BY <1>2, <1>3
  <2>2. [i \in DOMAIN got |-> got[i].items] = [i \in 1 .. 1 |-> a]
    BY <1>1, <1>3
  <2> HIDE DEF a
  <2>3. All(got) = a
    BY <2>1, <2>2, FlattenOne DEF All
  <2> QED
    BY <1>3, <2>3 DEF a
<1>4. CASE Len(Asked) = 2
  <2> DEFINE a == got[1].items
             b == got[2].items
  <2>1. a \in Seq(Pool) /\ b \in Seq(Pool)
    BY <1>2, <1>4
  <2>2. [i \in DOMAIN got |-> got[i].items] = [i \in 1 .. 2 |-> IF i = 1 THEN a ELSE b]
    BY <1>1, <1>4
  <2> HIDE DEF a, b
  <2>3. All(got) = a \o b
    BY <2>1, <2>2, FlattenTwo DEF All
  <2> QED
    BY <1>4, <2>3 DEF a, b
<1>5. Len(Asked) = 1 \/ Len(Asked) = 2
  BY <1>1
<1> QED
  BY <1>3, <1>4, <1>5

LEMMA Joined ==
  ASSUME NEW a \in Seq(Pool), NEW b \in Seq(Pool), IsInjective(a), IsInjective(b),
         \A i \in DOMAIN a : \A j \in DOMAIN b : a[i] # b[j]
  PROVE  IsInjective(a \o b)
<1> DEFINE m == Len(a)
           n == Len(b)
           c == a \o b
<1>1. /\ m \in Nat /\ n \in Nat /\ DOMAIN a = 1 .. m /\ DOMAIN b = 1 .. n
      /\ Len(c) = m + n /\ DOMAIN c = 1 .. m + n
      /\ \A i \in 1 .. m + n : c[i] = IF i <= m THEN a[i] ELSE b[i - m]
  BY ConcatProperties
<1>2. /\ \A i, j \in 1 .. m : a[i] = a[j] => i = j
      /\ \A i, j \in 1 .. n : b[i] = b[j] => i = j
      /\ \A i \in 1 .. m, j \in 1 .. n : a[i] # b[j]
  BY <1>1 DEF IsInjective
<1> HIDE DEF c, m, n
<1>3. ASSUME NEW i \in 1 .. m + n, NEW j \in 1 .. m + n, c[i] = c[j] PROVE i = j
  <2>1. c[i] = (IF i <= m THEN a[i] ELSE b[i - m]) /\ c[j] = (IF j <= m THEN a[j] ELSE b[j - m])
    BY <1>1
  <2>2. /\ i <= m => i \in 1 .. m
        /\ j <= m => j \in 1 .. m
        /\ ~(i <= m) => i - m \in 1 .. n
        /\ ~(j <= m) => j - m \in 1 .. n
    BY <1>1
  <2>3. CASE i <= m /\ j <= m
    BY <1>2, <1>3, <2>1, <2>2, <2>3
  <2>4. CASE i <= m /\ ~(j <= m)
    BY <1>2, <1>3, <2>1, <2>2, <2>4
  <2>5. CASE ~(i <= m) /\ j <= m
    BY <1>2, <1>3, <2>1, <2>2, <2>5
  <2>6. CASE ~(i <= m) /\ ~(j <= m)
    <3>1. i - m = j - m
      BY <1>2, <1>3, <2>1, <2>2, <2>6
    <3> QED
      BY <1>1, <3>1
  <2> QED
    BY <2>3, <2>4, <2>5, <2>6
<1>4. IsInjective(c)
  BY <1>1, <1>3 DEF IsInjective
<1> QED
  BY <1>4 DEF c

LEMMA AllAre ==
  ASSUME ListInv, step = "done"
  PROVE  All(got) \in Seq(Pool) /\ (job.plugin # "stale" => IsInjective(All(got)))
<1>1. Len(Asked) \in 1 .. 2 /\ \A i \in 1 .. Len(Asked) : got[i] \in Answers(Asked[i])
  BY DEF ListInv
<1>2. \A i \in 1 .. Len(Asked) : got[i].items \in Seq(Pool) /\ IsInjective(got[i].items)
  BY <1>1, AnswersAre
<1>3. CASE Len(Asked) = 1
  BY <1>2, <1>3, Flattened
<1>4. CASE Len(Asked) = 2
  <2> DEFINE a == got[1].items
             b == got[2].items
  <2>0. 1 \in 1 .. Len(Asked) /\ 2 \in 1 .. Len(Asked)
    BY <1>4
  <2>1. /\ a \in Seq(Pool) /\ IsInjective(a) /\ b \in Seq(Pool) /\ IsInjective(b)
        /\ All(got) = a \o b
    <3>1. a \in Seq(Pool) /\ IsInjective(a) /\ b \in Seq(Pool) /\ IsInjective(b)
      BY <1>2, <2>0
    <3>2. All(got) = a \o b
      <4>1. Len(Asked) # 1
        BY <1>4
      <4> QED
        BY <4>1, Flattened, Zenon
    <3> QED
      BY <3>1, <3>2
  <2>2. a \o b \in Seq(Pool)
    BY <2>1
  <2>3. ASSUME job.plugin # "stale" PROVE IsInjective(a \o b)
    <3>1. job.plugin \in {"issues", "prs"}
      BY <1>4, <2>3 DEF ListInv
    <3>2. Asked[1] # Asked[2] /\ Asked[1] \in Repos \cup {"bad"} /\ Asked[2] \in Repos \cup {"bad"}
      BY <2>0, <3>1 DEF ListInv
    <3>3. \A i \in DOMAIN a : Asked[1] # "bad" /\ a[i].repo = Asked[1]
      <4>1. /\ Asked[1] = "bad" => a = <<>>
            /\ Asked[1] \in Repos => \A i \in DOMAIN a : a[i].repo = Asked[1]
        BY <1>1, <2>0, AnswersAre
      <4> QED
        BY <3>2, <4>1
    <3>4. \A i \in DOMAIN b : Asked[2] # "bad" /\ b[i].repo = Asked[2]
      <4>1. /\ Asked[2] = "bad" => b = <<>>
            /\ Asked[2] \in Repos => \A i \in DOMAIN b : b[i].repo = Asked[2]
        BY <1>1, <2>0, AnswersAre
      <4> QED
        BY <3>2, <4>1
    <3> HIDE DEF a, b
    <3>5. \A i \in DOMAIN a : \A j \in DOMAIN b : a[i] # b[j]
      BY <3>2, <3>3, <3>4
    <3> QED
      BY <2>1, <3>5, Joined
  <2> QED
    BY <2>1, <2>2, <2>3
<1> QED
  BY <1>1, <1>3, <1>4

LEMMA FitAre ==
  ASSUME NEW s \in Seq(Pool)
  PROVE  Fit(s) \in Seq(Pool) /\ (IsInjective(s) => IsInjective(Fit(s)))
<1> DEFINE A == {it \in ToSet(s) : it.fit}
           t == Fit(s)
           n == Len(t)
<1>1. t = Kept(s, A)
  BY DEF Fit
<1> HIDE DEF A, t
<1>2. t \in Seq(Pool) /\ \E h : Picks(h, n, Len(s), s, A) /\ \A i \in 1 .. n : t[i] = s[h[i]]
  BY <1>1, KeptPicks
<1>3. PICK h : Picks(h, n, Len(s), s, A) /\ \A i \in 1 .. n : t[i] = s[h[i]]
  BY <1>2
<1>4. h \in [1 .. n -> 1 .. Len(s)] /\ \A i, j \in 1 .. n : i < j => h[i] < h[j]
  BY <1>3 DEF Picks
<1>5. DOMAIN t = 1 .. n /\ DOMAIN s = 1 .. Len(s) /\ n \in Nat
  BY <1>2
<1>6. ASSUME IsInjective(s), NEW i \in 1 .. n, NEW j \in 1 .. n, t[i] = t[j] PROVE i = j
  <2>1. h[i] = h[j] /\ h[i] \in Nat
    BY <1>3, <1>4, <1>5, <1>6 DEF IsInjective
  <2>2. ~(i < j) /\ ~(j < i)
    BY <1>4, <2>1
  <2> QED
    BY <1>5, <2>2
<1>7. IsInjective(s) => IsInjective(t)
  BY <1>5, <1>6 DEF IsInjective
<1> QED
  BY <1>2, <1>7 DEF t

LEMMA EligibleAre ==
  ASSUME ListInv, step = "done"
  PROVE  Eligible \in Seq(Pool) /\ (job.plugin # "stale" => IsInjective(Eligible))
<1> DEFINE s == All(got)
<1>1. s \in Seq(Pool) /\ (job.plugin # "stale" => IsInjective(s))
  BY AllAre
<1> HIDE DEF s
<1>2. Fit(s) \in Seq(Pool) /\ (IsInjective(s) => IsInjective(Fit(s)))
  BY <1>1, FitAre
<1>3. Eligible = s \/ Eligible = Fit(s)
  BY DEF Eligible, s
<1> QED
  BY <1>1, <1>2, <1>3

-----------------------------------------------------------------------------
(***************************************************************************)
(* The rows are the best.                                                  *)
(***************************************************************************)
(* RowsAreTheBest for rows taken in the order of p from e. *)
LEMMA Best ==
  ASSUME ListInv, step = "done", NEW e \in Seq(Pool), ToSet(e) = ToSet(Eligible), NEW p, FirstOf(out.rows, e, p),
         \A i, j \in 1 .. Len(e) : i < j =>
           /\ ~Precedes(e[p[j]], e[p[i]])
           /\ job.plugin # "stale" => Precedes(e[p[i]], e[p[j]]) \/ Came(Eligible, e[p[i]], e[p[j]])
  PROVE  RowsAreTheBest
<1> DEFINE rows == out.rows
           Beats(a, x) == ~Precedes(x, a) /\ (job.plugin # "stale" => Precedes(a, x) \/ Came(Eligible, a, x))
<1>1. /\ IsInjective(rows) /\ ToSet(rows) \subseteq ToSet(Eligible)
      /\ Len(rows) < job.count => ToSet(rows) = ToSet(Eligible)
      /\ Len(rows) <= job.count
  BY DEF FirstOf
<1>2. \A i, j \in 1 .. Len(e) : i < j => Beats(e[p[i]], e[p[j]])
  OBVIOUS
<1>3. ASSUME NEW i \in DOMAIN rows, NEW x \in ToSet(Eligible),
             x \notin ToSet(rows) \/ \E j \in DOMAIN rows : j > i /\ rows[j] = x
      PROVE  Beats(rows[i], x)
  <2> HIDE DEF Beats
  <2>1. i \in 1 .. Len(e) /\ rows[i] = e[p[i]] /\ \E j \in 1 .. Len(e) : i < j /\ x = e[p[j]]
    BY <1>3 DEF FirstOf
  <2> QED
    BY <1>2, <2>1
<1> QED
  BY <1>1, <1>3 DEF RowsAreTheBest

\* Sorted by a key, with the order of arrival between equals.
LEMMA SortedBest ==
  ASSUME ListInv, step = "done", job.plugin # "stale", NEW key \in [Pool -> Int],
         \A a, b \in Pool : Precedes(a, b) <=> key[a] < key[b],
         out.rows = Capped(StableSort(key, Eligible))
  PROVE  RowsAreTheBest
<1> DEFINE e == Eligible
           n == Len(e)
           t == StableSort(key, e)
<1>1. e \in Seq(Pool) /\ IsInjective(e) /\ job.count \in Nat
  BY EligibleAre DEF ListInv
<1> HIDE DEF e
<1>2. PICK p : /\ Permutes(p, n) /\ t \in Seq(Pool) /\ Len(t) = n
               /\ \A k \in 1 .. n : t[k] = e[p[k]]
               /\ \A k, m \in 1 .. n : k < m => key[e[p[k]]] < key[e[p[m]]] \/ (key[e[p[k]]] = key[e[p[m]]] /\ p[k] < p[m])
  BY <1>1, StableSorted
<1> HIDE DEF t
<1>3. FirstOf(Capped(t), e, p)
  BY <1>1, <1>2, FirstAre
<1>4. FirstOf(out.rows, e, p)
  BY <1>3 DEF t, e
<1>5. n \in Nat /\ DOMAIN e = 1 .. n /\ \A k \in 1 .. n : e[k] \in Pool
  BY <1>1
<1> HIDE DEF n
<1>6. \A k \in 1 .. n : p[k] \in 1 .. n
  BY <1>2 DEF Permutes
<1>7. ASSUME NEW i \in 1 .. n, NEW j \in 1 .. n, i < j
      PROVE  ~Precedes(e[p[j]], e[p[i]]) /\ (Precedes(e[p[i]], e[p[j]]) \/ Came(e, e[p[i]], e[p[j]]))
  <2> DEFINE a == e[p[i]]
             b == e[p[j]]
  <2>1. p[i] \in 1 .. n /\ p[j] \in 1 .. n /\ a \in Pool /\ b \in Pool
    BY <1>5, <1>6
  <2>2. key[a] < key[b] \/ (key[a] = key[b] /\ p[i] < p[j])
    BY <1>2, <1>7
  <2>3. p[i] < p[j] => Came(e, a, b)
    BY <1>5, <2>1 DEF Came
  <2> HIDE DEF a, b
  <2>4. key[a] \in Int /\ key[b] \in Int
    BY <2>1
  <2>5. ~(key[b] < key[a])
    BY <2>2, <2>4
  <2>6. ~Precedes(b, a) /\ (Precedes(a, b) \/ Came(e, a, b))
    BY <2>1, <2>2, <2>3, <2>5
  <2> QED
    BY <2>6 DEF a, b
<1> QED
  BY <1>1, <1>4, <1>7, Best DEF e, n

\* In the order the source gave them.
LEMMA PlainBest ==
  ASSUME ListInv, step = "done", job.plugin \in {"releases", "feed"}, out.rows = Capped(Eligible)
  PROVE  RowsAreTheBest
<1> DEFINE e == Eligible
           n == Len(e)
           p == [i \in 1 .. n |-> i]
<1>1. e \in Seq(Pool) /\ IsInjective(e) /\ job.count \in Nat
  BY EligibleAre DEF ListInv
<1> HIDE DEF e
<1>2. n \in Nat /\ DOMAIN e = 1 .. n
  BY <1>1
<1>3. Permutes(p, n) /\ \A k \in 1 .. n : p[k] = k
  BY <1>2, Identity
<1> HIDE DEF p
<1>4. FirstOf(Capped(e), e, p)
  BY <1>1, <1>3, FirstAre
<1> HIDE DEF n
<1>5. \A a, b : ~Precedes(a, b)
  BY DEF Precedes
<1>6. \A i, j \in 1 .. n : i < j => ~Precedes(e[p[j]], e[p[i]]) /\ Came(e, e[p[i]], e[p[j]])
  BY <1>2, <1>3, <1>5 DEF Came
<1>7. FirstOf(out.rows, e, p)
  BY <1>4 DEF e
<1> QED
  BY <1>1, <1>6, <1>7, Best DEF e, n

\* Oldest first, ties either way, each item once.
LEMMA StaleBest ==
  ASSUME ListInv, step = "done", job.plugin = "stale", out \in StaleResults(got)
  PROVE  RowsAreTheBest
<1> DEFINE T == ToSet(All(got))
<1>1. All(got) \in Seq(Pool) /\ job.count \in Nat /\ Eligible = All(got)
  BY AllAre DEF ListInv, Eligible
<1>2. IsFiniteSet(T) /\ T \subseteq Pool
  <2> DEFINE s == All(got)
             n == Len(s)
             D == 1 .. n
  <2>1. n \in Nat /\ T = {s[i] : i \in D} /\ s \in [D -> Pool]
    BY <1>1 DEF ToSet
  <2>2. IsFiniteSet(D)
    BY <2>1, FS_Interval
  <2> HIDE DEF s, T, D
  <2>3. s \in Surjection(D, T)
    BY <2>1 DEF Surjection
  <2>4. IsFiniteSet(T)
    BY <2>2, <2>3, FS_Surjection
  <2> QED
    BY <2>1, <2>4
<1> HIDE DEF T
<1>3. PICK e \in SetToSeqs(T) : out = Rows(Capped(e)) /\ \A i, j \in DOMAIN e : i < j => e[i].at <= e[j].at
  BY DEF StaleResults, T
<1> DEFINE n == Cardinality(T)
           D == 1 .. n
<1>4. n \in Nat /\ e \in [D -> T] /\ \A i, j \in D : i # j => e[i] # e[j]
  BY <1>2, FS_CardinalityType DEF SetToSeqs
<1> HIDE DEF n
<1>5. e \in Seq(Pool) /\ Len(e) = n /\ DOMAIN e = D
  BY <1>2, <1>4
<1>6. IsInjective(e)
  BY <1>4, <1>5 DEF IsInjective
<1>7. ToSet(e) = T
  <2>1. IsFiniteSet(D) /\ Cardinality(D) = n
    BY <1>4, FS_Interval
  <2> HIDE DEF D
  <2>2. e \in Injection(D, T)
    BY <1>4 DEF Injection, IsInjective
  <2>3. e \in Surjection(D, T)
    BY <1>2, <2>1, <2>2, FS_Injection DEF n
  <2> QED
    BY <1>4, <1>5, <2>3 DEF Surjection, ToSet
<1> DEFINE p == [i \in D |-> i]
<1>8. Permutes(p, n) /\ \A k \in D : p[k] = k
  BY <1>4, Identity
<1> HIDE DEF p
<1>9. FirstOf(Capped(e), e, p)
  BY <1>1, <1>5, <1>6, <1>8, FirstAre
<1>10. out.rows = Capped(e)
  BY <1>3 DEF Rows
<1>11. \A i \in D : e[i].at \in Int
  BY <1>2, <1>4, PoolAssumption
<1>12. \A a, b : Precedes(a, b) <=> a.at < b.at
  BY DEF Precedes
<1>13. ASSUME NEW i \in D, NEW j \in D, i < j PROVE ~Precedes(e[p[j]], e[p[i]])
  <2>1. p[i] = i /\ p[j] = j /\ e[i].at <= e[j].at /\ e[i].at \in Int /\ e[j].at \in Int
    BY <1>3, <1>5, <1>8, <1>11, <1>13
  <2>2. ~(e[j].at < e[i].at)
    BY <2>1
  <2> QED
    BY <1>12, <2>1, <2>2
<1>14. ToSet(e) = ToSet(Eligible)
  BY <1>1, <1>7 DEF T
<1> QED
  BY <1>5, <1>9, <1>10, <1>13, <1>14, Best

LEMMA ListsBest == ASSUME ListInv PROVE RowsAreTheBest
<1> SUFFICES ASSUME step = "done" PROVE RowsAreTheBest
  BY DEF RowsAreTheBest, Returned
<1>1. out \in Results(got) /\ job.plugin \in Listing
  BY DEF ListInv
<1>2. NewestFirst \in [Pool -> Int] /\ HigherTierFirst \in [Pool -> Int]
  BY PoolAssumption DEF NewestFirst, HigherTierFirst
<1>3. CASE job.plugin \in {"issues", "prs"}
  <2>1. out.rows = Capped(StableSort(NewestFirst, Eligible))
    BY <1>1, <1>3 DEF Results, IssuesResult, PullsResult, Rows, Eligible
  <2>2. \A a, b \in Pool : Precedes(a, b) <=> NewestFirst[a] < NewestFirst[b]
    <3> TAKE a, b \in Pool
    <3>1. NewestFirst[a] = -a.at /\ NewestFirst[b] = -b.at /\ a.at \in Int /\ b.at \in Int
      BY PoolAssumption DEF NewestFirst
    <3>2. Precedes(a, b) <=> a.at > b.at
      BY <1>3 DEF Precedes
    <3> QED
      BY <3>1, <3>2
  <2> QED
    BY <1>2, <1>3, <2>1, <2>2, SortedBest
<1>4. CASE job.plugin = "review"
  <2>1. out.rows = Capped(StableSort(HigherTierFirst, Eligible))
    BY <1>1, <1>4 DEF Results, ReviewResult, Rows, Eligible
  <2>2. \A a, b \in Pool : Precedes(a, b) <=> HigherTierFirst[a] < HigherTierFirst[b]
    BY <1>4 DEF Precedes, HigherTierFirst
  <2> QED
    BY <1>2, <1>4, <2>1, <2>2, SortedBest
<1>5. CASE job.plugin \in {"releases", "feed"}
  <2>1. out.rows = Capped(Eligible)
    BY <1>1, <1>5 DEF Results, ReleasesResult, FeedResult, Rows, Eligible
  <2> QED
    BY <1>5, <2>1, PlainBest
<1>6. CASE job.plugin = "stale"
  BY <1>1, <1>6, StaleBest DEF Results
<1> QED
  BY <1>1, <1>3, <1>4, <1>5, <1>6 DEF Listing

LEMMA FailuresDoShow == ASSUME ListInv PROVE FailuresShow
<1> SUFFICES ASSUME step = "done", job.plugin \in Listing \ {"issues"}
             PROVE  out.errors = Cardinality({i \in DOMAIN got : ~got[i].ok})
  BY DEF FailuresShow, Returned
<1>1. out \in Results(got)
  BY DEF ListInv
<1>2. CASE job.plugin = "prs"
  <2> DEFINE rows == Capped(StableSort(NewestFirst, Fit(All(got))))
             missing == Cardinality({i \in DOMAIN got : ~got[i].ok})
  <2>1. out = [[rows |-> rows, errors |-> 0] EXCEPT !.errors = missing]
    BY <1>1, <1>2 DEF Results, PullsResult, Rows
  <2> HIDE DEF rows, missing
  <2>2. out.errors = missing
    BY <2>1
  <2> QED
    BY <2>2 DEF missing
<1>3. CASE job.plugin # "prs"
  <2>1. \A i \in DOMAIN got : got[i].ok
    BY <1>3 DEF ListInv, Tolerant
  <2>2. {i \in DOMAIN got : ~got[i].ok} = {}
    BY <2>1
  <2>3. out.errors = 0
    BY <1>1, <1>3 DEF Results, StaleResults, ReviewResult, ReleasesResult, FeedResult, Rows, Listing
  <2> QED
    BY <2>2, <2>3, FS_EmptySet
<1> QED
  BY <1>2, <1>3

ListInvariantOfRun == job.plugin \in Listing => ListInv

(***************************************************************************)
(* The inductive invariant of the list plugins: every answer is one its    *)
(* source can give, and what is returned is a result of all of them.       *)
(***************************************************************************)
THEOREM ListInvariant == Spec => []ListInvariantOfRun
<1>1. Init => ListInvariantOfRun
  BY Begins, ListStarts DEF ListInvariantOfRun
<1>2. ListInvariantOfRun /\ [Next]_runVars => ListInvariantOfRun'
  BY StepsOf, JobStays, ListKept DEF ListInvariantOfRun, Listing
<1> QED
  BY <1>1, <1>2, PTL DEF Spec

(***************************************************************************)
(* A list shows the best of the sources that answered, in order and        *)
(* without holes, for any pool of items, and says how many did not answer. *)
(***************************************************************************)
THEOREM ListsCorrect == Spec => []ListsHonest
<1>1. ListInv => ListsHonest
  BY ListsBest, FailuresDoShow DEF ListsHonest
<1>2. job.plugin \notin Listing => ListsHonest
  BY DEF ListsHonest, RowsAreTheBest, FailuresShow
<1>3. ListInvariantOfRun => ListsHonest
  BY <1>1, <1>2 DEF ListInvariantOfRun
<1> QED
  BY <1>3, ListInvariant, PTL

-----------------------------------------------------------------------------
(***************************************************************************)
(* Every run is a sequence of requests of its own plugin: how long its     *)
(* history and the lists of a remote get, and which page is asked for.     *)
(***************************************************************************)
PastBounded ==
  /\ job.plugin \in Moving => Len(past) <= MaxPast[job.plugin]
  /\ job.plugin \notin Moving => past = <<>>
RowBounded ==
  job.plugin \in RowPlugins => Len(remote.comments) <= MaxList /\ got.count <= MaxList
RunInv == RowInv /\ ActivityInv /\ ImageInvariantOfRun /\ ListInvariantOfRun /\ VerdictInvariantOfRun
TypeInv == PastBounded /\ RowBounded

LEMMA OnePlugin ==
  ASSUME job \in RowJobs \/ job \in ActivityJobs \/ job \in ImageJobs \/ job.plugin \in Listing \/ job \in VerdictJobs
  PROVE  job.plugin \in Moving \cup Listing \cup Judging
<1>1. job \in RowJobs => job.plugin \in Moving
  BY RowJobFields DEF RowPlugins, Moving
<1>2. job \in ActivityJobs => job.plugin \in Moving
  BY ActivityJobFields DEF Moving
<1>3. job \in ImageJobs => job.plugin \in Moving
  BY DEF ImageJobs, Moving
<1>4. job \in VerdictJobs => job.plugin \in Judging
  BY VerdictJobFields
<1> QED
  BY <1>1, <1>2, <1>3, <1>4

\* How a step goes on with the history.
LEMMA PastSteps ==
  ASSUME [Next]_runVars
  PROVE  \/ past' = past /\ remote' = remote
         \/ /\ job.plugin \in Moving /\ Len(past) < MaxPast[job.plugin]
            /\ past' = Append(past, remote') /\ got' = got
<1> DEFINE Moves == \E r : Move(r)
           Stays == past' = past /\ remote' = remote
<1>1. ASSUME RowNext PROVE Stays \/ Moves
  <2>1. CASE Comments \/ Pushes \/ Checks \/ Reviews
    BY <2>1, Zenon DEF Comments, Pushes, Checks, Reviews
  <2>2. CASE GetIssue \/ GetComments \/ GetPull \/ ListPull \/ GetReviews \/ GetCIBadge \/ evalRepo
    <3>1. \E s, g : Go(s, g)
      BY <2>2, Zenon DEF GetIssue, GetComments, GetPull, ListPull, GetReviews, GetCIBadge, evalRepo
    <3> QED
      BY <3>1 DEF Go, Return, Proceed
  <2> QED
    BY <1>1, <2>1, <2>2 DEF RowNext
<1>2. ASSUME ActivityNext PROVE Stays \/ Moves
  <2>1. CASE Arrive \/ Leave
    BY <2>1, Zenon DEF Arrive, Leave
  <2>2. CASE FetchPage
    BY <2>2 DEF FetchPage, Proceed, Return, Abort
  <2> QED
    BY <1>2, <2>1, <2>2 DEF ActivityNext
<1>3. ASSUME ImageNext PROVE Stays \/ Moves
  <2>1. CASE PushTag \/ RemoveTag
    BY <2>1, Zenon DEF PushTag, RemoveTag
  <2>2. \A status, g : resolveTag(status, g) => Stays
    BY DEF resolveTag, Decide, Proceed, Return, Abort
  <2>3. CASE ReleaseTag \/ PrefetchToken \/ doManifest \/ FollowChallenge \/ Retry
    BY <2>2, <2>3 DEF ReleaseTag, PrefetchToken, doManifest, FollowChallenge, Retry, Proceed, Abort
  <2> QED
    BY <1>3, <2>1, <2>3 DEF ImageNext
<1>4. ASSUME ListNext PROVE Stays
  BY <1>4 DEF ListNext, AskSource, Proceed, Return, Abort
<1>5. ASSUME VerdictNext PROVE Stays
  BY <1>5 DEF VerdictNext, ReadManifest, Lookup, Proceed, Return, Abort
<1>6. ASSUME UNCHANGED runVars PROVE Stays
  BY <1>6 DEF runVars
<1>7. Stays \/ Moves
  BY <1>1, <1>2, <1>3, <1>4, <1>5, <1>6, Zenon DEF Next
<1>8. Stays \/ job.plugin \in Moving
  <2>1. CASE job.plugin \in Listing
    BY <2>1, StepsOf DEF ListNext, AskSource, Proceed, Return, Abort, runVars
  <2>2. CASE job.plugin \in Judging
    BY <2>2, StepsOf DEF VerdictNext, ReadManifest, Lookup, Proceed, Return, Abort, runVars
  <2>3. CASE UNCHANGED runVars
    BY <2>3 DEF runVars
  <2>4. CASE Next
    BY <2>1, <2>2, <2>4 DEF Next, Moving
  <2> QED
    BY <2>3, <2>4
<1>9. CASE Moves /\ job.plugin \in Moving
  BY <1>9 DEF Move
<1> QED
  BY <1>7, <1>8, <1>9

LEMMA PastStarts == ASSUME Init PROVE PastBounded
<1>1. CASE job.plugin \in Moving
  <2>1. RowInit \/ ActivityInit \/ ImageInit
    <3>1. ListInit => job.plugin \in Listing
      BY DEF ListInit, ListJobs
    <3>2. VerdictInit => job.plugin \in Judging
      BY VerdictJobFields DEF VerdictInit
    <3> QED
      BY <1>1, <3>1, <3>2 DEF Init, Moving, Listing, Judging
  <2>2. past = <<remote>>
    BY <2>1 DEF RowInit, ActivityInit, ImageInit
  <2>3. Len(past) = 1
    BY <2>2
  <2>4. MaxPast[job.plugin] \in Nat \ {0}
    BY <1>1, MovingAssumption, PastAssumption
  <2> QED
    BY <1>1, <2>3, <2>4 DEF PastBounded
<1>2. CASE job.plugin \notin Moving
  <2>1. RowInit => job.plugin \in Moving
    BY RowJobFields DEF RowInit, RowPlugins, Moving
  <2>2. ActivityInit => job.plugin \in Moving
    BY ActivityJobFields DEF ActivityInit, Moving
  <2>3. ImageInit => job.plugin \in Moving
    BY DEF ImageInit, ImageJobs, Moving
  <2>4. ListInit \/ VerdictInit
    BY <1>2, <2>1, <2>2, <2>3 DEF Init
  <2>5. past = <<>>
    BY <2>4 DEF ListInit, VerdictInit
  <2> QED
    BY <1>2, <2>5 DEF PastBounded
<1> QED
  BY <1>1, <1>2

LEMMA HistoryLength ==
  ASSUME RunInv, job.plugin \in Moving
  PROVE  (\E R : past \in Seq(R)) /\ past # <<>> /\ past[Len(past)] = remote
<1>1. CASE job.plugin \in RowPlugins
  BY <1>1 DEF RunInv, RowInv, RowTyped
<1>2. CASE job.plugin \in {"stars", "rate"}
  BY <1>2 DEF RunInv, ActivityInv, ActivityTyped
<1>3. CASE job.plugin = "image"
  BY <1>3 DEF RunInv, ImageInvariantOfRun, ImageInv, SomeSeq
<1> QED
  BY <1>1, <1>2, <1>3 DEF Moving, RowPlugins

LEMMA PastKept ==
  ASSUME RunInv, PastBounded, [Next]_runVars
  PROVE  PastBounded'
<1>1. job' = job
  BY JobStays
<1>2. CASE past' = past
  BY <1>1, <1>2 DEF PastBounded
<1>3. CASE job.plugin \in Moving /\ Len(past) < MaxPast[job.plugin] /\ past' = Append(past, remote')
  <2>1. PICK R : past \in Seq(R)
    BY <1>3, HistoryLength
  <2>2. Len(past') = Len(past) + 1 /\ Len(past) \in Nat
    BY <1>3, <2>1
  <2>3. MaxPast[job.plugin] \in Nat
    BY <1>3, MovingAssumption, PastAssumption
  <2> QED
    BY <1>1, <1>3, <2>2, <2>3 DEF PastBounded
<1> QED
  BY <1>2, <1>3, PastSteps

LEMMA RowBoundsStart == ASSUME Init PROVE RowBounded
<1> SUFFICES ASSUME job.plugin \in RowPlugins PROVE Len(remote.comments) <= MaxList /\ got.count <= MaxList
  BY DEF RowBounded
<1>1. RowInit
  BY Begins
<1>2. got.count = 0 /\ MaxList \in Nat
  BY <1>1, RowsAssumption DEF RowInit
<1>3. remote.comments \in SeqOf(Logins, MaxList) \cup {<<>>}
  <2>1. remote \in [comments : IF job.plugin = "issue-watch" /\ ~job.pr THEN SeqOf(Logins, MaxList) ELSE {<<>>},
                 reviews : IF job.plugin = "prs-item" THEN SeqOf(Review, 2) ELSE {<<>>}, head : Refs,
                 runs : [Refs -> IF HasChecks THEN {<<>>, <<Unfinished>>, <<"success">>} ELSE {<<>>}]]
    BY <1>1 DEF RowInit
  <2>2. remote.comments \in IF job.plugin = "issue-watch" /\ ~job.pr THEN SeqOf(Logins, MaxList) ELSE {<<>>}
    BY <2>1
  <2> QED
    BY <2>2
<1>4. ASSUME NEW s \in SeqOf(Logins, MaxList) PROVE Len(s) <= MaxList
  <2>1. PICK n \in 0 .. MaxList : s \in [1 .. n -> Logins]
    BY DEF SeqOf
  <2> QED
    BY <1>2, <2>1
<1>5. Len(<<>>) <= MaxList
  BY <1>2
<1> QED
  BY <1>2, <1>3, <1>4, <1>5

LEMMA RowBoundsKept ==
  ASSUME RunInv, RowBounded, [Next]_runVars
  PROVE  RowBounded'
<1> SUFFICES ASSUME job.plugin \in RowPlugins PROVE (Len(remote.comments) <= MaxList /\ got.count <= MaxList)'
  BY JobStays DEF RowBounded
<1>1. RowTyped /\ Len(remote.comments) <= MaxList /\ got.count <= MaxList /\ [RowNext]_runVars
  BY StepsOf DEF RunInv, RowInv, RowBounded
<1>2. /\ remote.comments \in Seq(Logins) /\ Len(remote.comments) \in Nat /\ MaxList \in Nat
      /\ got \in RowGot
  BY <1>1, RemoteFields, RowsAssumption DEF RowTyped
<1>3. CASE Comments \/ Pushes \/ Checks \/ Reviews
  <2>1. RowMoved /\ CommentsMoved
    BY <1>1, <1>3, RowMoves
  <2>2. got' = got
    BY <2>1 DEF RowMoved
  <2>3. remote'.comments \in Seq(Logins) /\ Len(remote'.comments) \in Nat
    BY <2>1, RemoteFields DEF RowMoved
  <2>4. Len(remote'.comments) <= MaxList
    BY <1>1, <1>2, <2>1, <2>3, AppendProperties DEF CommentsMoved
  <2> QED
    BY <1>1, <2>2, <2>4
<1>4. ASSUME NEW s, NEW g, Go(s, g), g.count = got.count \/ g.count = Len(remote.comments)
      PROVE  (Len(remote.comments) <= MaxList /\ got.count <= MaxList)'
  BY <1>1, <1>4, RowGo DEF RowAnswered
<1>5. \A x : Missed(x).count = got.count
  BY <1>2 DEF Missed, RowGot
<1>6. CASE GetIssue
  <2>1. [got EXCEPT !.count = Len(remote.comments)].count = Len(remote.comments)
    BY <1>2 DEF RowGot
  <2> QED
    BY <1>4, <1>5, <1>6, <2>1 DEF GetIssue
<1>7. CASE GetComments
  <2>1. \A b : [got EXCEPT !.answered = b].count = got.count
    BY <1>2 DEF RowGot
  <2> QED
    BY <1>4, <1>5, <1>7, <2>1 DEF GetComments
<1>8. CASE GetPull \/ ListPull
  <2>1. \A r : [got EXCEPT !.ref = r].count = got.count
    BY <1>2 DEF RowGot
  <2> QED
    BY <1>4, <1>5, <1>8, <2>1 DEF GetPull, ListPull
<1>9. CASE GetReviews
  <2>1. \A r : /\ [got EXCEPT !.review = r].count = got.count
               /\ [Missed("reviews") EXCEPT !.review = r].count = got.count
    BY <1>2 DEF RowGot, Missed
  <2> QED
    BY <1>4, <1>9, <2>1 DEF GetReviews
<1>10. CASE GetCIBadge \/ evalRepo
  <2>1. \A r : [got EXCEPT !.ci = r].count = got.count /\ [got EXCEPT !.ref = r].count = got.count
    BY <1>2 DEF RowGot
  <2> QED
    BY <1>4, <1>5, <1>10, <2>1 DEF GetCIBadge, evalRepo
<1>11. CASE UNCHANGED runVars
  BY <1>1, <1>11 DEF runVars
<1> QED
  BY <1>1, <1>3, <1>6, <1>7, <1>8, <1>9, <1>10, <1>11 DEF RowNext

LEMMA LastPageInBounds ==
  ASSUME RunInv, RowBounded, step = "comments", job.plugin \in RowPlugins
  PROVE  lastPage \in 1 .. MaxList
<1>1. RowTyped /\ AnswerInv /\ got.count <= MaxList
  BY DEF RunInv, RowInv, RowBounded
<1>2. job.plugin = "issue-watch"
  BY <1>1 DEF RowTyped, RowPlugins
<1>3. got.count \in Nat \ {0}
  <2>1. got.count \in Nat
    BY <1>1 DEF RowTyped, RowGot
  <2>2. got.count > 0
    BY <1>1, <1>2 DEF AnswerInv
  <2> QED
    BY <2>1, <2>2
<1> DEFINE c == got.count
           P == CommentsPage
           p == (c + P - 1) \div P
<1>4. c \in Nat \ {0} /\ P \in Nat \ {0} /\ MaxList \in Nat /\ c <= MaxList
  BY <1>1, <1>3, RowsAssumption
<1>5. lastPage = p
  BY DEF lastPage
<1> HIDE DEF c, P
<1>6. p \in Nat \ {0} /\ P * (p - 1) < c
  BY <1>4, LastPage
<1> HIDE DEF p
<1>7. p - 1 <= P * (p - 1)
  <2>1. PICK q \in Nat : P = q + 1
    <3>1. P - 1 \in Nat /\ P = (P - 1) + 1
      BY <1>4
    <3> QED
      BY <3>1
  <2>2. PICK m \in Nat : m = p - 1
    BY <1>6
  <2>3. (q + 1) * m = q * m + m /\ q * m \in Nat
    BY <2>1, <2>2
  <2> QED
    BY <2>1, <2>2, <2>3
<1>8. P * (p - 1) \in Int
  BY <1>4, <1>6
<1> QED
  BY <1>4, <1>5, <1>6, <1>7, <1>8

(***************************************************************************)
(* The invariants of all families at once, and the bounds.                 *)
(***************************************************************************)
LEMMA RunsAreTyped ==
  ASSUME RunInv, TypeInv, job.plugin \in Moving \cup Listing \cup Judging
  PROVE  TypeOK
<1> DEFINE Steps == {"issue", "comments", "pull", "pulls", "reviews", "checks", "repo", "runs", "page",
               "release", "token", "manifest", "challenge", "retry", "ask", "dependencies", "lookup",
               "done", "failed"}
           Fetching == {"token", "manifest", "challenge", "retry"}
           Families == /\ job.plugin \in {"stars", "rate"} => got.page \in 1 .. MaxPages
                       /\ step = "comments" => lastPage \in 1 .. MaxList
                       /\ step \in Fetching => got.specs # <<>> /\ Head(got.specs).left # <<>>
           Typed == step \in Steps /\ Families
<1>1. ASSUME job.plugin \in RowPlugins PROVE Typed
  <2>1. step \in RowSteps
    BY <1>1 DEF RunInv, RowInv, RowTyped
  <2>2. step = "comments" => lastPage \in 1 .. MaxList
    BY <1>1, LastPageInBounds DEF TypeInv
  <2>3. job.plugin \notin {"stars", "rate"} /\ step \in Steps /\ step \notin Fetching
    BY <1>1, <2>1 DEF RowSteps, RowPlugins
  <2> QED
    BY <2>2, <2>3, Zenon
<1>2. ASSUME job.plugin \in {"stars", "rate"} PROVE Typed
  <2>1. step \in {"page", "done", "failed"} /\ got.page \in 1 .. MaxPages
    BY <1>2 DEF RunInv, ActivityInv, ActivityTyped
  <2>2. step \in Steps /\ step \notin Fetching /\ step # "comments"
    BY <2>1
  <2> QED
    BY <2>1, <2>2, Zenon
<1>3. ASSUME job.plugin = "image" PROVE Typed
  <2>1. ImageInv
    BY <1>3 DEF RunInv, ImageInvariantOfRun
  <2>2. step \in {"release", "token", "manifest", "challenge", "retry", "done", "failed"}
    BY <2>1 DEF ImageInv
  <2>3. ASSUME step \in Fetching PROVE got.specs # <<>> /\ Head(got.specs).left # <<>>
    <3>1. got.specs \in Seq(TagSpec) /\ got.specs # <<>> /\ \A n \in DOMAIN got.specs : SpecTrue(past, got.sent, got.specs[n])
      BY <2>1, <2>3 DEF ImageInv
    <3>2. 1 \in DOMAIN got.specs /\ Head(got.specs) = got.specs[1]
      BY <3>1
    <3> QED
      BY <3>1, <3>2 DEF SpecTrue
  <2>4. step \in Steps /\ step # "comments" /\ job.plugin \notin {"stars", "rate"}
    BY <1>3, <2>2
  <2> QED
    BY <2>3, <2>4, Zenon
<1>4. ASSUME job.plugin \in Listing PROVE Typed
  <2>1. step \in {"ask", "done", "failed"}
    BY <1>4 DEF RunInv, ListInvariantOfRun, ListInv
  <2>2. step \in Steps /\ step \notin Fetching /\ step # "comments" /\ job.plugin \notin {"stars", "rate"}
    BY <1>4, <2>1 DEF Listing
  <2> QED
    BY <2>2, Zenon
<1>5. ASSUME job.plugin \in Judging PROVE Typed
  <2>1. step \in {"dependencies", "lookup", "done", "failed"}
    BY <1>5, Zenon DEF RunInv, VerdictInvariantOfRun, VerdictInv
  <2>2. step \in Steps /\ step \notin Fetching /\ step # "comments" /\ job.plugin \notin {"stars", "rate"}
    BY <1>5, <2>1 DEF Judging
  <2> QED
    BY <2>2, Zenon
<1>6. Typed
  <2>1. \/ job.plugin \in RowPlugins \/ job.plugin \in {"stars", "rate"} \/ job.plugin = "image"
        \/ job.plugin \in Listing \/ job.plugin \in Judging
    BY DEF Moving, RowPlugins
  <2> QED
    BY <1>1, <1>2, <1>3, <1>4, <1>5, <2>1, Zenon
<1>7. past # <<>> => remote = Last(past) /\ Len(past) <= MaxPast[job.plugin]
  <2> SUFFICES ASSUME past # <<>> PROVE remote = Last(past) /\ Len(past) <= MaxPast[job.plugin]
    OBVIOUS
  <2>1. job.plugin \in Moving /\ Len(past) <= MaxPast[job.plugin]
    BY DEF TypeInv, PastBounded
  <2> QED
    BY <2>1, HistoryLength DEF Last
<1> QED
  BY <1>6, <1>7 DEF TypeOK

(***************************************************************************)
(* Every run of a plugin looks at a page there can be, for a tag still to  *)
(* be decided, of the remote as it is now; whichever plugin it is.         *)
(***************************************************************************)
THEOREM RunsTyped == Spec => []TypeOK
<1> DEFINE SomePlugin == job.plugin \in Moving \cup Listing \cup Judging
<1>1. Init => SomePlugin /\ TypeInv
  <2> SUFFICES ASSUME Init PROVE SomePlugin /\ TypeInv
    OBVIOUS
  <2>1. SomePlugin
    BY OnePlugin DEF Init, RowInit, ActivityInit, ImageInit, ListInit, ListJobs, VerdictInit
  <2> QED
    BY <2>1, PastStarts, RowBoundsStart DEF TypeInv
<1>2. SomePlugin /\ TypeInv /\ RunInv /\ [Next]_runVars => (SomePlugin /\ TypeInv)'
  BY JobStays, PastKept, RowBoundsKept DEF TypeInv
<1>3. SomePlugin /\ TypeInv /\ RunInv => TypeOK
  BY RunsAreTyped
<1>4. Spec => []RunInv
  BY RowInvariant, ActivityInvariant, ImageInvariant, ListInvariant, VerdictInvariant, PTL DEF RunInv
<1> QED
  BY <1>1, <1>2, <1>3, <1>4, PTL DEF Spec

-----------------------------------------------------------------------------
(***************************************************************************)
(* Thinning out: the points that stay are in order, the first and the last *)
(* among them.                                                             *)
(***************************************************************************)
Thins(f, m, len) ==
  /\ f \in [1 .. m -> 1 .. len]
  /\ \A i, j \in 1 .. m : i < j => f[i] < f[j]
  /\ m = 0 <=> len = 0
  /\ m > 0 => f[1] = 1 /\ f[m] = len

LEMMA Quotient ==
  ASSUME NEW a \in Nat, NEW b \in Nat \ {0}
  PROVE  a \div b \in Nat /\ b * (a \div b) <= a /\ a < b * (a \div b) + b
<1>1. a \div b \in Int /\ b * (a \div b) <= a /\ a < b * (a \div b) + b
  OBVIOUS
<1>2. a \div b >= 0
  OBVIOUS
<1> QED
  BY <1>1, <1>2

\* A step of at least b moves on by one at least.
LEMMA QuotientRises ==
  ASSUME NEW a \in Nat, NEW c \in Nat, NEW b \in Nat \ {0}, a + b <= c
  PROVE  a \div b < c \div b
<1> DEFINE q == a \div b
           r == c \div b
<1>1. q \in Nat /\ r \in Nat /\ b * q <= a /\ c < b * r + b
  BY Quotient
<1> HIDE DEF q, r
<1>2. b * q + b < b * r + b
  BY <1>1
<1>3. b * q < b * r
  BY <1>1, <1>2
<1>4. ~(r <= q)
  <2> SUFFICES ASSUME r <= q PROVE FALSE
    OBVIOUS
  <2>1. PICK d \in Nat : q = r + d
    <3>1. q - r \in Nat /\ q = r + (q - r)
      BY <1>1
    <3> QED
      BY <3>1
  <2>2. b * (r + d) = b * r + b * d /\ b * d \in Nat /\ b * r \in Nat
    BY <1>1, <2>1
  <2> QED
    BY <1>3, <2>1, <2>2
<1>5. q < r
  BY <1>1, <1>4
<1> QED
  BY <1>5 DEF q, r

\* The place of the i-th of n points among len.
Spot(i, n, len) == IF i = n THEN len ELSE ((i - 1) * (len - 1)) \div (n - 1) + 1

LEMMA SpotsRise ==
  ASSUME NEW n \in Nat \ {0, 1}, NEW len \in Nat, len > n
  PROVE  /\ \A i \in 1 .. n : Spot(i, n, len) \in 1 .. len
         /\ \A i, j \in 1 .. n : i < j => Spot(i, n, len) < Spot(j, n, len)
         /\ Spot(1, n, len) = 1
<1> DEFINE m == len - 1
           b == n - 1
           q(i) == ((i - 1) * m) \div b
<1>1. m \in Nat /\ b \in Nat \ {0} /\ b < m
  OBVIOUS
<1>2. \A i \in 1 .. n : (i - 1) * m \in Nat
  BY <1>1
<1>3. ASSUME NEW i \in 1 .. n, NEW j \in 1 .. n, i < j
      PROVE  (i - 1) * m + b <= (j - 1) * m
  <2>1. PICK d \in Nat : j - 1 = (i - 1) + 1 + d
    <3>1. j - 1 - i \in Nat /\ j - 1 = (i - 1) + 1 + (j - 1 - i)
      BY <1>3
    <3> QED
      BY <3>1
  <2> DEFINE k == i - 1
  <2>2. k \in Nat
    OBVIOUS
  <2> HIDE DEF k, m
  <2>3. (k + 1 + d) * m = k * m + m + d * m /\ d * m \in Nat
    BY <1>1, <2>1, <2>2
  <2>4. k * m \in Nat
    BY <1>1, <2>2
  <2>5. (j - 1) * m = (k + 1 + d) * m
    BY <2>1 DEF k
  <2>6. k * m + b <= (j - 1) * m
    BY <1>1, <2>3, <2>4, <2>5
  <2> QED
    BY <2>6 DEF k
<1>4. ASSUME NEW i \in 1 .. n, NEW j \in 1 .. n, i < j PROVE q(i) < q(j)
  BY <1>1, <1>2, <1>3, <1>4, QuotientRises
<1>5. q(1) = 0
  <2>1. (1 - 1) * m = 0
    BY <1>1
  <2>2. 0 \div b \in Nat /\ b * (0 \div b) <= 0
    BY <1>1, Quotient
  <2>3. 0 \div b = 0
    BY <1>1, <2>2
  <2> QED
    BY <2>1, <2>3
<1>6. q(n) = m
  <2>1. (n - 1) * m = b * m /\ b * m \in Nat
    BY <1>1
  <2> DEFINE r == (b * m) \div b
  <2>2. r \in Nat /\ b * r <= b * m /\ b * m < b * r + b
    BY <1>1, <2>1, Quotient
  <2> HIDE DEF r, m, b
  <2>3. r = m
    <3>1. ~(r > m)
      <4> SUFFICES ASSUME r > m PROVE FALSE
        OBVIOUS
      <4>1. PICK d \in Nat : r = m + 1 + d
        <5>1. r - m - 1 \in Nat /\ r = m + 1 + (r - m - 1)
          BY <1>1, <2>2
        <5> QED
          BY <5>1
      <4>2. b * (m + 1 + d) = b * m + b + b * d /\ b * d \in Nat /\ b * m \in Nat
        BY <1>1, <4>1
      <4> QED
        BY <1>1, <2>2, <4>1, <4>2
    <3>2. ~(r < m)
      <4> SUFFICES ASSUME r < m PROVE FALSE
        OBVIOUS
      <4>1. PICK d \in Nat : m = r + 1 + d
        <5>1. m - r - 1 \in Nat /\ m = r + 1 + (m - r - 1)
          BY <1>1, <2>2
        <5> QED
          BY <5>1
      <4>2. b * (r + 1 + d) = b * r + b + b * d /\ b * d \in Nat /\ b * r \in Nat
        BY <1>1, <2>2, <4>1
      <4> QED
        BY <1>1, <2>2, <4>1, <4>2
    <3> QED
      BY <1>1, <2>2, <3>1, <3>2
  <2> QED
    BY <2>1, <2>3 DEF r, b
<1>7. \A i \in 1 .. n : q(i) \in Nat
  BY <1>1, <1>2, Quotient
<1>8. \A i \in 1 .. n : Spot(i, n, len) = IF i = n THEN len ELSE q(i) + 1
  BY DEF Spot
<1>9. len = m + 1
  OBVIOUS
<1> HIDE DEF q, m, b
<1>10. \A i \in 1 .. n : Spot(i, n, len) = q(i) + 1
  BY <1>6, <1>8, <1>9
<1>11. \A i \in 1 .. n : q(i) <= m
  <2> TAKE i \in 1 .. n
  <2>1. CASE i = n
    BY <1>1, <1>6, <2>1
  <2>2. CASE i # n
    <3>1. n \in 1 .. n /\ i < n
      BY <2>2
    <3>2. q(i) < q(n)
      BY <1>4, <3>1
    <3> QED
      BY <1>1, <1>6, <1>7, <3>2
  <2> QED
    BY <2>1, <2>2
<1>12. \A i \in 1 .. n : Spot(i, n, len) \in 1 .. len
  BY <1>1, <1>7, <1>9, <1>10, <1>11
<1>13. ASSUME NEW i \in 1 .. n, NEW j \in 1 .. n, i < j PROVE Spot(i, n, len) < Spot(j, n, len)
  <2>1. q(i) < q(j) /\ q(i) \in Nat /\ q(j) \in Nat
    BY <1>4, <1>7, <1>13
  <2> QED
    BY <1>10, <2>1
<1>14. Spot(1, n, len) = 1
  <2>1. 1 \in 1 .. n
    OBVIOUS
  <2> QED
    BY <1>5, <1>10, <2>1
<1> QED
  BY <1>12, <1>13, <1>14

LEMMA Downsampled ==
  ASSUME NEW E, NEW pts \in Seq(E), NEW n \in Nat \ {0, 1}
  PROVE  LET d == downsample(pts, n) IN
         /\ d \in Seq(E) /\ Len(d) \in Nat /\ Len(d) <= n
         /\ Len(pts) <= n => d = pts
         /\ \E f : Thins(f, Len(d), Len(pts)) /\ \A i \in 1 .. Len(d) : d[i] = pts[f[i]]
<1> DEFINE len == Len(pts)
           d == downsample(pts, n)
<1>1. len \in Nat /\ DOMAIN pts = 1 .. len /\ \A i \in 1 .. len : pts[i] \in E
  OBVIOUS
<1>2. CASE len <= n
  <2>1. d = pts
    BY <1>2 DEF downsample
  <2> DEFINE f == [i \in 1 .. len |-> i]
  <2>2. Thins(f, len, len) /\ \A i \in 1 .. len : pts[i] = pts[f[i]]
    BY <1>1 DEF Thins
  <2> HIDE DEF f, len, d
  <2>3. Len(d) = len
    BY <2>1 DEF len
  <2> QED
    BY <1>1, <1>2, <2>1, <2>2, <2>3 DEF len, d
<1>3. CASE len > n
  <2> DEFINE f == [i \in 1 .. n |-> Spot(i, n, len)]
  <2>1. d = [i \in 1 .. n |-> IF i = n THEN Last(pts) ELSE pts[((i - 1) * (Len(pts) - 1)) \div (n - 1) + 1]]
    BY <1>1, <1>3 DEF downsample
  <2>2. \A i \in 1 .. n : d[i] = pts[f[i]]
    BY <2>1 DEF Spot, Last
  <2>3. /\ \A i \in 1 .. n : Spot(i, n, len) \in 1 .. len
        /\ \A i, j \in 1 .. n : i < j => Spot(i, n, len) < Spot(j, n, len)
        /\ Spot(1, n, len) = 1 /\ Spot(n, n, len) = len
    <3> HIDE DEF len
    <3> QED
      BY <1>1, <1>3, SpotsRise DEF Spot
  <2> HIDE DEF len
  <2>4. Thins(f, n, len)
    <3>1. 1 \in 1 .. n /\ n \in 1 .. n
      OBVIOUS
    <3> QED
      BY <1>1, <1>3, <2>3, <3>1 DEF Thins
  <2>5. \A i \in 1 .. n : d[i] \in E
    <3> HIDE DEF d
    <3> QED
      BY <1>1, <2>2, <2>4 DEF Thins
  <2>6. d \in Seq(E) /\ Len(d) = n
    BY <2>1, <2>5
  <2> HIDE DEF f, d
  <2> QED
    BY <1>1, <1>3, <2>2, <2>4, <2>6 DEF d, len
<1> QED
  BY <1>1, <1>2, <1>3

-----------------------------------------------------------------------------
(***************************************************************************)
(* A true series, and that thinning out leaves it true.                    *)
(***************************************************************************)
Pt == [t : Days0, v : Nat]
SeriesTrue(pts, days) ==
  /\ pts \in Seq(Pt) /\ (pts = <<>> <=> days = <<>>)
  /\ \A i \in 1 .. Len(pts) : PointIsTrue(pts[i], days)
  /\ \A i, j \in 1 .. Len(pts) : i < j => pts[i].t < pts[j].t
  /\ Len(pts) > 0 => /\ pts[1].v > 0 /\ pts[Len(pts)].v > 0
                     /\ \A i \in DOMAIN days : pts[1].t <= days[i]
                     /\ job.plugin = "stars" => pts[Len(pts)].v = Len(days)

LEMMA ThinnedTrue ==
  ASSUME NEW pts, NEW days, SeriesTrue(pts, days), NEW n \in Nat \ {0, 1}
  PROVE  /\ SeriesTrue(downsample(pts, n), days) /\ Len(downsample(pts, n)) <= n
         /\ Len(pts) <= n => downsample(pts, n) = pts
<1> DEFINE d == downsample(pts, n)
<1>1. pts \in Seq(Pt)
  BY DEF SeriesTrue
<1>2. /\ d \in Seq(Pt) /\ Len(d) \in Nat /\ Len(d) <= n
      /\ Len(pts) <= n => d = pts
      /\ \E f : Thins(f, Len(d), Len(pts)) /\ \A i \in 1 .. Len(d) : d[i] = pts[f[i]]
  <2> HIDE DEF Pt
  <2> QED
    BY <1>1, Downsampled
<1>3. PICK f : Thins(f, Len(d), Len(pts)) /\ \A i \in 1 .. Len(d) : d[i] = pts[f[i]]
  BY <1>2
<1> HIDE DEF d
<1> DEFINE m == Len(d)
<1>4. /\ \A i \in 1 .. m : f[i] \in 1 .. Len(pts) /\ d[i] = pts[f[i]]
      /\ \A i, j \in 1 .. m : i < j => f[i] < f[j]
      /\ m = 0 <=> Len(pts) = 0
      /\ m > 0 => f[1] = 1 /\ f[m] = Len(pts)
      /\ m \in Nat /\ Len(pts) \in Nat
  BY <1>1, <1>2, <1>3 DEF Thins
<1>5. d = <<>> <=> days = <<>>
  <2>1. d = <<>> <=> m = 0
    BY <1>2
  <2>2. pts = <<>> <=> Len(pts) = 0
    BY <1>1
  <2> QED
    BY <1>4, <2>1, <2>2 DEF SeriesTrue
<1>6. \A i \in 1 .. m : PointIsTrue(d[i], days)
  BY <1>4 DEF SeriesTrue
<1>7. \A i, j \in 1 .. m : i < j => d[i].t < d[j].t
  BY <1>4 DEF SeriesTrue
<1>8. m > 0 => d[1] = pts[1] /\ d[m] = pts[Len(pts)] /\ Len(pts) > 0
  <2>1. m > 0 => 1 \in 1 .. m /\ m \in 1 .. m
    BY <1>4
  <2> QED
    BY <1>4, <2>1
<1>9. SeriesTrue(d, days)
  <2> HIDE DEF m
  <2>1. m = Len(d)
    BY DEF m
  <2>2. d \in Seq(Pt)
    BY <1>2
  <2>3. m > 0 => /\ d[1].v > 0 /\ d[m].v > 0
                 /\ \A i \in DOMAIN days : d[1].t <= days[i]
                 /\ job.plugin = "stars" => d[m].v = Len(days)
    BY <1>8 DEF SeriesTrue
  <2> QED
    BY <1>5, <1>6, <1>7, <2>1, <2>2, <2>3, Zenon DEF SeriesTrue
<1> QED
  BY <1>2, <1>9 DEF d

-----------------------------------------------------------------------------
(***************************************************************************)
(* Sorted days are the same days.                                          *)
(***************************************************************************)
LEMMA DayKey == [d \in 0 .. LastDay |-> d] \in [Days0 -> Int]
BY ActivityAssumption DEF Days0

LEMMA SortedDays ==
  ASSUME NEW days \in Seq(Days0)
  PROVE  LET s == Sorted(days)
             n == Len(days) IN
         /\ s \in Seq(Days0) /\ Len(s) = n
         /\ \A k, m \in 1 .. n : k < m => s[k] <= s[m]
         /\ \E p : Permutes(p, n) /\ \A k \in 1 .. n : s[k] = days[p[k]]
<1> DEFINE key == [d \in 0 .. LastDay |-> d]
           s == Sorted(days)
           n == Len(days)
<1>1. key \in [Days0 -> Int] /\ \A d \in Days0 : key[d] = d
  BY DayKey DEF Days0
<1>2. s = StableSort(key, days)
  BY DEF Sorted
<1> HIDE DEF key, s
<1>3. PICK p : /\ Permutes(p, n)
               /\ s \in Seq(Days0) /\ Len(s) = n
               /\ \A k \in 1 .. n : s[k] = days[p[k]]
               /\ \A k, m \in 1 .. n : k < m =>
                    key[days[p[k]]] < key[days[p[m]]] \/ (key[days[p[k]]] = key[days[p[m]]] /\ p[k] < p[m])
  <2> DEFINE r == StableSort(key, days)
  <2>1. key \in [Days0 -> Int]
    BY <1>1
  <2>2. \E p : /\ Permutes(p, Len(days))
               /\ r \in Seq(Days0) /\ Len(r) = Len(days)
               /\ \A k \in 1 .. Len(days) : r[k] = days[p[k]]
               /\ \A k, m \in 1 .. Len(days) : k < m =>
                    key[days[p[k]]] < key[days[p[m]]] \/ (key[days[p[k]]] = key[days[p[m]]] /\ p[k] < p[m])
    <3> HIDE DEF Days0
    <3> QED
      BY <2>1, StableSorted, Zenon
  <2> QED
    BY <1>2, <2>2, Zenon
<1>4. \A k \in 1 .. n : s[k] \in Days0 /\ s[k] \in Int
  BY <1>3, ActivityAssumption DEF Days0
<1>5. ASSUME NEW k \in 1 .. n, NEW m \in 1 .. n, k < m PROVE s[k] <= s[m]
  <2>1. key[s[k]] < key[s[m]] \/ key[s[k]] = key[s[m]]
    BY <1>3, <1>5
  <2> QED
    BY <1>1, <1>4, <2>1
<1> QED
  BY <1>3, <1>5 DEF s

LEMMA PermutedCount ==
  ASSUME NEW n \in Nat, NEW p, Permutes(p, n), NEW A \in SUBSET (1 .. n)
  PROVE  Cardinality({k \in 1 .. n : p[k] \in A}) = Cardinality(A)
<1> DEFINE S == 1 .. n
           B == {k \in S : p[k] \in A}
           f == [k \in B |-> p[k]]
<1>1. IsFiniteSet(S)
  BY FS_Interval
<1>2. p \in [S -> S] /\ (\A i, j \in S : i # j => p[i] # p[j]) /\ (\A k \in S : \E i \in S : p[i] = k)
  BY DEF Permutes
<1>3. A \in SUBSET S
  OBVIOUS
<1> HIDE DEF S
<1>4. f \in Bijection(B, A)
  BY <1>2, <1>3 DEF Bijection, Injection, Surjection, IsInjective
<1>5. IsFiniteSet(A) /\ IsFiniteSet(B)
  BY <1>1, <1>3, FS_Subset
<1> HIDE DEF f, B
<1>6. Cardinality(B) = Cardinality(A)
  BY <1>4, <1>5, FS_Bijection DEF ExistsBijection
<1> QED
  BY <1>6 DEF B, S

-----------------------------------------------------------------------------
(***************************************************************************)
(* github-stars: one timestamp after the other.  So far k of the sorted    *)
(* days s are in; a point's value is the last place its day has among them. *)
(***************************************************************************)
Cumulated(s, full, k) ==
  /\ full \in Seq(Pt) /\ Len(full) \in 0 .. k
  /\ k > 0 => Len(full) > 0 /\ full[1].t = s[1] /\ full[Len(full)].v = k
  /\ \A i \in 1 .. Len(full) : /\ full[i].v \in 1 .. k /\ s[full[i].v] = full[i].t
                               /\ full[i].v < k => full[i].t < s[full[i].v + 1]
  /\ \A i, j \in 1 .. Len(full) : i < j => full[i].t < full[j].t
Rises(s, n) == \A k, m \in 1 .. n : k < m => s[k] <= s[m]
(* The point of day d becomes, or is added with, value k. *)
WithDay(full, d, k) ==
  IF full # <<>> /\ Last(full).t = d THEN [full EXCEPT ![Len(full)].v = k]
  ELSE Append(full, [t |-> d, v |-> k])

LEMMA WithDayIs ==
  ASSUME NEW full \in Seq(Pt), NEW d \in Days0, NEW k \in Nat
  PROVE  LET r == WithDay(full, d, k)
             m == Len(full) IN
         /\ r \in Seq(Pt)
         /\ m > 0 /\ full[m].t = d => /\ Len(r) = m /\ r[m] = [t |-> d, v |-> k]
                                      /\ \A i \in 1 .. m : i < m => r[i] = full[i]
         /\ ~(m > 0 /\ full[m].t = d) => /\ Len(r) = m + 1 /\ r[m + 1] = [t |-> d, v |-> k]
                                         /\ \A i \in 1 .. m : r[i] = full[i]
<1> DEFINE r == WithDay(full, d, k)
           m == Len(full)
<1>1. m \in Nat /\ (full # <<>> <=> m > 0) /\ DOMAIN full = 1 .. m /\ \A i \in 1 .. m : full[i] \in Pt
  OBVIOUS
<1>2. [t |-> d, v |-> k] \in Pt /\ [t |-> d, v |-> k].t = d
  BY DEF Pt
<1>3. CASE m > 0 /\ full[m].t = d
  <2>1. r = [full EXCEPT ![m].v = k]
    BY <1>1, <1>3 DEF WithDay, Last
  <2>2. full[m] \in Pt /\ m \in 1 .. m
    BY <1>1, <1>3
  <2>3. [full[m] EXCEPT !.v = k] = [t |-> d, v |-> k]
    BY <1>3, <2>2 DEF Pt
  <2>4. r = [full EXCEPT ![m] = [t |-> d, v |-> k]]
    BY <2>1, <2>3
  <2> HIDE DEF Pt, m
  <2>5. r \in Seq(Pt) /\ Len(r) = m /\ r[m] = [t |-> d, v |-> k] /\ \A i \in 1 .. m : i < m => r[i] = full[i]
    <3>1. r \in Seq(Pt)
      BY <1>1, <1>2, <2>2, <2>4, ExceptSeq
    <3>2. DOMAIN r = 1 .. m
      BY <1>1, <2>4
    <3>3. Len(r) = m
      BY <1>1, <3>1, <3>2
    <3> QED
      BY <1>1, <2>2, <2>4, <3>1, <3>3
  <2> QED
    BY <1>3, <2>5 DEF m
<1>4. CASE ~(m > 0 /\ full[m].t = d)
  <2>1. r = Append(full, [t |-> d, v |-> k])
    BY <1>1, <1>4 DEF WithDay, Last
  <2>2. r \in Seq(Pt) /\ Len(r) = m + 1 /\ r[m + 1] = [t |-> d, v |-> k] /\ \A i \in 1 .. m : r[i] = full[i]
    <3> HIDE DEF Pt
    <3> QED
      BY <1>1, <1>2, <2>1, AppendProperties
  <2> QED
    BY <1>4, <2>2
<1> QED
  BY <1>3, <1>4

LEMMA PtIs ==
  ASSUME NEW p \in Pt
  PROVE  p.t \in Days0 /\ p.t \in Int /\ p.v \in Nat
BY ActivityAssumption DEF Pt, Days0

LEMMA CumulatedMore ==
  ASSUME NEW n \in Nat, NEW s \in [1 .. n -> Days0], Rises(s, n), NEW k \in 1 .. n,
         NEW full, Cumulated(s, full, k - 1)
  PROVE  Cumulated(s, WithDay(full, s[k], k), k)
<1> DEFINE r == WithDay(full, s[k], k)
           m == Len(full)
           d == s[k]
<1>1. /\ full \in Seq(Pt) /\ m \in Nat /\ m <= k - 1 /\ k \in Nat
      /\ \A i \in 1 .. m : full[i] \in Pt /\ full[i].t \in Int /\ full[i].v \in Nat
  <2>1. full \in Seq(Pt) /\ m \in 0 .. k - 1 /\ k \in Nat
    BY DEF Cumulated
  <2>2. \A i \in 1 .. m : full[i] \in Pt
    BY <2>1
  <2> HIDE DEF m
  <2> QED
    BY <2>1, <2>2, PtIs
<1>2. d \in Days0 /\ \A i \in 1 .. n : s[i] \in Int
  BY ActivityAssumption DEF Days0
<1>3. /\ r \in Seq(Pt)
      /\ m > 0 /\ full[m].t = d => /\ Len(r) = m /\ r[m] = [t |-> d, v |-> k]
                                   /\ \A i \in 1 .. m : i < m => r[i] = full[i]
      /\ ~(m > 0 /\ full[m].t = d) => /\ Len(r) = m + 1 /\ r[m + 1] = [t |-> d, v |-> k]
                                      /\ \A i \in 1 .. m : r[i] = full[i]
  BY <1>1, <1>2, WithDayIs
<1>4. /\ k - 1 > 0 => m > 0 /\ full[1].t = s[1] /\ full[m].v = k - 1
      /\ \A i \in 1 .. m : full[i].v \in 1 .. k - 1 /\ s[full[i].v] = full[i].t
      /\ \A i \in 1 .. m : full[i].v < k - 1 => full[i].t < s[full[i].v + 1]
      /\ \A i, j \in 1 .. m : i < j => full[i].t < full[j].t
  BY DEF Cumulated
<1> HIDE DEF r
<1>5. [t |-> d, v |-> k].t = d /\ [t |-> d, v |-> k].v = k
  OBVIOUS
<1> HIDE DEF m, d
<1>6. d = s[k]
  BY DEF d
<1>7. m > 0 => k - 1 > 0 /\ full[m].t = s[k - 1] /\ full[m].t <= d
  <2> SUFFICES ASSUME m > 0 PROVE k - 1 > 0 /\ full[m].t = s[k - 1] /\ full[m].t <= d
    OBVIOUS
  <2>1. k - 1 > 0
    BY <1>1
  <2>2. m \in 1 .. m /\ full[m].v = k - 1
    BY <1>1, <1>4, <2>1
  <2>3. full[m].t = s[k - 1]
    BY <1>4, <2>2
  <2>4. k - 1 \in 1 .. n
    BY <1>1, <2>1
  <2>5. s[k - 1] <= s[k]
    BY <1>1, <2>4 DEF Rises
  <2> QED
    BY <1>6, <2>1, <2>3, <2>5
<1>8. m = 0 => k = 1
  BY <1>1, <1>4
<1>9. CASE m > 0 /\ full[m].t = d
  <2>1. Len(r) = m /\ r[m] = [t |-> d, v |-> k] /\ \A i \in 1 .. m : i < m => r[i] = full[i]
    BY <1>3, <1>9
  <2>2. m \in 1 .. m /\ 1 \in 1 .. m
    BY <1>1, <1>9
  <2>3. \A i \in 1 .. m : r[i].t = full[i].t
    <3> TAKE i \in 1 .. m
    <3>1. CASE i = m
      BY <1>5, <1>9, <2>1, <3>1
    <3>2. CASE i # m
      BY <1>1, <2>1, <3>2
    <3> QED
      BY <3>1, <3>2
  <2>4. ASSUME NEW i \in 1 .. m
        PROVE  /\ r[i].v \in 1 .. k /\ s[r[i].v] = r[i].t
               /\ r[i].v < k => r[i].t < s[r[i].v + 1]
    <3>1. CASE i = m
      <4>1. r[i].v = k /\ r[i].t = s[k]
        BY <1>5, <1>6, <2>1, <3>1
      <4> QED
        BY <1>1, <4>1
    <3>2. CASE i # m
      <4>1. i < m /\ r[i] = full[i]
        BY <1>1, <2>1, <3>2
      <4>2. full[i].v \in 1 .. k - 1 /\ s[full[i].v] = full[i].t /\ full[i].t < full[m].t
        BY <1>4, <2>2, <4>1
      <4>3. full[i].v # k - 1
        BY <1>1, <1>7, <1>9, <4>2
      <4>4. full[i].t < s[full[i].v + 1]
        BY <1>1, <1>4, <4>2, <4>3
      <4> QED
        BY <1>1, <4>1, <4>2, <4>4
    <3> QED
      BY <3>1, <3>2
  <2>5. \A i, j \in 1 .. m : i < j => r[i].t < r[j].t
    BY <1>4, <2>3
  <2>6. r[1].t = s[1]
    BY <1>4, <1>7, <1>9, <2>2, <2>3
  <2>7. r[m].v = k
    BY <1>5, <2>1
  <2>8. m \in 0 .. k
    BY <1>1
  <2> QED
    BY <1>3, <1>9, <2>1, <2>4, <2>5, <2>6, <2>7, <2>8 DEF Cumulated, r
<1>10. CASE ~(m > 0 /\ full[m].t = d)
  <2>1. Len(r) = m + 1 /\ r[m + 1] = [t |-> d, v |-> k] /\ \A i \in 1 .. m : r[i] = full[i]
    BY <1>3, <1>10
  <2>2. \A i \in 1 .. m + 1 : i = m + 1 \/ i \in 1 .. m
    BY <1>1
  <2>3. r[m + 1].t = d /\ r[m + 1].v = k
    BY <1>5, <2>1
  <2>4. ASSUME NEW i \in 1 .. m PROVE full[i].t <= s[k - 1] /\ s[k - 1] < s[k] /\ k - 1 > 0 /\ s[k - 1] \in Int
    <3>1. m > 0 /\ m \in 1 .. m
      BY <1>1
    <3>2. k - 1 > 0 /\ full[m].t = s[k - 1] /\ full[m].t <= d /\ full[m].t # d
      BY <1>7, <1>10, <3>1
    <3>3. full[i].t <= full[m].t
      <4>1. CASE i = m
        BY <1>1, <3>1, <4>1
      <4>2. CASE i # m
        <5>1. i < m
          BY <1>1, <4>2
        <5>2. full[i].t < full[m].t
          BY <1>4, <3>1, <5>1
        <5> QED
          BY <1>1, <3>1, <5>2
      <4> QED
        BY <4>1, <4>2
    <3>4. s[k - 1] \in Int /\ s[k] \in Int
      BY <1>1, <1>2, <3>2
    <3> QED
      BY <1>6, <3>2, <3>3, <3>4
  <2>5. ASSUME NEW i \in 1 .. m + 1
        PROVE  /\ r[i].v \in 1 .. k /\ s[r[i].v] = r[i].t
               /\ r[i].v < k => r[i].t < s[r[i].v + 1]
    <3>1. CASE i = m + 1
      <4>1. r[i].v = k /\ r[i].t = s[k]
        BY <1>6, <2>3, <3>1
      <4> QED
        BY <1>1, <4>1
    <3>2. CASE i \in 1 .. m
      <4>1. r[i] = full[i] /\ full[i].v \in 1 .. k - 1 /\ s[full[i].v] = full[i].t
        BY <1>4, <2>1, <3>2
      <4>2. full[i].t < s[full[i].v + 1]
        <5>1. CASE full[i].v < k - 1
          BY <1>4, <3>2, <5>1
        <5>2. CASE full[i].v = k - 1
          BY <1>1, <2>4, <3>2, <4>1, <5>2
        <5> QED
          BY <1>1, <4>1, <5>1, <5>2
      <4> QED
        BY <1>1, <4>1, <4>2
    <3> QED
      BY <2>2, <3>1, <3>2
  <2>6. ASSUME NEW i \in 1 .. m + 1, NEW j \in 1 .. m + 1, i < j PROVE r[i].t < r[j].t
    <3>1. i \in 1 .. m
      BY <1>1, <2>6
    <3>2. CASE j = m + 1
      <4>1. full[i].t <= s[k - 1] /\ s[k - 1] < s[k] /\ full[i].t \in Int /\ s[k] \in Int /\ s[k - 1] \in Int
        BY <1>1, <1>2, <2>4, <3>1
      <4> QED
        BY <1>6, <2>1, <2>3, <3>1, <3>2, <4>1
    <3>3. CASE j \in 1 .. m
      BY <1>4, <2>1, <2>6, <3>1, <3>3
    <3> QED
      BY <2>2, <3>2, <3>3
  <2>7. r[1].t = s[1]
    <3>1. CASE m = 0
      BY <1>6, <1>8, <2>3, <3>1
    <3>2. CASE m > 0
      BY <1>1, <1>4, <1>7, <2>1, <3>2
    <3> QED
      BY <1>1, <3>1, <3>2
  <2>8. m + 1 \in 0 .. k /\ m + 1 > 0
    BY <1>1
  <2> QED
    BY <1>3, <2>1, <2>3, <2>5, <2>6, <2>7, <2>8 DEF Cumulated, r
<1> QED
  BY <1>9, <1>10

LEMMA CumulatedRun ==
  ASSUME NEW n \in Nat, NEW s \in [1 .. n -> Days0], Rises(s, n),
         NEW R, R[0] = <<>>, \A k \in 1 .. n : R[k] = WithDay(R[k - 1], s[k], k)
  PROVE  Cumulated(s, R[n], n)
<1> DEFINE S == {k \in 0 .. n : Cumulated(s, R[k], k)}
<1>1. 0 \in S
  <2>1. <<>> \in Seq(Pt) /\ Len(<<>>) = 0 /\ 1 .. 0 = {}
    OBVIOUS
  <2>2. Cumulated(s, R[0], 0)
    BY <2>1 DEF Cumulated
  <2> QED
    BY <2>2
<1>2. ASSUME NEW k \in 1 .. n, k - 1 \in S PROVE k \in S
  <2>1. Cumulated(s, R[k - 1], k - 1)
    BY <1>2
  <2>2. Cumulated(s, WithDay(R[k - 1], s[k], k), k)
    BY <2>1, CumulatedMore
  <2> QED
    BY <2>2
<1> HIDE DEF S
<1>3. 0 .. n \subseteq S
  BY <1>1, <1>2, InductUpTo
<1>4. n \in S
  BY <1>3
<1> QED
  BY <1>4 DEF S

\* The fold over the places of the days is such a run.
LEMMA CumulativeRun ==
  ASSUME NEW days \in Seq(Days0)
  PROVE  \E R : /\ R[0] = <<>>
                /\ \A k \in 1 .. Len(days) : R[k] = WithDay(R[k - 1], Sorted(days)[k], k)
                /\ cumulative(days) = downsample(R[Len(days)], maxPoints)
<1> DEFINE n == Len(days)
           V == Seq(Pt)
           s == Sorted(days)
           idx == [i \in DOMAIN days |-> i]
           empty == <<>>
           g == [p \in (1 .. n) \X V |-> WithDay(p[2], s[p[1]], p[1])]
           Eq(F) == F = [t \in SUBSET DOMAIN idx |->
                           IF t = {} THEN <<>> ELSE WithDay(F[t \ {Max(t)}], s[idx[Max(t)]], idx[Max(t)])]
           fold == CHOOSE F : Eq(F)
<1>1. n \in Nat /\ DOMAIN days = 1 .. n /\ empty \in V /\ DOMAIN idx = 1 .. n /\ \A k \in 1 .. n : idx[k] = k
  OBVIOUS
<1>2. s \in Seq(Days0) /\ Len(s) = n /\ \A k \in 1 .. n : s[k] \in Days0
  <2>1. s \in Seq(Days0) /\ Len(s) = n
    BY SortedDays
  <2> HIDE DEF s, n, Days0
  <2> QED
    BY <2>1
<1> HIDE DEF s
<1>3. ASSUME NEW k \in 1 .. n, NEW v \in V
      PROVE  g[<<k, v>>] = WithDay(v, s[k], k) /\ g[<<k, v>>] \in V
  <2>1. <<k, v>> \in (1 .. n) \X V
    OBVIOUS
  <2>2. g[<<k, v>>] = WithDay(v, s[k], k)
    BY <2>1
  <2>3. k \in Nat /\ s[k] \in Days0
    BY <1>1, <1>2
  <2>4. v \in Seq(Pt)
    OBVIOUS
  <2> HIDE DEF g, n, V
  <2>5. WithDay(v, s[k], k) \in Seq(Pt)
    BY <2>3, <2>4, WithDayIs, Zenon
  <2> QED
    BY <2>2, <2>5 DEF V
<1>4. g \in [(1 .. n) \X V -> V]
  <2>1. \A p \in (1 .. n) \X V : g[p] \in V
    <3> SUFFICES ASSUME NEW p \in (1 .. n) \X V PROVE g[p] \in V
      OBVIOUS
    <3>1. PICK k \in 1 .. n, v \in V : p = <<k, v>>
      OBVIOUS
    <3> HIDE DEF g
    <3> QED
      BY <1>3, <3>1
  <2>2. g = [p \in (1 .. n) \X V |-> g[p]]
    OBVIOUS
  <2> HIDE DEF g
  <2> QED
    BY <2>1, <2>2
<1> HIDE DEF n, V, g, empty
<1>5. PICK F : FoldOf(F, n, V, empty, g)
  BY <1>1, <1>4, FoldExists
<1>6. ASSUME NEW t \in SUBSET (1 .. n), t # {} PROVE Max(t) \in 1 .. n /\ t \ {Max(t)} \in SUBSET (1 .. n)
  <2>1. t \in SUBSET Int /\ n \in Int /\ \A x \in t : x <= n
    BY <1>1
  <2>2. Max(t) \in t
    BY <1>6, <2>1, MaxUpTo
  <2> QED
    BY <2>2
<1>7. Eq(F)
  <2>1. ASSUME NEW t \in SUBSET (1 .. n), t # {}
        PROVE  F[t] = WithDay(F[t \ {Max(t)}], s[idx[Max(t)]], idx[Max(t)])
    <3>1. Max(t) \in 1 .. n /\ t \ {Max(t)} \in SUBSET (1 .. n)
      BY <1>6, <2>1
    <3>2. F[t \ {Max(t)}] \in V /\ F[t] = g[<<Max(t), F[t \ {Max(t)}]>>]
      BY <1>5, <2>1, <3>1 DEF FoldOf
    <3>3. idx[Max(t)] = Max(t)
      BY <1>1, <3>1
    <3> HIDE DEF idx
    <3> QED
      BY <1>3, <3>1, <3>2, <3>3
  <2>2. F[{}] = <<>> /\ F \in [SUBSET (1 .. n) -> V]
    BY <1>5 DEF FoldOf, empty
  <2> HIDE DEF idx
  <2>3. F = [t \in SUBSET (1 .. n) |->
               IF t = {} THEN <<>> ELSE WithDay(F[t \ {Max(t)}], s[idx[Max(t)]], idx[Max(t)])]
    BY <2>1, <2>2
  <2> QED
    BY <1>1, <2>3
<1>8. Eq(fold)
  <2> HIDE DEF Eq
  <2> QED BY <1>7
<1>9. Folds(fold, n, V, empty, g)
  <2> DEFINE f == fold
  <2>1. Eq(f)
    BY <1>8
  <2> HIDE DEF f, fold
  <2>2. f[{}] = empty
    BY <1>1, <2>1 DEF empty
  <2>3. ASSUME NEW t \in SUBSET (1 .. n), t # {}, f[t \ {Max(t)}] \in V
        PROVE  f[t] = g[<<Max(t), f[t \ {Max(t)}]>>]
    <3>1. f[t] = WithDay(f[t \ {Max(t)}], s[idx[Max(t)]], idx[Max(t)])
      BY <1>1, <2>1, <2>3
    <3>2. Max(t) \in 1 .. n /\ idx[Max(t)] = Max(t)
      BY <1>1, <1>6, <2>3
    <3> HIDE DEF idx
    <3> QED
      BY <1>3, <2>3, <3>1, <3>2
  <2> QED
    BY <2>2, <2>3 DEF f, Folds
<1>10. cumulative(days) = downsample(fold[1 .. n], maxPoints)
  <2>1. Len(idx) = n
    BY <1>1
  <2>2. cumulative(days) = downsample(fold[DOMAIN idx], maxPoints)
    BY DEF cumulative, FoldLeft, MapThenFoldSet, WithDay, s
  <2> QED
    BY <1>1, <2>2
<1> HIDE DEF fold
<1> DEFINE R == [k \in 0 .. n |-> fold[1 .. k]]
<1>11. RunOf(R, n, V, empty, g)
  <2> HIDE DEF idx
  <2>1. n \in Nat /\ empty \in V
    BY <1>1
  <2>2. RunOf([k \in 0 .. n |-> fold[1 .. k]], n, V, empty, g)
    BY <1>4, <1>9, <2>1, FoldRun
  <2> QED
    BY <2>2
<1>12. fold[1 .. n] = R[n]
  BY <1>1
<1> HIDE DEF R
<1>13. ASSUME NEW k \in 1 .. n PROVE R[k] = WithDay(R[k - 1], s[k], k)
  <2>1. k - 1 \in 0 .. n
    BY <1>1
  <2>2. R[k] = g[<<k, R[k - 1]>>] /\ R[k - 1] \in V
    BY <1>11, <2>1 DEF RunOf
  <2> QED
    BY <1>3, <2>2
<1>14. R[0] = <<>>
  BY <1>11 DEF RunOf, empty
<1> QED
  BY <1>10, <1>12, <1>13, <1>14 DEF n, s

LEMMA StarsTrue ==
  ASSUME job.plugin = "stars", NEW days \in Seq(Days0)
  PROVE  SeriesTrue(cumulative(days), days) /\ Len(cumulative(days)) <= maxPoints
<1> DEFINE n == Len(days)
           s == Sorted(days)
<1>1. PICK R : /\ R[0] = <<>>
               /\ \A k \in 1 .. n : R[k] = WithDay(R[k - 1], s[k], k)
               /\ cumulative(days) = downsample(R[n], maxPoints)
  BY CumulativeRun
<1>2. /\ s \in Seq(Days0) /\ Len(s) = n
      /\ \A k, m \in 1 .. n : k < m => s[k] <= s[m]
      /\ \E p : Permutes(p, n) /\ \A k \in 1 .. n : s[k] = days[p[k]]
  BY SortedDays
<1> HIDE DEF s
<1>3. n \in Nat /\ DOMAIN days = 1 .. n /\ s \in [1 .. n -> Days0] /\ Rises(s, n)
      /\ \A i \in 1 .. n : days[i] \in Int /\ s[i] \in Int
  <2>1. \A d \in Days0 : d \in Int
    BY ActivityAssumption DEF Days0
  <2> HIDE DEF Days0
  <2>2. \A i \in 1 .. n : days[i] \in Days0
    OBVIOUS
  <2>3. n \in Nat /\ DOMAIN days = 1 .. n /\ s \in [1 .. n -> Days0]
    BY <1>2
  <2> QED
    BY <1>2, <2>1, <2>2, <2>3 DEF Rises
<1>4. PICK p : Permutes(p, n) /\ \A k \in 1 .. n : s[k] = days[p[k]]
  BY <1>2
<1> DEFINE full == R[n]
<1>5. Cumulated(s, full, n)
  BY <1>1, <1>3, CumulatedRun
<1> HIDE DEF n, full
<1>6. /\ full \in Seq(Pt) /\ Len(full) \in 0 .. n
      /\ n > 0 => Len(full) > 0 /\ full[1].t = s[1] /\ full[Len(full)].v = n
      /\ \A i \in 1 .. Len(full) : full[i].v \in 1 .. n /\ s[full[i].v] = full[i].t
      /\ \A i \in 1 .. Len(full) : full[i].v < n => full[i].t < s[full[i].v + 1]
      /\ \A i, j \in 1 .. Len(full) : i < j => full[i].t < full[j].t
  BY <1>5 DEF Cumulated
<1>7. ASSUME NEW i \in 1 .. Len(full) PROVE PointIsTrue(full[i], days)
  <2> DEFINE v == full[i].v
             t == full[i].t
             A == {k \in 1 .. n : days[k] <= t}
             B == {k \in 1 .. n : p[k] \in A}
  <2>1. v \in 1 .. n /\ s[v] = t /\ (v < n => t < s[v + 1])
    BY <1>6, <1>7
  <2>2. t \in Int /\ v \in Nat
    BY <1>3, <2>1
  <2>3. \A k \in 1 .. n : k \in B <=> s[k] <= t
    <3>1. \A k \in 1 .. n : p[k] \in 1 .. n /\ s[k] = days[p[k]]
      BY <1>4 DEF Permutes
    <3> QED
      BY <3>1
  <2> HIDE DEF v, t
  <2>4. B = 1 .. v
    <3>1. ASSUME NEW k \in 1 .. n PROVE s[k] <= t <=> k <= v
      <4>1. CASE k <= v
        <5>1. k = v \/ k < v
          BY <1>3, <2>2, <4>1
        <5>2. s[k] <= s[v]
          BY <1>3, <2>1, <5>1 DEF Rises
        <5> QED
          BY <2>1, <4>1, <5>2
      <4>2. CASE ~(k <= v)
        <5>1. v + 1 \in 1 .. n /\ v < n /\ (k = v + 1 \/ v + 1 < k)
          BY <1>3, <2>1, <2>2, <4>2
        <5>2. s[v + 1] <= s[k] /\ t < s[v + 1] /\ s[v + 1] \in Int /\ s[k] \in Int
          BY <1>3, <2>1, <5>1 DEF Rises
        <5> QED
          BY <2>2, <4>2, <5>2
      <4> QED
        BY <4>1, <4>2
    <3>2. \A k \in 1 .. n : k \in B <=> k \in 1 .. v
      BY <1>3, <2>2, <2>3, <3>1
    <3>3. B \subseteq 1 .. n /\ 1 .. v \subseteq 1 .. n
      BY <1>3, <2>1
    <3> HIDE DEF B
    <3> QED
      BY <3>2, <3>3
  <2>5. Cardinality(B) = Cardinality(A)
    <3>1. A \in SUBSET (1 .. n)
      OBVIOUS
    <3> HIDE DEF A
    <3> QED
      BY <1>3, <1>4, <3>1, PermutedCount
  <2>6. Cardinality(1 .. v) = v
    BY <2>2, FS_Interval
  <2>7. Cardinality(A) = v
    BY <2>4, <2>5, <2>6
  <2>8. Count(days, LAMBDA d : d <= t) = Cardinality(A)
    BY <1>3 DEF Count
  <2> QED
    BY <2>7, <2>8 DEF PointIsTrue, v, t
<1>8. \A i \in DOMAIN days : n > 0 /\ s[1] <= days[i]
  <2> TAKE i \in DOMAIN days
  <2>1. i \in 1 .. n /\ n > 0 /\ 1 \in 1 .. n
    BY <1>3
  <2>2. PICK k \in 1 .. n : p[k] = i
    BY <1>4, <2>1 DEF Permutes
  <2>3. s[k] = days[i] /\ (k = 1 \/ 1 < k)
    BY <1>3, <1>4, <2>2
  <2> QED
    BY <1>3, <2>1, <2>3 DEF Rises
<1>9. /\ Len(full) \in Nat /\ (full = <<>> <=> Len(full) = 0) /\ (days = <<>> <=> n = 0)
      /\ (Len(full) > 0 => n > 0)
  <2>1. full = <<>> <=> Len(full) = 0
    BY <1>6
  <2>2. days = <<>> <=> n = 0
    BY DEF n
  <2> QED
    BY <1>3, <1>6, <2>1, <2>2
<1>10. full = <<>> <=> days = <<>>
  BY <1>3, <1>6, <1>9
<1>11. Len(full) > 0 => /\ full[1].v > 0 /\ full[Len(full)].v > 0
                        /\ \A i \in DOMAIN days : full[1].t <= days[i]
                        /\ full[Len(full)].v = Len(days)
  <2> SUFFICES ASSUME Len(full) > 0
               PROVE  /\ full[1].v > 0 /\ full[Len(full)].v > 0
                      /\ \A i \in DOMAIN days : full[1].t <= days[i]
                      /\ full[Len(full)].v = Len(days)
    OBVIOUS
  <2>1. n > 0 /\ 1 \in 1 .. Len(full)
    BY <1>9
  <2>2. full[1].v \in 1 .. n /\ full[1].t = s[1] /\ full[Len(full)].v = n
    BY <1>6, <2>1
  <2> QED
    BY <1>3, <1>8, <2>1, <2>2 DEF n
<1>12. SeriesTrue(full, days)
  BY <1>6, <1>7, <1>10, <1>11, Zenon DEF SeriesTrue
<1> QED
  BY <1>1, <1>12, ThinnedTrue, ActivityAssumption DEF full, n

-----------------------------------------------------------------------------
(***************************************************************************)
(* github-activity-rate: the bucket of a day is the one it is in, and the  *)
(* span of buckets lists them in order.                                    *)
(***************************************************************************)
LEMMA BucketIs ==
  ASSUME NEW period \in DOMAIN Starts, NEW d \in Days0
  PROVE  LET b == bucketStart(d, period) IN
         /\ b \in Starts[period] /\ b <= d
         /\ \A c \in Starts[period] : c <= d => c <= b
<1> DEFINE T == {b \in Starts[period] : b <= d}
<1>1. 0 \in Starts[period] /\ Starts[period] \subseteq 0 .. LastDay /\ LastDay \in Nat
  BY ActivityAssumption
<1>2. d \in Int /\ d >= 0
  BY <1>1 DEF Days0
<1>3. T \in SUBSET Int /\ T # {} /\ \A x \in T : x <= d
  BY <1>1, <1>2
<1> HIDE DEF T
<1>4. Max(T) \in T /\ \A x \in T : x <= Max(T)
  BY <1>2, <1>3, MaxUpTo
<1> QED
  BY <1>4 DEF T, bucketStart

\* A point at a bucket counts the days whose bucket it is.
LEMMA InBucket ==
  ASSUME NEW period \in DOMAIN Starts, NEW d \in Days0, NEW b \in Starts[period]
  PROVE  bucketStart(d, period) = b <=> b <= d /\ \A c \in Starts[period] : c <= d => c <= b
<1> DEFINE s == bucketStart(d, period)
<1>1. s \in Starts[period] /\ s <= d /\ \A c \in Starts[period] : c <= d => c <= s
  BY BucketIs
<1>2. s \in Int /\ b \in Int
  BY <1>1, ActivityAssumption
<1> HIDE DEF s
<1>3. s = b <=> b <= d /\ \A c \in Starts[period] : c <= d => c <= b
  BY <1>1, <1>2
<1> QED
  BY <1>3 DEF s

LEMMA SpanIs ==
  ASSUME NEW B \in SUBSET Days0
  PROVE  LET s == Sorted(SetToSeq(B)) IN
         /\ s \in Seq(Days0) /\ Len(s) = Cardinality(B) /\ IsFiniteSet(B)
         /\ \A k \in 1 .. Len(s) : s[k] \in B
         /\ \A k, m \in 1 .. Len(s) : k < m => s[k] < s[m]
         /\ \A b \in B : \E k \in 1 .. Len(s) : s[k] = b
<1> DEFINE c == Cardinality(B)
           f == SetToSeq(B)
           s == Sorted(f)
<1>1. IsFiniteSet(B)
  <2>1. IsFiniteSet(Days0)
    BY ActivityAssumption, FS_Interval DEF Days0
  <2> HIDE DEF Days0
  <2> QED
    BY <2>1, FS_Subset
<1>2. c \in Nat /\ ExistsBijection(1 .. c, B)
  BY <1>1, FS_CardinalityType
<1>3. \E h \in [1 .. c -> B] : IsInjective(h)
  BY <1>2 DEF ExistsBijection, Bijection, Injection
<1>4. f \in [1 .. c -> B] /\ IsInjective(f)
  BY <1>3, Zenon DEF SetToSeq
<1> HIDE DEF f
<1>5. f \in Surjection(1 .. c, B)
  <2>1. f \in Injection(1 .. c, B)
    BY <1>4 DEF Injection
  <2>2. Cardinality(1 .. c) = Cardinality(B)
    BY <1>2, FS_Interval
  <2> QED
    BY <1>1, <2>1, <2>2, FS_Injection
<1>6. (\A b \in B : \E j \in 1 .. c : f[j] = b) /\ (\A i, j \in 1 .. c : f[i] = f[j] => i = j)
  BY <1>4, <1>5 DEF Surjection, IsInjective
<1>7. f \in Seq(Days0) /\ Len(f) = c
  <2>1. f \in [1 .. c -> Days0]
    BY <1>4
  <2> HIDE DEF c
  <2> QED
    BY <1>2, <2>1
<1>8. /\ s \in Seq(Days0) /\ Len(s) = c
      /\ \A k, m \in 1 .. c : k < m => s[k] <= s[m]
      /\ \E p : Permutes(p, c) /\ \A k \in 1 .. c : s[k] = f[p[k]]
  BY <1>7, SortedDays
<1> HIDE DEF s, c
<1>9. PICK p : Permutes(p, c) /\ \A k \in 1 .. c : s[k] = f[p[k]]
  BY <1>8
<1>10. /\ \A k \in 1 .. c : p[k] \in 1 .. c
       /\ \A j \in 1 .. c : \E k \in 1 .. c : p[k] = j
       /\ \A i, j \in 1 .. c : i # j => p[i] # p[j]
  BY <1>9 DEF Permutes
<1>11. \A k \in 1 .. c : s[k] \in B /\ s[k] \in Int
  <2>1. \A b \in B : b \in Int
    BY ActivityAssumption DEF Days0
  <2> QED
    BY <1>4, <1>9, <1>10, <2>1
<1>12. \A k, m \in 1 .. c : k < m => s[k] < s[m]
  <2> SUFFICES ASSUME NEW k \in 1 .. c, NEW m \in 1 .. c, k < m PROVE s[k] < s[m]
    OBVIOUS
  <2>1. s[k] <= s[m] /\ s[k] \in Int /\ s[m] \in Int
    BY <1>8, <1>11
  <2>2. k # m
    BY <1>2 DEF c
  <2>3. s[k] # s[m]
    BY <1>6, <1>9, <1>10, <2>2
  <2> QED
    BY <2>1, <2>3
<1>13. \A b \in B : \E k \in 1 .. c : s[k] = b
  <2> TAKE b \in B
  <2>1. PICK j \in 1 .. c : f[j] = b
    BY <1>6
  <2>2. PICK k \in 1 .. c : p[k] = j
    BY <1>10
  <2> QED
    BY <1>9, <2>1, <2>2
<1> QED
  BY <1>1, <1>8, <1>11, <1>12, <1>13 DEF s, f, c

-----------------------------------------------------------------------------
(***************************************************************************)
(* The points add up: the sum is the last value of a run over them.        *)
(***************************************************************************)
SumRun(R, pts) ==
  /\ R[0] = 0
  /\ \A k \in 1 .. Len(pts) : R[k] = R[k - 1] + pts[k].v
Total(pts) == FoldLeft(LAMBDA n, p : n + p.v, 0, pts)

LEMMA SumIsRun ==
  ASSUME NEW pts \in Seq(Pt)
  PROVE  \E R : SumRun(R, pts) /\ Total(pts) = R[Len(pts)]
<1> DEFINE n == Len(pts)
           V == Nat
           g == [p \in (1 .. n) \X V |-> p[2] + pts[p[1]].v]
           Eq(F) == F = [t \in SUBSET DOMAIN pts |->
                           IF t = {} THEN 0 ELSE F[t \ {Max(t)}] + pts[Max(t)].v]
           fold == CHOOSE F : Eq(F)
<1>1. n \in Nat /\ DOMAIN pts = 1 .. n /\ 0 \in V /\ \A k \in 1 .. n : pts[k].v \in Nat
  <2>1. n \in Nat /\ DOMAIN pts = 1 .. n /\ \A k \in 1 .. n : pts[k] \in Pt
    OBVIOUS
  <2> HIDE DEF n
  <2> QED
    BY <2>1, PtIs
<1>2. ASSUME NEW k \in 1 .. n, NEW v \in V
      PROVE  g[<<k, v>>] = v + pts[k].v /\ g[<<k, v>>] \in V
  <2>1. <<k, v>> \in (1 .. n) \X V
    OBVIOUS
  <2>2. g[<<k, v>>] = v + pts[k].v
    BY <2>1
  <2> HIDE DEF g
  <2> QED
    BY <1>1, <2>2
<1>3. g \in [(1 .. n) \X V -> V]
  <2>1. \A p \in (1 .. n) \X V : g[p] \in V
    <3> SUFFICES ASSUME NEW p \in (1 .. n) \X V PROVE g[p] \in V
      OBVIOUS
    <3>1. PICK k \in 1 .. n, v \in V : p = <<k, v>>
      OBVIOUS
    <3> HIDE DEF g, V
    <3> QED
      BY <1>2, <3>1
  <2>2. g = [p \in (1 .. n) \X V |-> g[p]]
    OBVIOUS
  <2> HIDE DEF g
  <2> QED
    BY <2>1, <2>2
<1> HIDE DEF n, V, g
<1>4. PICK F : FoldOf(F, n, V, 0, g)
  BY <1>1, <1>3, FoldExists
<1>5. ASSUME NEW t \in SUBSET (1 .. n), t # {} PROVE Max(t) \in 1 .. n /\ t \ {Max(t)} \in SUBSET (1 .. n)
  <2>1. t \in SUBSET Int /\ n \in Int /\ \A x \in t : x <= n
    BY <1>1
  <2>2. Max(t) \in t
    BY <1>5, <2>1, MaxUpTo
  <2> QED
    BY <2>2
<1>6. Eq(F)
  <2>1. ASSUME NEW t \in SUBSET (1 .. n), t # {}
        PROVE  F[t] = F[t \ {Max(t)}] + pts[Max(t)].v
    <3>1. Max(t) \in 1 .. n /\ t \ {Max(t)} \in SUBSET (1 .. n)
      BY <1>5, <2>1
    <3>2. F[t \ {Max(t)}] \in V /\ F[t] = g[<<Max(t), F[t \ {Max(t)}]>>]
      BY <1>4, <2>1, <3>1 DEF FoldOf
    <3> QED
      BY <1>2, <3>1, <3>2
  <2>2. F[{}] = 0 /\ F \in [SUBSET (1 .. n) -> V]
    BY <1>4 DEF FoldOf
  <2>3. F = [t \in SUBSET (1 .. n) |-> IF t = {} THEN 0 ELSE F[t \ {Max(t)}] + pts[Max(t)].v]
    BY <2>1, <2>2
  <2> QED
    BY <1>1, <2>3
<1>7. Eq(fold)
  <2> HIDE DEF Eq
  <2> QED BY <1>6
<1>8. Folds(fold, n, V, 0, g)
  <2> DEFINE f == fold
  <2>1. Eq(f)
    BY <1>7
  <2> HIDE DEF f, fold
  <2>2. f[{}] = 0
    BY <1>1, <2>1
  <2>3. ASSUME NEW t \in SUBSET (1 .. n), t # {}, f[t \ {Max(t)}] \in V
        PROVE  f[t] = g[<<Max(t), f[t \ {Max(t)}]>>]
    <3>1. f[t] = f[t \ {Max(t)}] + pts[Max(t)].v
      BY <1>1, <2>1, <2>3
    <3>2. Max(t) \in 1 .. n
      BY <1>5, <2>3
    <3> QED
      BY <1>2, <2>3, <3>1, <3>2
  <2> QED
    BY <2>2, <2>3 DEF f, Folds
<1>9. Total(pts) = fold[1 .. n]
  BY <1>1 DEF Total, FoldLeft, MapThenFoldSet
<1> HIDE DEF fold
<1> DEFINE R == [k \in 0 .. n |-> fold[1 .. k]]
<1>10. RunOf(R, n, V, 0, g)
  <2>1. n \in Nat /\ 0 \in V
    BY <1>1
  <2>2. RunOf([k \in 0 .. n |-> fold[1 .. k]], n, V, 0, g)
    BY <1>3, <1>8, <2>1, FoldRun
  <2> QED
    BY <2>2
<1>11. fold[1 .. n] = R[n]
  BY <1>1
<1> HIDE DEF R
<1>12. ASSUME NEW k \in 1 .. n PROVE R[k] = R[k - 1] + pts[k].v
  <2>1. k - 1 \in 0 .. n
    BY <1>1
  <2>2. R[k] = g[<<k, R[k - 1]>>] /\ R[k - 1] \in V
    BY <1>10, <2>1 DEF RunOf
  <2> QED
    BY <1>2, <2>2
<1>13. R[0] = 0
  BY <1>10 DEF RunOf
<1> QED
  BY <1>9, <1>11, <1>12, <1>13 DEF n, SumRun

\* The days in one of the first k buckets of a span.
InFirst(days, period, span, k) ==
  {i \in DOMAIN days : \E m \in 1 .. k : bucketStart(days[i], period) = span[m]}

LEMMA CountTo ==
  ASSUME NEW n \in Nat
  PROVE  IsFiniteSet(1 .. n) /\ Cardinality(1 .. n) = n
BY FS_Interval

\* As long as the buckets differ and every day is in one, the points add up to the days.
LEMMA BucketsAddUp ==
  ASSUME NEW days \in Seq(Days0), NEW period \in DOMAIN Starts,
         NEW span \in Seq(Days0), \A k, m \in 1 .. Len(span) : k < m => span[k] < span[m],
         \A i \in DOMAIN days : \E k \in 1 .. Len(span) : bucketStart(days[i], period) = span[k],
         NEW pts \in Seq(Pt), Len(pts) = Len(span),
         \A k \in 1 .. Len(span) :
           pts[k].v = Cardinality({i \in DOMAIN days : bucketStart(days[i], period) = span[k]})
  PROVE  Total(pts) = Len(days)
<1> DEFINE n == Len(span)
           D == DOMAIN days
           In(k) == {i \in D : bucketStart(days[i], period) = span[k]}
           U(k) == InFirst(days, period, span, k)
<1>1. PICK R : SumRun(R, pts) /\ Total(pts) = R[Len(pts)]
  BY SumIsRun
<1>2. R[0] = 0 /\ \A k \in 1 .. n : R[k] = R[k - 1] + Cardinality(In(k))
  BY <1>1 DEF SumRun
<1>3. n \in Nat /\ IsFiniteSet(D) /\ Cardinality(D) = Len(days)
  <2>1. Len(days) \in Nat /\ D = 1 .. Len(days)
    OBVIOUS
  <2>2. n \in Nat
    OBVIOUS
  <2>3. IsFiniteSet(1 .. Len(days)) /\ Cardinality(1 .. Len(days)) = Len(days)
    BY <2>1, CountTo, Zenon
  <2> HIDE DEF D, n
  <2> QED
    BY <2>1, <2>2, <2>3
<1>4. \A k \in 1 .. n : span[k] \in Int
  <2>1. \A d \in Days0 : d \in Int
    BY ActivityAssumption DEF Days0
  <2> HIDE DEF Days0
  <2> QED
    BY <2>1
<1> DEFINE S == {k \in 0 .. n : R[k] = Cardinality(U(k))}
<1>5. 0 \in S
  <2>1. U(0) = {}
    BY DEF InFirst
  <2> HIDE DEF U
  <2>2. Cardinality(U(0)) = 0
    BY <2>1, FS_EmptySet
  <2> QED
    BY <1>2, <1>3, <2>2
<1>6. ASSUME NEW k \in 1 .. n, k - 1 \in S PROVE k \in S
  <2>1. U(k) = U(k - 1) \cup In(k)
    <3>1. \A m : m \in 1 .. k <=> m \in 1 .. k - 1 \/ m = k
      BY <1>3
    <3> QED
      BY <3>1 DEF InFirst
  <2>2. U(k - 1) \cap In(k) = {}
    <3> SUFFICES ASSUME NEW i \in D, i \in U(k - 1), i \in In(k) PROVE FALSE
      BY DEF InFirst
    <3>1. PICK m \in 1 .. k - 1 : span[m] = span[k]
      BY DEF InFirst
    <3>2. m \in 1 .. n /\ m < k /\ span[m] \in Int /\ span[k] \in Int
      BY <1>3, <1>4
    <3>3. span[m] < span[k]
      BY <3>2
    <3> QED
      BY <3>1, <3>2, <3>3
  <2>3. U(k - 1) \in SUBSET D /\ In(k) \in SUBSET D
    BY DEF InFirst
  <2>4. R[k - 1] = Cardinality(U(k - 1)) /\ R[k] = R[k - 1] + Cardinality(In(k))
    BY <1>2, <1>6
  <2> HIDE DEF U, In, D
  <2>5. IsFiniteSet(U(k - 1)) /\ IsFiniteSet(In(k))
    BY <1>3, <2>3, FS_Subset
  <2>6. Cardinality(U(k - 1)) \in Nat /\ Cardinality(In(k)) \in Nat
    BY <2>5, FS_CardinalityType
  <2>7. Cardinality(U(k - 1) \cup In(k)) = Cardinality(U(k - 1)) + Cardinality(In(k)) - Cardinality({})
    <3> DEFINE X == U(k - 1)
               Y == In(k)
    <3>1. IsFiniteSet(X) /\ IsFiniteSet(Y) /\ X \cap Y = {}
      BY <2>2, <2>5
    <3> HIDE DEF X, Y
    <3>2. Cardinality(X \cup Y) = Cardinality(X) + Cardinality(Y) - Cardinality(X \cap Y)
      BY <3>1, FS_Union
    <3>3. Cardinality(X \cup Y) = Cardinality(X) + Cardinality(Y) - Cardinality({})
      BY <3>1, <3>2
    <3> QED
      BY <3>3 DEF X, Y
  <2>8. R[k] = Cardinality(U(k))
    BY <2>1, <2>4, <2>6, <2>7, FS_EmptySet
  <2> QED
    BY <2>8
<1> HIDE DEF S
<1>7. n \in S
  <2>1. 0 .. n \subseteq S
    BY <1>3, <1>5, <1>6, InductUpTo
  <2> QED
    BY <1>3, <2>1
<1>8. U(n) = D
  BY DEF InFirst
<1> QED
  BY <1>1, <1>3, <1>7, <1>8 DEF S

LEMMA RateTrue ==
  ASSUME job.plugin = "rate", job.period \in DOMAIN Starts, NEW days \in Seq(Days0)
  PROVE  LET pts == perPeriod(days, job.period) IN
         /\ SeriesTrue(pts, days) /\ Len(pts) <= maxPoints
         /\ Cardinality(Starts[job.period]) <= maxPoints => Total(pts) = Len(days)
<1> DEFINE period == job.period
           start(i) == bucketStart(days[i], period)
           used == {start(i) : i \in DOMAIN days}
           B == {b \in Starts[period] : Min(used) <= b /\ b <= Max(used)}
           span == Sorted(SetToSeq(B))
           In(b) == {i \in DOMAIN days : start(i) = b}
           full == [k \in DOMAIN span |-> [t |-> span[k], v |-> Cardinality(In(span[k]))]]
<1>1. CASE days = <<>>
  <2> DEFINE pts == perPeriod(days, period)
  <2>1. pts = <<>>
    BY <1>1 DEF perPeriod
  <2> HIDE DEF pts
  <2>2. pts \in Seq(Pt) /\ Len(pts) = 0 /\ Len(days) = 0 /\ 0 <= maxPoints
    BY <1>1, <2>1, ActivityAssumption
  <2>3. SeriesTrue(pts, days)
    BY <1>1, <2>1, <2>2 DEF SeriesTrue
  <2>4. Total(pts) = 0
    <3>1. PICK R : SumRun(R, pts) /\ Total(pts) = R[Len(pts)]
      BY <2>2, SumIsRun
    <3> QED
      BY <2>2, <3>1 DEF SumRun
  <2> QED
    BY <2>2, <2>3, <2>4 DEF pts
<1>2. CASE days # <<>>
  <2>0. perPeriod(days, period) = downsample(full, maxPoints)
    BY <1>2 DEF perPeriod
  <2>1. Len(days) \in Nat \ {0} /\ DOMAIN days = 1 .. Len(days) /\ \A i \in DOMAIN days : days[i] \in Days0
    BY <1>2
  <2>2. /\ 0 \in Starts[period] /\ Starts[period] \subseteq Days0 /\ \A d \in Days0 : d \in Nat /\ d <= LastDay
        /\ LastDay \in Nat
    BY ActivityAssumption DEF Days0
  <2>3. \A i \in DOMAIN days : /\ start(i) \in Starts[period] /\ start(i) <= days[i]
                               /\ start(i) \in Nat /\ days[i] \in Nat
    <3> HIDE DEF Days0
    <3> QED
      BY <2>1, <2>2, BucketIs
  <2> HIDE DEF Days0
  <2>4. used \in SUBSET Nat /\ used # {} /\ used \subseteq Starts[period] /\ \A x \in used : x <= LastDay
    BY <2>1, <2>2, <2>3
  <2> DEFINE lo == Min(used)
             hi == Max(used)
  <2>5. lo \in used /\ \A x \in used : lo <= x
    <3> HIDE DEF used
    <3> QED
      BY <2>4, MinNat
  <2>6. hi \in used /\ \A x \in used : x <= hi
    <3> HIDE DEF used
    <3>1. used \in SUBSET Int /\ LastDay \in Int
      BY <2>2, <2>4
    <3> QED
      BY <2>2, <2>4, <3>1, MaxUpTo
  <2> HIDE DEF lo, hi
  <2>7. B \in SUBSET Days0 /\ lo \in B /\ hi \in B
        /\ (\A b \in B : b \in Starts[period] /\ lo <= b /\ b <= hi /\ b \in Nat) /\ used \subseteq B
    BY <2>2, <2>4, <2>5, <2>6 DEF lo, hi
  <2> HIDE DEF B
  <2> DEFINE n == Len(span)
  <2>8. /\ span \in Seq(Days0) /\ n = Cardinality(B) /\ IsFiniteSet(B)
        /\ \A k \in 1 .. n : span[k] \in B
        /\ \A k, m \in 1 .. n : k < m => span[k] < span[m]
        /\ \A b \in B : \E k \in 1 .. n : span[k] = b
    BY <2>7, SpanIs
  <2> HIDE DEF span
  <2>9. n \in Nat /\ n > 0 /\ DOMAIN span = 1 .. n /\ 1 \in 1 .. n /\ n \in 1 .. n
    <3>1. n \in Nat /\ DOMAIN span = 1 .. n
      BY <2>8
    <3>2. \E k \in 1 .. n : span[k] = lo
      BY <2>7, <2>8
    <3> HIDE DEF n
    <3> QED
      BY <3>1, <3>2
  <2>10. span[1] = lo /\ span[n] = hi
    <3>1. PICK k \in 1 .. n : span[k] = lo
      BY <2>7, <2>8
    <3>2. PICK m \in 1 .. n : span[m] = hi
      BY <2>7, <2>8
    <3>3. /\ lo <= span[1] /\ span[n] <= hi
          /\ span[1] \in Nat /\ span[n] \in Nat /\ lo \in Nat /\ hi \in Nat
      BY <2>7, <2>8, <2>9
    <3>4. k = 1 \/ span[1] < span[k]
      BY <2>8, <2>9
    <3>5. m = n \/ span[m] < span[n]
      BY <2>8, <2>9
    <3> HIDE DEF n
    <3> QED
      BY <3>1, <3>2, <3>3, <3>4, <3>5
  <2>11. \A b : In(b) \in SUBSET DOMAIN days /\ IsFiniteSet(In(b)) /\ Cardinality(In(b)) \in Nat
         /\ (Cardinality(In(b)) = 0 <=> In(b) = {})
    <3> SUFFICES ASSUME NEW b
                 PROVE  In(b) \in SUBSET DOMAIN days /\ IsFiniteSet(In(b)) /\ Cardinality(In(b)) \in Nat
                        /\ (Cardinality(In(b)) = 0 <=> In(b) = {})
      OBVIOUS
    <3>1. In(b) \in SUBSET DOMAIN days
      OBVIOUS
    <3>2. IsFiniteSet(DOMAIN days)
      BY <2>1, FS_Interval
    <3> HIDE DEF In
    <3>3. IsFiniteSet(In(b))
      BY <3>1, <3>2, FS_Subset
    <3> QED
      BY <3>1, <3>3, FS_CardinalityType, FS_EmptySet
  <2>12. In(lo) # {} /\ In(hi) # {}
    BY <2>5, <2>6
  <2>13. ASSUME NEW k \in 1 .. n
         PROVE  full[k] = [t |-> span[k], v |-> Cardinality(In(span[k]))]
                /\ full[k].t = span[k] /\ full[k].v = Cardinality(In(span[k])) /\ full[k] \in Pt
    <3>1. full[k] = [t |-> span[k], v |-> Cardinality(In(span[k]))]
      BY <2>9
    <3>2. span[k] \in Days0
      BY <2>8
    <3> HIDE DEF full, In
    <3>3. Cardinality(In(span[k])) \in Nat
      BY <2>11
    <3> QED
      BY <3>1, <3>2, <3>3 DEF Pt
  <2>14. DOMAIN full = 1 .. n /\ full = [k \in 1 .. n |-> full[k]]
    BY <2>9
  <2> HIDE DEF full
  <2>15. full \in Seq(Pt) /\ Len(full) = n
    <3>1. \A k \in 1 .. n : full[k] \in Pt
      BY <2>13
    <3> HIDE DEF n, Pt
    <3>2. full \in [1 .. n -> Pt]
      BY <2>14, <3>1
    <3> QED
      BY <2>9, <3>2
  <2>16. ASSUME NEW k \in 1 .. n PROVE PointIsTrue(full[k], days)
    <3> DEFINE b == span[k]
    <3>1. b \in Starts[period]
      BY <2>7, <2>8
    <3>2. In(b) = {i \in DOMAIN days : b <= days[i] /\ \A c \in Starts[job.period] : c <= days[i] => c <= b}
      <4> HIDE DEF b
      <4>1. \A i \in DOMAIN days : bucketStart(days[i], period) = b <=>
              b <= days[i] /\ \A c \in Starts[job.period] : c <= days[i] => c <= b
        BY <2>1, <3>1, InBucket
      <4> QED
        BY <4>1
    <3>3. full[k].t = b /\ full[k].v = Cardinality(In(b))
      BY <2>13
    <3> HIDE DEF b, In
    <3> QED
      BY <3>2, <3>3 DEF PointIsTrue, Count
  <2>17. \A i, j \in 1 .. n : i < j => full[i].t < full[j].t
    BY <2>8, <2>13
  <2>18. full[1].v > 0 /\ full[n].v > 0
    <3>1. full[1].v = Cardinality(In(lo)) /\ full[n].v = Cardinality(In(hi))
      BY <2>9, <2>10, <2>13
    <3> HIDE DEF In
    <3> QED
      BY <2>11, <2>12, <3>1
  <2>19. \A i \in DOMAIN days : full[1].t <= days[i]
    <3> TAKE i \in DOMAIN days
    <3>1. full[1].t = lo
      BY <2>9, <2>10, <2>13
    <3>2. start(i) \in used
      OBVIOUS
    <3>3. lo <= start(i) /\ start(i) <= days[i] /\ start(i) \in Nat /\ days[i] \in Nat /\ lo \in Nat
      BY <2>3, <2>4, <2>5, <3>2
    <3> QED
      BY <3>1, <3>3
  <2>20. full # <<>>
    BY <2>9, <2>15
  <2> HIDE DEF n
  <2>21. SeriesTrue(full, days)
    BY <1>2, <2>15, <2>16, <2>17, <2>18, <2>19, <2>20 DEF SeriesTrue
  <2>22. Total(full) = Len(days)
    <3>1. \A i \in DOMAIN days : \E k \in 1 .. Len(span) : bucketStart(days[i], period) = span[k]
      BY <2>7, <2>8 DEF n
    <3>2. \A k \in 1 .. Len(span) :
            full[k].v = Cardinality({i \in DOMAIN days : bucketStart(days[i], period) = span[k]})
      BY <2>13 DEF n
    <3> QED
      BY <2>8, <2>15, <3>1, <3>2, BucketsAddUp DEF n
  <2>23. n <= Cardinality(Starts[period])
    <3>1. IsFiniteSet(Days0)
      BY <2>2, FS_Interval DEF Days0
    <3>2. IsFiniteSet(Starts[period])
      BY <2>2, <3>1, FS_Subset
    <3>3. B \in SUBSET Starts[period]
      BY <2>7
    <3> QED
      BY <2>8, <3>2, <3>3, FS_Subset
  <2>24. n <= maxPoints \/ ~(Cardinality(Starts[period]) <= maxPoints)
    <3>1. Cardinality(Starts[period]) \in Nat /\ maxPoints \in Nat
      <4>1. IsFiniteSet(Days0)
        BY <2>2, FS_Interval DEF Days0
      <4>2. IsFiniteSet(Starts[period])
        BY <2>2, <4>1, FS_Subset
      <4> QED
        BY <4>2, FS_CardinalityType, ActivityAssumption
    <3> QED
      BY <2>9, <2>23, <3>1
  <2>25. /\ SeriesTrue(downsample(full, maxPoints), days) /\ Len(downsample(full, maxPoints)) <= maxPoints
         /\ Len(full) <= maxPoints => downsample(full, maxPoints) = full
    BY <2>21, ThinnedTrue, ActivityAssumption
  <2> QED
    BY <2>0, <2>15, <2>22, <2>24, <2>25
<1> QED
  BY <1>1, <1>2

-----------------------------------------------------------------------------
\* What a run returned is the series of what it fetched.
SeriesInv == ActivityReturned => out.points = Series(got.times)

LEMMA SeriesKept ==
  ASSUME SeriesInv, [Next]_runVars
  PROVE  SeriesInv'
<1> SUFFICES ASSUME ActivityReturned' PROVE out'.points = (Series(got.times))'
  BY DEF SeriesInv
<1>1. job' = job
  BY JobStays
<1>2. job.plugin \in {"stars", "rate"} /\ step' = "done"
  BY <1>1 DEF ActivityReturned, Returned
<1>3. [ActivityNext]_runVars
  BY <1>2, StepsOf
<1>4. CASE FetchPage
  <2> DEFINE answer == fetchActivityPage(got.page)
             times == got.times \o answer.times
             o == [total |-> Len(times), points |-> Series(times)]
  <2>1. \/ Abort
        \/ Proceed("page", [times |-> times, page |-> got.page + 1])
        \/ Return(o, [times |-> times, page |-> got.page])
    BY <1>4 DEF FetchPage
  <2> HIDE DEF times
  <2>2. o.points = Series(times)
    OBVIOUS
  <2> HIDE DEF o
  <2>3. Return(o, [times |-> times, page |-> got.page])
    BY <1>2, <2>1 DEF Abort, Proceed
  <2>4. out' = o /\ got'.times = times
    BY <2>3 DEF Return
  <2>5. (Series(got.times))' = Series(times)
    <3>1. (cumulative(got.times))' = cumulative(times)
      BY <2>4
    <3>2. (perPeriod(got.times, job.period))' = perPeriod(times, job.period)
      BY <1>1, <2>4
    <3> QED
      BY <1>1, <2>4, <3>1, <3>2 DEF Series
  <2> QED
    BY <2>2, <2>4, <2>5
<1>5. CASE Arrive \/ Leave
  BY <1>2, <1>5 DEF Arrive, Leave, Move, Running
<1>6. CASE UNCHANGED runVars
  BY <1>6 DEF runVars, SeriesInv, ActivityReturned, Returned, Series
<1> QED
  BY <1>3, <1>4, <1>5, <1>6 DEF ActivityNext

(***************************************************************************)
(* github-stars, github-activity-rate: whatever was fetched, the series is *)
(* true to it, for any number of items, points and buckets.                *)
(***************************************************************************)
THEOREM SeriesCorrect == Spec => []SeriesAccountsForAll
<1>1. Init => SeriesInv
  <2> SUFFICES ASSUME Init, ActivityReturned PROVE FALSE
    BY DEF SeriesInv
  <2>1. job.plugin \in {"stars", "rate"} /\ step = "done"
    BY DEF ActivityReturned, Returned
  <2> QED
    BY <2>1, Begins DEF ActivityInit
<1>2. SeriesInv /\ [Next]_runVars => SeriesInv'
  BY SeriesKept
<1>3. ActivityInv /\ SeriesInv => SeriesAccountsForAll
  <2> SUFFICES ASSUME ActivityInv, SeriesInv, ActivityReturned PROVE SeriesAccountsForAll
    BY DEF SeriesAccountsForAll
  <2> DEFINE pts == out.points
             days == got.times
  <2>1. job.plugin \in {"stars", "rate"} /\ step = "done" /\ ActivityTyped
    BY DEF ActivityReturned, Returned, ActivityInv
  <2>2. pts = Series(days)
    BY DEF SeriesInv
  <2>3. days \in Seq(Days0) /\ out.total = Len(days)
    BY <2>1 DEF ActivityTyped
  <2> HIDE DEF pts, days
  <2>4. /\ SeriesTrue(pts, days) /\ Len(pts) <= maxPoints
        /\ job.plugin = "rate" /\ Cardinality(Starts[job.period]) <= maxPoints => Total(pts) = Len(days)
    <3>1. CASE job.plugin = "stars"
      BY <2>2, <2>3, <3>1, StarsTrue DEF Series
    <3>2. CASE job.plugin = "rate"
      <4>1. job.period \in DOMAIN Starts
        BY <2>1, <3>2 DEF ActivityTyped, ActivityJobs
      <4>2. pts = perPeriod(days, job.period)
        BY <2>2, <3>2 DEF Series
      <4> QED
        BY <2>3, <3>2, <4>1, <4>2, RateTrue
    <3> QED
      BY <2>1, <3>1, <3>2
  <2>5. /\ Len(pts) \in Nat /\ DOMAIN pts = 1 .. Len(pts) /\ (pts # <<>> => Len(pts) > 0)
        /\ pts # <<>> => Head(pts) = pts[1] /\ Last(pts) = pts[Len(pts)]
    <3>1. pts \in Seq(Pt)
      BY <2>4 DEF SeriesTrue
    <3> HIDE DEF Pt
    <3> QED
      BY <3>1 DEF Last
  <2>6. \A i \in DOMAIN pts : PointIsTrue(pts[i], days) /\ (i > 1 => pts[i - 1].t < pts[i].t)
    BY <2>4, <2>5 DEF SeriesTrue
  <2>7. (pts = <<>>) = (days = <<>>)
    BY <2>4 DEF SeriesTrue
  <2>8. pts # <<>> => /\ Head(pts).v > 0 /\ Last(pts).v > 0
                      /\ \A i \in DOMAIN days : Head(pts).t <= days[i]
                      /\ job.plugin = "stars" => Last(pts).v = out.total
    BY <2>3, <2>4, <2>5 DEF SeriesTrue
  <2>9. job.plugin = "rate" /\ Cardinality(Starts[job.period]) <= maxPoints =>
          FoldLeft(LAMBDA n, p : n + p.v, 0, pts) = out.total
    BY <2>3, <2>4 DEF Total
  <2> QED
    BY <2>4, <2>6, <2>7, <2>8, <2>9, Zenon DEF SeriesAccountsForAll, pts, days
<1> QED
  BY <1>1, <1>2, <1>3, ActivityInvariant, PTL DEF Spec
=============================================================================
