------------------------- MODULE SnapshooterProofs -------------------------
(***************************************************************************)
(* For any policies, widths of buckets and repositories: the snapshooter   *)
(* never deletes the newest snapshot, nor those of the hours its policy    *)
(* keeps whole.  The folds of Retention are recursive functions; that they *)
(* are defined, and what they compute, is shown by induction over the      *)
(* natural numbers, here a lemma about sets of them.                       *)
(***************************************************************************)
EXTENDS Snapshooter, FiniteSetTheorems, WellFoundedInduction, TLAPS

-----------------------------------------------------------------------------
(* Natural numbers, and the folds.                                         *)

LEMMA Minimal ==
  ASSUME NEW S \in SUBSET Nat, S # {}
  PROVE  \E x \in S : \A y \in S : x <= y
<1>. DEFINE Less == {p \in Nat \X Nat : p[1] < p[2]}
<1>1. IsWellFoundedOn(Less, Nat)
  BY NatLessThanWellFounded DEF OpToRel
<1>. HIDE DEF Less
<1>2. PICK x \in S : \A y \in S : ~ (<<y, x>> \in Less)
  BY <1>1, WFMin
<1>3. \A y, z \in Nat : <<y, z>> \in Less <=> y < z
  BY DEF Less
<1>4. \A y \in S : x <= y
  <2>. TAKE y \in S
  <2>1. x \in Nat /\ y \in Nat
    OBVIOUS
  <2>2. ~(y < x)
    BY <1>2, <1>3, <2>1
  <2>. QED
    BY <2>1, <2>2
<1>. QED
  BY <1>4

\* A set of numbers that has 0 and, with each number, the next, has all of them.
LEMMA Induct ==
  ASSUME NEW I, 0 \in I, \A k \in Nat : k \in I => k + 1 \in I
  PROVE  \A k \in Nat : k \in I
<1>. DEFINE Out == {k \in Nat : k \notin I}
<1>1. SUFFICES ASSUME Out # {} PROVE FALSE
  OBVIOUS
<1>2. PICK x \in Out : \A y \in Out : x <= y
  BY <1>1, Minimal
<1>3. x # 0 /\ x \in Nat /\ x \notin I
  OBVIOUS
<1>4. x - 1 \in Nat /\ x - 1 \notin Out
  BY <1>2, <1>3
<1>. QED
  BY <1>3, <1>4

LEMMA MinIs ==
  ASSUME NEW S \in SUBSET Nat, S # {}
  PROVE  Min(S) \in S /\ \A y \in S : Min(S) <= y
BY Minimal DEF Min

LEMMA MaxIs ==
  ASSUME NEW S \in SUBSET Int, NEW x \in S, \A y \in S : y <= x
  PROVE  Max(S) = x
<1>1. PICK m \in S : m = Max(S) /\ \A y \in S : m >= y
  BY DEF Max
<1>. QED
  BY <1>1

\* A set of numbers that is bounded has a greatest.
LEMMA BoundedMax ==
  ASSUME NEW n \in Nat, NEW S \in SUBSET (0..n), S # {}
  PROVE  Max(S) \in S /\ \A y \in S : y <= Max(S)
<1>. DEFINE D == {d \in Nat : n - d \in S}
<1>1. D \in SUBSET Nat /\ D # {}
  <2>1. PICK y \in S : TRUE
    OBVIOUS
  <2>2. n - y \in Nat /\ n - (n - y) = y
    BY <2>1
  <2>. QED
    BY <2>1, <2>2
<1>2. PICK d \in D : \A e \in D : d <= e
  BY <1>1, Minimal
<1>3. n - d \in S
  OBVIOUS
<1>4. \A y \in S : y <= n - d
  <2>. TAKE y \in S
  <2>1. y \in 0..n /\ n - y \in Nat /\ n - (n - y) = y
    OBVIOUS
  <2>2. d <= n - y /\ d \in Nat
    BY <1>2, <2>1
  <2>. QED
    BY <2>1, <2>2
<1>. QED
  BY <1>3, <1>4, MaxIs

LEMMA MaxOfInterval ==
  ASSUME NEW k \in Nat \ {0}
  PROVE  Max(1..k) = k
<1>1. 1..k \in SUBSET Int /\ k \in 1..k /\ \A y \in 1..k : y <= k
  OBVIOUS
<1>. QED
  BY <1>1, MaxIs

\* F computes a fold step by step: from base, by one step for each number up to n.
Runs(F, n, A, base, step) ==
  /\ F \in [0..n -> A] /\ F[0] = base
  /\ \A k \in 1..n : F[k] = step[<<F[k - 1], k>>]

RunsTo(F, result, n, A, base, step) == Runs(F, n, A, base, step) /\ F[n] = result

\* f computes it on any set of numbers, as FoldLeft does.
Folds(f, n, A, base, step) ==
  /\ f \in [SUBSET (1..n) -> A] /\ f[{}] = base
  /\ \A s \in SUBSET (1..n) : s # {} => f[s] = step[<<f[s \ {Max(s)}], Max(s)>>]

\* All that matters of such a function.
FoldsOn(f, n, A, base, step) ==
  /\ f[{}] = base
  /\ \A s \in SUBSET (1..n) : s # {} /\ f[s \ {Max(s)}] \in A =>
       f[s] = step[<<f[s \ {Max(s)}], Max(s)>>]

\* The recursive function of a fold over a sequence exists.
LEMMA FoldExists ==
  ASSUME NEW n \in Nat, NEW A, NEW base \in A, NEW step \in [A \X (1..n) -> A]
  PROVE  \E f : Folds(f, n, A, base, step)
<1>. DEFINE Upto(k) == {s \in SUBSET (1..n) : s \subseteq 1..k}
            Good(k, f) == f = [s \in Upto(k) |->
                                 IF s = {} THEN base ELSE step[<<f[s \ {Max(s)}], Max(s)>>]]
            I == {k \in Nat : \E f \in [Upto(k) -> A] : Good(k, f)}
<1>1. \A s \in SUBSET (1..n) : s # {} => Max(s) \in s /\ \A y \in s : y <= Max(s)
  <2>. TAKE s \in SUBSET (1..n)
  <2>1. s \in SUBSET (0..n)
    OBVIOUS
  <2>. QED
    BY <2>1, BoundedMax
<1>2. 0 \in I
  <2>. DEFINE f == [s \in Upto(0) |-> base]
  <2>1. Upto(0) = {{}}
    OBVIOUS
  <2>2. f \in [Upto(0) -> A] /\ Good(0, f)
    BY <2>1
  <2>. QED
    BY <2>2
<1>3. ASSUME NEW k \in Nat, k \in I PROVE k + 1 \in I
  <2>1. PICK f \in [Upto(k) -> A] : Good(k, f)
    BY <1>3
  <2>. DEFINE g == [s \in Upto(k + 1) |->
                      IF s = {} THEN base ELSE step[<<f[s \ {Max(s)}], Max(s)>>]]
  <2>2. \A s \in Upto(k + 1) : s # {} => s \ {Max(s)} \in Upto(k) /\ Max(s) \in 1..n
    <3>. TAKE s \in Upto(k + 1)
    <3>. HAVE s # {}
    <3>1. Max(s) \in s /\ \A y \in s : y <= Max(s) /\ y \in 1..n /\ y \in 1..k + 1
      BY <1>1
    <3>2. ASSUME NEW y \in s, y # Max(s) PROVE y \in 1..k
      <4>1. y \in 1..k + 1 /\ Max(s) \in 1..k + 1 /\ y <= Max(s)
        BY <3>1
      <4>. QED
        BY <3>2, <4>1
    <3>. QED
      BY <3>1, <3>2
  <2>3. g \in [Upto(k + 1) -> A]
    BY <2>1, <2>2
  <2>4. \A s \in Upto(k) : s \in Upto(k + 1) /\ g[s] = f[s]
    <3>. TAKE s \in Upto(k)
    <3>1. s \in Upto(k + 1)
      OBVIOUS
    <3>2. f[s] = IF s = {} THEN base ELSE step[<<f[s \ {Max(s)}], Max(s)>>]
      BY <2>1
    <3>. QED
      BY <3>1, <3>2
  <2>5. Good(k + 1, g)
    BY <2>2, <2>4
  <2>. HIDE DEF g, Good, Upto
  <2>. QED
    BY <2>3, <2>5
<1>4. n \in I
  <2>. HIDE DEF I
  <2>. QED
    BY <1>2, <1>3, Induct
<1>5. Upto(n) = SUBSET (1..n)
  OBVIOUS
<1>6. PICK f \in [Upto(n) -> A] : Good(n, f)
  BY <1>4
<1>7. \A s \in Upto(n) :
        f[s] = IF s = {} THEN base ELSE step[<<f[s \ {Max(s)}], Max(s)>>]
  BY <1>6
<1>. HIDE DEF Upto
<1>. QED
  BY <1>5, <1>6, <1>7 DEF Folds

-----------------------------------------------------------------------------
(* Sequences of times.                                                     *)

LEMMA Times ==
  ASSUME NEW s \in Seq(Nat)
  PROVE  /\ ToSet(s) \in SUBSET Nat /\ IsFiniteSet(ToSet(s))
         /\ s # <<>> => ToSet(s) # {}
<1>1. ToSet(s) \in SUBSET Nat /\ (s # <<>> => ToSet(s) # {})
  <2>1. DOMAIN s = 1..Len(s) /\ Len(s) \in Nat /\ \A i \in 1..Len(s) : s[i] \in Nat
    OBVIOUS
  <2>2. s # <<>> => 1 \in 1..Len(s)
    OBVIOUS
  <2>. QED
    BY <2>1, <2>2 DEF ToSet
<1>2. s \in Surjection(1..Len(s), ToSet(s))
  BY DEF ToSet, Surjection
<1>3. IsFiniteSet(1..Len(s))
  BY FS_Interval
<1>. QED
  BY <1>1, <1>2, <1>3, FS_Surjection

LEMMA Concat ==
  ASSUME NEW A, NEW s \in Seq(A), NEW t \in Seq(A)
  PROVE  /\ s \o t \in Seq(A) /\ Len(s \o t) = Len(s) + Len(t)
         /\ \A j \in 1..Len(s) : (s \o t)[j] = s[j]
OBVIOUS

LEMMA Single ==
  ASSUME NEW A, NEW x \in A
  PROVE  <<x>> \in Seq(A) /\ ToSet(<<x>>) = {x}
<1>1. <<x>> \in Seq(A) /\ DOMAIN <<x>> = {1} /\ <<x>>[1] = x
  OBVIOUS
<1>. QED
  BY <1>1 DEF ToSet

LEMMA RangeOfConcat ==
  ASSUME NEW A, NEW s \in Seq(A), NEW t \in Seq(A)
  PROVE  ToSet(s \o t) = ToSet(s) \cup ToSet(t)
<1>1. DOMAIN s = 1..Len(s) /\ DOMAIN t = 1..Len(t) /\ Len(s) \in Nat /\ Len(t) \in Nat
  OBVIOUS
<1>2. DOMAIN (s \o t) = 1..Len(s) + Len(t)
  OBVIOUS
<1>3. \A i \in 1..Len(s) + Len(t) :
        (s \o t)[i] = IF i <= Len(s) THEN s[i] ELSE t[i - Len(s)]
  OBVIOUS
<1>4. ToSet(s \o t) \subseteq ToSet(s) \cup ToSet(t)
  BY <1>1, <1>2, <1>3 DEF ToSet
<1>5. ToSet(s) \subseteq ToSet(s \o t)
  BY <1>1, <1>2, <1>3 DEF ToSet
<1>6. ToSet(t) \subseteq ToSet(s \o t)
  <2>. SUFFICES ASSUME NEW i \in 1..Len(t) PROVE \E j \in 1..Len(s) + Len(t) : (s \o t)[j] = t[i]
    BY <1>1, <1>2 DEF ToSet
  <2>1. Len(s) + i \in 1..Len(s) + Len(t) /\ ~(Len(s) + i <= Len(s)) /\ (Len(s) + i) - Len(s) = i
    BY <1>1
  <2>. QED
    BY <1>3, <2>1
<1>. QED
  BY <1>4, <1>5, <1>6

\* Sorted puts a set in order.
LEMMA SortedHas ==
  ASSUME NEW S \in SUBSET Nat, IsFiniteSet(S)
  PROVE  Sorted(S) \in Seq(Nat) /\ ToSet(Sorted(S)) = S
<1>. DEFINE n == Cardinality(S)
            Below(t) == {u \in S : u < t}
            rank == [t \in S |-> Cardinality(Below(t)) + 1]
<1>1. n \in Nat
  BY FS_CardinalityType
<1>2. ASSUME NEW t \in S
      PROVE  /\ IsFiniteSet(Below(t)) /\ Cardinality(Below(t)) \in Nat
             /\ IsFiniteSet(Below(t) \cup {t})
             /\ Cardinality(Below(t) \cup {t}) = Cardinality(Below(t)) + 1
  <2>1. IsFiniteSet(Below(t)) /\ t \notin Below(t)
    BY <1>2, FS_Subset
  <2>. HIDE DEF Below
  <2>. QED
    BY <2>1, FS_CardinalityType, FS_AddElement
<1>3. rank \in [S -> 1..n]
  <2>. SUFFICES ASSUME NEW t \in S PROVE Cardinality(Below(t)) + 1 \in 1..n
    OBVIOUS
  <2>1. Below(t) \cup {t} \in SUBSET S
    OBVIOUS
  <2>2. Cardinality(Below(t) \cup {t}) <= n
    BY <2>1, FS_Subset
  <2>. HIDE DEF Below
  <2>. QED
    BY <1>1, <1>2, <2>2
<1>4. ASSUME NEW t \in S, NEW u \in S, t < u PROVE rank[t] < rank[u]
  <2>1. Below(t) \cup {t} \in SUBSET Below(u)
    <3>1. \A v \in S : v < t => v < u
      BY <1>4
    <3>. QED
      BY <1>4, <3>1
  <2>2. Cardinality(Below(t) \cup {t}) <= Cardinality(Below(u))
    BY <1>2, <2>1, FS_Subset
  <2>3. Cardinality(Below(t)) \in Nat /\ Cardinality(Below(u)) \in Nat
    BY <1>2
  <2>. HIDE DEF Below
  <2>. QED
    BY <1>2, <2>2, <2>3
<1>5. \A t, u \in S : rank[t] = rank[u] => t = u
  <2>. TAKE t, u \in S
  <2>1. t \in Nat /\ u \in Nat /\ rank[t] \in Nat /\ rank[u] \in Nat
    BY <1>3
  <2>2. (t < u => rank[t] < rank[u]) /\ (u < t => rank[u] < rank[t])
    BY <1>4
  <2>. HIDE DEF rank
  <2>. QED
    BY <2>1, <2>2
<1>. HIDE DEF rank
<1>6. rank \in Injection(S, 1..n)
  BY <1>3, <1>5 DEF Injection, IsInjective
<1>7. IsFiniteSet(1..n) /\ Cardinality(1..n) = n
  BY <1>1, FS_Interval
<1>8. rank \in Surjection(S, 1..n)
  BY <1>6, <1>7, FS_Injection
<1>9. \A i \in 1..n : \E t \in S : rank[t] = i
  BY <1>8 DEF Surjection
<1>10. \A i \in 1..n : Sorted(S)[i] \in S /\ rank[Sorted(S)[i]] = i
  <2>. TAKE i \in 1..n
  <2>1. Sorted(S)[i] = CHOOSE t \in S : Cardinality(Below(t)) = i - 1
    BY DEF Sorted
  <2>2. \A t \in S : rank[t] = i <=> Cardinality(Below(t)) = i - 1
    <3>. TAKE t \in S
    <3>1. rank[t] = Cardinality(Below(t)) + 1 /\ Cardinality(Below(t)) \in Nat
      BY <1>2 DEF rank
    <3>. HIDE DEF Below
    <3>. QED
      BY <1>1, <3>1
  <2>. HIDE DEF Below
  <2>. QED
    BY <1>9, <2>1, <2>2
<1>11. Sorted(S) = [i \in 1..n |-> Sorted(S)[i]]
  <2>. DEFINE at(i) == CHOOSE t \in S : Cardinality(Below(t)) = i - 1
  <2>1. Sorted(S) = [i \in 1..n |-> at(i)]
    BY DEF Sorted
  <2>. HIDE DEF at
  <2>. QED
    BY <2>1
<1>12. Sorted(S) \in [1..n -> S] /\ DOMAIN Sorted(S) = 1..n
  BY <1>10, <1>11
<1>13. Sorted(S) \in Seq(Nat)
  <2>1. Sorted(S) \in [1..n -> Nat]
    BY <1>12
  <2>. QED
    BY <1>1, <2>1
<1>14. \A t \in S : \E i \in 1..n : Sorted(S)[i] = t
  <2>. TAKE t \in S
  <2>1. rank[t] \in 1..n
    BY <1>3
  <2>. QED
    BY <1>5, <1>10, <2>1
<1>. QED
  BY <1>12, <1>13, <1>14 DEF ToSet

\* What the function of a fold is on the sequence's beginnings.
LEMMA FoldSteps ==
  ASSUME NEW n \in Nat, NEW A, NEW base \in A, NEW step \in [A \X (1..n) -> A],
         NEW f, FoldsOn(f, n, A, base, step)
  PROVE  \E F : RunsTo(F, f[1..n], n, A, base, step)
<1>. DEFINE F == [k \in 0..n |-> f[1..k]]
            I == {k \in Nat : k <= n => F[k] \in A}
<1>1. F[0] = base /\ F[n] = f[1..n]
  <2>1. 1..0 = {}
    OBVIOUS
  <2>. QED
    BY <2>1 DEF FoldsOn
<1>2. ASSUME NEW k \in 1..n, F[k - 1] \in A PROVE F[k] = step[<<F[k - 1], k>>] /\ F[k] \in A
  <2>1. 1..k \in SUBSET (1..n) /\ 1..k # {} /\ Max(1..k) = k
    <3>1. k \in Nat \ {0} /\ 1..k \in SUBSET (1..n) /\ k \in 1..k
      OBVIOUS
    <3>. QED
      BY <3>1, MaxOfInterval
  <2>2. (1..k) \ {k} = 1..(k - 1)
    OBVIOUS
  <2>3. F[k] = f[1..k] /\ F[k - 1] = f[1..(k - 1)]
    OBVIOUS
  <2>. HIDE DEF F
  <2>. QED
    BY <1>2, <2>1, <2>2, <2>3 DEF FoldsOn
<1>3. 0 \in I
  BY <1>1
<1>4. ASSUME NEW k \in Nat, k \in I PROVE k + 1 \in I
  <2>1. CASE k + 1 <= n
    <3>1. k + 1 \in 1..n /\ F[(k + 1) - 1] \in A
      <4>1. (k + 1) - 1 = k /\ F[k] \in A
        BY <1>4, <2>1
      <4>. HIDE DEF F
      <4>. QED
        BY <2>1, <4>1
    <3>. HIDE DEF F
    <3>2. F[k + 1] \in A
      BY <1>2, <3>1
    <3>. QED
      BY <3>2
  <2>. QED
    BY <2>1
<1>5. \A k \in 0..n : F[k] \in A
  <2>1. \A k \in Nat : k \in I
    <3>. HIDE DEF I
    <3>. QED
      BY <1>3, <1>4, Induct
  <2>. HIDE DEF F
  <2>. QED
    BY <2>1
<1>6. F \in [0..n -> A]
  BY <1>5
<1>7. \A k \in 1..n : F[k] = step[<<F[k - 1], k>>]
  <2>. HIDE DEF F
  <2>. QED
    BY <1>2, <1>5
<1>. HIDE DEF F
<1>. QED
  BY <1>1, <1>6, <1>7 DEF Runs, RunsTo

LEMMA FoldRuns ==
  ASSUME NEW n \in Nat, NEW A, NEW base \in A, NEW step \in [A \X (1..n) -> A]
  PROVE  \E F : Runs(F, n, A, base, step)
<1>1. PICK f : Folds(f, n, A, base, step)
  BY FoldExists
<1>. QED
  <2>1. FoldsOn(f, n, A, base, step)
    BY <1>1 DEF Folds, FoldsOn
  <2>. QED
    BY <2>1, FoldSteps DEF RunsTo

-----------------------------------------------------------------------------
(* Sequences of sequences.                                                 *)

Flattens(F, seqs, n, A) ==
  /\ F \in [1..n -> Seq(A)] /\ F[1] = seqs[1] /\ FlattenSeq(seqs) = F[n]
  /\ \A k \in 2..n : F[k] = F[k - 1] \o seqs[k]

LEMMA FlattenSteps ==
  ASSUME NEW A, NEW n \in Nat \ {0}, NEW seqs \in [1..n -> Seq(A)]
  PROVE  \E F : Flattens(F, seqs, n, A)
<1>. DEFINE Eq(f) == f = [i \in 1..n |-> IF i = 1 THEN seqs[i] ELSE f[i - 1] \o seqs[i]]
            step == [p \in Seq(A) \X (1..n) |-> p[1] \o seqs[p[2]]]
<1>1. n \in Nat /\ step \in [Seq(A) \X (1..n) -> Seq(A)] /\ <<>> \in Seq(A)
  OBVIOUS
<1>2. \E f : Eq(f)
  <2>1. PICK F : Runs(F, n, Seq(A), <<>>, step)
    <3>. HIDE DEF step
    <3>. QED
      BY <1>1, FoldRuns
  <2>2. /\ F \in [0..n -> Seq(A)] /\ F[0] = <<>>
        /\ \A k \in 1..n : F[k] = step[<<F[k - 1], k>>]
    BY <2>1 DEF Runs
  <2>3. ASSUME NEW k \in 1..n PROVE F[k] = F[k - 1] \o seqs[k]
    <3>1. F[k] = step[<<F[k - 1], k>>] /\ F[k - 1] \in Seq(A)
      <4>1. k - 1 \in 0..n
        OBVIOUS
      <4>. HIDE DEF step
      <4>. QED
        BY <2>2, <4>1
    <3>. QED
      BY <3>1
  <2>. DEFINE g == [i \in 1..n |-> F[i]]
  <2>4. \A i \in 1..n : g[i] = IF i = 1 THEN seqs[i] ELSE g[i - 1] \o seqs[i]
    <3>. TAKE i \in 1..n
    <3>1. CASE i = 1
      <4>1. F[1] = F[0] \o seqs[1]
        <5>1. 1 \in 1..n /\ 1 - 1 = 0
          OBVIOUS
        <5>. QED
          BY <2>3, <5>1
      <4>2. <<>> \o seqs[1] = seqs[1]
        OBVIOUS
      <4>. QED
        BY <2>2, <3>1, <4>1, <4>2
    <3>2. CASE i # 1
      <4>1. i - 1 \in 1..n /\ F[i] = F[i - 1] \o seqs[i]
        <5>1. i - 1 \in 1..n
          BY <3>2
        <5>. QED
          BY <2>3, <5>1
      <4>. QED
        BY <3>2, <4>1
    <3>. QED
      BY <3>1, <3>2
  <2>5. Eq(g)
    <3>1. g = [i \in 1..n |-> g[i]]
      OBVIOUS
    <3>. HIDE DEF g
    <3>. QED
      BY <2>4, <3>1
  <2>. QED
    BY <2>5
<1>. DEFINE F == CHOOSE f : Eq(f)
<1>3. Eq(F)
  BY <1>2
<1>4. seqs \in Seq(Seq(A)) /\ Len(seqs) = n
  OBVIOUS
<1>5. FlattenSeq(seqs) = F[n]
  BY <1>4 DEF FlattenSeq
<1>. HIDE DEF F
<1>6. F[1] = seqs[1] /\ \A k \in 2..n : F[k] = F[k - 1] \o seqs[k]
  <2>1. \A i \in 1..n : F[i] = IF i = 1 THEN seqs[i] ELSE F[i - 1] \o seqs[i]
    BY <1>3
  <2>2. 1 \in 1..n /\ \A k \in 2..n : k \in 1..n /\ k # 1
    OBVIOUS
  <2>. QED
    BY <2>1, <2>2
<1>7. \A k \in Nat : k \in {j \in Nat : j \in 1..n => F[j] \in Seq(A)}
  <2>. DEFINE I == {k \in Nat : k \in 1..n => F[k] \in Seq(A)}
  <2>1. ASSUME NEW k \in Nat, k \in I PROVE k + 1 \in I
    <3>1. CASE k = 0
      BY <1>6, <3>1
    <3>2. CASE k # 0 /\ k + 1 \in 1..n
      <4>1. k + 1 \in 2..n /\ (k + 1) - 1 = k /\ F[k] \in Seq(A)
        BY <2>1, <3>2
      <4>2. F[k + 1] = F[k] \o seqs[k + 1]
        BY <1>6, <4>1
      <4>3. F[k + 1] \in Seq(A)
        BY <4>1, <4>2
      <4>. QED
        BY <4>3
    <3>. QED
      BY <3>1, <3>2
  <2>2. 0 \in I
    OBVIOUS
  <2>. HIDE DEF I
  <2>3. \A k \in Nat : k \in I
    BY <2>1, <2>2, Induct
  <2>. QED
    BY <2>3 DEF I
<1>8. F \in [1..n -> Seq(A)]
  <2>1. F = [i \in 1..n |-> IF i = 1 THEN seqs[i] ELSE F[i - 1] \o seqs[i]]
    BY <1>3
  <2>2. \A k \in 1..n : F[k] \in Seq(A)
    BY <1>7
  <2>. QED
    BY <2>1, <2>2
<1>. QED
  BY <1>5, <1>6, <1>8 DEF Flattens

\* All the sequences are in the flattened one, the first at its beginning.
LEMMA Flattened ==
  ASSUME NEW A, NEW n \in Nat \ {0}, NEW seqs \in [1..n -> Seq(A)]
  PROVE  /\ FlattenSeq(seqs) \in Seq(A)
         /\ \A k \in 1..n : ToSet(seqs[k]) \subseteq ToSet(FlattenSeq(seqs))
         /\ Len(seqs[1]) <= Len(FlattenSeq(seqs))
         /\ \A j \in 1..Len(seqs[1]) : FlattenSeq(seqs)[j] = seqs[1][j]
<1>0. PICK F : Flattens(F, seqs, n, A)
  BY FlattenSteps
<1>1. /\ F \in [1..n -> Seq(A)] /\ F[1] = seqs[1] /\ FlattenSeq(seqs) = F[n]
      /\ \A k \in 2..n : F[k] = F[k - 1] \o seqs[k]
  BY <1>0 DEF Flattens
<1>. DEFINE Begins(k) == /\ Len(seqs[1]) <= Len(F[k])
                         /\ \A j \in 1..Len(seqs[1]) : F[k][j] = seqs[1][j]
            Has2(k) == \A i \in 1..k : ToSet(seqs[i]) \subseteq ToSet(F[k])
            I == {k \in Nat : k \in 1..n => Begins(k) /\ Has2(k)}
<1>2. 0 \in I
  OBVIOUS
<1>3. ASSUME NEW k \in Nat, k \in I, k + 1 \in 1..n PROVE Begins(k + 1) /\ Has2(k + 1)
  <2>1. CASE k = 0
    <3>1. Len(seqs[1]) \in Nat
      OBVIOUS
    <3>. QED
      BY <1>1, <2>1, <3>1
  <2>2. CASE k # 0
    <3>1. k \in 1..n /\ k + 1 \in 2..n /\ (k + 1) - 1 = k
      BY <1>3, <2>2
    <3>2. F[k + 1] = F[k] \o seqs[k + 1]
      BY <1>1, <3>1
    <3>3. F[k] \in Seq(A) /\ seqs[k + 1] \in Seq(A) /\ seqs[1] \in Seq(A)
      BY <1>1, <3>1
    <3>4. Begins(k) /\ Has2(k)
      BY <1>3, <3>1
    <3>5. ToSet(F[k + 1]) = ToSet(F[k]) \cup ToSet(seqs[k + 1])
      BY <3>2, <3>3, RangeOfConcat
    <3>6. Has2(k + 1)
      <4>. SUFFICES ASSUME NEW i \in 1..k + 1 PROVE ToSet(seqs[i]) \subseteq ToSet(F[k + 1])
        OBVIOUS
      <4>1. CASE i = k + 1
        BY <3>5, <4>1
      <4>2. CASE i \in 1..k
        BY <3>4, <3>5, <4>2
      <4>. QED
        BY <4>1, <4>2
    <3>7. Begins(k + 1)
      <4>. DEFINE a == F[k]
                  b == seqs[k + 1]
                  e == seqs[1]
      <4>1. a \in Seq(A) /\ b \in Seq(A) /\ e \in Seq(A) /\ F[k + 1] = a \o b
        BY <3>2, <3>3
      <4>2. Len(e) <= Len(a) /\ \A j \in 1..Len(e) : a[j] = e[j]
        BY <3>4
      <4>. HIDE DEF a, b, e
      <4>3. Len(a \o b) = Len(a) + Len(b) /\ \A j \in 1..Len(a) : (a \o b)[j] = a[j]
        BY <4>1, Concat
      <4>4. Len(a) \in Nat /\ Len(b) \in Nat /\ Len(e) \in Nat
        BY <4>1
      <4>5. Len(e) <= Len(a \o b) /\ \A j \in 1..Len(e) : j \in 1..Len(a)
        BY <4>2, <4>3, <4>4
      <4>6. \A j \in 1..Len(e) : (a \o b)[j] = e[j]
        BY <4>2, <4>3, <4>5
      <4>. QED
        BY <4>1, <4>5, <4>6 DEF e
    <3>. QED
      BY <3>6, <3>7
  <2>. QED
    BY <2>1, <2>2
<1>4. \A k \in Nat : k \in I
  <2>1. ASSUME NEW k \in Nat, k \in I PROVE k + 1 \in I
    <3>. HIDE DEF Begins, Has2
    <3>. QED
      BY <1>3, <2>1
  <2>. HIDE DEF I
  <2>. QED
    BY <1>2, <2>1, Induct
<1>5. Begins(n) /\ Has2(n)
  <2>. HIDE DEF Begins, Has2
  <2>. QED
    BY <1>4
<1>. QED
  BY <1>1, <1>5

FirstOf(i, seqs) == seqs[i] # <<>> /\ \A k \in 1..i - 1 : seqs[k] = <<>>

\* The flattened sequence begins with the first that is not empty.
LEMMA FlattenedFirst ==
  ASSUME NEW A, NEW n \in Nat \ {0}, NEW seqs \in [1..n -> Seq(A)],
         NEW i \in 1..n, FirstOf(i, seqs)
  PROVE  FlattenSeq(seqs)[1] = seqs[i][1]
<1>0. seqs[i] # <<>> /\ \A k \in 1..i - 1 : seqs[k] = <<>>
  BY DEF FirstOf
<1>1. PICK F : Flattens(F, seqs, n, A)
  BY FlattenSteps
<1>2. /\ F \in [1..n -> Seq(A)] /\ F[1] = seqs[1] /\ FlattenSeq(seqs) = F[n]
      /\ \A k \in 2..n : F[k] = F[k - 1] \o seqs[k]
  BY <1>1 DEF Flattens
<1>. DEFINE Begins(k) == /\ k < i => F[k] = <<>>
                         /\ k >= i => F[k] # <<>> /\ F[k][1] = seqs[i][1]
            I == {k \in Nat : k \in 1..n => Begins(k)}
<1>3. ASSUME NEW k \in Nat, k \in I, k + 1 \in 1..n PROVE Begins(k + 1)
  <2>. DEFINE first == seqs[i]
  <2>1. k + 1 < i => seqs[k + 1] = <<>>
    <3>1. k + 1 < i => k + 1 \in 1..i - 1
      BY <1>3
    <3>. QED
      BY <1>0, <3>1
  <2>2. CASE k = 0
    <3>1. F[k + 1] = seqs[k + 1]
      BY <1>2, <2>2
    <3>2. k + 1 >= i => k + 1 = i
      BY <2>2
    <3>. QED
      BY <1>0, <2>1, <3>1, <3>2
  <2>3. CASE k # 0
    <3>1. k \in 1..n /\ k + 1 \in 2..n /\ (k + 1) - 1 = k
      BY <1>3, <2>3
    <3>2. F[k + 1] = F[k] \o seqs[k + 1] /\ F[k] \in Seq(A) /\ seqs[k + 1] \in Seq(A)
      <4>1. F[k] \in Seq(A) /\ seqs[k + 1] \in Seq(A)
        BY <1>2, <1>3, <3>1
      <4>2. F[k + 1] = F[(k + 1) - 1] \o seqs[k + 1]
        BY <1>2, <3>1
      <4>. QED
        BY <3>1, <4>1, <4>2
    <3>3. Begins(k)
      BY <1>3, <3>1
    <3>4. ASSUME NEW a \in Seq(A), NEW b \in Seq(A)
          PROVE  /\ a = <<>> => a \o b = b
                 /\ a # <<>> => a \o b # <<>> /\ (a \o b)[1] = a[1]
      <4>1. a = <<>> => a \o b = b
        OBVIOUS
      <4>2. ASSUME a # <<>> PROVE a \o b # <<>> /\ (a \o b)[1] = a[1]
        <5>1. 1 \in 1..Len(a) /\ Len(a \o b) # 0
          BY <4>2
        <5>. QED
          BY <5>1
      <4>. QED
        BY <4>1, <4>2
    <3>5. CASE k < i
      <4>1. F[k + 1] = seqs[k + 1]
        BY <3>2, <3>3, <3>4, <3>5
      <4>2. k + 1 >= i => k + 1 = i
        BY <3>1, <3>5
      <4>. QED
        BY <1>0, <2>1, <4>1, <4>2
    <3>6. CASE k >= i
      <4>1. F[k + 1] # <<>> /\ F[k + 1][1] = F[k][1]
        BY <3>2, <3>3, <3>4, <3>6
      <4>2. ~(k + 1 < i)
        BY <3>6
      <4>. QED
        BY <3>3, <3>6, <4>1, <4>2
    <3>. QED
      BY <3>5, <3>6
  <2>. QED
    BY <2>2, <2>3
<1>4. n \in I
  <2>1. 0 \in I
    OBVIOUS
  <2>2. ASSUME NEW k \in Nat, k \in I PROVE k + 1 \in I
    <3>1. k + 1 \in 1..n => Begins(k + 1)
      BY <1>3, <2>2
    <3>. HIDE DEF Begins
    <3>. QED
      BY <3>1
  <2>. HIDE DEF I
  <2>. QED
    BY <2>1, <2>2, Induct
<1>5. Begins(n)
  <2>1. n \in 1..n
    OBVIOUS
  <2>. HIDE DEF Begins
  <2>. QED
    BY <1>4, <2>1
<1>. QED
  BY <1>2, <1>5

-----------------------------------------------------------------------------
(* The folds of Retention.                                                 *)

Accumulated == [panic : BOOLEAN, series : Seq(Nat)]

LEMMA PushType ==
  ASSUME NEW acc \in Accumulated, NEW times \in Seq(Nat)
  PROVE  /\ Push(acc, times) \in Accumulated
         /\ ~Push(acc, times).panic =>
              /\ ~acc.panic
              /\ ToSet(Push(acc, times).series) = ToSet(acc.series) \cup ToSet(times)
<1>1. acc.panic \in BOOLEAN /\ acc.series \in Seq(Nat)
  BY DEF Accumulated
<1>2. CASE acc.panic \/ times = <<>>
  <2>1. Push(acc, times) = acc
    BY <1>2 DEF Push
  <2>2. times = <<>> => ToSet(times) = {}
    BY DEF ToSet
  <2>. QED
    BY <1>2, <2>1, <2>2
<1>3. CASE ~acc.panic /\ times # <<>>
  <2>. DEFINE s == acc.series \o times
              oldest == Min(ToSet(s))
              first == IF Cardinality({i \in DOMAIN s : s[i] = oldest}) > 1 THEN <<oldest>> ELSE <<>>
              series == first \o Sorted(ToSet(s))
  <2>1. Push(acc, times) = Squash(s)
    BY <1>3 DEF Push
  <2>2. s \in Seq(Nat) /\ ToSet(s) = ToSet(acc.series) \cup ToSet(times)
    BY <1>1, RangeOfConcat
  <2>3. ToSet(s) \in SUBSET Nat /\ IsFiniteSet(ToSet(s)) /\ ToSet(s) # {}
    BY <1>3, <2>2, Times
  <2>4. oldest \in ToSet(s) /\ oldest \in Nat
    BY <2>3, MinIs
  <2>5. first \in Seq(Nat) /\ ToSet(first) \subseteq ToSet(s)
    <3>1. <<oldest>> \in Seq(Nat) /\ ToSet(<<oldest>>) = {oldest}
      <4>. HIDE DEF oldest
      <4>. QED
        BY <2>4, Single
    <3>2. <<>> \in Seq(Nat) /\ ToSet(<<>>) = {}
      BY DEF ToSet
    <3>. QED
      BY <2>4, <3>1, <3>2
  <2>6. Sorted(ToSet(s)) \in Seq(Nat) /\ ToSet(Sorted(ToSet(s))) = ToSet(s)
    BY <2>3, SortedHas
  <2>. HIDE DEF first, oldest, s
  <2>7. series \in Seq(Nat) /\ ToSet(series) = ToSet(s)
    <3>. DEFINE sorted == Sorted(ToSet(s))
    <3>1. sorted \in Seq(Nat) /\ ToSet(sorted) = ToSet(s)
      BY <2>6
    <3>. HIDE DEF sorted
    <3>2. first \o sorted \in Seq(Nat) /\ ToSet(first \o sorted) = ToSet(first) \cup ToSet(sorted)
      BY <2>5, <3>1, Concat, RangeOfConcat
    <3>3. series = first \o sorted
      BY DEF sorted
    <3>. HIDE DEF series
    <3>. QED
      BY <2>5, <3>1, <3>2, <3>3
  <2>8. Squash(s).series = series /\ Squash(s) \in Accumulated
    <3>1. /\ Squash(s).series = series /\ Squash(s).panic \in BOOLEAN
          /\ Squash(s) = [panic |-> Squash(s).panic, series |-> Squash(s).series]
      BY DEF Squash, first, oldest
    <3>. HIDE DEF series
    <3>. QED
      BY <2>7, <3>1 DEF Accumulated
  <2>. HIDE DEF series
  <2>. QED
    BY <1>3, <2>1, <2>2, <2>7, <2>8
<1>. QED
  BY <1>1, <1>2, <1>3

NoTimes == [panic |-> FALSE, series |-> <<>>]

\* Pushing sequences one after the other drops none of their times.
LEMMA PushFolded ==
  ASSUME NEW seqs \in Seq(Seq(Nat))
  PROVE  /\ FoldLeft(Push, NoTimes, seqs) \in Accumulated
         /\ ~FoldLeft(Push, NoTimes, seqs).panic =>
              \A k \in 1..Len(seqs) :
                ToSet(seqs[k]) \subseteq ToSet(FoldLeft(Push, NoTimes, seqs).series)
<1>. DEFINE n == Len(seqs)
            step == [p \in Accumulated \X (1..n) |-> Push(p[1], seqs[p[2]])]
            Eq(f) == f = [s \in SUBSET (1..n) |->
                            IF s = {} THEN NoTimes ELSE Push(f[s \ {Max(s)}], seqs[Max(s)])]
<1>1. n \in Nat /\ DOMAIN seqs = 1..n /\ \A k \in 1..n : seqs[k] \in Seq(Nat)
  OBVIOUS
<1>2. \A acc \in Accumulated, k \in 1..n :
        step[<<acc, k>>] = Push(acc, seqs[k]) /\ Push(acc, seqs[k]) \in Accumulated
  BY <1>1, PushType
<1>3. step \in [Accumulated \X (1..n) -> Accumulated]
  BY <1>1, PushType
<1>4. NoTimes \in Accumulated
  BY DEF NoTimes, Accumulated
<1>. HIDE DEF n, step
<1>5. \E f : Eq(f)
  <2>1. PICK f : Folds(f, n, Accumulated, NoTimes, step)
    BY <1>1, <1>3, <1>4, FoldExists
  <2>2. /\ f \in [SUBSET (1..n) -> Accumulated] /\ f[{}] = NoTimes
        /\ \A s \in SUBSET (1..n) : s # {} => f[s] = step[<<f[s \ {Max(s)}], Max(s)>>]
    BY <2>1 DEF Folds
  <2>3. ASSUME NEW s \in SUBSET (1..n), s # {}
        PROVE  f[s] = Push(f[s \ {Max(s)}], seqs[Max(s)])
    <3>1. s \in SUBSET (0..n)
      BY <1>1
    <3>2. Max(s) \in 1..n
      BY <1>1, <2>3, <3>1, BoundedMax
    <3>. QED
      BY <1>2, <2>2, <2>3, <3>2
  <2>4. Eq(f)
    BY <2>2, <2>3
  <2>. HIDE DEF Eq
  <2>. QED
    BY <2>4
<1>. DEFINE f == CHOOSE f : Eq(f)
<1>6. Eq(f)
  BY <1>5
<1>7. FoldLeft(Push, NoTimes, seqs) = f[1..n]
  BY <1>1 DEF FoldLeft, MapThenFoldSet
<1>. HIDE DEF f
<1>8. PICK F : RunsTo(F, f[1..n], n, Accumulated, NoTimes, step)
  <2>1. f[{}] = NoTimes
    BY <1>6
  <2>2. ASSUME NEW s \in SUBSET (1..n), s # {}, f[s \ {Max(s)}] \in Accumulated
        PROVE  f[s] = step[<<f[s \ {Max(s)}], Max(s)>>]
    <3>1. s \in SUBSET (0..n)
      BY <1>1
    <3>2. Max(s) \in 1..n
      BY <1>1, <2>2, <3>1, BoundedMax
    <3>3. f[s] = Push(f[s \ {Max(s)}], seqs[Max(s)])
      BY <1>6, <2>2
    <3>. QED
      BY <1>2, <2>2, <3>2, <3>3
  <2>3. FoldsOn(f, n, Accumulated, NoTimes, step)
    BY <2>1, <2>2 DEF FoldsOn
  <2>. QED
    BY <1>1, <1>3, <1>4, <2>3, FoldSteps
<1>9. /\ F \in [0..n -> Accumulated] /\ F[0] = NoTimes
      /\ \A k \in 1..n : F[k] = step[<<F[k - 1], k>>]
  BY <1>8 DEF Runs, RunsTo
<1>. DEFINE Pushed(k) == ~F[k].panic => \A i \in 1..k : ToSet(seqs[i]) \subseteq ToSet(F[k].series)
            I == {k \in Nat : k <= n => Pushed(k)}
<1>10. ASSUME NEW k \in Nat, k \in I PROVE k + 1 \in I
  <2>1. SUFFICES ASSUME k + 1 <= n PROVE Pushed(k + 1)
    OBVIOUS
  <2>2. k + 1 \in 1..n /\ k \in 0..n /\ (k + 1) - 1 = k
    BY <1>1, <2>1
  <2>3. Pushed(k)
    BY <1>10, <2>2
  <2>4. F[k + 1] = Push(F[k], seqs[k + 1]) /\ F[k] \in Accumulated
    BY <1>2, <1>9, <2>2
  <2>5. ~F[k + 1].panic =>
          /\ ~F[k].panic
          /\ ToSet(F[k + 1].series) = ToSet(F[k].series) \cup ToSet(seqs[k + 1])
    <3>1. seqs[k + 1] \in Seq(Nat)
      BY <1>1, <2>2
    <3>2. ~Push(F[k], seqs[k + 1]).panic =>
            /\ ~F[k].panic
            /\ ToSet(Push(F[k], seqs[k + 1]).series) = ToSet(F[k].series) \cup ToSet(seqs[k + 1])
      BY <2>4, <3>1, PushType
    <3>. QED
      BY <2>4, <3>2
  <2>6. \A i \in 1..k + 1 : i = k + 1 \/ i \in 1..k
    OBVIOUS
  <2>. QED
    <3>1. SUFFICES ASSUME ~F[k + 1].panic, NEW i \in 1..k + 1
                   PROVE  ToSet(seqs[i]) \subseteq ToSet(F[k + 1].series)
      OBVIOUS
    <3>2. CASE i = k + 1
      BY <2>5, <3>1, <3>2
    <3>3. CASE i \in 1..k
      <4>1. ToSet(seqs[i]) \subseteq ToSet(F[k].series)
        BY <2>3, <2>5, <3>1, <3>3
      <4>. QED
        BY <2>5, <3>1, <4>1
    <3>. QED
      BY <2>6, <3>2, <3>3
<1>11. \A k \in Nat : k \in I
  <2>1. 0 \in I
    OBVIOUS
  <2>. HIDE DEF I
  <2>. QED
    BY <1>10, <2>1, Induct
<1>12. Pushed(n) /\ F[n] \in Accumulated
  <2>1. Pushed(n) /\ n \in 0..n
    <3>. HIDE DEF Pushed
    <3>. QED
      BY <1>1, <1>11
  <2>. HIDE DEF Pushed
  <2>. QED
    BY <1>9, <2>1
<1>. QED
  BY <1>7, <1>8, <1>12 DEF n, RunsTo

\* F are the sums of the beginnings of a sequence of n numbers.
Sums(F, seq, n) ==
  /\ F \in [0..n -> Nat] /\ F[0] = 0
  /\ \A k \in 1..n : F[k] = F[k - 1] + seq[k]

LEMMA SumSteps ==
  ASSUME NEW n \in Nat, NEW seq \in [1..n -> Nat]
  PROVE  \E F : Sums(F, seq, n) /\ FoldLeft(+, 0, seq) = F[n]
<1>. DEFINE step == [p \in Nat \X (1..n) |-> p[1] + seq[p[2]]]
            Eq(f) == f = [s \in SUBSET (1..n) |->
                            IF s = {} THEN 0 ELSE f[s \ {Max(s)}] + seq[Max(s)]]
<1>2. \A a \in Nat, k \in 1..n : step[<<a, k>>] = a + seq[k]
  OBVIOUS
<1>3. step \in [Nat \X (1..n) -> Nat]
  OBVIOUS
<1>. HIDE DEF step
<1>5. \E f : Eq(f)
  <2>1. PICK f : Folds(f, n, Nat, 0, step)
    BY <1>3, FoldExists
  <2>2. /\ f \in [SUBSET (1..n) -> Nat] /\ f[{}] = 0
        /\ \A s \in SUBSET (1..n) : s # {} => f[s] = step[<<f[s \ {Max(s)}], Max(s)>>]
    BY <2>1 DEF Folds
  <2>3. ASSUME NEW s \in SUBSET (1..n), s # {}
        PROVE  f[s] = f[s \ {Max(s)}] + seq[Max(s)]
    <3>1. s \in SUBSET (0..n)
      OBVIOUS
    <3>2. Max(s) \in 1..n
      BY <2>3, <3>1, BoundedMax
    <3>. QED
      BY <1>2, <2>2, <2>3, <3>2
  <2>4. Eq(f)
    BY <2>2, <2>3
  <2>. HIDE DEF Eq
  <2>. QED
    BY <2>4
<1>. DEFINE f == CHOOSE f : Eq(f)
<1>6. Eq(f)
  BY <1>5
<1>7. FoldLeft(+, 0, seq) = f[1..n]
  BY DEF FoldLeft, MapThenFoldSet
<1>. HIDE DEF f
<1>8. PICK F : RunsTo(F, f[1..n], n, Nat, 0, step)
  <2>1. f[{}] = 0
    BY <1>6
  <2>2. ASSUME NEW s \in SUBSET (1..n), s # {}, f[s \ {Max(s)}] \in Nat
        PROVE  f[s] = step[<<f[s \ {Max(s)}], Max(s)>>]
    <3>1. s \in SUBSET (0..n)
      OBVIOUS
    <3>2. Max(s) \in 1..n
      BY <2>2, <3>1, BoundedMax
    <3>3. f[s] = f[s \ {Max(s)}] + seq[Max(s)]
      BY <1>6, <2>2
    <3>. QED
      BY <1>2, <2>2, <3>2, <3>3
  <2>3. FoldsOn(f, n, Nat, 0, step)
    BY <2>1, <2>2 DEF FoldsOn
  <2>. QED
    BY <1>3, <2>3, FoldSteps
<1>9. /\ F \in [0..n -> Nat] /\ F[0] = 0
      /\ \A k \in 1..n : F[k] = F[k - 1] + seq[k]
  <2>1. /\ F \in [0..n -> Nat] /\ F[0] = 0
        /\ \A k \in 1..n : F[k] = step[<<F[k - 1], k>>]
    BY <1>8 DEF Runs, RunsTo
  <2>2. \A k \in 1..n : F[k - 1] \in Nat
    BY <2>1
  <2>. QED
    BY <1>2, <2>1, <2>2
<1>. QED
  BY <1>7, <1>8, <1>9 DEF RunsTo, Sums

\* The sum of numbers, the last of which are the same.
LEMMA SumFolded ==
  ASSUME NEW n \in Nat, NEW seq \in [1..n -> Nat]
  PROVE  /\ FoldLeft(+, 0, seq) \in Nat
         /\ \A c \in 0..n, h \in Nat :
              (\A k \in n - c + 1..n : seq[k] = h) =>
                 FoldLeft(+, 0, seq) >= c * h /\ (c = n => FoldLeft(+, 0, seq) = c * h)
<1>8. PICK F : Sums(F, seq, n) /\ FoldLeft(+, 0, seq) = F[n]
  BY SumSteps
<1>9. /\ F \in [0..n -> Nat] /\ F[0] = 0
      /\ \A k \in 1..n : F[k] = F[k - 1] + seq[k]
  BY <1>8 DEF Sums
<1>10. ASSUME NEW c \in 0..n, NEW h \in Nat, \A k \in n - c + 1..n : seq[k] = h
       PROVE  F[n] >= c * h /\ (c = n => F[n] = c * h)
  <2>. DEFINE d == n - c
              I == {i \in Nat : i <= c => F[d + i] = F[d] + i * h}
  <2>0. d \in Nat /\ d + c = n /\ d \in 0..n /\ F[d] \in Nat
    BY <1>9
  <2>. HIDE DEF d
  <2>1. 0 \in I
    BY <2>0
  <2>2. ASSUME NEW i \in Nat, i \in I PROVE i + 1 \in I
    <3>1. SUFFICES ASSUME i + 1 <= c PROVE F[d + (i + 1)] = F[d] + (i + 1) * h
      OBVIOUS
    <3>2. d + (i + 1) \in 1..n /\ (d + (i + 1)) - 1 = d + i /\ d + (i + 1) \in n - c + 1..n
      BY <2>0, <3>1
    <3>3. F[d + (i + 1)] = F[d + i] + h
      BY <1>9, <1>10, <3>2
    <3>4. F[d + i] = F[d] + i * h
      BY <2>2, <3>1
    <3>5. (i + 1) * h = i * h + h /\ i * h \in Nat
      OBVIOUS
    <3>. QED
      BY <2>0, <3>3, <3>4, <3>5
  <2>3. c \in I
    <3>1. c \in Nat
      OBVIOUS
    <3>. HIDE DEF I
    <3>. QED
      BY <2>1, <2>2, <3>1, Induct
  <2>4. F[n] = F[d] + c * h /\ c * h \in Nat
    BY <2>0, <2>3
  <2>5. c = n => F[d] = 0
    BY <1>9, <2>0
  <2>. QED
    BY <2>0, <2>4, <2>5
<1>11. F[n] \in Nat
  BY <1>9
<1>. QED
  BY <1>8, <1>10, <1>11

\* The sum of a sequence without its beginning.
LEMMA SumOfEnd ==
  ASSUME NEW n \in Nat, NEW seq \in [1..n -> Nat], NEW F, Sums(F, seq, n),
         NEW i \in 0..n, NEW end \in [1..n - i -> Nat], \A k \in 1..n - i : end[k] = seq[i + k]
  PROVE  FoldLeft(+, 0, end) = F[n] - F[i]
<1>. DEFINE d == n - i
<1>1. d \in Nat /\ i + d = n /\ i \in Nat
  OBVIOUS
<1>2. PICK G : Sums(G, end, d) /\ FoldLeft(+, 0, end) = G[d]
  <2>1. end \in [1..d -> Nat]
    OBVIOUS
  <2>. HIDE DEF d
  <2>. QED
    BY <1>1, <2>1, SumSteps
<1>3. /\ F \in [0..n -> Nat] /\ \A k \in 1..n : F[k] = F[k - 1] + seq[k]
      /\ G \in [0..d -> Nat] /\ G[0] = 0 /\ \A k \in 1..d : G[k] = G[k - 1] + end[k]
  BY <1>2 DEF Sums
<1>. DEFINE I == {k \in Nat : k <= d => F[i + k] = F[i] + G[k]}
<1>4. 0 \in I
  BY <1>3
<1>5. ASSUME NEW k \in Nat, k \in I PROVE k + 1 \in I
  <2>1. SUFFICES ASSUME k + 1 <= d PROVE F[i + (k + 1)] = F[i] + G[k + 1]
    OBVIOUS
  <2>2. /\ k + 1 \in 1..d /\ (k + 1) - 1 = k /\ k <= d /\ k \in 0..d
        /\ i + (k + 1) \in 1..n /\ (i + (k + 1)) - 1 = i + k
    BY <1>1, <2>1
  <2>3. F[i + (k + 1)] = F[i + k] + seq[i + (k + 1)] /\ end[k + 1] = seq[i + (k + 1)]
    BY <1>3, <2>2
  <2>4. G[k + 1] = G[k] + end[k + 1] /\ F[i + k] = F[i] + G[k]
    BY <1>3, <1>5, <2>2
  <2>5. F[i] \in Nat /\ G[k] \in Nat /\ end[k + 1] \in Nat
    BY <1>3, <2>2
  <2>. QED
    BY <2>3, <2>4, <2>5
<1>6. F[n] = F[i] + G[d]
  <2>1. d \in I
    <3>. HIDE DEF I, d
    <3>. QED
      BY <1>1, <1>4, <1>5, Induct
  <2>2. F[i + d] = F[i] + G[d]
    BY <1>1, <2>1
  <2>. HIDE DEF d
  <2>. QED
    BY <1>1, <2>2
<1>7. F[i] \in Nat /\ G[d] \in Nat
  <2>1. d \in 0..d
    BY <1>1
  <2>. HIDE DEF d
  <2>. QED
    BY <1>3, <2>1
<1>. HIDE DEF d
<1>8. G[d] = F[n] - F[i]
  BY <1>6, <1>7
<1>. QED
  BY <1>2, <1>8

\* The sum of a sequence and of its reverse.
LEMMA SumOfReverse ==
  ASSUME NEW n \in Nat, NEW seq \in [1..n -> Nat], NEW rev \in [1..n -> Nat],
         \A k \in 1..n : rev[k] = seq[(n - k) + 1]
  PROVE  FoldLeft(+, 0, rev) = FoldLeft(+, 0, seq)
<1>1. PICK F : Sums(F, seq, n) /\ FoldLeft(+, 0, seq) = F[n]
  BY SumSteps
<1>2. PICK G : Sums(G, rev, n) /\ FoldLeft(+, 0, rev) = G[n]
  BY SumSteps
<1>3. /\ F \in [0..n -> Nat] /\ F[0] = 0 /\ \A k \in 1..n : F[k] = F[k - 1] + seq[k]
      /\ G \in [0..n -> Nat] /\ G[0] = 0 /\ \A k \in 1..n : G[k] = G[k - 1] + rev[k]
  BY <1>1, <1>2 DEF Sums
<1>. DEFINE I == {k \in Nat : k <= n => G[k] + F[n - k] = F[n]}
<1>4. 0 \in I
  <2>1. n - 0 = n /\ n \in 0..n
    OBVIOUS
  <2>. QED
    BY <1>3, <2>1
<1>5. ASSUME NEW k \in Nat, k \in I PROVE k + 1 \in I
  <2>1. SUFFICES ASSUME k + 1 <= n PROVE G[k + 1] + F[n - (k + 1)] = F[n]
    OBVIOUS
  <2>2. /\ k + 1 \in 1..n /\ (k + 1) - 1 = k /\ k <= n /\ k \in 0..n
        /\ n - k \in 1..n /\ (n - k) - 1 = n - (k + 1) /\ n - (k + 1) \in 0..n
        /\ (n - (k + 1)) + 1 = n - k
    BY <2>1
  <2>3. G[k + 1] = G[k] + seq[n - k]
    BY <1>3, <2>2
  <2>4. F[n - k] = F[n - (k + 1)] + seq[n - k]
    BY <1>3, <2>2
  <2>5. G[k] + F[n - k] = F[n]
    BY <1>5, <2>2
  <2>6. F[n - (k + 1)] \in Nat /\ G[k] \in Nat /\ seq[n - k] \in Nat
    BY <1>3, <2>2
  <2>. QED
    BY <2>3, <2>4, <2>5, <2>6
<1>6. n \in I
  <2>. HIDE DEF I
  <2>. QED
    BY <1>4, <1>5, Induct
<1>7. n - n = 0 /\ n \in 0..n
  OBVIOUS
<1>8. G[n] = F[n]
  BY <1>3, <1>6, <1>7
<1>. QED
  BY <1>1, <1>2, <1>8

-----------------------------------------------------------------------------
(* The redistribution of snapshots.                                        *)

Buckets(m, S) == [0..m -> [width : Nat, end : Int, snapshots : SUBSET S]]

\* A time in bucket g or a newer one, and not near the end of the bucket before g.
InNewer(b, m, g, t) == \E j \in g..m : t \in b[j].snapshots
Far(b, m, g, t) == t - b[g - 1].end > b[m].width \div 4

\* What redistribution leaves as it is.
Redistributed(b, c, m, S) ==
  /\ c \in Buckets(m, S)
  /\ \A j \in 0..m : c[j].width = b[j].width /\ c[j].end = b[j].end
  /\ \A g \in 1..m, t \in S : Far(b, m, g, t) /\ InNewer(b, m, g, t) => InNewer(c, m, g, t)

LEMMA NewestIs == ASSUME NEW m \in Nat, NEW S, NEW b \in Buckets(m, S) PROVE Newest(b) = m
<1>1. DOMAIN b = 0..m /\ 0..m \in SUBSET Int /\ m \in 0..m /\ \A y \in 0..m : y <= m
  BY DEF Buckets
<1>. QED
  BY <1>1, MaxIs DEF Newest

\* One turn of the loop, which makes c of b: bucket i takes x, the oldest snapshot of the
\* next, or gives x, its newest but not its only one, or nothing happens.
Same(b, c, i, m, S) ==
  /\ c \in Buckets(m, S)
  /\ \A j \in 0..m : c[j].width = b[j].width /\ c[j].end = b[j].end
  /\ \A j \in 0..m \ {i, i + 1} : c[j].snapshots = b[j].snapshots
Takes(b, c, i, m, x) ==
  /\ b[i].snapshots = {} /\ x \in b[i + 1].snapshots
  /\ x - b[i].end <= b[m].width \div 4
  /\ c[i].snapshots = {x} /\ c[i + 1].snapshots = b[i + 1].snapshots \ {x}
Gives(b, c, i, m, x) ==
  /\ x \in b[i].snapshots /\ b[i].end - x <= b[m].width \div 4
  /\ \A u \in b[i].snapshots : u <= x
  /\ \E u \in b[i].snapshots : u # x
  /\ c[i].snapshots = b[i].snapshots \ {x} /\ c[i + 1].snapshots = b[i + 1].snapshots \cup {x}
Turn(b, c, i, m, S) ==
  \/ Same(b, c, i, m, S) /\ \E x \in S : Takes(b, c, i, m, x) \/ Gives(b, c, i, m, x)
  \/ c = b

LEMMA TurnIs ==
  ASSUME NEW m \in Nat \ {0}, NEW top \in Nat, NEW S \in SUBSET (0..top),
         NEW b \in Buckets(m, S), NEW i \in 0..m - 1
  PROVE  Turn(b, Redistribute1(b, i), i, m, S)
<1>. DEFINE mine == b[i].snapshots
            nxt == b[i + 1].snapshots
            c == Redistribute1(b, i)
<1>1. /\ i \in 0..m /\ i + 1 \in 0..m /\ i # i + 1 /\ m \in 0..m /\ Newest(b) = m
      /\ mine \in SUBSET S /\ nxt \in SUBSET S
  <2>1. i \in 0..m /\ i + 1 \in 0..m /\ i # i + 1 /\ m \in 0..m /\ m \in Nat
    OBVIOUS
  <2>. QED
    BY <2>1, NewestIs DEF Buckets
<1>2. ASSUME NEW T \in SUBSET S, T # {}
      PROVE  Min(T) \in T /\ Max(T) \in T /\ \A y \in T : y <= Max(T)
  <2>1. T \in SUBSET Nat /\ T \in SUBSET (0..top)
    OBVIOUS
  <2>. QED
    BY <1>2, <2>1, MinIs, BoundedMax
<1>3. \A j \in 0..m : b[j].width \in Nat /\ b[j].end \in Int /\ b[j].snapshots \in SUBSET S
  BY DEF Buckets
<1>4. ASSUME NEW low \in SUBSET S, NEW high \in SUBSET S,
             c = [b EXCEPT ![i].snapshots = low, ![i + 1].snapshots = high]
      PROVE  Same(b, c, i, m, S) /\ c[i].snapshots = low /\ c[i + 1].snapshots = high
  <2>. HIDE DEF c
  <2>1. c \in Buckets(m, S)
    <3>1. \A r \in [width : Nat, end : Int, snapshots : SUBSET S], T \in SUBSET S :
            [r EXCEPT !.snapshots = T] \in [width : Nat, end : Int, snapshots : SUBSET S]
      OBVIOUS
    <3>2. \A d \in Buckets(m, S), T \in SUBSET S : \A j \in 0..m :
            [d EXCEPT ![j].snapshots = T] \in Buckets(m, S)
      BY <3>1 DEF Buckets
    <3>3. [b EXCEPT ![i].snapshots = low] \in Buckets(m, S)
      BY <1>1, <3>2
    <3>. QED
      BY <1>1, <1>4, <3>2, <3>3
  <2>2. \A j \in 0..m :
          c[j] = [b[j] EXCEPT !.snapshots = IF j = i THEN low ELSE IF j = i + 1 THEN high ELSE @]
    BY <1>1, <1>4 DEF Buckets
  <2>3. ASSUME NEW j \in 0..m PROVE c[j].width = b[j].width /\ c[j].end = b[j].end
    <3>1. b[j] \in [width : Nat, end : Int, snapshots : SUBSET S]
      BY DEF Buckets
    <3>2. PICK T : c[j] = [b[j] EXCEPT !.snapshots = T]
      BY <2>2
    <3>. QED
      BY <3>1, <3>2
  <2>4. \A j \in 0..m :
          c[j].snapshots = IF j = i THEN low ELSE IF j = i + 1 THEN high ELSE b[j].snapshots
    BY <2>2 DEF Buckets
  <2>. QED
    BY <1>1, <2>1, <2>3, <2>4 DEF Same
<1>5. CASE mine = {} /\ nxt # {} /\ PeekOldest(nxt) - b[i].end <= b[m].width \div 4
  <2>. DEFINE x == Min(nxt)
  <2>1. c = [b EXCEPT ![i].snapshots = {x}, ![i + 1].snapshots = nxt \ {x}]
    BY <1>1, <1>5 DEF Redistribute1
  <2>2. x \in nxt /\ x \in S
    BY <1>1, <1>2, <1>5
  <2>3. x - b[i].end <= b[m].width \div 4
    BY <1>5 DEF PeekOldest
  <2>. HIDE DEF c, x
  <2>4. {x} \in SUBSET S /\ nxt \ {x} \in SUBSET S
    BY <1>1, <2>2
  <2>5. Same(b, c, i, m, S) /\ c[i].snapshots = {x} /\ c[i + 1].snapshots = nxt \ {x}
    BY <1>4, <2>1, <2>4 DEF c
  <2>6. Takes(b, c, i, m, x)
    BY <1>5, <2>2, <2>3, <2>5 DEF Takes
  <2>. QED
    BY <2>2, <2>5, <2>6 DEF Turn, c
<1>6. CASE /\ ~(mine = {} /\ nxt # {} /\ PeekOldest(nxt) - b[i].end <= b[m].width \div 4)
           /\ Cardinality(mine) > 1 /\ b[i].end - PeekNewest(mine) <= b[m].width \div 4
  <2>. DEFINE x == Max(mine)
  <2>1. c = [b EXCEPT ![i].snapshots = mine \ {x}, ![i + 1].snapshots = nxt \cup {x}]
    BY <1>1, <1>6 DEF Redistribute1
  <2>2. mine # {}
    <3>1. SUFFICES ASSUME mine = {} PROVE FALSE
      OBVIOUS
    <3>2. Cardinality(mine) = 0
      BY <3>1, FS_EmptySet
    <3>. QED
      BY <1>6, <3>2
  <2>3. x \in mine /\ x \in S /\ \A u \in mine : u <= x
    BY <1>1, <1>2, <2>2
  <2>4. b[i].end - x <= b[m].width \div 4
    BY <1>6, <2>2 DEF PeekNewest
  <2>. HIDE DEF c, x
  <2>5. \E u \in mine : u # x
    <3>1. SUFFICES ASSUME \A u \in mine : u = x PROVE FALSE
      OBVIOUS
    <3>2. mine = {x}
      BY <2>3, <3>1
    <3>. HIDE DEF mine
    <3>3. Cardinality(mine) = 1
      BY <3>2, FS_Singleton
    <3>. QED
      BY <1>6, <3>3
  <2>6. mine \ {x} \in SUBSET S /\ nxt \cup {x} \in SUBSET S
    BY <1>1, <2>3
  <2>7. Same(b, c, i, m, S) /\ c[i].snapshots = mine \ {x} /\ c[i + 1].snapshots = nxt \cup {x}
    BY <1>4, <2>1, <2>6 DEF c
  <2>8. Gives(b, c, i, m, x)
    BY <2>3, <2>4, <2>5, <2>7 DEF Gives
  <2>. QED
    BY <2>3, <2>7, <2>8 DEF Turn, c
<1>7. CASE /\ ~(mine = {} /\ nxt # {} /\ PeekOldest(nxt) - b[i].end <= b[m].width \div 4)
           /\ ~(Cardinality(mine) > 1 /\ b[i].end - PeekNewest(mine) <= b[m].width \div 4)
  <2>1. c = b
    BY <1>1, <1>7 DEF Redistribute1
  <2>. QED
    BY <2>1 DEF Turn
<1>. QED
  BY <1>5, <1>6, <1>7

LEMMA TurnRedistributes ==
  ASSUME NEW m \in Nat \ {0}, NEW top \in Nat, NEW S \in SUBSET (0..top),
         NEW b \in Buckets(m, S), NEW i \in 0..m - 1, NEW c, Turn(b, c, i, m, S)
  PROVE  Redistributed(b, c, m, S)
<1>1. /\ i \in 0..m /\ i + 1 \in 0..m /\ i # i + 1 /\ m \in 0..m
      /\ \A j \in 0..m : b[j].width \in Nat /\ b[j].end \in Int /\ b[j].snapshots \in SUBSET S
  BY DEF Buckets
<1>2. CASE c = b
  BY <1>2 DEF Redistributed
<1>3. ASSUME NEW x \in S, Same(b, c, i, m, S), Takes(b, c, i, m, x)
      PROVE  Redistributed(b, c, m, S)
  <2>1. ASSUME NEW g \in 1..m, NEW t \in S, Far(b, m, g, t), InNewer(b, m, g, t)
        PROVE  InNewer(c, m, g, t)
    <3>1. PICK j \in g..m : t \in b[j].snapshots
      BY <2>1 DEF InNewer
    <3>2. j \in 0..m /\ g..m \in SUBSET (0..m) /\ j # i
      BY <1>3, <3>1 DEF Takes
    <3>3. CASE t # x \/ j # i + 1
      <4>1. t \in c[j].snapshots
        BY <1>3, <3>1, <3>2, <3>3 DEF Same, Takes
      <4>. QED
        BY <4>1 DEF InNewer
    <3>4. CASE t = x /\ j = i + 1
      <4>1. g # i + 1
        <5>1. g = i + 1 => b[g - 1] = b[i]
          BY <1>1
        <5>2. b[i].end \in Int /\ b[m].width \in Nat /\ t \in Int /\ b[m].width \div 4 \in Int
          BY <1>1
        <5>3. x - b[i].end <= b[m].width \div 4
          BY <1>3 DEF Takes
        <5>. QED
          BY <2>1, <3>4, <5>1, <5>2, <5>3 DEF Far
      <4>2. i \in g..m
        BY <3>4, <4>1
      <4>3. t \in c[i].snapshots
        BY <1>3, <3>4 DEF Takes
      <4>. QED
        BY <4>2, <4>3 DEF InNewer
    <3>. QED
      BY <3>3, <3>4
  <2>. QED
    BY <1>3, <2>1 DEF Redistributed, Same
<1>4. ASSUME NEW x \in S, Same(b, c, i, m, S), Gives(b, c, i, m, x)
      PROVE  Redistributed(b, c, m, S)
  <2>1. ASSUME NEW g \in 1..m, NEW t \in S, InNewer(b, m, g, t)
        PROVE  InNewer(c, m, g, t)
    <3>1. PICK j \in g..m : t \in b[j].snapshots
      BY <2>1 DEF InNewer
    <3>2. j \in 0..m
      OBVIOUS
    <3>3. CASE t # x \/ j # i
      <4>1. t \in c[j].snapshots
        BY <1>4, <3>1, <3>2, <3>3 DEF Same, Gives
      <4>. QED
        BY <4>1 DEF InNewer
    <3>4. CASE t = x /\ j = i
      <4>1. i + 1 \in g..m /\ t \in c[i + 1].snapshots
        BY <1>4, <3>4 DEF Gives
      <4>. QED
        BY <4>1 DEF InNewer
    <3>. QED
      BY <3>3, <3>4
  <2>. QED
    BY <1>4, <2>1 DEF Redistributed, Same
<1>. QED
  BY <1>2, <1>3, <1>4 DEF Turn

\* All turns, one after the other.
Turns(F, b, m, S) ==
  /\ F \in [0..m -> Buckets(m, S)] /\ F[0] = b /\ F[m] = RedistributeBackups(b)
  /\ \A k \in 1..m : Turn(F[k - 1], F[k], k - 1, m, S)

LEMMA TurnsAre ==
  ASSUME NEW m \in Nat \ {0}, NEW top \in Nat, NEW S \in SUBSET (0..top),
         NEW b \in Buckets(m, S)
  PROVE  \E F : Turns(F, b, m, S)
<1>. DEFINE A == Buckets(m, S)
            seq == [i \in 1..m |-> i - 1]
            step == [p \in A \X (1..m) |-> Redistribute1(p[1], seq[p[2]])]
            Eq(f) == f = [s \in SUBSET (1..m) |->
                            IF s = {} THEN b ELSE Redistribute1(f[s \ {Max(s)}], seq[Max(s)])]
<1>1. \A d \in A, k \in 1..m :
        /\ Turn(d, Redistribute1(d, seq[k]), k - 1, m, S)
        /\ Redistributed(d, Redistribute1(d, seq[k]), m, S)
  <2>. TAKE d \in A, k \in 1..m
  <2>1. seq[k] = k - 1 /\ k - 1 \in 0..m - 1
    OBVIOUS
  <2>. HIDE DEF seq
  <2>2. Turn(d, Redistribute1(d, seq[k]), k - 1, m, S)
    BY <2>1, TurnIs
  <2>. QED
    BY <2>1, <2>2, TurnRedistributes
<1>2. \A d \in A, k \in 1..m :
        step[<<d, k>>] = Redistribute1(d, seq[k]) /\ Redistribute1(d, seq[k]) \in A
  <2>1. \A d \in A, k \in 1..m : Redistribute1(d, seq[k]) \in A
    BY <1>1 DEF Redistributed
  <2>. HIDE DEF seq, A
  <2>. QED
    BY <2>1
<1>3. step \in [A \X (1..m) -> A]
  <2>1. \A d \in A, k \in 1..m : Redistribute1(d, seq[k]) \in A
    BY <1>2
  <2>. HIDE DEF seq, A
  <2>. QED
    BY <2>1
<1>4. b \in A /\ m \in Nat /\ DOMAIN seq = 1..m
  OBVIOUS
<1>. HIDE DEF A, step, seq
<1>5. \E f : Eq(f)
  <2>1. PICK f : Folds(f, m, A, b, step)
    BY <1>3, <1>4, FoldExists
  <2>2. /\ f \in [SUBSET (1..m) -> A] /\ f[{}] = b
        /\ \A s \in SUBSET (1..m) : s # {} => f[s] = step[<<f[s \ {Max(s)}], Max(s)>>]
    BY <2>1 DEF Folds
  <2>3. ASSUME NEW s \in SUBSET (1..m), s # {}
        PROVE  f[s] = Redistribute1(f[s \ {Max(s)}], seq[Max(s)])
    <3>1. s \in SUBSET (0..m)
      OBVIOUS
    <3>2. Max(s) \in 1..m
      BY <1>4, <2>3, <3>1, BoundedMax
    <3>. QED
      BY <1>2, <2>2, <2>3, <3>2
  <2>4. Eq(f)
    BY <2>2, <2>3
  <2>. HIDE DEF Eq
  <2>. QED
    BY <2>4
<1>. DEFINE f == CHOOSE f : Eq(f)
<1>6. Eq(f)
  BY <1>5
<1>7. RedistributeBackups(b) = f[1..m]
  <2>1. RedistributeBackups(b) = FoldLeft(Redistribute1, b, seq)
    BY <1>4, NewestIs DEF RedistributeBackups, seq
  <2>. QED
    BY <1>4, <2>1 DEF FoldLeft, MapThenFoldSet
<1>. HIDE DEF f
<1>8. PICK F : RunsTo(F, f[1..m], m, A, b, step)
  <2>1. f[{}] = b
    BY <1>6
  <2>2. ASSUME NEW s \in SUBSET (1..m), s # {}, f[s \ {Max(s)}] \in A
        PROVE  f[s] = step[<<f[s \ {Max(s)}], Max(s)>>]
    <3>1. s \in SUBSET (0..m)
      OBVIOUS
    <3>2. Max(s) \in 1..m
      BY <1>4, <2>2, <3>1, BoundedMax
    <3>3. f[s] = Redistribute1(f[s \ {Max(s)}], seq[Max(s)])
      BY <1>6, <2>2
    <3>. QED
      BY <1>2, <2>2, <3>2, <3>3
  <2>3. FoldsOn(f, m, A, b, step)
    BY <2>1, <2>2 DEF FoldsOn
  <2>. QED
    BY <1>3, <1>4, <2>3, FoldSteps
<1>9. /\ F \in [0..m -> A] /\ F[0] = b /\ F[m] = RedistributeBackups(b)
      /\ \A k \in 1..m : F[k] = step[<<F[k - 1], k>>]
  BY <1>7, <1>8 DEF Runs, RunsTo
<1>10. ASSUME NEW k \in 1..m PROVE Turn(F[k - 1], F[k], k - 1, m, S)
  <2>1. F[k - 1] \in A
    BY <1>9
  <2>2. F[k] = Redistribute1(F[k - 1], seq[k])
    BY <1>2, <1>9, <2>1
  <2>. QED
    BY <1>1, <2>1, <2>2
<1>. QED
  BY <1>9, <1>10 DEF Turns, A

LEMMA RedistributeAll ==
  ASSUME NEW m \in Nat \ {0}, NEW top \in Nat, NEW S \in SUBSET (0..top),
         NEW b \in Buckets(m, S)
  PROVE  Redistributed(b, RedistributeBackups(b), m, S)
<1>1. PICK F : Turns(F, b, m, S)
  BY TurnsAre
<1>2. /\ F \in [0..m -> Buckets(m, S)] /\ F[0] = b /\ F[m] = RedistributeBackups(b)
      /\ \A k \in 1..m : Turn(F[k - 1], F[k], k - 1, m, S)
  BY <1>1 DEF Turns
<1>. DEFINE I == {k \in Nat : k <= m => Redistributed(b, F[k], m, S)}
<1>3. 0 \in I
  BY <1>2 DEF Redistributed
<1>4. ASSUME NEW k \in Nat, k \in I PROVE k + 1 \in I
  <2>1. SUFFICES ASSUME k + 1 <= m PROVE Redistributed(b, F[k + 1], m, S)
    OBVIOUS
  <2>2. k + 1 \in 1..m /\ k \in 0..m /\ (k + 1) - 1 = k /\ k \in 0..m - 1
    BY <2>1
  <2>3. F[k] \in Buckets(m, S) /\ Turn(F[k], F[k + 1], k, m, S)
    BY <1>2, <2>2
  <2>4. Redistributed(F[k], F[k + 1], m, S)
    BY <2>2, <2>3, TurnRedistributes
  <2>5. Redistributed(b, F[k], m, S)
    BY <1>4, <2>2
  <2>6. ASSUME NEW d, NEW e, Redistributed(b, d, m, S), Redistributed(d, e, m, S)
        PROVE  Redistributed(b, e, m, S)
    <3>1. \A g \in 1..m : g - 1 \in 0..m /\ m \in 0..m
      OBVIOUS
    <3>2. \A g \in 1..m, t \in S : Far(b, m, g, t) => Far(d, m, g, t)
      BY <2>6, <3>1 DEF Far, Redistributed
    <3>. QED
      BY <2>6, <3>2 DEF Redistributed
  <2>. QED
    BY <2>4, <2>5, <2>6
<1>5. m \in I
  <2>1. m \in Nat
    OBVIOUS
  <2>. HIDE DEF I
  <2>. QED
    BY <1>3, <1>4, <2>1, Induct
<1>. QED
  BY <1>2, <1>5

\* Where each time belongs: b has it there, between the ends of this bucket and the last.
Homes(b, m, S, home) ==
  /\ home \in [S -> 0..m]
  /\ \A j \in 0..m : b[j].snapshots = {u \in S : home[u] = j}
  /\ \A u \in S : /\ u <= b[home[u]].end
                  /\ home[u] > 0 => u >= b[home[u] - 1].end

\* Of two times in a bucket the later belongs there, and the earlier, if it does not,
\* is not far from it.
Neat(b, j, m, home) ==
  \A t, u \in b[j].snapshots :
    u < t => home[t] = j /\ u >= b[j - 1].end - b[m].width \div 4

\* After k turns d is so, and the buckets that are still to come are as they were in b.
Tidy(b, d, k, m, S, home) ==
  /\ d \in Buckets(m, S)
  /\ \A j \in 0..m : d[j].width = b[j].width /\ d[j].end = b[j].end
  /\ \A j \in 1..m : Neat(d, j, m, home)
  /\ \A j \in 0..m : k = 0 \/ j > k => d[j].snapshots = b[j].snapshots

LEMMA HomesAreTidy ==
  ASSUME NEW m \in Nat \ {0}, NEW S \in SUBSET Nat, NEW b \in Buckets(m, S), NEW home,
         Homes(b, m, S, home)
  PROVE  Tidy(b, b, 0, m, S, home)
<1>1. \A j \in 0..m : b[j].width \in Nat /\ b[j].end \in Int /\ b[j].snapshots \in SUBSET S
  BY DEF Buckets
<1>2. ASSUME NEW j \in 1..m PROVE Neat(b, j, m, home)
  <2>1. j \in 0..m /\ j - 1 \in 0..m /\ m \in 0..m /\ j > 0
    OBVIOUS
  <2>2. ASSUME NEW u \in b[j].snapshots PROVE u \in Nat /\ home[u] = j /\ u >= b[j - 1].end
    <3>1. u \in S /\ home[u] = j
      BY <2>1 DEF Homes
    <3>. QED
      BY <2>1, <3>1 DEF Homes
  <2>3. b[m].width \div 4 \in Nat /\ b[j - 1].end \in Int
    BY <1>1, <2>1
  <2>. QED
    BY <2>2, <2>3 DEF Neat
<1>. QED
  BY <1>2 DEF Tidy

LEMMA TurnTidies ==
  ASSUME NEW m \in Nat \ {0}, NEW S \in SUBSET Nat, NEW b \in Buckets(m, S), NEW home,
         Homes(b, m, S, home), NEW i \in 0..m - 1, NEW d, NEW e,
         Tidy(b, d, i, m, S, home), Turn(d, e, i, m, S)
  PROVE  Tidy(b, e, i + 1, m, S, home)
<1>. DEFINE close == b[m].width \div 4
<1>1. /\ i \in 0..m /\ i + 1 \in 0..m /\ i + 1 \in 1..m /\ i # i + 1 /\ m \in 0..m
      /\ (i + 1) - 1 = i /\ i + 1 > 0 /\ i + 1 # 0 /\ (i # 0 => i \in 1..m)
  OBVIOUS
<1>2. /\ \A j \in 0..m : b[j].width \in Nat /\ b[j].end \in Int /\ b[j].snapshots \in SUBSET S
      /\ close \in Nat
  <2>1. \A j \in 0..m : b[j].width \in Nat /\ b[j].end \in Int /\ b[j].snapshots \in SUBSET S
    BY DEF Buckets
  <2>2. b[m].width \in Nat
    BY <1>1, <2>1
  <2>. QED
    BY <2>1, <2>2
<1>3. /\ d \in Buckets(m, S)
      /\ \A j \in 0..m : d[j].width = b[j].width /\ d[j].end = b[j].end
      /\ \A j \in 0..m : d[j].snapshots \in SUBSET S
      /\ \A j \in 1..m : Neat(d, j, m, home)
      /\ \A j \in 0..m : i = 0 \/ j > i => d[j].snapshots = b[j].snapshots
  BY DEF Tidy, Buckets
<1>4. \A j \in 0..m : i + 1 = 0 \/ j > i + 1 => j \notin {i, i + 1} /\ j > i
  OBVIOUS
<1>5. CASE e = d
  BY <1>3, <1>4, <1>5 DEF Tidy
\* The next bucket has what belongs there.
<1>6. \A u \in d[i + 1].snapshots : u \in Nat /\ home[u] = i + 1 /\ u >= b[i].end
  <2>1. d[i + 1].snapshots = b[i + 1].snapshots
    BY <1>1, <1>3
  <2>. QED
    BY <1>1, <2>1 DEF Homes
<1>7. ASSUME NEW x \in S, Same(d, e, i, m, S), Takes(d, e, i, m, x) \/ Gives(d, e, i, m, x)
      PROVE  Tidy(b, e, i + 1, m, S, home)
  <2>1. /\ e \in Buckets(m, S)
        /\ \A j \in 0..m : e[j].width = d[j].width /\ e[j].end = d[j].end
        /\ \A j \in 0..m \ {i, i + 1} : e[j].snapshots = d[j].snapshots
    BY <1>7 DEF Same
  <2>2. \A j \in 0..m : i + 1 = 0 \/ j > i + 1 => e[j].snapshots = b[j].snapshots
    BY <1>3, <1>4, <2>1
  <2>3. \A j \in 0..m : e[j].width = b[j].width /\ e[j].end = b[j].end
    BY <1>3, <2>1
  \* A bucket that loses some stays neat.
  <2>4. ASSUME NEW j \in 1..m, e[j].snapshots \subseteq d[j].snapshots
        PROVE  Neat(e, j, m, home)
    <3>1. j \in 0..m /\ j - 1 \in 0..m
      OBVIOUS
    <3>2. Neat(d, j, m, home) /\ e[j - 1].end = d[j - 1].end /\ e[m].width = d[m].width
      BY <1>1, <1>3, <2>1, <3>1
    <3>. QED
      BY <2>4, <3>2 DEF Neat
  <2>5. ASSUME i # 0 PROVE Neat(e, i, m, home)
    <3>1. CASE Takes(d, e, i, m, x)
      <4>1. e[i].snapshots = {x} /\ x \in Nat
        BY <3>1 DEF Takes
      <4>2. ~(x < x)
        BY <4>1
      <4>. QED
        BY <4>1, <4>2 DEF Neat
    <3>2. CASE Gives(d, e, i, m, x)
      <4>1. i \in 1..m
        BY <1>1, <2>5
      <4>2. e[i].snapshots \subseteq d[i].snapshots
        BY <3>2 DEF Gives
      <4>. QED
        BY <2>4, <4>1, <4>2
    <3>. QED
      BY <1>7, <3>1, <3>2
  <2>6. Neat(e, i + 1, m, home)
    <3>1. CASE Takes(d, e, i, m, x)
      <4>1. e[i + 1].snapshots \subseteq d[i + 1].snapshots
        BY <3>1 DEF Takes
      <4>. QED
        BY <1>1, <2>4, <4>1
    <3>2. CASE Gives(d, e, i, m, x)
      <4>1. x \in d[i].snapshots /\ e[i + 1].snapshots = d[i + 1].snapshots \cup {x}
        BY <3>2 DEF Gives
      <4>2. x >= b[i].end - close
        <5>1. d[i].end - x <= d[m].width \div 4
          BY <3>2 DEF Gives
        <5>2. b[i].end - x <= close
          BY <1>1, <1>3, <5>1
        <5>3. x \in Nat /\ b[i].end \in Int
          BY <1>1, <1>2
        <5>. HIDE DEF close
        <5>. QED
          BY <1>2, <5>2, <5>3
      <4>3. x <= b[i].end
        <5>1. home[x] = i
          <6>1. CASE i = 0
            BY <1>1, <1>3, <4>1, <6>1 DEF Homes
          <6>2. CASE i # 0
            <7>1. PICK u \in d[i].snapshots : u # x /\ u <= x
              BY <3>2 DEF Gives
            <7>2. u \in Nat /\ x \in Nat
              BY <1>1, <1>3, <7>1
            <7>3. u < x
              BY <7>1, <7>2
            <7>4. Neat(d, i, m, home)
              BY <1>1, <1>3, <6>2
            <7>. QED
              BY <4>1, <7>3, <7>4 DEF Neat
          <6>. QED
            BY <6>1, <6>2
        <5>. QED
          BY <5>1 DEF Homes
      <4>4. e[(i + 1) - 1].end = b[i].end /\ e[m].width \div 4 = close
        BY <1>1, <2>3
      <4>5. ASSUME NEW t \in e[i + 1].snapshots, NEW u \in e[i + 1].snapshots, u < t
            PROVE  home[t] = i + 1 /\ u >= b[i].end - close
        <5>1. b[i].end \in Int /\ x \in Nat /\ close \in Nat
          BY <1>1, <1>2
        <5>. HIDE DEF close
        <5>2. t # x
          <6>1. SUFFICES ASSUME t = x PROVE FALSE
            OBVIOUS
          <6>2. u \in d[i + 1].snapshots
            BY <4>1, <4>5, <5>1, <6>1
          <6>. QED
            BY <1>6, <4>3, <4>5, <5>1, <6>1, <6>2
        <5>3. home[t] = i + 1
          BY <1>6, <4>1, <5>2
        <5>4. CASE u = x
          BY <4>2, <5>3, <5>4
        <5>5. CASE u # x
          <6>1. u \in Nat /\ u >= b[i].end
            BY <1>6, <4>1, <5>5
          <6>2. u >= b[i].end - close
            BY <5>1, <6>1
          <6>. QED
            BY <5>3, <6>2
        <5>. QED
          BY <5>4, <5>5
      <4>. HIDE DEF close
      <4>. QED
        BY <4>4, <4>5 DEF Neat
    <3>. QED
      BY <1>7, <3>1, <3>2
  <2>7. ASSUME NEW j \in 1..m PROVE Neat(e, j, m, home)
    <3>1. CASE j = i
      BY <2>5, <3>1
    <3>2. CASE j = i + 1
      BY <2>6, <3>2
    <3>3. CASE j \notin {i, i + 1}
      <4>1. e[j].snapshots = d[j].snapshots
        BY <2>1, <3>3
      <4>. QED
        BY <2>4, <4>1
    <3>. QED
      BY <3>1, <3>2, <3>3
  <2>. QED
    BY <2>1, <2>2, <2>3, <2>7 DEF Tidy
<1>. QED
  BY <1>5, <1>7 DEF Turn

LEMMA RedistributeTidies ==
  ASSUME NEW m \in Nat \ {0}, NEW top \in Nat, NEW S \in SUBSET (0..top),
         NEW b \in Buckets(m, S), NEW home, Homes(b, m, S, home)
  PROVE  Tidy(b, RedistributeBackups(b), m, m, S, home)
<1>1. PICK F : Turns(F, b, m, S)
  BY TurnsAre
<1>2. /\ F \in [0..m -> Buckets(m, S)] /\ F[0] = b /\ F[m] = RedistributeBackups(b)
      /\ \A k \in 1..m : Turn(F[k - 1], F[k], k - 1, m, S)
  BY <1>1 DEF Turns
<1>. DEFINE I == {k \in Nat : k <= m => Tidy(b, F[k], k, m, S, home)}
<1>3. S \in SUBSET Nat /\ m \in Nat
  OBVIOUS
<1>4. 0 \in I
  BY <1>2, <1>3, HomesAreTidy
<1>5. ASSUME NEW k \in Nat, k \in I PROVE k + 1 \in I
  <2>1. SUFFICES ASSUME k + 1 <= m PROVE Tidy(b, F[k + 1], k + 1, m, S, home)
    OBVIOUS
  <2>2. k + 1 \in 1..m /\ (k + 1) - 1 = k /\ k \in 0..m - 1 /\ k <= m
    BY <2>1
  <2>3. Turn(F[k], F[k + 1], k, m, S) /\ Tidy(b, F[k], k, m, S, home)
    BY <1>2, <1>5, <2>2
  <2>. QED
    BY <1>3, <2>2, <2>3, TurnTidies
<1>6. m \in I
  <2>. HIDE DEF I
  <2>. QED
    BY <1>3, <1>4, <1>5, Induct
<1>. QED
  BY <1>2, <1>6

-----------------------------------------------------------------------------
(* The buckets of a policy.                                                *)

LEMMA WidthsAre ==
  ASSUME ParametersOK, NEW c \in Policy
  PROVE  /\ Widths(c) \in Seq(Nat \ {0}) /\ Widths(c) # <<>>
         /\ c[1] \in Nat /\ c[1] <= Len(Widths(c)) /\ Hour \in Nat \ {0}
         /\ \A j \in 1..c[1] : Widths(c)[j] = Hour
         /\ Widths(c)[1] = MinInterval(c)
<1>. DEFINE A == Nat \ {0}
            n == Len(Width)
            seqs == [k \in 1..n |-> [j \in 1..c[k] |-> Width[k]]]
<1>1. Width \in Seq(A) /\ n \in Nat \ {0} /\ DOMAIN Width = 1..n
  BY DEF ParametersOK, WidthOK
<1>2. c \in [1..n -> Nat] /\ \E i \in 1..n : c[i] > 0
  BY <1>1 DEF ParametersOK
<1>3. ASSUME NEW k \in 1..n
      PROVE  /\ seqs[k] \in Seq(A) /\ Len(seqs[k]) = c[k]
             /\ \A j \in 1..c[k] : seqs[k][j] = Width[k]
  <2>1. Width[k] \in A /\ c[k] \in Nat
    BY <1>1, <1>2
  <2>2. [j \in 1..c[k] |-> Width[k]] \in [1..c[k] -> A]
    BY <2>1
  <2>. QED
    BY <2>1, <2>2
<1>4. seqs \in [1..n -> Seq(A)] /\ Widths(c) = FlattenSeq(seqs)
  BY <1>1, <1>3 DEF Widths
<1>5. /\ 1 \in 1..n /\ seqs[1] \in Seq(A) /\ Len(seqs[1]) = c[1] /\ c[1] \in Nat
      /\ \A j \in 1..c[1] : seqs[1][j] = Hour
      /\ Hour \in A
  BY <1>1, <1>2, <1>3 DEF Hour
<1>6. PICK i \in 1..n : c[i] > 0
  BY <1>2
<1>7. ToSet(seqs[i]) # {}
  <2>1. seqs[i] \in Seq(A) /\ Len(seqs[i]) = c[i] /\ c[i] \in Nat
    BY <1>2, <1>3
  <2>2. 1 \in DOMAIN seqs[i]
    BY <1>6, <2>1
  <2>. HIDE DEF seqs
  <2>. QED
    BY <2>2 DEF ToSet
<1>10. Widths(c)[1] = MinInterval(c)
  <2>. DEFINE some == {k \in DOMAIN Width : c[k] # 0}
              h == Min(some)
  <2>1. some \in SUBSET Nat /\ some # {}
    BY <1>1, <1>2, <1>6
  <2>2. h \in some /\ \A k \in some : h <= k
    BY <2>1, MinIs
  <2>3. h \in 1..n /\ c[h] \in Nat \ {0}
    BY <1>1, <1>2, <2>2
  <2>. HIDE DEF h, some
  <2>4. ASSUME NEW k \in 1..h - 1 PROVE seqs[k] = <<>>
    <3>1. k \in 1..n /\ k < h
      BY <2>3
    <3>2. c[k] = 0
      BY <1>1, <2>2, <3>1 DEF some
    <3>. QED
      BY <1>3, <3>1, <3>2
  <2>5. Len(seqs[h]) # 0 /\ seqs[h][1] = Width[h]
    <3>1. Len(seqs[h]) = c[h] /\ \A j \in 1..c[h] : seqs[h][j] = Width[h]
      BY <1>3, <2>3
    <3>2. 1 \in 1..c[h]
      BY <2>3
    <3>. QED
      BY <2>3, <3>1, <3>2
  <2>6. seqs[h] # <<>>
    <3>1. Len(<<>>) = 0
      OBVIOUS
    <3>. HIDE DEF seqs
    <3>. QED
      BY <2>5, <3>1
  <2>7. FlattenSeq(seqs)[1] = seqs[h][1]
    <3>. HIDE DEF seqs, A, n
    <3>1. n \in Nat \ {0} /\ h \in 1..n
      BY <1>1, <2>3
    <3>2. seqs \in [1..n -> Seq(A)]
      BY <1>4
    <3>3. FirstOf(h, seqs)
      BY <2>4, <2>6 DEF FirstOf
    <3>. QED
      BY <3>1, <3>2, <3>3, FlattenedFirst
  <2>8. MinInterval(c) = Width[h]
    BY DEF MinInterval, h, some
  <2>. HIDE DEF seqs
  <2>. QED
    BY <1>4, <2>5, <2>7, <2>8
<1>. HIDE DEF seqs, A, n
<1>8. /\ FlattenSeq(seqs) \in Seq(A)
      /\ \A k \in 1..n : ToSet(seqs[k]) \subseteq ToSet(FlattenSeq(seqs))
      /\ Len(seqs[1]) <= Len(FlattenSeq(seqs))
      /\ \A j \in 1..Len(seqs[1]) : FlattenSeq(seqs)[j] = seqs[1][j]
  BY <1>1, <1>4, Flattened
<1>9. Widths(c) # <<>>
  <2>1. ToSet(<<>>) = {}
    BY DEF ToSet
  <2>. QED
    BY <1>4, <1>7, <1>8, <2>1
<1>. QED
  BY <1>4, <1>5, <1>8, <1>9, <1>10 DEF A

\* What is needed of the buckets b, numbered to m, of policy c.
BucketsOf(b, m, c, newest, S) ==
  /\ b \in Buckets(m, S) /\ c[1] \in 0..m /\ Hour \in Nat \ {0}
  /\ b[m].width \in Nat \ {0} /\ b[m].end = newest
  /\ \A j \in 0..m - 1 : newest - b[j].end >= b[m].width
  /\ \A j \in m - c[1] + 1..m : b[j].width = Hour
  /\ \A j \in 0..m - c[1] : newest - b[j].end >= c[1] * Hour
  /\ b[m].width = MinInterval(c) /\ newest - b[0].end = Span(c)
  /\ \A j \in 1..m : b[j].end - b[j - 1].end = b[j].width

LEMMA EndsGrow ==
  ASSUME NEW b, NEW m \in Nat \ {0}, NEW c, NEW newest, NEW S, BucketsOf(b, m, c, newest, S)
  PROVE  \A j \in 1..m : b[j - 1].end <= b[j].end
<1>1. \A j \in 0..m : b[j].width \in Nat /\ b[j].end \in Int
  BY DEF BucketsOf, Buckets
<1>2. \A j \in 1..m : j \in 0..m /\ j - 1 \in 0..m /\ b[j].end - b[j - 1].end = b[j].width
  BY DEF BucketsOf
<1>. QED
  BY <1>1, <1>2

\* The newest bucket ends at the newest snapshot; those before the c[1] newest, which
\* are an hour each, end as many hours earlier.  Each begins where the one before it ends.
LEMMA BucketsAre ==
  ASSUME ParametersOK, NEW c \in Policy, NEW newest \in Nat, NEW S
  PROVE  \E m \in Nat \ {0} : BucketsOf(NewBuckets(c, newest), m, c, newest, S)
<1>. DEFINE W == Widths(c)
            w == Reverse(W)
            m == Len(w)
            sum(i) == FoldLeft(+, 0, SubSeq(w, i + 1, m))
            b == NewBuckets(c, newest)
<1>1. /\ W \in Seq(Nat \ {0}) /\ W # <<>> /\ Hour \in Nat \ {0}
      /\ c[1] \in Nat /\ c[1] <= Len(W) /\ \A j \in 1..c[1] : W[j] = Hour
      /\ W[1] = MinInterval(c)
  BY WidthsAre
<1>15. Span(c) = FoldLeft(+, 0, W)
  BY DEF Span
<1>. HIDE DEF W
<1>2. /\ Len(W) \in Nat \ {0} /\ w \in [1..Len(W) -> Nat \ {0}]
      /\ \A i \in 1..Len(W) : w[i] = W[(Len(W) - i) + 1]
  BY <1>1 DEF Reverse
<1>3. /\ m = Len(W) /\ m \in Nat \ {0} /\ w \in Seq(Nat \ {0})
      /\ \A i \in 1..m : w[i] \in Nat \ {0}
  BY <1>2
<1>4. \A i \in m - c[1] + 1..m : w[i] = Hour
  <2>. TAKE i \in m - c[1] + 1..m
  <2>1. i \in 1..m /\ (m - i) + 1 \in 1..c[1]
    BY <1>1, <1>3
  <2>. QED
    BY <1>1, <1>2, <1>3, <2>1
<1>16. w[m] = MinInterval(c) /\ FoldLeft(+, 0, w) = Span(c)
  <2>1. m \in 1..m /\ (m - m) + 1 = 1
    BY <1>3
  <2>2. w[m] = W[1]
    BY <1>2, <1>3, <2>1
  <2>. HIDE DEF w
  <2>3. m \in Nat /\ W \in [1..m -> Nat] /\ w \in [1..m -> Nat]
    BY <1>1, <1>2, <1>3
  <2>4. \A i \in 1..m : w[i] = W[(m - i) + 1]
    BY <1>2, <1>3
  <2>. HIDE DEF m
  <2>5. FoldLeft(+, 0, w) = FoldLeft(+, 0, W)
    BY <2>3, <2>4, SumOfReverse
  <2>. QED
    BY <1>1, <1>15, <2>2, <2>5
<1>17. PICK F : Sums(F, w, m) /\ FoldLeft(+, 0, w) = F[m]
  <2>1. m \in Nat /\ w \in [1..m -> Nat]
    BY <1>2, <1>3
  <2>. HIDE DEF w, m
  <2>. QED
    BY <2>1, SumSteps
<1>. HIDE DEF w, m
<1>5. ASSUME NEW i \in 0..m
      PROVE  /\ sum(i) = F[m] - F[i]
             /\ sum(i) \in Nat /\ (i = m => sum(i) = 0)
             /\ i < m => sum(i) >= w[m]
             /\ i <= m - c[1] => sum(i) >= c[1] * Hour
  <2>. DEFINE n == m - i
              s == SubSeq(w, i + 1, m)
  <2>1. n \in Nat /\ n = (m - (i + 1)) + 1 /\ i + n = m
    BY <1>3
  <2>2. s \in [1..n -> Nat] /\ \A k \in 1..n : s[k] = w[i + k]
    <3>1. s = [k \in 1..n |-> w[i + k]]
      <4>1. s = [k \in 1..(m - (i + 1)) + 1 |-> w[(i + 1) + k - 1]]
        BY <1>3 DEF m
      <4>2. \A k \in 1..n : (i + 1) + k - 1 = i + k
        BY <2>1
      <4>. HIDE DEF s, n
      <4>. QED
        BY <2>1, <4>1, <4>2
    <3>2. \A k \in 1..n : i + k \in 1..m
      BY <1>3, <2>1
    <3>. HIDE DEF s, n
    <3>. QED
      BY <1>3, <3>1, <3>2
  <2>. HIDE DEF s, n
  <2>3. /\ FoldLeft(+, 0, s) \in Nat
        /\ \A d \in 0..n, h \in Nat :
             (\A k \in n - d + 1..n : s[k] = h) =>
                FoldLeft(+, 0, s) >= d * h /\ (d = n => FoldLeft(+, 0, s) = d * h)
    BY <2>1, <2>2, SumFolded
  <2>4. sum(i) = FoldLeft(+, 0, s)
    BY DEF s
  <2>8. FoldLeft(+, 0, s) = F[m] - F[i]
    <3>1. m \in Nat /\ w \in [1..m -> Nat] /\ s \in [1..m - i -> Nat] /\ n = m - i
      <4>1. m \in Nat /\ n = m - i
        BY <1>3 DEF n
      <4>2. w \in [1..m -> Nat \ {0}]
        BY <1>2, <1>3
      <4>3. w \in [1..m -> Nat]
        BY <4>2
      <4>. QED
        BY <2>2, <4>1, <4>3
    <3>2. \A k \in 1..m - i : s[k] = w[i + k]
      BY <2>2, <3>1
    <3>. QED
      BY <1>17, <3>1, <3>2, SumOfEnd
  <2>. HIDE DEF sum
  <2>5. i = m => sum(i) = 0
    <3>1. SUFFICES ASSUME i = m PROVE sum(i) = 0
      OBVIOUS
    <3>2. n = 0 /\ 0 \in 0..n /\ 0 \in Nat
      BY <1>3, <2>1, <3>1
    <3>3. \A k \in n - 0 + 1..n : s[k] = 0
      BY <3>2
    <3>4. 0 = n => FoldLeft(+, 0, s) = 0 * 0
      BY <2>3, <3>2, <3>3
    <3>5. 0 * 0 = 0
      OBVIOUS
    <3>. QED
      BY <2>4, <3>2, <3>4, <3>5
  <2>6. i < m => sum(i) >= w[m]
    <3>1. SUFFICES ASSUME i < m PROVE sum(i) >= w[m]
      OBVIOUS
    <3>2. 1 \in 0..n /\ w[m] \in Nat /\ n \in 1..n
      BY <1>3, <2>1, <3>1
    <3>3. \A k \in n - 1 + 1..n : s[k] = w[m]
      BY <2>1, <2>2, <3>2
    <3>4. FoldLeft(+, 0, s) >= 1 * w[m]
      BY <2>3, <3>2, <3>3
    <3>5. 1 * w[m] = w[m]
      BY <3>2
    <3>. QED
      BY <2>4, <3>4, <3>5
  <2>7. i <= m - c[1] => sum(i) >= c[1] * Hour
    <3>1. SUFFICES ASSUME i <= m - c[1] PROVE sum(i) >= c[1] * Hour
      OBVIOUS
    <3>2. c[1] \in 0..n /\ Hour \in Nat
      BY <1>1, <1>3, <2>1, <3>1
    <3>3. \A k \in n - c[1] + 1..n : s[k] = Hour
      <4>. TAKE k \in n - c[1] + 1..n
      <4>1. k \in 1..n /\ i + k \in m - c[1] + 1..m
        BY <1>1, <1>3, <2>1, <3>2
      <4>. QED
        BY <1>4, <2>2, <4>1
    <3>. QED
      BY <2>3, <2>4, <3>2, <3>3
  <2>. QED
    BY <2>3, <2>4, <2>5, <2>6, <2>7, <2>8
<1>6. b = [i \in 0..m |-> [width |-> IF i = 0 THEN 0 ELSE w[i], end |-> newest - sum(i),
                           snapshots |-> {}]]
  BY DEF NewBuckets, w, W, m
<1>. HIDE DEF sum, b
<1>7. \A i \in 0..m : /\ b[i].width = IF i = 0 THEN 0 ELSE w[i]
                      /\ b[i].end = newest - sum(i)
  BY <1>6
<1>8. b \in Buckets(m, S)
  <2>1. \A i \in 0..m :
          [width |-> IF i = 0 THEN 0 ELSE w[i], end |-> newest - sum(i), snapshots |-> {}]
            \in [width : Nat, end : Int, snapshots : SUBSET S]
    BY <1>3, <1>5
  <2>. QED
    BY <1>6, <2>1 DEF Buckets
<1>9. /\ m \in 0..m /\ m # 0 /\ c[1] \in 0..m
      /\ \A j \in m - c[1] + 1..m : j \in 0..m /\ j # 0
      /\ \A j \in 0..m - c[1] : j \in 0..m /\ j <= m - c[1]
      /\ \A j \in 0..m - 1 : j \in 0..m /\ j < m
  BY <1>1, <1>3
<1>10. b[m].width = w[m] /\ w[m] \in Nat \ {0} /\ b[m].end = newest
  BY <1>3, <1>5, <1>7, <1>9
<1>11. \A j \in 0..m : newest - b[j].end = sum(j)
  BY <1>5, <1>7
<1>12. \A j \in 0..m - 1 : newest - b[j].end >= b[m].width
  BY <1>5, <1>9, <1>10, <1>11
<1>13. \A j \in m - c[1] + 1..m : b[j].width = Hour
  BY <1>4, <1>7, <1>9
<1>14. \A j \in 0..m - c[1] : newest - b[j].end >= c[1] * Hour
  BY <1>5, <1>9, <1>11
<1>18. /\ F \in [0..m -> Nat] /\ F[0] = 0 /\ F[m] = Span(c)
       /\ \A k \in 1..m : F[k] = F[k - 1] + w[k]
  BY <1>16, <1>17 DEF Sums
<1>19. newest - b[0].end = Span(c)
  <2>1. 0 \in 0..m /\ m \in 0..m
    BY <1>3
  <2>2. newest - b[0].end = F[m] - F[0]
    BY <1>5, <1>11, <2>1
  <2>3. F[m] \in Nat
    BY <1>18, <2>1
  <2>. QED
    BY <1>18, <2>2, <2>3
<1>20. ASSUME NEW j \in 1..m PROVE b[j].end - b[j - 1].end = b[j].width
  <2>1. j \in 0..m /\ j - 1 \in 0..m /\ j # 0 /\ m \in 0..m
    BY <1>3
  <2>2. b[j].end = newest - sum(j) /\ b[j - 1].end = newest - sum(j - 1) /\ b[j].width = w[j]
    BY <1>7, <2>1
  <2>3. sum(j) = F[m] - F[j] /\ sum(j - 1) = F[m] - F[j - 1]
    BY <1>5, <2>1
  <2>4. F[j] = F[j - 1] + w[j] /\ F[j - 1] \in Nat /\ w[j] \in Nat /\ F[m] \in Nat
    BY <1>3, <1>18, <2>1
  <2>. QED
    BY <2>2, <2>3, <2>4
<1>. QED
  BY <1>1, <1>3, <1>8, <1>9, <1>10, <1>12, <1>13, <1>14, <1>16, <1>19, <1>20 DEF b, BucketsOf

-----------------------------------------------------------------------------
(* What Keep keeps.                                                        *)

\* The first pass marks the snapshots of an hourly bucket, the oldest of any other, and
\* the newest of all.
LEMMA MarkedHas ==
  ASSUME NEW m \in Nat \ {0}, NEW top \in Nat, NEW S \in SUBSET (0..top),
         NEW b \in Buckets(m, S)
  PROVE  /\ Marked(b) \in Accumulated
         /\ \A j \in 1..m, t \in S :
              /\ t \in b[j].snapshots /\ ~Marked(b).panic
              /\ \/ b[j].width = Hour
                 \/ j = m /\ \A u \in S : u <= t
                 \/ t = Min(b[j].snapshots)
              => t \in ToSet(Marked(b).series)
<1>. DEFINE marks(i) ==
              IF b[i].width = Hour THEN <<Sorted(b[i].snapshots)>>
              ELSE IF i < Newest(b) THEN <<<<PeekOldest(b[i].snapshots)>>>>
              ELSE <<<<PeekOldest(b[i].snapshots)>>, <<PeekNewest(b[i].snapshots)>>>>
            seqs == [i \in 1..m |-> marks(i)]
            all == FlattenSeq(seqs)
<1>1. Newest(b) = m /\ m \in 1..m /\ IsFiniteSet(S) /\ S \in SUBSET Nat
  <2>1. IsFiniteSet(0..top)
    BY FS_Interval
  <2>2. m \in Nat /\ m \in 1..m /\ S \in SUBSET Nat
    OBVIOUS
  <2>3. Newest(b) = m
    BY <2>2, NewestIs
  <2>4. IsFiniteSet(S)
    BY <2>1, FS_Subset
  <2>. QED
    BY <2>2, <2>3, <2>4
<1>2. \A i \in 1..m : b[i].snapshots \in SUBSET S
  BY DEF Buckets
<1>3. ASSUME NEW i \in 1..m
      PROVE  /\ PeekOldest(b[i].snapshots) \in Nat /\ PeekNewest(b[i].snapshots) \in Nat
             /\ Sorted(b[i].snapshots) \in Seq(Nat)
             /\ ToSet(Sorted(b[i].snapshots)) = b[i].snapshots
  <2>. DEFINE T == b[i].snapshots
  <2>1. T \in SUBSET S
    BY <1>2
  <2>. HIDE DEF T
  <2>2. T \in SUBSET Nat /\ T \in SUBSET (0..top) /\ IsFiniteSet(T)
    BY <1>1, <2>1, FS_Subset
  <2>3. T # {} => Min(T) \in Nat /\ Max(T) \in Nat
    BY <2>2, MinIs, BoundedMax
  <2>4. PeekOldest(T) \in Nat /\ PeekNewest(T) \in Nat
    BY <2>3 DEF PeekOldest, PeekNewest, Zero
  <2>5. Sorted(T) \in Seq(Nat) /\ ToSet(Sorted(T)) = T
    BY <2>2, SortedHas
  <2>. QED
    BY <2>4, <2>5 DEF T
<1>4. ASSUME NEW i \in 1..m PROVE marks(i) \in Seq(Seq(Nat))
  <2>. DEFINE a == Sorted(b[i].snapshots)
              o == PeekOldest(b[i].snapshots)
              p == PeekNewest(b[i].snapshots)
  <2>1. a \in Seq(Nat) /\ o \in Nat /\ p \in Nat
    BY <1>3
  <2>. HIDE DEF a, o, p
  <2>2. <<a>> \in Seq(Seq(Nat)) /\ <<<<o>>>> \in Seq(Seq(Nat)) /\ <<<<o>>, <<p>>>> \in Seq(Seq(Nat))
    BY <2>1
  <2>. QED
    BY <2>2 DEF a, o, p
<1>5. seqs \in [1..m -> Seq(Seq(Nat))]
  BY <1>4
<1>6. all \in Seq(Seq(Nat)) /\ \A j \in 1..m : ToSet(seqs[j]) \subseteq ToSet(all)
  <2>. HIDE DEF seqs
  <2>. QED
    BY <1>5, Flattened
<1>7. Marked(b) = FoldLeft(Push, NoTimes, all)
  BY <1>1 DEF Marked, NoTimes
<1>8. \A j \in 1..m : ToSet(seqs[j]) = ToSet(marks(j))
  OBVIOUS
<1>. HIDE DEF seqs, all
<1>9. Marked(b) \in Accumulated
  BY <1>6, <1>7, PushFolded
<1>10. ASSUME ~Marked(b).panic, NEW s \in ToSet(all) PROVE ToSet(s) \subseteq ToSet(Marked(b).series)
  <2>1. PICK k \in 1..Len(all) : s = all[k]
    BY <1>6 DEF ToSet
  <2>. QED
    BY <1>6, <1>7, <1>10, <2>1, PushFolded
<1>11. ASSUME NEW j \in 1..m, NEW t \in S, t \in b[j].snapshots,
              \/ b[j].width = Hour
              \/ j = m /\ \A u \in S : u <= t
              \/ t = Min(b[j].snapshots)
       PROVE  \E s \in ToSet(marks(j)) : t \in ToSet(s)
  <2>1. CASE b[j].width = Hour
    <3>1. marks(j) = <<Sorted(b[j].snapshots)>>
      BY <2>1
    <3>2. ToSet(<<Sorted(b[j].snapshots)>>) = {Sorted(b[j].snapshots)}
      BY <1>3, Single
    <3>. QED
      BY <1>3, <1>11, <3>1, <3>2
  <2>2. CASE b[j].width # Hour /\ j = m /\ \A u \in S : u <= t
    <3>. DEFINE o == <<PeekOldest(b[j].snapshots)>>
                p == <<PeekNewest(b[j].snapshots)>>
    <3>1. marks(j) = <<o, p>>
      BY <1>1, <2>2
    <3>2. PeekNewest(b[j].snapshots) = t
      <4>1. \A u \in b[j].snapshots : u <= t
        BY <1>2, <2>2
      <4>2. b[j].snapshots \in SUBSET Int
        <5>1. b[j].snapshots \in SUBSET S /\ S \in SUBSET Int
          BY <1>2
        <5>. QED
          BY <5>1
      <4>3. Max(b[j].snapshots) = t
        BY <1>11, <4>1, <4>2, MaxIs
      <4>. QED
        BY <1>11, <4>3 DEF PeekNewest
    <3>3. t \in ToSet(p)
      <4>1. ToSet(<<t>>) = {t}
        BY Single
      <4>. QED
        BY <3>2, <4>1
    <3>. HIDE DEF o, p
    <3>4. p \in ToSet(<<o, p>>)
      BY DEF ToSet
    <3>. QED
      BY <3>1, <3>3, <3>4
  <2>3. CASE b[j].width # Hour /\ t = Min(b[j].snapshots)
    <3>. DEFINE o == <<PeekOldest(b[j].snapshots)>>
                p == <<PeekNewest(b[j].snapshots)>>
    <3>1. marks(j) = <<o>> \/ marks(j) = <<o, p>>
      BY <2>3
    <3>2. t \in ToSet(o)
      <4>1. ToSet(<<t>>) = {t} /\ PeekOldest(b[j].snapshots) = t
        BY <1>11, <2>3, Single DEF PeekOldest
      <4>. QED
        BY <4>1
    <3>. HIDE DEF o, p
    <3>3. o \in ToSet(<<o>>) /\ o \in ToSet(<<o, p>>)
      BY DEF ToSet
    <3>. QED
      BY <3>1, <3>2, <3>3
  <2>. QED
    BY <1>11, <2>1, <2>2, <2>3
<1>. HIDE DEF marks
<1>. QED
  BY <1>6, <1>8, <1>9, <1>10, <1>11

\* A time is put between the ends of its bucket and of the last, and not before bucket g
\* if those before it end earlier.
LEMMA ForIs ==
  ASSUME NEW m \in Nat \ {0}, NEW S, NEW b \in Buckets(m, S), NEW t \in Int, t <= b[m].end,
         NEW g \in 0..m, \A j \in 0..g - 1 : b[j].end < t,
         \A j \in 1..m : b[j - 1].end <= b[j].end
  PROVE  LET i == For(b, t)
         IN i \in g..m /\ t <= b[i].end /\ (i > 0 => t >= b[i - 1].end)
<1>. DEFINE late == {j \in DOMAIN b : b[j].end >= t}
            i == Min(late)
<1>1. DOMAIN b = 0..m /\ m \in 0..m /\ \A j \in 0..m : b[j].end \in Int
  BY DEF Buckets
<1>2. m \in late /\ late \in SUBSET Nat
  BY <1>1
<1>3. i \in late /\ \A j \in late : i <= j
  BY <1>2, MinIs
<1>4. i \in 0..m /\ b[i].end >= t
  BY <1>1, <1>3
<1>5. ASSUME NEW j \in 0..m, j < i PROVE b[j].end < t
  <2>1. j \notin late
    <3>. HIDE DEF i, late
    <3>. QED
      BY <1>2, <1>3, <1>5
  <2>. QED
    BY <1>1, <2>1
<1>6. For(b, t) = IF i = 0 /\ m > 0 /\ t = b[0].end THEN 1 ELSE i
  BY NewestIs DEF For
<1>. HIDE DEF i, late
<1>7. i >= g
  <2>1. SUFFICES ASSUME i < g PROVE FALSE
    BY <1>4
  <2>2. i \in 0..g - 1 /\ b[i].end \in Int
    BY <1>1, <1>4, <2>1
  <2>. QED
    BY <1>4, <2>2
<1>8. CASE i = 0 /\ t = b[0].end
  <2>1. For(b, t) = 1 /\ 1 \in 1..m /\ 1 \in 0..m /\ 0 \in 0..m /\ 1 - 1 = 0
    BY <1>6, <1>8
  <2>2. b[0].end <= b[1].end
    BY <2>1
  <2>3. g = 0
    BY <1>7, <1>8
  <2>. QED
    BY <1>1, <1>8, <2>1, <2>2, <2>3
<1>9. CASE ~(i = 0 /\ t = b[0].end)
  <2>1. For(b, t) = i
    BY <1>6, <1>9
  <2>2. ASSUME i > 0 PROVE t >= b[i - 1].end
    <3>1. i - 1 \in 0..m /\ i - 1 < i
      BY <1>4, <2>2
    <3>. QED
      BY <1>1, <1>5, <3>1
  <2>3. b[i].end \in Int
    BY <1>1, <1>4
  <2>. QED
    BY <1>4, <1>7, <2>1, <2>2, <2>3
<1>. QED
  BY <1>8, <1>9

\* Assign fills the buckets, and changes nothing else of them.
LEMMA AssignIs ==
  ASSUME NEW m \in Nat \ {0}, NEW S, NEW b0 \in Buckets(m, S)
  PROVE  LET b1 == Assign(b0, S)
         IN /\ b1 \in Buckets(m, S)
            /\ \A j \in 0..m : /\ b1[j].width = b0[j].width /\ b1[j].end = b0[j].end
                               /\ b1[j].snapshots = {u \in S : For(b0, u) = j}
<1>. DEFINE b1 == Assign(b0, S)
<1>1. DOMAIN b0 = 0..m /\ \A j \in 0..m : b0[j] \in [width : Nat, end : Int, snapshots : SUBSET S]
  BY DEF Buckets
<1>2. b1 = [j \in 0..m |-> [b0[j] EXCEPT !.snapshots = {u \in S : For(b0, u) = j}]]
  BY <1>1 DEF Assign
<1>3. ASSUME NEW j \in 0..m, NEW T \in SUBSET S
      PROVE  LET r == [b0[j] EXCEPT !.snapshots = T]
             IN /\ r \in [width : Nat, end : Int, snapshots : SUBSET S]
                /\ r.width = b0[j].width /\ r.end = b0[j].end /\ r.snapshots = T
  BY <1>1
<1>. HIDE DEF b1
<1>4. ASSUME NEW j \in 0..m
      PROVE  /\ b1[j] \in [width : Nat, end : Int, snapshots : SUBSET S]
             /\ b1[j].width = b0[j].width /\ b1[j].end = b0[j].end
             /\ b1[j].snapshots = {u \in S : For(b0, u) = j}
  <2>. DEFINE T == {u \in S : For(b0, u) = j}
  <2>1. b1[j] = [b0[j] EXCEPT !.snapshots = T] /\ T \in SUBSET S
    BY <1>2
  <2>. HIDE DEF T
  <2>2. /\ b1[j] \in [width : Nat, end : Int, snapshots : SUBSET S]
        /\ b1[j].width = b0[j].width /\ b1[j].end = b0[j].end /\ b1[j].snapshots = T
    BY <1>3, <2>1
  <2>. QED
    BY <2>2 DEF T
<1>5. b1 \in Buckets(m, S)
  <2>1. b1 = [j \in 0..m |-> b1[j]]
    BY <1>2
  <2>. QED
    BY <1>4, <2>1 DEF Buckets
<1>. QED
  BY <1>4, <1>5 DEF b1

\* What the first pass marks is not deleted.
LEMMA MarkedAreKept ==
  ASSUME NEW c, NEW m \in Nat \ {0}, NEW top \in Nat, NEW S \in SUBSET (0..top),
         ~Delete(c, S).panic, NEW b2 \in Buckets(m, S),
         b2 = RedistributeBackups(Assign(NewBuckets(c, PeekNewest(S)), S))
  PROVE  /\ ~Marked(b2).panic
         /\ \A t \in ToSet(Marked(b2).series) : t \notin Delete(c, S).times
<1>. DEFINE first == Marked(b2)
<1>12. first \in Accumulated
  BY MarkedHas
<1>. DEFINE k == first.series
            pairs == 1..(Len(k) - 1)
            nil == \E i \in pairs : (Has(b2, k[i]) = -1) # (Has(b2, k[i + 1]) = -1)
            between == UNION {Middle(b2, S, k[i], k[i + 1]) :
                                i \in {h \in pairs : Has(b2, k[h]) # -1}}
            more == Sorted(between)
<1>13. Keep(c, S) = IF first.panic \/ nil THEN [panic |-> TRUE, series |-> <<>>]
                    ELSE Push(first, more)
  BY DEF Keep, Kept
<1>14. between \in SUBSET S
  BY DEF Middle
<1>15. IsFiniteSet(S) /\ S \in SUBSET Nat
  <2>1. IsFiniteSet(0..top)
    BY FS_Interval
  <2>2. IsFiniteSet(S)
    BY <2>1, FS_Subset
  <2>3. S \in SUBSET Nat
    OBVIOUS
  <2>. QED
    BY <2>2, <2>3
<1>. HIDE DEF between, nil
<1>16. more \in Seq(Nat)
  <2>1. between \in SUBSET Nat /\ IsFiniteSet(between)
    BY <1>14, <1>15, FS_Subset
  <2>. QED
    BY <2>1, SortedHas
<1>17. ~Keep(c, S).panic /\ Delete(c, S).times = S \ ToSet(Keep(c, S).series)
  BY DEF Delete
<1>. HIDE DEF more, first
<1>18. ~(first.panic \/ nil)
  BY <1>13, <1>17
<1>19. Keep(c, S) = Push(first, more)
  BY <1>13, <1>18
<1>20. ToSet(Keep(c, S).series) = ToSet(first.series) \cup ToSet(more)
  BY <1>12, <1>16, <1>17, <1>19, PushType
<1>. QED
  BY <1>17, <1>18, <1>20 DEF first

\* Neither the newest snapshot nor one of the hours that are kept whole is deleted.
LEMMA KeepKeeps ==
  ASSUME ParametersOK, NEW c \in Policy, NEW top \in Nat, NEW S \in SUBSET (0..top),
         NEW t \in S, t = Max(S) \/ Max(S) - t < c[1] * Hour - Hour \div 4,
         ~Delete(c, S).panic
  PROVE  t \notin Delete(c, S).times
<1>. DEFINE newest == PeekNewest(S)
            b0 == NewBuckets(c, newest)
            b1 == Assign(b0, S)
            b2 == RedistributeBackups(b1)
            first == Marked(b2)
<1>1. /\ newest = Max(S) /\ newest \in S /\ newest \in Nat /\ t \in Nat
      /\ \A u \in S : u <= newest
  <2>0. S # {} /\ S \in SUBSET Nat
    OBVIOUS
  <2>1. Max(S) \in S /\ \A u \in S : u <= Max(S)
    BY <2>0, BoundedMax
  <2>2. newest = Max(S)
    BY <2>0 DEF PeekNewest
  <2>. HIDE DEF newest
  <2>. QED
    BY <2>0, <2>1, <2>2
<1>. HIDE DEF newest
<1>0. PICK m \in Nat \ {0} : BucketsOf(b0, m, c, newest, S)
  BY <1>1, BucketsAre
<1>2. /\ b0 \in Buckets(m, S) /\ c[1] \in 0..m /\ Hour \in Nat \ {0}
      /\ b0[m].width \in Nat \ {0} /\ b0[m].end = newest
      /\ \A j \in 0..m - 1 : newest - b0[j].end >= b0[m].width
      /\ \A j \in m - c[1] + 1..m : b0[j].width = Hour
      /\ \A j \in 0..m - c[1] : newest - b0[j].end >= c[1] * Hour
  BY <1>0 DEF BucketsOf
<1>. HIDE DEF b0
<1>3. \A j \in 0..m : b0[j].width \in Nat /\ b0[j].end \in Int
  BY <1>2 DEF Buckets
<1>20. \A j \in 1..m : b0[j - 1].end <= b0[j].end
  BY <1>0, EndsGrow
<1>4. \E g \in 1..m :
        /\ Far(b0, m, g, t) /\ \A j \in 0..g - 1 : b0[j].end < t
        /\ (\A j \in g..m : b0[j].width = Hour) \/ (g = m /\ \A u \in S : u <= t)
  <2>1. CASE t = newest
    <3>1. \A j \in 0..m - 1 : j \in 0..m /\ b0[j].end < t
      BY <1>1, <1>2, <1>3, <2>1
    <3>2. m - 1 \in 0..m - 1
      OBVIOUS
    <3>3. b0[m - 1].end \in Int /\ newest - b0[m - 1].end >= b0[m].width
      BY <1>2, <1>3, <3>1, <3>2
    <3>4. b0[m].width > b0[m].width \div 4
      <4>1. \A x \in Nat \ {0} : x > x \div 4
        OBVIOUS
      <4>. QED
        BY <1>2, <4>1
    <3>5. Far(b0, m, m, t)
      BY <1>1, <1>2, <2>1, <3>3, <3>4 DEF Far
    <3>. QED
      BY <1>1, <2>1, <3>1, <3>5
  <2>2. CASE t # newest
    <3>1. newest - t < c[1] * Hour - Hour \div 4 /\ newest - t > 0 /\ c[1] \in Nat
      BY <1>1, <1>2, <2>2
    <3>2. c[1] # 0
      <4>1. 0 * Hour = 0 /\ Hour \div 4 >= 0
        BY <1>2
      <4>. QED
        BY <1>1, <1>2, <3>1, <4>1
    <3>. DEFINE g == m - c[1] + 1
                span == c[1] * Hour
                quarter == Hour \div 4
    <3>3. g \in 1..m /\ g - 1 = m - c[1] /\ g - 1 \in 0..m - c[1] /\ m \in g..m
      BY <1>2, <3>1, <3>2
    <3>4. span \in Nat /\ quarter \in Nat
      BY <1>2, <3>1
    <3>5. newest - t < span - quarter /\ \A j \in 0..g - 1 : newest - b0[j].end >= span
      BY <1>2, <3>1, <3>3
    <3>6. b0[m].width = Hour
      BY <1>2, <3>3
    <3>7. \A j \in 0..g - 1 : b0[j].end \in Int
      BY <1>3, <3>3
    <3>. HIDE DEF span, g
    <3>8. \A j \in 0..g - 1 : b0[j].end < t /\ t - b0[j].end > quarter
      BY <1>1, <3>4, <3>5, <3>7
    <3>9. Far(b0, m, g, t)
      BY <3>3, <3>6, <3>8 DEF Far
    <3>10. \A j \in g..m : b0[j].width = Hour
      BY <1>2 DEF g
    <3>. QED
      BY <3>3, <3>8, <3>9, <3>10
  <2>. QED
    BY <2>1, <2>2
<1>5. PICK g \in 1..m :
        /\ Far(b0, m, g, t) /\ \A j \in 0..g - 1 : b0[j].end < t
        /\ (\A j \in g..m : b0[j].width = Hour) \/ (g = m /\ \A u \in S : u <= t)
  BY <1>4
<1>6. For(b0, t) \in g..m
  <2>1. g \in 0..m /\ t <= b0[m].end /\ t \in Int
    BY <1>1, <1>2
  <2>. QED
    BY <1>2, <1>5, <1>20, <2>1, ForIs
<1>7. /\ b1 \in Buckets(m, S)
      /\ \A j \in 0..m : /\ b1[j].width = b0[j].width /\ b1[j].end = b0[j].end
                         /\ b1[j].snapshots = {u \in S : For(b0, u) = j}
  BY <1>2, AssignIs
<1>. HIDE DEF b1
<1>8. Redistributed(b1, b2, m, S)
  BY <1>7, RedistributeAll
<1>. HIDE DEF b2
<1>9. /\ b2 \in Buckets(m, S) /\ \A j \in 0..m : b2[j].width = b0[j].width
      /\ InNewer(b2, m, g, t)
  <2>1. InNewer(b1, m, g, t)
    <3>1. For(b0, t) \in 0..m /\ t \in b1[For(b0, t)].snapshots
      BY <1>6, <1>7
    <3>. QED
      BY <1>6, <3>1 DEF InNewer
  <2>2. Far(b1, m, g, t)
    <3>1. g - 1 \in 0..m /\ m \in 0..m
      OBVIOUS
    <3>. QED
      BY <1>5, <1>7, <3>1 DEF Far
  <2>. QED
    BY <1>7, <1>8, <2>1, <2>2 DEF Redistributed
<1>10. PICK j \in g..m : t \in b2[j].snapshots
  BY <1>9 DEF InNewer
<1>11. /\ j \in 1..m /\ j \in 0..m
       /\ b2[j].width = Hour \/ (j = m /\ \A u \in S : u <= t)
  BY <1>5, <1>9, <1>10
<1>12. ~first.panic => t \in ToSet(first.series)
  BY <1>9, <1>10, <1>11, MarkedHas
<1>13. /\ ~first.panic
       /\ \A u \in ToSet(first.series) : u \notin Delete(c, S).times
  BY <1>9, MarkedAreKept DEF b0, b1, b2, newest
<1>. QED
  BY <1>12, <1>13

\* Where a snapshot well within the span of the policy is deleted, an older one stays that
\* is as close as the width of its bucket and a quarter of the smallest.
LEMMA GapClosed ==
  ASSUME ParametersOK, NEW c \in Policy, NEW top \in Nat, NEW S \in SUBSET (0..top),
         ~Delete(c, S).panic, NEW t \in Delete(c, S).times,
         Max(S) - t < Span(c) - MinInterval(c) \div 4
  PROVE  LET b == NewBuckets(c, Max(S))
         IN \E u \in S \ Delete(c, S).times :
              u < t /\ t - u <= b[For(b, t)].width + MinInterval(c) \div 4
<1>. DEFINE newest == PeekNewest(S)
            b0 == NewBuckets(c, newest)
            b1 == Assign(b0, S)
            b2 == RedistributeBackups(b1)
            close == MinInterval(c) \div 4
            gone == Delete(c, S).times
            home == [u \in S |-> For(b0, u)]
<1>0. t \in S
  BY DEF Delete
<1>1. /\ newest = Max(S) /\ newest \in Nat /\ \A u \in S : u <= newest
      /\ S \in SUBSET Nat
  <2>0. S # {} /\ S \in SUBSET Nat
    BY <1>0
  <2>1. Max(S) \in S /\ \A u \in S : u <= Max(S)
    BY <2>0, BoundedMax
  <2>2. newest = Max(S)
    BY <2>0 DEF PeekNewest
  <2>. HIDE DEF newest
  <2>. QED
    BY <2>0, <2>1, <2>2
<1>. HIDE DEF newest
<1>2. PICK m \in Nat \ {0} : BucketsOf(b0, m, c, newest, S)
  BY <1>1, BucketsAre
<1>3. /\ b0 \in Buckets(m, S) /\ b0[m].end = newest
      /\ b0[m].width = MinInterval(c) /\ MinInterval(c) \in Nat
      /\ newest - b0[0].end = Span(c)
      /\ \A j \in 1..m : b0[j].end - b0[j - 1].end = b0[j].width
  BY <1>2 DEF BucketsOf
<1>4. \A j \in 1..m : b0[j - 1].end <= b0[j].end
  BY <1>2, EndsGrow
<1>5. /\ \A j \in 0..m : b0[j].width \in Nat /\ b0[j].end \in Int
      /\ 0 \in 0..m /\ m \in 0..m /\ 1 \in 1..m /\ close \in Nat
  <2>1. \A j \in 0..m : b0[j].width \in Nat /\ b0[j].end \in Int
    <3>. HIDE DEF b0
    <3>. QED
      BY <1>3 DEF Buckets
  <2>2. \A x \in Nat : x \div 4 \in Nat
    OBVIOUS
  <2>. QED
    BY <1>3, <2>1, <2>2
<1>. HIDE DEF b0
\* It is out of the catchall, and not near it.
<1>6. b0[0].end < t - close
  <2>1. newest - t < Span(c) - close
    BY <1>1
  <2>2. b0[0].end \in Int /\ t \in Int
    <3>1. b0[0].end \in Int
      BY <1>5
    <3>2. t \in Int
      BY <1>0, <1>1
    <3>. QED
      BY <3>1, <3>2
  <2>3. newest - t < newest - b0[0].end - close
    BY <1>3, <2>1
  <2>. HIDE DEF close
  <2>. QED
    BY <1>1, <1>5, <2>2, <2>3
<1>7. For(b0, t) \in 1..m
  <2>1. 1 \in 0..m /\ t \in Int /\ t <= b0[m].end
    BY <1>0, <1>1, <1>3
  <2>2. \A j \in 0..1 - 1 : b0[j].end < t
    <3>. HIDE DEF close
    <3>. QED
      BY <1>0, <1>1, <1>5, <1>6
  <2>. QED
    BY <1>3, <1>4, <2>1, <2>2, ForIs
<1>8. /\ b1 \in Buckets(m, S)
      /\ \A j \in 0..m : /\ b1[j].width = b0[j].width /\ b1[j].end = b0[j].end
                         /\ b1[j].snapshots = {u \in S : For(b0, u) = j}
  BY <1>3, AssignIs
<1>. HIDE DEF b1
<1>9. Homes(b1, m, S, home)
  <2>1. ASSUME NEW u \in S
        PROVE  LET i == For(b0, u)
               IN i \in 0..m /\ u <= b0[i].end /\ (i > 0 => u >= b0[i - 1].end)
    <3>1. 0 \in 0..m /\ u \in Int /\ u <= b0[m].end /\ \A j \in 0..0 - 1 : b0[j].end < u
      BY <1>1, <1>3
    <3>. QED
      BY <1>3, <1>4, <3>1, ForIs
  <2>2. home \in [S -> 0..m] /\ \A u \in S : home[u] = For(b0, u)
    BY <2>1
  <2>. HIDE DEF home
  <2>3. \A u \in S : /\ u <= b1[home[u]].end
                     /\ home[u] > 0 => u >= b1[home[u] - 1].end
    <3>. TAKE u \in S
    <3>1. home[u] \in 0..m /\ home[u] = For(b0, u) /\ (home[u] > 0 => home[u] - 1 \in 0..m)
      BY <2>2
    <3>. QED
      BY <1>8, <2>1, <3>1
  <2>4. ASSUME NEW j \in 0..m PROVE b1[j].snapshots = {u \in S : home[u] = j}
    <3>1. b1[j].snapshots = {u \in S : For(b0, u) = j}
      BY <1>8
    <3>. QED
      BY <2>2, <3>1
  <2>. QED
    BY <2>2, <2>3, <2>4 DEF Homes
<1>10. Redistributed(b1, b2, m, S) /\ Tidy(b1, b2, m, m, S, home)
  <2>. HIDE DEF home, b2
  <2>1. Redistributed(b1, RedistributeBackups(b1), m, S)
    BY <1>8, RedistributeAll
  <2>2. Tidy(b1, RedistributeBackups(b1), m, m, S, home)
    BY <1>8, <1>9, RedistributeTidies
  <2>. QED
    BY <2>1, <2>2 DEF b2
<1>. HIDE DEF b2
<1>11. PICK j \in 1..m : t \in b2[j].snapshots
  <2>1. Far(b1, m, 1, t)
    <3>1. t - b0[0].end > close
      <4>. HIDE DEF close
      <4>. QED
        BY <1>0, <1>1, <1>5, <1>6
    <3>2. b1[1 - 1].end = b0[0].end /\ b1[m].width = MinInterval(c)
      BY <1>3, <1>5, <1>8
    <3>. QED
      BY <3>1, <3>2 DEF Far
  <2>2. InNewer(b1, m, 1, t)
    <3>1. t \in b1[For(b0, t)].snapshots
      BY <1>0, <1>7, <1>8
    <3>. QED
      BY <1>7, <3>1 DEF InNewer
  <2>3. InNewer(b2, m, 1, t)
    BY <1>0, <1>5, <1>10, <2>1, <2>2 DEF Redistributed
  <2>. QED
    BY <2>3 DEF InNewer
\* The oldest of its bucket stays.
<1>. DEFINE u == Min(b2[j].snapshots)
<1>12. /\ b2 \in Buckets(m, S) /\ j \in 0..m /\ j - 1 \in 0..m
       /\ \A h \in 0..m : b2[h].end = b0[h].end /\ b2[h].width = b0[h].width
  BY <1>8, <1>10 DEF Tidy
<1>13. u \in b2[j].snapshots /\ u <= t /\ u \in S /\ u \in Nat
  <2>1. b2[j].snapshots \in SUBSET S
    BY <1>12 DEF Buckets
  <2>2. b2[j].snapshots \in SUBSET Nat /\ b2[j].snapshots # {}
    BY <1>1, <1>11, <2>1
  <2>. QED
    BY <1>1, <1>11, <2>1, <2>2, MinIs
<1>14. u \notin gone
  <2>1. /\ ~Marked(b2).panic
        /\ \A x \in ToSet(Marked(b2).series) : x \notin Delete(c, S).times
    BY <1>12, MarkedAreKept DEF b0, b1, b2, newest
  <2>2. u \in ToSet(Marked(b2).series)
    <3>1. u = Min(b2[j].snapshots) /\ u \in b2[j].snapshots /\ u \in S
      BY <1>13
    <3>. HIDE DEF u
    <3>2. \A x \in S : x \in b2[j].snapshots /\ x = Min(b2[j].snapshots) => x \in ToSet(Marked(b2).series)
      BY <1>12, <2>1, MarkedHas
    <3>. QED
      BY <3>1, <3>2
  <2>. QED
    BY <2>1, <2>2
<1>. HIDE DEF u
<1>15. u < t /\ t \in Nat
  BY <1>0, <1>1, <1>13, <1>14
<1>16. home[t] = j /\ u >= b0[j - 1].end - close
  <2>1. Neat(b2, j, m, home)
    BY <1>10 DEF Tidy
  <2>2. home[t] = j /\ u >= b2[j - 1].end - b2[m].width \div 4
    <3>. HIDE DEF home
    <3>. QED
      BY <1>11, <1>13, <1>15, <2>1 DEF Neat
  <2>3. b2[j - 1].end = b0[j - 1].end /\ b2[m].width \div 4 = close
    BY <1>3, <1>5, <1>12
  <2>. QED
    BY <2>2, <2>3
<1>17. For(b0, t) = j /\ t <= b0[j].end
  <2>1. t <= b1[home[t]].end
    BY <1>0, <1>9 DEF Homes
  <2>. QED
    BY <1>0, <1>8, <1>12, <1>16, <2>1
<1>18. t - u <= b0[j].width + close
  <2>1. b0[j].end - b0[j - 1].end = b0[j].width /\ b0[j].end \in Int /\ b0[j - 1].end \in Int
    BY <1>3, <1>5, <1>12
  <2>. HIDE DEF close
  <2>. QED
    BY <1>5, <1>13, <1>15, <1>16, <1>17, <2>1
<1>. QED
  BY <1>1, <1>13, <1>14, <1>15, <1>17, <1>18 DEF b0

-----------------------------------------------------------------------------
(* The inductive invariant.                                                *)

\* What t must be to be deleted.
Old(t) == t # Max(repo) /\ Max(repo) - t >= config[1] * Hour - Hour \div 4

\* The snapshots that are still to delete may be, and there are some while any is deleted.
TodoIsOld == \A t \in todo : Old(t)
DeletesSome == pc = "delete" => todo # {}

\* And an older one stays, not far from it, if it is within the span of the policy.
Closed(S, t) ==
  LET b == NewBuckets(config, Max(repo))
  IN \E u \in S : u < t /\ t - u <= b[For(b, t)].width + Every \div 4
GapsClose ==
  \A t \in todo : Max(repo) - t < Span(config) - Every \div 4 => Closed(repo \ todo, t)

IInv ==
  /\ TypeOK
  /\ TodoIsOld
  /\ GapsClose
  /\ DeletesSome

\* The ticker's interval is one of the widths, none of which is more than the last.
LEMMA EveryIs ==
  ASSUME ParametersOK, config \in Policy
  PROVE  Every \in Nat /\ Max(ToSet(Width)) \in Nat /\ Every <= Max(ToSet(Width))
<1>. DEFINE n == Len(Width)
            set == {i \in DOMAIN Width : config[i] # 0}
<1>1. /\ n \in Nat \ {0} /\ DOMAIN Width = 1..n /\ \A i \in 1..n : Width[i] \in Nat
      /\ \A i, j \in 1..n : i < j => Width[i] < Width[j]
  BY DEF ParametersOK, WidthOK
<1>. HIDE DEF n
<1>2. \A i \in 1..n : Width[i] <= Width[n]
  <2>. TAKE i \in 1..n
  <2>1. i = n \/ i < n
    BY <1>1
  <2>. QED
    BY <1>1, <2>1
<1>3. Max(ToSet(Width)) = Width[n]
  <2>1. ToSet(Width) = {Width[i] : i \in 1..n}
    BY <1>1 DEF ToSet
  <2>2. n \in 1..n
    BY <1>1
  <2>3. ToSet(Width) \in SUBSET Int /\ Width[n] \in ToSet(Width)
    BY <1>1, <2>1, <2>2
  <2>4. \A y \in ToSet(Width) : y <= Width[n]
    BY <1>2, <2>1
  <2>. QED
    BY <2>3, <2>4, MaxIs
<1>4. set \in SUBSET Nat /\ set # {} /\ set \in SUBSET (1..n)
  <2>1. \E i \in DOMAIN Width : config[i] > 0
    BY DEF ParametersOK
  <2>. QED
    BY <1>1, <2>1
<1>5. Min(set) \in 1..n
  BY <1>4, MinIs
<1>6. Every = Width[Min(set)]
  BY DEF Every, MinInterval
<1>. HIDE DEF set
<1>. QED
  BY <1>1, <1>2, <1>3, <1>5, <1>6

\* The newest snapshot of a repository that is not empty.
LEMMA NewestOfRepo ==
  ASSUME TypeOK, Start \in Nat, Horizon \in Nat, repo # {}
  PROVE  Max(repo) \in repo /\ \A t \in repo : t <= Max(repo)
<1>1. now \in Nat /\ repo \in SUBSET (0..now)
  BY DEF TypeOK
<1>. QED
  BY <1>1, BoundedMax

LEMMA InitIInv == ParametersOK /\ Init => IInv
<1>. SUFFICES ASSUME ParametersOK, Init PROVE IInv
  OBVIOUS
<1>1. /\ Start \in Start..Horizon /\ repo \in SUBSET (1..Start) /\ MaxFailures \in Nat
      /\ config \in Policy /\ Horizon \in Nat
  BY DEF ParametersOK, Init
<1>2. 0 \in 0..(Horizon + Max(ToSet(Width)))
  BY <1>1, EveryIs
<1>. QED
  BY <1>1, <1>2 DEF Init, IInv, TypeOK, Running, TodoIsOld, GapsClose, DeletesSome

\* Time, the ticker and failures leave the snapshots to delete as they are, or forget them.
LEMMA ClockIInv ==
  ASSUME ParametersOK, IInv, Advance \/ Boot \/ Tick \/ Fail \/ UNCHANGED vars
  PROVE  IInv'
<1>. DEFINE longest == Max(ToSet(Width))
<1>1. /\ Start \in Nat \ {0} /\ Horizon \in Nat /\ MaxFailures \in Nat
      /\ Every \in Nat /\ longest \in Nat /\ Every <= longest
  BY EveryIs DEF ParametersOK, IInv, TypeOK
<1>2. /\ now \in Nat /\ due \in Nat /\ repo \in SUBSET (1..now) /\ now \in Start..Horizon
      /\ due \in 0..(Horizon + longest) /\ failures \in 0..MaxFailures
      /\ (Running => due >= now) /\ (todo # {} => pc = "delete")
  BY <1>1 DEF IInv, TypeOK
<1>. HIDE DEF longest
<1>3. UNCHANGED <<config, repo>> /\ (todo' = todo \/ todo' = {})
  BY DEF Advance, Boot, Tick, Fail, vars
<1>4. TodoIsOld' /\ GapsClose'
  <2>1. TodoIsOld'
    BY <1>3 DEF IInv, TodoIsOld, Old
  <2>2. GapsClose'
    <3>1. CASE todo' = {}
      BY <3>1 DEF GapsClose
    <3>2. CASE todo' = todo
      BY <1>3, <3>2 DEF IInv, GapsClose, Closed, Every
    <3>. QED
      BY <1>3, <3>1, <3>2
  <2>. QED
    BY <2>1, <2>2
<1>5. /\ now' \in Start..Horizon /\ now' \in Nat /\ now <= now'
      /\ due' \in 0..(Horizon + longest) /\ (Running' => due' >= now')
      /\ failures' \in 0..MaxFailures
  <2>1. CASE Advance
    BY <1>1, <1>2, <2>1 DEF Advance, Running
  <2>2. CASE Boot \/ Tick
    BY <1>1, <1>2, <2>2 DEF Boot, Tick
  <2>3. CASE Fail \/ UNCHANGED vars
    BY <1>1, <1>2, <2>3 DEF Fail, vars, Running
  <2>. QED
    BY <2>1, <2>2, <2>3
<1>6. /\ pc' \in {"down", "panicked", "idle", "create", "created", "delete"}
      /\ todo' # {} => pc' = "delete"
      /\ pc' = "delete" => todo' # {}
  <2>1. todo # {} => Running /\ pc = "delete"
    BY <1>2 DEF Running
  <2>2. pc \in {"down", "panicked", "idle", "create", "created", "delete"}
        /\ (pc = "delete" => todo # {})
    BY DEF IInv, TypeOK, DeletesSome
  <2>. QED
    BY <2>1, <2>2 DEF Advance, Boot, Tick, Fail, vars
<1>7. repo' \in SUBSET (1..now')
  BY <1>2, <1>3, <1>5
<1>8. TypeOK'
  <2>1. todo' \subseteq repo'
    BY <1>3 DEF IInv, TypeOK
  <2>2. config' \in Policy
    BY <1>3 DEF IInv, TypeOK
  <2>. QED
    BY <1>5, <1>6, <1>7, <2>1, <2>2 DEF TypeOK, longest
<1>. QED
  BY <1>4, <1>6, <1>8 DEF IInv, DeletesSome

LEMMA CreateIInv == ASSUME ParametersOK, IInv, Create PROVE IInv'
<1>1. now \in Nat \ {0} /\ repo \in SUBSET (1..now)
  BY DEF ParametersOK, IInv, TypeOK
<1>2. todo' = {} /\ repo' \in SUBSET (1..now)
  <2>1. now \in 1..now
    BY <1>1
  <2>. QED
    BY <1>1, <2>1 DEF Create, IInv, TypeOK
<1>. QED
  BY <1>2 DEF Create, IInv, TypeOK, Running, TodoIsOld, GapsClose, DeletesSome

\* What Delete returns is old.
LEMMA PlanIInv == ASSUME ParametersOK, IInv, Plan PROVE IInv'
<1>1. PICK plan \in {Delete(config, repo)} :
        \/ /\ ~plan.panic /\ todo' = plan.times
           /\ pc' = IF todo' = {} THEN "idle" ELSE "delete"
        \/ plan.panic /\ pc' = "panicked" /\ UNCHANGED todo
  BY DEF Plan
<1>2. UNCHANGED <<now, config, repo, due, failures>> /\ pc = "created" /\ todo = {} /\ Running
  BY DEF Plan, IInv, TypeOK, Running
<1>3. todo' \subseteq repo /\ TodoIsOld' /\ GapsClose'
  <2>1. CASE todo' = {}
    BY <2>1 DEF TodoIsOld, GapsClose
  <2>2. CASE todo' # {}
    <3>1. ~Delete(config, repo).panic /\ todo' = Delete(config, repo).times
      BY <1>1, <1>2, <2>2
    <3>2. todo' \subseteq repo
      BY <3>1 DEF Delete
    <3>3. now \in Nat /\ repo \in SUBSET (0..now) /\ config \in Policy
      BY DEF ParametersOK, IInv, TypeOK
    <3>4. ASSUME NEW t \in todo' PROVE Old(t)
      <4>1. t \in repo
        BY <3>2
      <4>2. ~(t = Max(repo) \/ Max(repo) - t < config[1] * Hour - Hour \div 4)
        BY <3>1, <3>3, <4>1, KeepKeeps
      <4>3. Max(repo) \in Int /\ t \in Int /\ Hour \in Nat /\ config[1] \in Nat
        <5>1. Max(repo) \in repo
          BY <3>3, <4>1, BoundedMax
        <5>2. Hour \in Nat /\ config[1] \in Nat
          BY <3>3 DEF ParametersOK, WidthOK, Hour
        <5>3. repo \in SUBSET Int
          BY <3>3
        <5>. QED
          BY <4>1, <5>1, <5>2, <5>3
      <4>4. config[1] * Hour - Hour \div 4 \in Int
        BY <4>3
      <4>. QED
        BY <4>2, <4>3, <4>4 DEF Old
    <3>5. ASSUME NEW t \in todo', Max(repo) - t < Span(config) - Every \div 4
          PROVE  Closed(repo \ todo', t)
      BY <3>1, <3>3, <3>5, GapClosed DEF Closed, Every
    <3>6. TodoIsOld'
      BY <1>2, <3>4 DEF TodoIsOld, Old
    <3>7. GapsClose'
      BY <1>2, <3>5 DEF GapsClose, Closed, Every
    <3>. QED
      BY <3>2, <3>6, <3>7
  <2>. QED
    BY <2>1, <2>2
<1>4. /\ pc' \in {"panicked", "idle", "delete"}
      /\ (todo' # {} => pc' = "delete") /\ (pc' = "delete" => todo' # {})
  BY <1>1, <1>2
<1>. QED
  BY <1>2, <1>3, <1>4 DEF IInv, TypeOK, DeletesSome, Running

\* The newest snapshot is not among those to delete, and so stays the newest.
LEMMA NewestStays ==
  ASSUME ParametersOK, IInv, DeleteSnapshot
  PROVE  /\ Min(todo) \in todo /\ Max(repo) \in repo' /\ Max(repo') = Max(repo)
<1>1. now \in Nat /\ Start \in Nat /\ Horizon \in Nat /\ repo \in SUBSET (1..now) /\ todo \subseteq repo
  BY DEF ParametersOK, IInv, TypeOK
<1>2. Min(todo) \in todo
  <2>1. todo # {} /\ todo \in SUBSET Nat
    BY <1>1 DEF DeleteSnapshot, IInv, DeletesSome
  <2>. QED
    BY <2>1, MinIs
<1>3. Max(repo) \in repo /\ \A t \in repo : t <= Max(repo)
  BY <1>1, <1>2, NewestOfRepo DEF IInv
<1>4. Min(todo) # Max(repo)
  BY <1>2 DEF IInv, TodoIsOld, Old
<1>5. Max(repo) \in repo' /\ repo' \in SUBSET Int /\ \A t \in repo' : t <= Max(repo)
  <2>1. repo' = repo \ {Min(todo)}
    BY DEF DeleteSnapshot
  <2>2. repo \in SUBSET Int
    BY <1>1
  <2>3. repo' \in SUBSET repo
    BY <2>1
  <2>. QED
    BY <1>3, <1>4, <2>1, <2>2, <2>3
<1>6. Max(repo') = Max(repo)
  BY <1>5, MaxIs
<1>. QED
  BY <1>2, <1>5, <1>6

LEMMA DeleteIInv == ASSUME ParametersOK, IInv, DeleteSnapshot PROVE IInv'
<1>1. Max(repo') = Max(repo) /\ Min(todo) \in todo
  BY NewestStays
<1>2. todo' \subseteq todo /\ UNCHANGED config
  BY DEF DeleteSnapshot
<1>3. TodoIsOld'
  BY <1>1, <1>2 DEF IInv, TodoIsOld, Old
<1>4. GapsClose'
  <2>1. repo' \ todo' = repo \ todo
    BY <1>1 DEF DeleteSnapshot
  <2>. QED
    BY <1>1, <1>2, <2>1 DEF IInv, GapsClose, Closed, Every
<1>5. TypeOK' /\ DeletesSome'
  BY DEF DeleteSnapshot, IInv, TypeOK, DeletesSome, Running
<1>. QED
  BY <1>3, <1>4, <1>5 DEF IInv

LEMMA SpecIInv == ParametersOK => (Spec => []IInv)
<1>. SUFFICES ASSUME ParametersOK PROVE Spec => []IInv
  OBVIOUS
<1>1. Init => IInv
  BY InitIInv
<1>2. IInv /\ [Next]_vars => IInv'
  BY ClockIInv, CreateIInv, PlanIInv, DeleteIInv DEF Next
<1>. QED
  BY <1>1, <1>2, PTL DEF Spec

-----------------------------------------------------------------------------
\* Every variable of the snapshooter keeps its type; what is still to delete is in
\* the repository, and the ticker is never behind the time.
THEOREM TypeCorrect == ParametersOK => (Spec => []TypeOK)
<1>1. IInv => TypeOK
  BY DEF IInv
<1>. QED
  BY <1>1, SpecIInv, PTL

\* No deletion takes the newest snapshot, for any policy and any history, whenever the
\* process fails ("Keep the very newest snapshot of all", retention.go).
THEOREM NewestIsKept == ParametersOK => (Spec => NewestSurvives)
<1>. SUFFICES ASSUME ParametersOK PROVE Spec => NewestSurvives
  OBVIOUS
<1>1. ASSUME IInv, [Next]_vars PROVE [repo # {} => Max(repo) \in repo']_vars
  <2>. SUFFICES ASSUME Next, repo # {} PROVE Max(repo) \in repo'
    BY <1>1
  <2>1. CASE DeleteSnapshot
    BY <1>1, <2>1, NewestStays
  <2>2. CASE ~DeleteSnapshot
    <3>1. repo \subseteq repo'
      BY <2>2 DEF Next, Advance, Boot, Tick, Create, Plan, Fail
    <3>2. Max(repo) \in repo
      BY <1>1, NewestOfRepo DEF ParametersOK, IInv
    <3>. QED
      BY <3>1, <3>2
  <2>. QED
    BY <2>1, <2>2
<1>. QED
  BY <1>1, SpecIInv, PTL DEF Spec, NewestSurvives

\* No deletion takes a snapshot of the hours the policy keeps whole, less a quarter of
\* the last: what redistributeBackups may move (retention.go).
THEOREM RecentAreKept == ParametersOK => (Spec => RecentSurvive)
<1>. SUFFICES ASSUME ParametersOK PROVE Spec => RecentSurvive
  OBVIOUS
<1>1. ASSUME IInv, [Next]_vars
      PROVE  [\A t \in Gone : Max(repo) - t >= config[1] * Hour - Hour \div 4]_vars
  <2>. SUFFICES ASSUME Next, NEW t \in Gone
                PROVE  Max(repo) - t >= config[1] * Hour - Hour \div 4
    BY <1>1
  <2>1. DeleteSnapshot /\ t = Min(todo)
    BY DEF Gone, Next, Advance, Boot, Tick, Create, Plan, DeleteSnapshot, Fail
  <2>2. t \in todo
    BY <1>1, <2>1, NewestStays
  <2>. QED
    BY <1>1, <2>2 DEF IInv, TodoIsOld, Old
<1>. QED
  BY <1>1, SpecIInv, PTL DEF Spec, RecentSurvive

\* Deleting a snapshot well within the span of the policy opens no gap wider than the
\* bucket of its age: an older snapshot, which is not to be deleted either, is that close
\* to it ("decreasing granularity over time", retention.go), whatever redistributeBackups
\* moved.
THEOREM NoGapIsOpened == ParametersOK => (Spec => NoGapOpens)
<1>. SUFFICES ASSUME ParametersOK PROVE Spec => NoGapOpens
  OBVIOUS
<1>1. ASSUME IInv, [Next]_vars
      PROVE  [\A t \in Gone : Max(repo) - t < Span(config) - Every \div 4 =>
                Closed(repo' \ todo', t)]_vars
  <2>. SUFFICES ASSUME Next, NEW t \in Gone, Max(repo) - t < Span(config) - Every \div 4
                PROVE  Closed(repo' \ todo', t)
    BY <1>1
  <2>1. DeleteSnapshot /\ t = Min(todo)
    BY DEF Gone, Next, Advance, Boot, Tick, Create, Plan, DeleteSnapshot, Fail
  <2>2. t \in todo
    BY <1>1, <2>1, NewestStays
  <2>3. repo' \ todo' = repo \ todo
    BY <2>1, <2>2 DEF DeleteSnapshot
  <2>. QED
    BY <1>1, <2>2, <2>3 DEF IInv, GapsClose
<1>. QED
  BY <1>1, SpecIInv, PTL DEF Spec, NoGapOpens, Closed
=============================================================================
