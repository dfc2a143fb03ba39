----------------------------- MODULE Retention -----------------------------
(***************************************************************************)
(* v2/pkg/retention: which of the snapshots taken so far to keep, with     *)
(* decreasing granularity over time.  Times are numbers of a unit of which *)
(* a quarter of an hour is a multiple; the zero time comes before all of   *)
(* them.  A computation that panics is told apart by a field of its        *)
(* result.                                                                 *)
(***************************************************************************)
EXTENDS Integers, Sequences, SequencesExt, FiniteSetsExt

CONSTANT Width   \* the widths of a bucket, Hour first

WidthOK ==
  /\ Width \in Seq(Nat \ {0}) /\ Width # <<>>
  /\ \A i \in DOMAIN Width : Width[i] % 4 = 0
  /\ \A i, j \in DOMAIN Width : i < j => Width[i] < Width[j]

Hour == Width[1]
Zero == 0

\* A Config says how many buckets of each width to make; not all are zero.
Configs(max) == {c \in [DOMAIN Width -> 0..max] : \E i \in DOMAIN Width : c[i] > 0}

\* The shortest interval snapshots are kept for.
MinInterval(c) == Width[Min({i \in DOMAIN Width : c[i] # 0})]

-----------------------------------------------------------------------------
(* timeseries: sorted sequences of times.                                  *)

Sorted(S) == [i \in 1..Cardinality(S) |-> CHOOSE t \in S : Cardinality({u \in S : u < t}) = i - 1]

\* squash drops every duplicate except one of the oldest time, and runs off the end
\* of the slice if the newest time of three or more is a duplicate.
Squash(s) ==
  LET oldest == Min(ToSet(s))
      twice(t) == Cardinality({i \in DOMAIN s : s[i] = t}) > 1
  IN [panic  |-> Len(s) > 2 /\ twice(Max(ToSet(s))),
      series |-> (IF twice(oldest) THEN <<oldest>> ELSE <<>>) \o Sorted(ToSet(s))]

\* Push times, which are unique themselves, to what was computed so far.
Push(acc, times) ==
  IF acc.panic \/ times = <<>> THEN acc ELSE Squash(acc.series \o times)

\* (mutant) The wrong end of the slice.
PeekLast(S) == IF S = {} THEN Zero ELSE Max(S)

PeekOldest(S) == IF S = {} THEN Zero ELSE Min(S)
PeekNewest(S) == IF S = {} THEN Zero ELSE Max(S)

-----------------------------------------------------------------------------
(* Buckets, numbered from 0, the catchall, to the newest and smallest.     *)

\* The widths of the buckets of c, the smallest first.
Widths(c) == FlattenSeq([k \in DOMAIN Width |-> [j \in 1..c[k] |-> Width[k]]])

NewBuckets(c, newest) ==
  LET w == Reverse(Widths(c))
      n == Len(w)
      width(i) == IF i = 0 THEN 0 ELSE w[i]
      end(i) == newest - FoldLeft(+, 0, SubSeq(w, i + 1, n))
  IN [i \in 0..n |-> [width |-> width(i), end |-> end(i), snapshots |-> {}]]

Newest(b) == Max(DOMAIN b)

\* The bucket t falls into; the boundary with the catchall is not the catchall's.
For(b, t) ==
  LET i == Min({j \in DOMAIN b : b[j].end >= t})
  IN IF i = 0 /\ Newest(b) > 0 /\ t = b[0].end THEN 1 ELSE i

Assign(b, S) == [i \in DOMAIN b |-> [b[i] EXCEPT !.snapshots = {t \in S : For(b, t) = i}]]

\* The bucket that has t, or -1.
Has(b, t) ==
  LET having == {i \in DOMAIN b : t \in b[i].snapshots}
  IN IF having = {} THEN -1 ELSE Min(having)

\* (mutant) Close to the boundary is anywhere in the bucket.
RedistributeFar(b, i) ==
  IF Cardinality(b[i].snapshots) > 1
    THEN [b EXCEPT ![i].snapshots = @ \ {Max(@)}, ![i + 1].snapshots = @ \cup {Max(b[i].snapshots)}]
  ELSE IF b[i].snapshots = {} /\ b[i + 1].snapshots # {}
    THEN [b EXCEPT ![i].snapshots = {Min(b[i + 1].snapshots)}, ![i + 1].snapshots = @ \ {Min(@)}]
  ELSE b

\* One turn of the loop of redistributeBackups: an empty bucket takes the next
\* one's oldest snapshot, a crowded one gives its newest to the next, if that
\* snapshot is close to the boundary between them.
Redistribute1(b, i) ==
  LET close == b[Newest(b)].width \div 4
      mine == b[i].snapshots
      next == b[i + 1].snapshots
  IN IF mine = {} /\ next # {} /\ PeekOldest(next) - b[i].end <= close
       THEN [b EXCEPT ![i].snapshots = {Min(next)}, ![i + 1].snapshots = next \ {Min(next)}]
     ELSE IF Cardinality(mine) > 1 /\ b[i].end - PeekNewest(mine) <= close
       THEN [b EXCEPT ![i].snapshots = mine \ {Max(mine)}, ![i + 1].snapshots = next \cup {Max(mine)}]
     ELSE b

RedistributeBackups(b) == FoldLeft(Redistribute1, b, [i \in 1..Newest(b) |-> i - 1])

-----------------------------------------------------------------------------
(* Keep and Delete.                                                        *)

\* (mutant) The newest bucket is treated like the others.
MarkedOldest(b) ==
  LET marks(i) == IF b[i].width = Hour THEN Sorted(b[i].snapshots)
                                       ELSE <<PeekOldest(b[i].snapshots)>>
  IN FoldLeft(Push, [panic |-> FALSE, series |-> <<>>], [i \in 1..Newest(b) |-> marks(i)])

\* The first pass: all snapshots of the hourly buckets, the oldest of every other
\* (the zero time if there is none), and the newest of all.
Marked(b) ==
  LET marks(i) ==
        IF b[i].width = Hour THEN <<Sorted(b[i].snapshots)>>
        ELSE IF i < Newest(b) THEN <<<<PeekOldest(b[i].snapshots)>>>>
        ELSE <<<<PeekOldest(b[i].snapshots)>>, <<PeekNewest(b[i].snapshots)>>>>
  IN FoldLeft(Push, [panic |-> FALSE, series |-> <<>>],
              FlattenSeq([i \in 1..Newest(b) |-> marks(i)]))

\* The snapshots between two marked ones that are far apart, of those not too near
\* to either (the lengths compared with are geometric means), nearest the middle.
Middle(b, S, left, right) ==
  LET wl == b[Has(b, left)].width
      wr == b[Has(b, right)].width
      off(t) == IF left + right > 2 * t THEN left + right - 2 * t ELSE 2 * t - left - right
      far(s, t) == 4 * (t - s) * (t - s) >= wl * wr
      between == {t \in S : left < t /\ t < right /\ far(left, t) /\ far(t, right)}
      apart == Has(b, left) # Has(b, right) /\ 4 * (right - left) * (right - left) >= 9 * wl * wr
  IN {t \in between : apart /\ \A u \in between : off(t) < off(u) \/ (off(t) = off(u) /\ t <= u)}

\* The second pass, over what the first one marked.
Kept(b, first, S) ==
  LET k == first.series
      pairs == 1..(Len(k) - 1)
      \* A time in no bucket, which can only be the zero time, is dereferenced.
      nil == \E i \in pairs : (Has(b, k[i]) = -1) # (Has(b, k[i + 1]) = -1)
  IN IF first.panic \/ nil THEN [panic |-> TRUE, series |-> <<>>]
     ELSE Push(first, Sorted(UNION {Middle(b, S, k[i], k[i + 1]) :
                                      i \in {j \in pairs : Has(b, k[j]) # -1}}))

Keep(c, S) ==
  LET b == RedistributeBackups(Assign(NewBuckets(c, PeekNewest(S)), S))
  IN Kept(b, Marked(b), S)

\* Delete panics where Keep does.
Delete(c, S) ==
  LET keep == Keep(c, S)
  IN [panic |-> keep.panic, times |-> S \ ToSet(keep.series)]
=============================================================================
