------------------------ MODULE Measurements_proofs ------------------------
(***************************************************************************)
(* Proofs about Measurements: whatever the number of probes and the order  *)
(* in which they end, a window of a series holds exactly the probes that   *)
(* started in it, the bytes of a window are those the load transferred in  *)
(* it, a window yields a responsiveness only with two probes of either     *)
(* kind, and a slow probe never improves it.                               *)
(***************************************************************************)
EXTENDS Measurements, SequenceTheorems, FiniteSetTheorems, FunctionTheorems,
        WellFoundedInduction, TLAPS

(***************************************************************************)
(* A series of samples in the order of time, which every search of         *)
(* nq_stats takes for granted.                                             *)
(***************************************************************************)
Timed(S) == \A s \in S : s.at \in Int

Sorted(series) ==
  \A i, j \in 1..Len(series) : i < j => series[i].at <= series[j].at

-----------------------------------------------------------------------------
(* Searching a sorted series.                                              *)

(***************************************************************************)
(* A set of positions has a last one.                                      *)
(***************************************************************************)
LEMMA LastOf ==
  ASSUME NEW n \in Nat, NEW T, T \subseteq 1..n, T # {}
  PROVE  \E i \in T : \A j \in T : j <= i
<1> DEFINE left == {n - i : i \in T}
<1>1. left \subseteq Nat
  <2>1. \A i \in T : n - i \in Nat
    OBVIOUS
  <2> QED
    BY <2>1
<1>2. left # {}
  <2>1. PICK i \in T : TRUE
    OBVIOUS
  <2>2. n - i \in left
    BY <2>1
  <2> QED
    BY <2>2
<1>3. PICK x \in left : \A y \in left : ~(<< y, x >> \in OpToRel(<, Nat))
  <2> HIDE DEF left
  <2> QED
    BY <1>1, <1>2, NatLessThanWellFounded, WFMin
<1>4. \A y \in left : ~(y < x)
  BY <1>1, <1>3 DEF OpToRel
<1>5. PICK i \in T : x = n - i
  BY <1>3
<1>6. \A j \in T : j <= i
  <2> SUFFICES ASSUME NEW j \in T PROVE j <= i
    OBVIOUS
  <2>1. n - j \in left
    OBVIOUS
  <2>2. ~(n - j < n - i)
    BY <1>4, <1>5, <2>1
  <2> QED
    BY <2>2
<1> QED
  BY <1>6

(***************************************************************************)
(* Positions that hold with every earlier one are as many as they reach.   *)
(***************************************************************************)
LEMMA PrefixCount ==
  ASSUME NEW n \in Nat, NEW P, P \subseteq 1..n,
         \A i \in P : \A j \in 1..i : j \in P
  PROVE  Cardinality(P) \in 0..n /\ P = 1..Cardinality(P)
<1>1. CASE P = {}
  BY <1>1, FS_EmptySet
<1>2. CASE P # {}
  <2>1. PICK last \in P : \A j \in P : j <= last
    BY <1>2, LastOf
  <2>2. P = 1..last
    <3>1. last \in 1..n
      BY <2>1
    <3>2. \A j \in P : j \in 1..last
      BY <2>1, <3>1
    <3>3. \A j \in 1..last : j \in P
      BY <2>1
    <3> QED
      BY <3>2, <3>3
  <2>3. Cardinality(1..last) = last
    BY <2>1, FS_Interval
  <2> QED
    BY <2>1, <2>2, <2>3
<1> QED
  BY <1>1, <1>2

(***************************************************************************)
(* partition_point: the samples before a time, and those up to it, are the *)
(* first ones of the series.                                               *)
(***************************************************************************)
LEMMA Partitioned ==
  ASSUME NEW S, Timed(S), NEW series \in Seq(S), Sorted(series), NEW t \in Int
  PROVE  /\ Before(series, t) \in 0..Len(series)
         /\ UpTo(series, t) \in 0..Len(series)
         /\ \A i \in 1..Len(series) :
              /\ i <= Before(series, t) <=> series[i].at < t
              /\ i <= UpTo(series, t) <=> series[i].at <= t
<1> DEFINE early == {i \in DOMAIN series : series[i].at < t}
           reached == {i \in DOMAIN series : series[i].at <= t}
<1>1. /\ Len(series) \in Nat /\ DOMAIN series = 1..Len(series)
      /\ \A i \in 1..Len(series) : series[i] \in S /\ series[i].at \in Int
  BY DEF Timed
<1>2. \A i, j \in 1..Len(series) : j <= i => series[j].at <= series[i].at
  <2> SUFFICES ASSUME NEW i \in 1..Len(series), NEW j \in 1..Len(series), j <= i
               PROVE  series[j].at <= series[i].at
    OBVIOUS
  <2>1. CASE j = i
    BY <1>1, <2>1
  <2>2. CASE j < i
    BY <2>2 DEF Sorted
  <2> QED
    BY <2>1, <2>2
<1>3. early \subseteq 1..Len(series) /\ reached \subseteq 1..Len(series)
  BY <1>1
<1>4. \A i \in early : \A j \in 1..i : j \in early
  BY <1>1, <1>2
<1>5. \A i \in reached : \A j \in 1..i : j \in reached
  BY <1>1, <1>2
<1>6. Before(series, t) \in 0..Len(series) /\ early = 1..Before(series, t)
  <2>1. Before(series, t) = Cardinality(early)
    BY DEF Before
  <2> HIDE DEF early
  <2>2. Len(series) \in Nat /\ early \subseteq 1..Len(series)
    BY <1>1, <1>3
  <2>3. /\ Cardinality(early) \in 0..Len(series)
        /\ early = 1..Cardinality(early)
    BY <2>2, <1>4, PrefixCount
  <2> QED
    BY <2>1, <2>3
<1>7. UpTo(series, t) \in 0..Len(series) /\ reached = 1..UpTo(series, t)
  <2>1. UpTo(series, t) = Cardinality(reached)
    BY DEF UpTo
  <2> HIDE DEF reached
  <2>2. Len(series) \in Nat /\ reached \subseteq 1..Len(series)
    BY <1>1, <1>3
  <2>3. /\ Cardinality(reached) \in 0..Len(series)
        /\ reached = 1..Cardinality(reached)
    BY <2>2, <1>5, PrefixCount
  <2> QED
    BY <2>1, <2>3
<1>8. ASSUME NEW i \in 1..Len(series)
      PROVE  /\ i <= Before(series, t) <=> series[i].at < t
             /\ i <= UpTo(series, t) <=> series[i].at <= t
  <2>1. i \in early <=> series[i].at < t
    BY <1>1
  <2>2. i \in reached <=> series[i].at <= t
    BY <1>1
  <2> HIDE DEF early, reached
  <2> QED
    BY <1>6, <1>7, <2>1, <2>2
<1> QED
  BY <1>6, <1>7, <1>8

(***************************************************************************)
(* A search from the end for what the first n samples satisfy ends at n.   *)
(***************************************************************************)
LEMMA LastOfPrefix ==
  ASSUME NEW n \in Nat, NEW T, T = 1..n
  PROVE  (IF T # {} THEN Max(T) ELSE 0) = n
<1>1. CASE n = 0
  BY <1>1
<1>2. CASE n # 0
  <2>1. n \in T /\ \A y \in T : n >= y
    BY <1>2
  <2>2. \A x \in T : (\A y \in T : x >= y) => x = n
    BY <2>1
  <2>3. Max(T) \in T /\ \A y \in T : Max(T) >= y
    BY <2>1 DEF Max
  <2>4. Max(T) = n
    BY <2>2, <2>3
  <2> QED
    BY <2>1, <2>4
<1> QED
  BY <1>1, <1>2

(***************************************************************************)
(* The window of a sorted series: its samples after those before `from`,   *)
(* up to `to`, the newest first.                                           *)
(***************************************************************************)
LEMMA WindowIsSlice ==
  ASSUME NEW S, Timed(S), NEW series \in Seq(S), Sorted(series),
         NEW from \in Int, NEW to \in Int, from <= to
  PROVE  /\ Before(series, from) <= UpTo(series, to)
         /\ Window(series, from, to) =
              Reverse(SubSeq(series, Before(series, from) + 1, UpTo(series, to)))
<1> DEFINE a == Before(series, from)
           b == UpTo(series, to)
           head == SubSeq(series, 1, b)
<1>1. /\ Len(series) \in Nat
      /\ \A i \in 1..Len(series) : series[i] \in S /\ series[i].at \in Int
  BY DEF Timed
<1>2. /\ a \in 0..Len(series) /\ b \in 0..Len(series)
      /\ \A i \in 1..Len(series) : /\ i <= a <=> series[i].at < from
                                   /\ i <= b <=> series[i].at <= to
  BY Partitioned
<1> HIDE DEF a, b
<1>3. a <= b
  <2> SUFFICES ASSUME a > b PROVE FALSE
    BY <1>2
  <2>1. a \in 1..Len(series)
    BY <1>1, <1>2
  <2>2. series[a].at < from /\ ~(series[a].at <= to)
    BY <1>2, <2>1
  <2> QED
    BY <1>1, <2>1, <2>2
<1>4. WindowEnd(series, to) = b
  <2> DEFINE T == {i \in 1..Len(series) : series[i].at <= to}
  <2>1. T = 1..b
    BY <1>1, <1>2
  <2>2. WindowEnd(series, to) = IF T # {} THEN Max(T) ELSE 0
    BY DEF WindowEnd, SelectLastInSeq
  <2> HIDE DEF T
  <2>3. b \in Nat
    BY <1>2
  <2>4. (IF T # {} THEN Max(T) ELSE 0) = b
    BY <2>1, <2>3, LastOfPrefix
  <2> QED
    BY <2>2, <2>4
<1>5. Len(head) = b /\ \A i \in 1..b : head[i] = series[i]
  BY <1>1, <1>2
<1> HIDE DEF head
<1>6. SelectLastInSeq(head, LAMBDA s : s.at < from) = a
  <2> DEFINE T == {i \in 1..Len(head) : head[i].at < from}
  <2>1. T = 1..a
    BY <1>1, <1>2, <1>3, <1>5
  <2>2. SelectLastInSeq(head, LAMBDA s : s.at < from)
          = IF T # {} THEN Max(T) ELSE 0
    BY DEF SelectLastInSeq
  <2> HIDE DEF T
  <2>3. a \in Nat
    BY <1>2
  <2> QED
    BY <2>1, <2>2, <2>3, LastOfPrefix
<1>7. Window(series, from, to) = Reverse(SubSeq(series, a + 1, b))
  BY <1>4, <1>6 DEF Window, head
<1> QED
  BY <1>3, <1>7 DEF a, b

-----------------------------------------------------------------------------
(* Inserting into a series.                                                *)

(***************************************************************************)
(* Inserting puts a sample at its position and moves the later ones on.    *)
(***************************************************************************)
LEMMA Inserted ==
  ASSUME NEW S, NEW series \in Seq(S), NEW s \in S,
         NEW i \in 1..Len(series) + 1
  PROVE  /\ InsertAt(series, i, s) \in Seq(S)
         /\ Len(InsertAt(series, i, s)) = Len(series) + 1
         /\ \A j \in 1..Len(series) + 1 :
              InsertAt(series, i, s)[j] =
                IF j < i THEN series[j]
                ELSE IF j = i THEN s ELSE series[j - 1]
<1> DEFINE low == SubSeq(series, 1, i - 1)
           high == SubSeq(series, i, Len(series))
<1>1. Len(series) \in Nat /\ \A j \in 1..Len(series) : series[j] \in S
  OBVIOUS
<1>2. /\ low \in Seq(S) /\ Len(low) = i - 1
      /\ \A j \in 1..i - 1 : low[j] = series[j]
  <2>1. \A j \in 1..i - 1 : series[j] \in S
    BY <1>1
  <2>2. /\ low \in Seq(S)
        /\ Len(low) = IF 1 <= i - 1 THEN i - 1 - 1 + 1 ELSE 0
        /\ \A j \in 1..i - 1 - 1 + 1 : low[j] = series[1 + j - 1]
    BY <1>1, <2>1, SubSeqProperties
  <2> HIDE DEF low
  <2> QED
    BY <2>2
<1>3. /\ high \in Seq(S) /\ Len(high) = Len(series) - i + 1
      /\ \A j \in 1..Len(series) - i + 1 : high[j] = series[i + j - 1]
  <2>1. \A j \in i..Len(series) : series[j] \in S
    BY <1>1
  <2>2. /\ high \in Seq(S)
        /\ Len(high) = IF i <= Len(series) THEN Len(series) - i + 1 ELSE 0
        /\ \A j \in 1..Len(series) - i + 1 : high[j] = series[i + j - 1]
    BY <1>1, <2>1, SubSeqProperties
  <2> HIDE DEF high
  <2> QED
    BY <1>1, <2>2
<1>4. InsertAt(series, i, s) = low \o << s >> \o high
  BY DEF InsertAt
<1> HIDE DEF low, high
<1>5. << s >> \in Seq(S) /\ Len(<< s >>) = 1 /\ << s >>[1] = s
  OBVIOUS
<1>6. /\ low \o << s >> \in Seq(S) /\ Len(low \o << s >>) = i
      /\ \A j \in 1..i : (low \o << s >>)[j] = IF j < i THEN series[j] ELSE s
  <2>1. /\ low \o << s >> \in Seq(S)
        /\ Len(low \o << s >>) = i - 1 + 1
        /\ \A j \in 1..i - 1 + 1 :
             (low \o << s >>)[j] =
               IF j <= i - 1 THEN low[j] ELSE << s >>[j - (i - 1)]
    BY <1>2, <1>5, ConcatProperties
  <2> QED
    BY <1>1, <1>2, <1>5, <2>1
<1> DEFINE front == low \o << s >>
<1> HIDE DEF front
<1>7. /\ front \o high \in Seq(S)
      /\ Len(front \o high) = Len(series) + 1
      /\ \A j \in 1..Len(series) + 1 :
           (front \o high)[j] = IF j <= i THEN front[j] ELSE high[j - i]
  <2>1. front \in Seq(S) /\ Len(front) = i
    BY <1>6 DEF front
  <2>2. /\ front \o high \in Seq(S)
        /\ Len(front \o high) = Len(front) + Len(high)
        /\ \A j \in 1..Len(front) + Len(high) :
             (front \o high)[j] = IF j <= Len(front) THEN front[j]
                                  ELSE high[j - Len(front)]
    BY <1>3, <2>1, ConcatProperties
  <2>3. Len(front) + Len(high) = Len(series) + 1
    BY <1>1, <1>3, <2>1
  <2> QED
    BY <2>1, <2>2, <2>3
<1>8. ASSUME NEW j \in 1..Len(series) + 1, j > i
      PROVE  high[j - i] = series[j - 1]
  BY <1>1, <1>3, <1>8
<1> QED
  BY <1>1, <1>4, <1>6, <1>7, <1>8 DEF front

(***************************************************************************)
(* TimeSeries::add: any slot its search may stop at keeps the order.       *)
(***************************************************************************)
LEMMA SlotsKeepOrder ==
  ASSUME NEW S, Timed(S), NEW series \in Seq(S), Sorted(series), NEW s \in S,
         NEW i \in Slots(series, s.at)
  PROVE  i \in 1..Len(series) + 1 /\ Sorted(InsertAt(series, i, s))
<1> DEFINE b == Before(series, s.at)
<1>1. /\ Len(series) \in Nat /\ s.at \in Int /\ DOMAIN series = 1..Len(series)
      /\ \A j \in 1..Len(series) : series[j] \in S /\ series[j].at \in Int
  BY DEF Timed
<1>2. /\ b \in 0..Len(series)
      /\ \A j \in 1..Len(series) : j <= b <=> series[j].at < s.at
  BY <1>1, Partitioned
<1> HIDE DEF b
<1>3. \/ i = b + 1 /\ \A j \in 1..Len(series) : series[j].at # s.at
      \/ i \in 1..Len(series) /\ series[i].at = s.at
  BY <1>1 DEF Slots, b
<1>4. i \in 1..Len(series) + 1
  BY <1>1, <1>2, <1>3
<1>5. \A j \in 1..Len(series) : j < i => series[j].at <= s.at
  BY <1>1, <1>2, <1>3 DEF Sorted
<1>6. \A j \in 1..Len(series) : j >= i => s.at <= series[j].at
  BY <1>1, <1>2, <1>3 DEF Sorted
<1> DEFINE new == InsertAt(series, i, s)
<1>7. /\ Len(new) = Len(series) + 1
      /\ \A j \in 1..Len(series) + 1 :
           new[j] = IF j < i THEN series[j]
                    ELSE IF j = i THEN s ELSE series[j - 1]
  BY <1>4, Inserted
<1> HIDE DEF new
<1>8. ASSUME NEW j \in 1..Len(series) + 1, NEW k \in 1..Len(series) + 1, j < k
      PROVE  new[j].at <= new[k].at
  <2>1. CASE k < i
    <3>1. j \in 1..Len(series) /\ k \in 1..Len(series)
      BY <1>4, <2>1, <1>8
    <3>2. new[j] = series[j] /\ new[k] = series[k]
      BY <1>7, <1>8, <2>1, <1>4
    <3> QED
      BY <1>8, <3>1, <3>2 DEF Sorted
  <2>2. CASE k = i
    <3>1. j \in 1..Len(series) /\ new[j] = series[j] /\ new[k] = s
      BY <1>4, <1>7, <1>8, <2>2
    <3> QED
      BY <1>5, <1>8, <2>2, <3>1
  <2>3. CASE k > i /\ j = i
    <3>1. k - 1 \in 1..Len(series) /\ k - 1 >= i
      BY <1>1, <1>4, <2>3
    <3>2. new[j] = s /\ new[k] = series[k - 1]
      BY <1>4, <1>7, <2>3
    <3> QED
      BY <1>6, <3>1, <3>2
  <2>4. CASE k > i /\ j > i
    <3>1. /\ k - 1 \in 1..Len(series) /\ j - 1 \in 1..Len(series)
          /\ j - 1 < k - 1
      BY <1>1, <1>4, <1>8, <2>4
    <3>2. new[j] = series[j - 1] /\ new[k] = series[k - 1]
      BY <1>4, <1>7, <2>4
    <3> QED
      BY <3>1, <3>2 DEF Sorted
  <2>5. CASE k > i /\ j < i
    <3>1. k - 1 \in 1..Len(series) /\ j \in 1..Len(series) /\ j < k - 1
      BY <1>1, <1>4, <2>5
    <3>2. new[j] = series[j] /\ new[k] = series[k - 1]
      BY <1>4, <1>7, <2>5
    <3> QED
      BY <3>1, <3>2 DEF Sorted
  <2> QED
    BY <1>4, <2>1, <2>2, <2>3, <2>4, <2>5
<1>9. Sorted(new)
  BY <1>7, <1>8 DEF Sorted
<1> QED
  BY <1>4, <1>9 DEF new

(***************************************************************************)
(* The positions of a value in a sequence, which ToBag counts.             *)
(***************************************************************************)
Positions(q, x) == {j \in 1..Len(q) : q[j] = x}

(***************************************************************************)
(* As many positions hold a value in one sequence as in the other if a     *)
(* function f pairs them.                                                  *)
(***************************************************************************)
LEMMA Paired ==
  ASSUME NEW P, NEW Q, IsFiniteSet(P), NEW f \in [P -> Q],
         \A a, b \in P : f[a] = f[b] => a = b,
         \A y \in Q : \E x \in P : f[x] = y
  PROVE  IsFiniteSet(Q) /\ Cardinality(Q) = Cardinality(P)
<1>1. f \in Bijection(P, Q)
  BY Fun_IsBij
<1>2. ExistsBijection(P, Q)
  BY <1>1 DEF ExistsBijection
<1> QED
  BY <1>2, FS_Bijection

(***************************************************************************)
(* Any set of positions of a sequence is finite.                           *)
(***************************************************************************)
LEMMA PositionsFinite ==
  ASSUME NEW S, NEW q \in Seq(S), NEW x
  PROVE  /\ IsFiniteSet(Positions(q, x))
         /\ Cardinality(Positions(q, x)) \in Nat
<1>1. IsFiniteSet(1..Len(q))
  BY FS_Interval
<1>2. Positions(q, x) \in SUBSET (1..Len(q))
  BY DEF Positions
<1>3. IsFiniteSet(Positions(q, x))
  BY <1>1, <1>2, FS_Subset
<1> QED
  BY <1>3, FS_CardinalityType

(***************************************************************************)
(* The bag of a sequence.                                                  *)
(***************************************************************************)
LEMMA BagOf ==
  ASSUME NEW S, NEW q \in Seq(S)
  PROVE  /\ DOMAIN ToBag(q) = {q[j] : j \in 1..Len(q)}
         /\ ToBag(q) = [x \in {q[j] : j \in 1..Len(q)} |->
                          Cardinality(Positions(q, x))]
BY DEF ToBag, Range, Positions

(***************************************************************************)
(* An inserted sample is in the series once more, every other as often as  *)
(* before.                                                                 *)
(***************************************************************************)
LEMMA InsertedBag ==
  ASSUME NEW S, NEW series \in Seq(S), NEW s \in S,
         NEW i \in 1..Len(series) + 1
  PROVE  ToBag(InsertAt(series, i, s)) = ToBag(series) (+) SetToBag({s})
<1> DEFINE new == InsertAt(series, i, s)
           old == {series[j] : j \in 1..Len(series)}
<1>1. /\ new \in Seq(S) /\ Len(new) = Len(series) + 1 /\ Len(series) \in Nat
      /\ \A j \in 1..Len(series) + 1 :
           new[j] = IF j < i THEN series[j]
                    ELSE IF j = i THEN s ELSE series[j - 1]
  BY Inserted
<1> HIDE DEF new
<1>2. {new[j] : j \in 1..Len(new)} = old \cup {s}
  <2>1. ASSUME NEW j \in 1..Len(new) PROVE new[j] \in old \cup {s}
    <3>1. CASE j < i
      BY <1>1, <3>1
    <3>2. CASE j = i
      BY <1>1, <3>2
    <3>3. CASE j > i
      <4>1. j - 1 \in 1..Len(series) /\ new[j] = series[j - 1]
        BY <1>1, <3>3
      <4> QED
        BY <4>1
    <3> QED
      BY <3>1, <3>2, <3>3
  <2>2. ASSUME NEW j \in 1..Len(series)
        PROVE  series[j] \in {new[k] : k \in 1..Len(new)}
    <3>1. CASE j < i
      <4>1. j \in 1..Len(new) /\ new[j] = series[j]
        BY <1>1, <3>1
      <4> QED
        BY <4>1
    <3>2. CASE j >= i
      <4>1. j + 1 \in 1..Len(new) /\ new[j + 1] = series[j]
        BY <1>1, <3>2
      <4> QED
        BY <4>1
    <3> QED
      BY <3>1, <3>2
  <2>3. i \in 1..Len(new) /\ new[i] = s
    BY <1>1
  <2> QED
    BY <2>1, <2>2, <2>3
<1>3. ASSUME NEW x
      PROVE  Cardinality(Positions(new, x)) =
               Cardinality(Positions(series, x)) + (IF x = s THEN 1 ELSE 0)
  <2> DEFINE P == Positions(series, x)
             Q == Positions(new, x) \ {i}
             f == [j \in P |-> IF j < i THEN j ELSE j + 1]
  <2>1. \A j \in P : j \in 1..Len(series) /\ series[j] = x
    BY DEF Positions
  <2>2. ASSUME NEW j \in P PROVE f[j] \in Q
    <3>1. j \in 1..Len(series) /\ series[j] = x
      BY <2>1
    <3>2. CASE j < i
      <4>1. f[j] = j /\ j \in 1..Len(new) /\ new[j] = x /\ j # i
        BY <1>1, <3>1, <3>2
      <4> QED
        BY <4>1 DEF Positions
    <3>3. CASE j >= i
      <4>1. /\ f[j] = j + 1 /\ j + 1 \in 1..Len(new)
            /\ new[j + 1] = x /\ j + 1 # i
        BY <1>1, <3>1, <3>3
      <4> QED
        BY <4>1 DEF Positions
    <3> QED
      BY <3>1, <3>2, <3>3
  <2>3. \A j, k \in P : f[j] = f[k] => j = k
    BY <2>1
  <2>4. ASSUME NEW y \in Q PROVE \E j \in P : f[j] = y
    <3>1. y \in 1..Len(new) /\ new[y] = x /\ y # i
      BY DEF Positions
    <3>2. CASE y < i
      <4>1. y \in 1..Len(series) /\ series[y] = x
        BY <1>1, <3>1, <3>2
      <4>2. y \in P /\ f[y] = y
        BY <3>2, <4>1 DEF Positions
      <4> QED
        BY <4>2
    <3>3. CASE y > i
      <4>1. y - 1 \in 1..Len(series) /\ series[y - 1] = x
        BY <1>1, <3>1, <3>3
      <4>2. y - 1 \in P
        BY <4>1 DEF Positions
      <4>3. f[y - 1] = y
        BY <3>1, <3>3, <4>2
      <4> QED
        BY <4>2, <4>3
    <3> QED
      BY <1>1, <3>1, <3>2, <3>3
  <2>5. IsFiniteSet(P) /\ Cardinality(P) \in Nat
    BY PositionsFinite
  <2>6. f \in [P -> Q]
    BY <2>2
  <2> HIDE DEF f, P, Q
  <2>7. IsFiniteSet(Q) /\ Cardinality(Q) = Cardinality(P)
    BY <2>3, <2>4, <2>5, <2>6, Paired
  <2>8. CASE x = s
    <3>1. Positions(new, x) = Q \cup {i} /\ i \notin Q
      BY <1>1, <2>8 DEF Positions, Q
    <3> QED
      BY <2>5, <2>7, <2>8, <3>1, FS_AddElement DEF P
  <2>9. CASE x # s
    <3>1. Positions(new, x) = Q
      BY <1>1, <2>9 DEF Positions, Q
    <3> QED
      BY <2>5, <2>7, <2>9, <3>1 DEF P
  <2> QED
    BY <2>8, <2>9
<1>4. ASSUME NEW x, x \notin old PROVE Cardinality(Positions(series, x)) = 0
  <2>1. Positions(series, x) = {}
    BY <1>4 DEF Positions
  <2> QED
    BY <2>1, FS_EmptySet
<1>5. /\ DOMAIN ToBag(series) = old
      /\ \A x \in old : ToBag(series)[x] = Cardinality(Positions(series, x))
  BY BagOf
<1>6. ToBag(series) (+) SetToBag({s}) =
        [x \in old \cup {s} |-> (IF x \in old THEN ToBag(series)[x] ELSE 0)
                                + (IF x \in {s} THEN 1 ELSE 0)]
  BY <1>5 DEF (+), SetToBag
<1>7. ToBag(new) =
        [x \in old \cup {s} |-> Cardinality(Positions(new, x))]
  BY <1>1, <1>2, BagOf
<1>8. ASSUME NEW x \in old \cup {s}
      PROVE  Cardinality(Positions(new, x)) =
               (IF x \in old THEN ToBag(series)[x] ELSE 0)
               + (IF x \in {s} THEN 1 ELSE 0)
  <2>1. CASE x \in old
    BY <1>3, <1>5, <2>1
  <2>2. CASE x \notin old
    BY <1>3, <1>4, <2>2
  <2> QED
    BY <2>1, <2>2
<1> HIDE DEF old
<1>9. ToBag(new) = ToBag(series) (+) SetToBag({s})
  BY <1>6, <1>7, <1>8
<1> QED
  BY <1>9 DEF new

(***************************************************************************)
(* A window of a sorted series holds the samples of its time, as often as  *)
(* the series does.                                                        *)
(***************************************************************************)
LEMMA WindowBag ==
  ASSUME NEW S, Timed(S), NEW series \in Seq(S), Sorted(series),
         NEW from \in Int, NEW to \in Int, from <= to
  PROVE  ToBag(Window(series, from, to)) = StartedIn(ToBag(series), from, to)
<1> DEFINE a == Before(series, from)
           b == UpTo(series, to)
           w == Window(series, from, to)
           slice == SubSeq(series, a + 1, b)
           all == {series[j] : j \in 1..Len(series)}
           within == {x \in all : x.at \in from..to}
<1>1. /\ Len(series) \in Nat
      /\ \A j \in 1..Len(series) : series[j] \in S /\ series[j].at \in Int
  BY DEF Timed
<1>2. /\ a \in 0..Len(series) /\ b \in 0..Len(series) /\ a <= b
      /\ \A j \in 1..Len(series) : /\ j <= a <=> series[j].at < from
                                   /\ j <= b <=> series[j].at <= to
  BY Partitioned, WindowIsSlice
<1>3. w = Reverse(slice)
  BY WindowIsSlice
<1> HIDE DEF a, b, w
<1>4. /\ Len(slice) = b - a
      /\ \A k \in 1..b - a : slice[k] = series[a + k] /\ slice[k] \in S
  <2>1. \A j \in a + 1..b : series[j] \in S
    BY <1>1, <1>2
  <2>2. /\ Len(slice) = IF a + 1 <= b THEN b - (a + 1) + 1 ELSE 0
        /\ \A k \in 1..b - (a + 1) + 1 : slice[k] = series[a + 1 + k - 1]
    BY <1>2, <2>1, SubSeqProperties
  <2> HIDE DEF slice
  <2> QED
    BY <1>2, <2>1, <2>2
<1> HIDE DEF slice
<1>5. /\ w \in Seq(S) /\ Len(w) = b - a
      /\ \A k \in 1..b - a : w[k] = series[b - k + 1]
  <2>1. w = [k \in 1..b - a |-> slice[b - a - k + 1]]
    BY <1>3, <1>4 DEF Reverse
  <2>2. b - a \in Nat
    BY <1>2
  <2>3. ASSUME NEW k \in 1..b - a
        PROVE  /\ slice[b - a - k + 1] \in S
               /\ slice[b - a - k + 1] = series[b - k + 1]
    <3>1. b - a - k + 1 \in 1..b - a /\ a + (b - a - k + 1) = b - k + 1
      BY <1>2
    <3> QED
      BY <1>4, <3>1
  <2>4. w \in [1..b - a -> S]
    BY <2>1, <2>3
  <2> QED
    BY <2>1, <2>2, <2>3, <2>4
<1>6. {w[k] : k \in 1..Len(w)} = within
  <2>1. ASSUME NEW k \in 1..Len(w) PROVE w[k] \in within
    <3>1. /\ b - k + 1 \in 1..Len(series) /\ w[k] = series[b - k + 1]
          /\ b - k + 1 <= b /\ ~(b - k + 1 <= a)
      BY <1>2, <1>5
    <3> QED
      BY <1>1, <1>2, <3>1
  <2>2. ASSUME NEW j \in 1..Len(series), series[j].at \in from..to
        PROVE  series[j] \in {w[k] : k \in 1..Len(w)}
    <3>1. j <= b /\ ~(j <= a)
      BY <1>1, <1>2, <2>2
    <3>2. b - j + 1 \in 1..Len(w) /\ b - (b - j + 1) + 1 = j
      BY <1>2, <1>5, <3>1
    <3>3. w[b - j + 1] = series[j]
      BY <1>5, <3>2
    <3> QED
      BY <3>2, <3>3
  <2> QED
    BY <2>1, <2>2
<1>7. ASSUME NEW x \in within
      PROVE  Cardinality(Positions(w, x)) = Cardinality(Positions(series, x))
  <2> DEFINE P == Positions(series, x)
             Q == Positions(w, x)
             f == [j \in P |-> b - j + 1]
  <2>1. ASSUME NEW j \in P
        PROVE  /\ j \in 1..Len(series) /\ series[j] = x /\ a < j /\ j <= b
    <3>1. j \in 1..Len(series) /\ series[j] = x /\ x.at \in from..to
      BY DEF Positions
    <3> QED
      BY <1>1, <1>2, <3>1
  <2>2. ASSUME NEW j \in P PROVE f[j] \in Q
    <3>1. b - j + 1 \in 1..Len(w) /\ b - (b - j + 1) + 1 = j
      BY <1>2, <1>5, <2>1
    <3>2. w[b - j + 1] = x
      BY <1>5, <2>1, <3>1
    <3> QED
      BY <3>1, <3>2 DEF Positions
  <2>3. \A j, k \in P : f[j] = f[k] => j = k
    BY <1>2, <2>1
  <2>4. ASSUME NEW y \in Q PROVE \E j \in P : f[j] = y
    <3>1. y \in 1..Len(w) /\ w[y] = x
      BY DEF Positions
    <3>2. b - y + 1 \in 1..Len(series) /\ b - (b - y + 1) + 1 = y
      BY <1>2, <1>5, <3>1
    <3>3. series[b - y + 1] = x
      BY <1>5, <3>1
    <3>4. b - y + 1 \in P
      BY <3>2, <3>3 DEF Positions
    <3> QED
      BY <3>2, <3>4
  <2>5. IsFiniteSet(P)
    BY PositionsFinite
  <2>6. f \in [P -> Q]
    BY <2>2
  <2> HIDE DEF f, P, Q
  <2>7. Cardinality(Q) = Cardinality(P)
    BY <2>3, <2>4, <2>5, <2>6, Paired
  <2> QED
    BY <2>7 DEF P, Q
<1>8. ToBag(w) = [x \in within |-> Cardinality(Positions(w, x))]
  BY <1>5, <1>6, BagOf
<1>9. /\ DOMAIN ToBag(series) = all
      /\ \A x \in all : ToBag(series)[x] = Cardinality(Positions(series, x))
  BY BagOf
<1>10. StartedIn(ToBag(series), from, to) = [x \in within |-> ToBag(series)[x]]
  BY <1>9 DEF StartedIn, RestrictDomain, Restrict
<1>11. \A x \in within :
         Cardinality(Positions(w, x)) = ToBag(series)[x]
  BY <1>7, <1>9
<1> HIDE DEF within
<1>12. ToBag(w) = StartedIn(ToBag(series), from, to)
  BY <1>8, <1>10, <1>11
<1> QED
  BY <1>12 DEF w

-----------------------------------------------------------------------------
(* The inductive invariant.                                                *)

ForeignSample == [at : Instant, value : Handshake]
SelfSample == [at : Instant, value : Latency]
TotalSample == [at : Instant, value : Nat]

(***************************************************************************)
(* The series of the probes are in the order of time, which no window can  *)
(* do without, and hold what was taken.                                    *)
(***************************************************************************)
ProbesKept ==
  /\ foreign \in Seq(ForeignSample) /\ Sorted(foreign)
  /\ loaded \in Seq(SelfSample) /\ Sorted(loaded)
  /\ taken = [foreign |-> ToBag(foreign), loaded |-> ToBag(loaded)]

(***************************************************************************)
(* The reports of the load begin with a zero, are in the order of time,    *)
(* and the last one up to an instant, however often it was sent, is the    *)
(* total of that instant.                                                  *)
(***************************************************************************)
Reported ==
  /\ counter \in Seq(TotalSample) /\ counter # << >> /\ Sorted(counter)
  /\ counter[1] = Sample(0, 0)
  /\ \A i \in 1..Len(counter) : counter[i].at <= now

TotalsKept ==
  /\ now \in Instant /\ total \in Nat /\ bytesAt \in [Instant -> Nat]
  /\ Reported
  /\ counter[Len(counter)].value = total
  /\ \A t \in Instant : counter[UpTo(counter, t)].value = bytesAt[t]

IInv == ProbesKept /\ TotalsKept

(***************************************************************************)
(* Every kind of sample has a time.                                        *)
(***************************************************************************)
LEMMA SamplesAreTimed ==
  Timed(ForeignSample) /\ Timed(SelfSample) /\ Timed(TotalSample)
BY MeasurementsAssumption
DEF Timed, ForeignSample, SelfSample, TotalSample, Instant

-----------------------------------------------------------------------------
(* The searches of the counter after a report.                             *)

(***************************************************************************)
(* partition_point returns the one count that its samples allow.           *)
(***************************************************************************)
LEMMA UpToUnique ==
  ASSUME NEW S, Timed(S), NEW series \in Seq(S), Sorted(series), NEW t \in Int,
         NEW c \in 0..Len(series),
         \A i \in 1..Len(series) : i <= c <=> series[i].at <= t
  PROVE  UpTo(series, t) = c
<1> DEFINE b == UpTo(series, t)
<1>1. /\ b \in 0..Len(series)
      /\ \A i \in 1..Len(series) : i <= b <=> series[i].at <= t
  BY Partitioned
<1> HIDE DEF b
<1>2. ~(b < c)
  <2> SUFFICES ASSUME b < c PROVE FALSE
    OBVIOUS
  <2>1. c \in 1..Len(series) /\ ~(c <= b)
    BY <1>1
  <2> QED
    BY <1>1, <2>1
<1>3. ~(c < b)
  <2> SUFFICES ASSUME c < b PROVE FALSE
    OBVIOUS
  <2>1. b \in 1..Len(series) /\ ~(b <= c)
    BY <1>1
  <2> QED
    BY <1>1, <2>1
<1> QED
  BY <1>1, <1>2, <1>3 DEF b

(***************************************************************************)
(* Before is the only number that parts a sorted series at a time.         *)
(***************************************************************************)
LEMMA BeforeUnique ==
  ASSUME NEW S, Timed(S), NEW series \in Seq(S), Sorted(series), NEW t \in Int,
         NEW c \in 0..Len(series),
         \A i \in 1..Len(series) : i <= c <=> series[i].at < t
  PROVE  Before(series, t) = c
<1> DEFINE b == Before(series, t)
<1>1. /\ b \in 0..Len(series)
      /\ \A i \in 1..Len(series) : i <= b <=> series[i].at < t
  BY Partitioned
<1> HIDE DEF b
<1>2. ~(b < c)
  <2> SUFFICES ASSUME b < c PROVE FALSE
    OBVIOUS
  <2>1. c \in 1..Len(series) /\ ~(c <= b)
    BY <1>1
  <2> QED
    BY <1>1, <2>1
<1>3. ~(c < b)
  <2> SUFFICES ASSUME c < b PROVE FALSE
    OBVIOUS
  <2>1. b \in 1..Len(series) /\ ~(b <= c)
    BY <1>1
  <2> QED
    BY <1>1, <2>1
<1> QED
  BY <1>1, <1>2, <1>3 DEF b

(***************************************************************************)
(* What a report leaves of a series: all of it, and the same sample once   *)
(* or twice behind it.                                                     *)
(***************************************************************************)
Extended(new, series, s) ==
  /\ Len(new) > Len(series)
  /\ \A i \in 1..Len(series) : new[i] = series[i]
  /\ \A i \in Len(series) + 1..Len(new) : new[i] = s

(***************************************************************************)
(* A report newer than the others, sent once or twice, goes to the end.    *)
(***************************************************************************)
LEMMA ReportExtends ==
  ASSUME NEW S, Timed(S), NEW series \in Seq(S), series # << >>, Sorted(series),
         NEW s \in S, \A i \in 1..Len(series) : series[i].at < s.at
  PROVE  LET once == CounterAdded(series, s)
             twice == CounterAdded(once, s)
         IN  /\ once \in Seq(S) /\ Sorted(once) /\ Extended(once, series, s)
             /\ twice \in Seq(S) /\ Sorted(twice) /\ Extended(twice, series, s)
<1>0. \A q \in Seq(S) : \A k \in 1..Len(q) + 1 :
        /\ InsertAt(q, k, s) \in Seq(S)
        /\ Len(InsertAt(q, k, s)) = Len(q) + 1
        /\ \A j \in 1..Len(q) + 1 :
             InsertAt(q, k, s)[j] = IF j < k THEN q[j]
                                    ELSE IF j = k THEN s ELSE q[j - 1]
  BY Inserted
<1> DEFINE n == Len(series)
           once == Append(series, s)
           twice == InsertAt(once, n + 1, s)
<1>1. /\ n \in Nat \ {0} /\ s.at \in Int
      /\ \A i \in 1..n : series[i] \in S /\ series[i].at \in Int
  BY DEF Timed
<1>2. /\ once \in Seq(S) /\ Len(once) = n + 1 /\ once[n + 1] = s /\ once # << >>
      /\ \A i \in 1..n : once[i] = series[i]
  BY AppendProperties
<1>3. CounterAdded(series, s) = once
  <2>1. Last(series) = series[n] /\ n \in 1..n
    BY <1>1 DEF Last
  <2>2. s.at > Last(series).at
    BY <1>1, <2>1
  <2> QED
    BY <2>2 DEF CounterAdded
<1> HIDE DEF once, n
<1>4. Sorted(once)
  <2> SUFFICES ASSUME NEW i \in 1..n + 1, NEW j \in 1..n + 1, i < j
               PROVE  once[i].at <= once[j].at
    BY <1>2 DEF Sorted
  <2>1. CASE j <= n
    <3>1. i \in 1..n /\ j \in 1..n
      BY <1>1, <2>1
    <3> QED
      BY <1>2, <3>1 DEF Sorted, n
  <2>2. CASE j = n + 1
    <3>1. i \in 1..n
      BY <1>1, <2>2
    <3>2. once[i] = series[i] /\ once[j] = s /\ series[i].at < s.at
      BY <1>2, <2>2, <3>1 DEF n
    <3> QED
      BY <1>1, <3>1, <3>2
  <2> QED
    BY <1>1, <2>1, <2>2
<1>5. Before(once, s.at) = n
  <2>1. \A i \in 1..n + 1 : i <= n <=> once[i].at < s.at
    <3> SUFFICES ASSUME NEW i \in 1..n + 1
                 PROVE  i <= n <=> once[i].at < s.at
      OBVIOUS
    <3>1. CASE i = n + 1
      BY <1>1, <1>2, <3>1
    <3>2. CASE i <= n
      <4>1. i \in 1..n
        BY <1>1, <3>2
      <4> QED
        BY <1>2, <4>1, <3>2 DEF n
    <3> QED
      BY <1>1, <3>1, <3>2
  <2>2. n \in 0..Len(once)
    BY <1>1, <1>2
  <2> QED
    BY <1>1, <1>2, <1>4, <2>1, <2>2, BeforeUnique
<1>6. CounterAdded(once, s) = twice
  <2>1. Last(once) = s
    BY <1>2 DEF Last
  <2>2. ~(s.at > s.at)
    BY <1>1
  <2> QED
    BY <1>5, <2>1, <2>2 DEF CounterAdded
<1>7. s.at \in Int /\ n + 1 \in Slots(once, s.at)
  BY <1>1, <1>2 DEF Slots
<1>8. n + 1 \in 1..Len(once) + 1 /\ Sorted(twice)
  BY <1>2, <1>4, <1>7, SlotsKeepOrder
<1>9. /\ twice \in Seq(S) /\ Len(twice) = n + 2
      /\ \A j \in 1..n + 2 :
           twice[j] = IF j < n + 1 THEN once[j]
                      ELSE IF j = n + 1 THEN s ELSE once[j - 1]
  <2>1. /\ twice \in Seq(S) /\ Len(twice) = Len(once) + 1
        /\ \A j \in 1..Len(once) + 1 :
             twice[j] = IF j < n + 1 THEN once[j]
                        ELSE IF j = n + 1 THEN s ELSE once[j - 1]
    BY <1>0, <1>2, <1>8
  <2>2. Len(once) + 1 = n + 2
    BY <1>1, <1>2
  <2> QED
    BY <2>1, <2>2
<1> HIDE DEF twice
<1>10. Extended(once, series, s)
  <2>1. \A i \in n + 1..n + 1 : i = n + 1
    BY <1>1
  <2> QED
    BY <1>1, <1>2, <2>1 DEF Extended, n
<1>11. Extended(twice, series, s)
  <2>1. \A i \in 1..n : twice[i] = series[i]
    <3> SUFFICES ASSUME NEW i \in 1..n PROVE twice[i] = series[i]
      OBVIOUS
    <3>1. i \in 1..n + 2 /\ i < n + 1
      BY <1>1
    <3> QED
      BY <1>2, <1>9, <3>1
  <2>2. \A i \in n + 1..n + 2 : twice[i] = s
    <3> SUFFICES ASSUME NEW i \in n + 1..n + 2 PROVE twice[i] = s
      OBVIOUS
    <3>1. i \in 1..n + 2 /\ (i = n + 1 \/ i = n + 2)
      BY <1>1
    <3>2. CASE i = n + 1
      BY <1>1, <1>9, <3>1, <3>2
    <3>3. CASE i = n + 2
      <4>1. twice[i] = once[n + 1]
        BY <1>1, <1>9, <3>1, <3>3
      <4> QED
        BY <1>2, <4>1
    <3> QED
      BY <3>1, <3>2, <3>3
  <2> QED
    BY <1>1, <1>9, <2>1, <2>2 DEF Extended, n
<1> QED
  BY <1>2, <1>3, <1>4, <1>6, <1>8, <1>9, <1>10, <1>11

(***************************************************************************)
(* Before the instant of the report nothing a search finds has changed,    *)
(* and from it on every search finds a report of the new total.            *)
(***************************************************************************)
LEMMA SearchAfterReport ==
  ASSUME NEW S, Timed(S), NEW series \in Seq(S), Sorted(series), NEW s \in S,
         \A i \in 1..Len(series) : series[i].at < s.at,
         NEW new \in Seq(S), Sorted(new), Extended(new, series, s),
         NEW t \in Int
  PROVE  /\ t < s.at => UpTo(new, t) = UpTo(series, t)
         /\ t >= s.at => UpTo(new, t) = Len(new)
<1>1. /\ Len(series) \in Nat /\ Len(new) \in Nat /\ s.at \in Int
      /\ \A i \in 1..Len(series) : series[i].at \in Int
  BY DEF Timed
<1>2. ASSUME NEW i \in 1..Len(new)
      PROVE  \/ i \in 1..Len(series) /\ new[i] = series[i]
             \/ i > Len(series) /\ new[i] = s
  <2>1. CASE i <= Len(series)
    <3>1. i \in 1..Len(series)
      BY <1>1, <2>1
    <3> QED
      BY <3>1 DEF Extended
  <2>2. CASE i > Len(series)
    <3>1. i \in Len(series) + 1..Len(new)
      BY <1>1, <2>2
    <3> QED
      BY <2>2, <3>1 DEF Extended
  <2> QED
    BY <1>1, <2>1, <2>2
<1>3. ASSUME t < s.at PROVE UpTo(new, t) = UpTo(series, t)
  <2> DEFINE c == UpTo(series, t)
  <2>1. /\ c \in 0..Len(series)
        /\ \A i \in 1..Len(series) : i <= c <=> series[i].at <= t
    BY Partitioned
  <2> HIDE DEF c
  <2>2. c \in 0..Len(new)
    BY <1>1, <2>1 DEF Extended
  <2>3. \A i \in 1..Len(new) : i <= c <=> new[i].at <= t
    <3> SUFFICES ASSUME NEW i \in 1..Len(new)
                 PROVE  i <= c <=> new[i].at <= t
      OBVIOUS
    <3>1. CASE i \in 1..Len(series) /\ new[i] = series[i]
      BY <2>1, <3>1
    <3>2. CASE i > Len(series) /\ new[i] = s
      BY <1>1, <1>3, <2>1, <3>2
    <3> QED
      BY <1>2, <3>1, <3>2
  <2>4. UpTo(new, t) = c
    BY <2>2, <2>3, UpToUnique
  <2> QED
    BY <2>4 DEF c
<1>4. ASSUME t >= s.at PROVE UpTo(new, t) = Len(new)
  <2>1. \A i \in 1..Len(new) : i <= Len(new) <=> new[i].at <= t
    <3> SUFFICES ASSUME NEW i \in 1..Len(new) PROVE new[i].at <= t
      BY <1>1
    <3>1. CASE i \in 1..Len(series) /\ new[i] = series[i]
      <4>1. series[i].at < s.at /\ series[i].at \in Int
        BY <1>1, <3>1
      <4> QED
        BY <1>1, <1>4, <3>1, <4>1
    <3>2. CASE i > Len(series) /\ new[i] = s
      BY <1>4, <3>2
    <3> QED
      BY <1>2, <3>1, <3>2
  <2>2. Len(new) \in 0..Len(new)
    BY <1>1
  <2> QED
    BY <2>1, <2>2, UpToUnique
<1> QED
  BY <1>3, <1>4

-----------------------------------------------------------------------------
(* Invariance.                                                             *)

(***************************************************************************)
(* TimeSeries::add, wherever its search stops: the series stays in order   *)
(* and holds one sample more.                                              *)
(***************************************************************************)
LEMMA AddedKeeps ==
  ASSUME NEW S, Timed(S), NEW series \in Seq(S), Sorted(series), NEW s \in S,
         NEW new \in Added(series, s)
  PROVE  /\ new \in Seq(S) /\ Sorted(new)
         /\ ToBag(new) = ToBag(series) (+) SetToBag({s})
<1>1. PICK i \in Slots(series, s.at) : new = InsertAt(series, i, s)
  BY DEF Added
<1>2. i \in 1..Len(series) + 1 /\ Sorted(InsertAt(series, i, s))
  BY SlotsKeepOrder
<1>3. InsertAt(series, i, s) \in Seq(S)
  BY <1>2, Inserted
<1>4. ToBag(InsertAt(series, i, s)) = ToBag(series) (+) SetToBag({s})
  BY <1>2, InsertedBag
<1> QED
  BY <1>1, <1>2, <1>3, <1>4

(***************************************************************************)
(* The series begin empty, and the counter with a zero.                    *)
(***************************************************************************)
LEMMA InitInv ==
  ASSUME Init
  PROVE  IInv
<1> DEFINE zero == Sample(0, 0)
<1>1. 0 \in Instant /\ zero \in TotalSample /\ zero.at = 0 /\ zero.value = 0
  BY MeasurementsAssumption DEF Instant, TotalSample, Sample
<1> HIDE DEF zero
<1>2. ToBag(<< >>) = EmptyBag
  BY DEF ToBag, Range, EmptyBag, SetToBag
<1>3. ProbesKept
  BY <1>2 DEF Init, ProbesKept, Sorted
<1>4. Before(<< >>, 0) = 0
  BY FS_EmptySet DEF Before
<1>5. counter = InsertAt(<< >>, 1, zero)
  BY <1>1, <1>4 DEF Init, CounterAdded, zero
<1>6. counter \in Seq(TotalSample) /\ Len(counter) = 1 /\ counter[1] = zero
  <2>1. SubSeq(<< >>, 1, 1 - 1) = << >> /\ SubSeq(<< >>, 1, Len(<< >>)) = << >>
    BY SubSeqEmpty
  <2>2. counter = << >> \o << zero >> \o << >>
    BY <1>5, <2>1 DEF InsertAt
  <2>3. counter = << zero >>
    BY <2>2
  <2> QED
    BY <1>1, <2>3
<1>7. Sorted(counter)
  BY <1>6 DEF Sorted
<1>8. ASSUME NEW t \in Instant PROVE counter[UpTo(counter, t)].value = bytesAt[t]
  <2>1. t \in Int /\ 0 <= t
    BY MeasurementsAssumption DEF Instant
  <2>2. 1 \in 0..Len(counter)
    BY <1>6
  <2>3. \A i \in 1..Len(counter) : i <= 1 <=> counter[i].at <= t
    BY <1>1, <1>6, <2>1
  <2>4. UpTo(counter, t) = 1
    BY <1>6, <1>7, <2>1, <2>2, <2>3, UpToUnique, SamplesAreTimed
  <2> QED
    BY <1>1, <1>6, <2>4 DEF Init
<1>9. Reported
  BY <1>1, <1>6, <1>7 DEF Reported, Init, zero
<1>10. bytesAt \in [Instant -> Nat]
  BY DEF Init
<1>11. TotalsKept
  BY <1>1, <1>6, <1>8, <1>9, <1>10 DEF TotalsKept, Init
<1> QED
  BY <1>3, <1>11 DEF IInv

(***************************************************************************)
(* A foreign probe goes into its series and into what was taken.           *)
(***************************************************************************)
LEMMA ForeignEndsInv ==
  ASSUME IInv, NEW start \in Instant, NEW handshake \in Handshake,
         ForeignEnds(start, handshake)
  PROVE  IInv'
<1> DEFINE s == Sample(start, handshake)
<1>1. s \in ForeignSample /\ s.at = start
  BY DEF ForeignSample, Sample
<1>2. /\ foreign' \in Added(foreign, s)
      /\ taken' = [taken EXCEPT !.foreign = @ (+) SetToBag({s})]
      /\ UNCHANGED << loadVars, loaded >>
  BY DEF ForeignEnds
<1> HIDE DEF s
<1>3. /\ foreign \in Seq(ForeignSample) /\ Sorted(foreign)
      /\ loaded \in Seq(SelfSample) /\ Sorted(loaded)
      /\ taken = [foreign |-> ToBag(foreign), loaded |-> ToBag(loaded)]
  BY DEF IInv, ProbesKept
<1>4. /\ foreign' \in Seq(ForeignSample) /\ Sorted(foreign')
      /\ ToBag(foreign') = ToBag(foreign) (+) SetToBag({s})
  BY <1>1, <1>2, <1>3, AddedKeeps, SamplesAreTimed
<1>5. taken' = [foreign |-> ToBag(foreign'), loaded |-> ToBag(loaded')]
  BY <1>2, <1>3, <1>4
<1>6. ProbesKept'
  BY <1>2, <1>3, <1>4, <1>5 DEF ProbesKept, Sorted
<1>7. TotalsKept'
  BY <1>2 DEF IInv, TotalsKept, Reported, loadVars, Sorted, UpTo
<1> QED
  BY <1>6, <1>7 DEF IInv

(***************************************************************************)
(* So does a probe of a loaded connection.                                 *)
(***************************************************************************)
LEMMA SelfEndsInv ==
  ASSUME IInv, NEW start \in Instant, NEW latency \in Latency,
         SelfEnds(start, latency)
  PROVE  IInv'
<1> DEFINE s == Sample(start, latency)
<1>1. s \in SelfSample /\ s.at = start
  BY DEF SelfSample, Sample
<1>2. /\ loaded' \in Added(loaded, s)
      /\ taken' = [taken EXCEPT !.loaded = @ (+) SetToBag({s})]
      /\ UNCHANGED << loadVars, foreign >>
  BY DEF SelfEnds
<1> HIDE DEF s
<1>3. /\ foreign \in Seq(ForeignSample) /\ Sorted(foreign)
      /\ loaded \in Seq(SelfSample) /\ Sorted(loaded)
      /\ taken = [foreign |-> ToBag(foreign), loaded |-> ToBag(loaded)]
  BY DEF IInv, ProbesKept
<1>4. /\ loaded' \in Seq(SelfSample) /\ Sorted(loaded')
      /\ ToBag(loaded') = ToBag(loaded) (+) SetToBag({s})
  BY <1>1, <1>2, <1>3, AddedKeeps, SamplesAreTimed
<1>5. taken' = [foreign |-> ToBag(foreign'), loaded |-> ToBag(loaded')]
  BY <1>2, <1>3, <1>4
<1>6. ProbesKept'
  BY <1>2, <1>3, <1>4, <1>5 DEF ProbesKept, Sorted
<1>7. TotalsKept'
  BY <1>2 DEF IInv, TotalsKept, Reported, loadVars, Sorted, UpTo
<1> QED
  BY <1>6, <1>7 DEF IInv

(***************************************************************************)
(* A step that leaves the series alone leaves them as they were.           *)
(***************************************************************************)
LEMMA QuietInv ==
  ASSUME IInv, Quiet
  PROVE  IInv'
<1>1. ProbesKept'
  BY DEF Quiet, probeVars, IInv, ProbesKept, Sorted
<1>2. now' \in Instant /\ now <= now' /\ now \in Int /\ now' \in Int
  BY MeasurementsAssumption DEF Quiet, IInv, TotalsKept, Instant
<1>3. \A i \in 1..Len(counter) : counter[i].at \in Int
  BY SamplesAreTimed DEF IInv, TotalsKept, Reported, Timed
<1>4. \A i \in 1..Len(counter) : counter[i].at <= now'
  BY <1>2, <1>3 DEF IInv, TotalsKept, Reported
<1>5. Reported'
  BY <1>4 DEF IInv, TotalsKept, Reported, Quiet, Sorted
<1>6. TotalsKept'
  BY <1>2, <1>5 DEF IInv, TotalsKept, Quiet, UpTo
<1> QED
  BY <1>1, <1>6 DEF IInv

(***************************************************************************)
(* A report of the load brings its total of this instant.                  *)
(***************************************************************************)
LEMMA ReportInv ==
  ASSUME IInv, NEW chunk \in Chunk, NEW twice \in BOOLEAN, Report(chunk, twice)
  PROVE  IInv'
<1> DEFINE s == Sample(now', total')
           once == CounterAdded(counter, s)
<1>1. ProbesKept'
  BY DEF Report, probeVars, IInv, ProbesKept, Sorted
<1>2. /\ now' = now + 1 /\ total' = total + chunk /\ now < MaxTime
      /\ counter' = IF twice THEN CounterAdded(once, s) ELSE once
      /\ bytesAt' = [t \in Instant |->
                       IF t >= now' THEN total' ELSE bytesAt[t]]
  BY DEF Report
<1>3. now \in Instant /\ total \in Nat /\ bytesAt \in [Instant -> Nat]
  BY DEF IInv, TotalsKept
<1>4. now \in Int /\ now' \in Instant /\ now' \in Int /\ total' \in Nat
  BY <1>2, <1>3, MeasurementsAssumption DEF Instant
<1>5. s \in TotalSample /\ s.at = now' /\ s.value = total'
  BY <1>4 DEF TotalSample, Sample
<1> HIDE DEF s, once
<1>6. /\ counter \in Seq(TotalSample) /\ counter # << >> /\ Sorted(counter)
      /\ counter[1] = Sample(0, 0) /\ Len(counter) \in Nat \ {0}
      /\ \A i \in 1..Len(counter) : counter[i].at <= now
      /\ \A i \in 1..Len(counter) : counter[i].at \in Int
      /\ \A t \in Instant : counter[UpTo(counter, t)].value = bytesAt[t]
  BY SamplesAreTimed DEF IInv, TotalsKept, Reported, Timed
<1>7. \A i \in 1..Len(counter) : counter[i].at < s.at
  BY <1>2, <1>4, <1>5, <1>6
<1>8. /\ once \in Seq(TotalSample) /\ Sorted(once)
      /\ Extended(once, counter, s)
      /\ CounterAdded(once, s) \in Seq(TotalSample)
      /\ Sorted(CounterAdded(once, s))
      /\ Extended(CounterAdded(once, s), counter, s)
  BY <1>5, <1>6, <1>7, ReportExtends, SamplesAreTimed DEF once
<1>9. /\ counter' \in Seq(TotalSample) /\ Sorted(counter')
      /\ Extended(counter', counter, s)
  BY <1>2, <1>8
<1>10. Len(counter') \in Nat /\ Len(counter') > Len(counter)
  BY <1>9 DEF Extended
<1>11. ASSUME NEW i \in 1..Len(counter') PROVE counter'[i].at <= now'
  <2>1. CASE i <= Len(counter)
    <3>1. i \in 1..Len(counter) /\ counter'[i] = counter[i]
      BY <1>6, <1>9, <2>1 DEF Extended
    <3> QED
      BY <1>4, <1>5, <1>6, <1>7, <3>1
  <2>2. CASE i > Len(counter)
    <3>1. counter'[i] = s
      BY <1>6, <1>9, <1>10, <2>2 DEF Extended
    <3> QED
      BY <1>4, <1>5, <3>1
  <2> QED
    BY <1>6, <2>1, <2>2
<1>12. counter'[1] = Sample(0, 0) /\ counter' # << >>
  BY <1>6, <1>9, <1>10 DEF Extended
<1>13. counter'[Len(counter')] = s
  BY <1>6, <1>9, <1>10 DEF Extended
<1>14. ASSUME NEW t \in Instant
       PROVE  counter'[UpTo(counter', t)].value = bytesAt'[t]
  <2>1. t \in Int /\ t >= 0
    BY MeasurementsAssumption DEF Instant
  <2>2. /\ t < s.at => UpTo(counter', t) = UpTo(counter, t)
        /\ t >= s.at => UpTo(counter', t) = Len(counter')
    BY <1>5, <1>6, <1>7, <1>9, <2>1, SearchAfterReport, SamplesAreTimed
  <2>3. CASE t >= now'
    <3>1. counter'[UpTo(counter', t)] = s
      BY <1>5, <1>13, <2>2, <2>3
    <3> QED
      BY <1>2, <1>5, <2>3, <3>1
  <2>4. CASE t < now'
    <3>1. /\ UpTo(counter, t) \in 0..Len(counter)
          /\ \A i \in 1..Len(counter) :
               i <= UpTo(counter, t) <=> counter[i].at <= t
      BY <1>6, <2>1, Partitioned, SamplesAreTimed
    <3>2. 1 \in 1..Len(counter) /\ counter[1].at <= t
      BY <1>6, <2>1 DEF Sample
    <3>3. UpTo(counter, t) \in 1..Len(counter)
      BY <1>6, <3>1, <3>2
    <3>4. counter'[UpTo(counter', t)] = counter[UpTo(counter, t)]
      BY <1>5, <1>9, <2>2, <2>4, <3>3 DEF Extended
    <3>5. bytesAt'[t] = bytesAt[t]
      BY <1>2, <1>4, <2>1, <2>4
    <3> QED
      BY <1>6, <3>4, <3>5
  <2> QED
    BY <1>4, <2>1, <2>3, <2>4
<1>15. Reported'
  BY <1>9, <1>11, <1>12 DEF Reported, Sorted
<1>16. bytesAt' \in [Instant -> Nat]
  BY <1>2, <1>3, <1>4
<1>17. TotalsKept'
  BY <1>4, <1>5, <1>13, <1>14, <1>15, <1>16 DEF TotalsKept
<1> QED
  BY <1>1, <1>17 DEF IInv

(***************************************************************************)
(* Every step keeps the invariant.                                         *)
(***************************************************************************)
LEMMA NextInv ==
  ASSUME IInv, [Next]_vars
  PROVE  IInv'
<1>1. CASE \E chunk \in Chunk, twice \in BOOLEAN : Report(chunk, twice)
  BY <1>1, ReportInv
<1>2. CASE Quiet
  BY <1>2, QuietInv
<1>3. CASE \E start \in Instant, handshake \in Handshake :
             ForeignEnds(start, handshake)
  BY <1>3, ForeignEndsInv
<1>4. CASE \E start \in Instant, latency \in Latency : SelfEnds(start, latency)
  BY <1>4, SelfEndsInv
<1>5. CASE UNCHANGED vars
  BY <1>5 DEF vars, loadVars, probeVars, IInv, ProbesKept, TotalsKept,
              Reported, Sorted, UpTo
<1> QED
  BY <1>1, <1>2, <1>3, <1>4, <1>5 DEF Next

(***************************************************************************)
(* For any number of probes that end in any order, and reports of any      *)
(* frequency, both series are sorted and hold what was taken, and the      *)
(* counter holds the totals (TimeSeries::add, CounterSeries::add).         *)
(***************************************************************************)
THEOREM InvHolds == Spec => []IInv
<1>1. Init => IInv
  BY InitInv
<1>2. IInv /\ [Next]_vars => IInv'
  BY NextInv
<1> QED
  BY <1>1, <1>2, PTL DEF Spec

-----------------------------------------------------------------------------
(* What the loop may read, at any time.                                    *)

(***************************************************************************)
(* For any number of probes that end in any order, every window holds      *)
(* exactly the probes that started in it (TimeSeries::add, sample_interval *)
(* of nq_stats/mod.rs).                                                    *)
(***************************************************************************)
THEOREM WindowsHoldWhatStarted == Spec => []WindowIsExact
<1>1. ASSUME IInv PROVE WindowIsExact
  <2> SUFFICES ASSUME NEW from \in Instant, NEW to \in from..MaxTime
               PROVE  /\ ToBag(Window(foreign, from, to))
                           = StartedIn(taken.foreign, from, to)
                      /\ ToBag(Window(loaded, from, to))
                           = StartedIn(taken.loaded, from, to)
    BY DEF WindowIsExact
  <2>1. from \in Int /\ to \in Int /\ from <= to
    BY MeasurementsAssumption DEF Instant
  <2>2. /\ foreign \in Seq(ForeignSample) /\ Sorted(foreign)
        /\ loaded \in Seq(SelfSample) /\ Sorted(loaded)
        /\ taken.foreign = ToBag(foreign) /\ taken.loaded = ToBag(loaded)
    BY <1>1 DEF IInv, ProbesKept
  <2>3. ToBag(Window(foreign, from, to)) = StartedIn(ToBag(foreign), from, to)
    BY <2>1, <2>2, WindowBag, SamplesAreTimed
  <2>4. ToBag(Window(loaded, from, to)) = StartedIn(ToBag(loaded), from, to)
    BY <2>1, <2>2, WindowBag, SamplesAreTimed
  <2> QED
    BY <2>2, <2>3, <2>4
<1> QED
  BY <1>1, InvHolds, PTL

(***************************************************************************)
(* For any load and any window that is over, the bytes of the window are   *)
(* what was transferred in it, although counts are reported twice          *)
(* (CounterSeries::interval_sum).                                          *)
(***************************************************************************)
THEOREM BytesAreThoseTransferred == Spec => []BytesOfWindow
<1>1. ASSUME IInv PROVE BytesOfWindow
  <2> SUFFICES ASSUME NEW from \in 0..now, NEW to \in 0..now, from <= to
               PROVE  IntervalSum(counter, from, to)
                        = bytesAt[to]
                          - (IF from = 0 THEN 0 ELSE bytesAt[from - 1])
    BY DEF BytesOfWindow
  <2> DEFINE a == Before(counter, from)
             b == UpTo(counter, to)
  <2>1. /\ from \in Instant /\ to \in Instant /\ from \in Int /\ to \in Int
        /\ 0 <= from /\ 0 <= to
        /\ from # 0 => from - 1 \in Instant /\ from - 1 \in Int /\ 0 <= from - 1
    BY <1>1, MeasurementsAssumption DEF IInv, TotalsKept, Instant
  <2>2. /\ counter \in Seq(TotalSample) /\ counter # << >> /\ Sorted(counter)
        /\ Len(counter) \in Nat \ {0}
        /\ counter[1].at = 0 /\ counter[1].value = 0
        /\ \A i \in 1..Len(counter) : counter[i].at \in Int
        /\ \A t \in Instant : counter[UpTo(counter, t)].value = bytesAt[t]
    BY <1>1, SamplesAreTimed DEF IInv, TotalsKept, Reported, Timed, Sample
  <2>3. /\ a \in 0..Len(counter) /\ b \in 0..Len(counter) /\ a <= b
        /\ \A i \in 1..Len(counter) : /\ i <= a <=> counter[i].at < from
                                      /\ i <= b <=> counter[i].at <= to
    BY <2>1, <2>2, Partitioned, WindowIsSlice, SamplesAreTimed
  <2>4. IntervalSum(counter, from, to) =
          LET start == IF a = 0 THEN 1 ELSE a
          IN  IF start > b THEN 0 ELSE counter[b].value - counter[start].value
    BY DEF IntervalSum, IntervalStart
  <2>5. counter[b].value = bytesAt[to]
    BY <2>1, <2>2
  <2>6. from # 0 => UpTo(counter, from - 1) = a
    <3> SUFFICES ASSUME from # 0 PROVE UpTo(counter, from - 1) = a
      OBVIOUS
    <3> HIDE DEF a
    <3>1. \A i \in 1..Len(counter) : i <= a <=> counter[i].at <= from - 1
      BY <2>1, <2>2, <2>3
    <3> QED
      BY <2>1, <2>2, <2>3, <3>1, UpToUnique, SamplesAreTimed
  <2> HIDE DEF a, b
  <2>7. 1 \in 1..Len(counter) /\ 1 <= b
    BY <2>1, <2>2, <2>3
  <2>8. CASE from = 0
    <3>1. a = 0
      BY <2>1, <2>2, <2>3, <2>7, <2>8
    <3>2. counter[b].value \in Int
      BY <1>1, <2>1, <2>5 DEF IInv, TotalsKept
    <3> QED
      BY <2>2, <2>3, <2>4, <2>5, <2>7, <2>8, <3>1, <3>2
  <2>9. CASE from # 0
    <3>1. 1 <= a
      BY <2>1, <2>2, <2>3, <2>7, <2>9
    <3>2. counter[a].value = bytesAt[from - 1]
      BY <2>1, <2>2, <2>6, <2>9
    <3> QED
      BY <2>3, <2>4, <2>5, <2>9, <3>1, <3>2
  <2> QED
    BY <2>8, <2>9
<1> QED
  BY <1>1, InvHolds, PTL

-----------------------------------------------------------------------------
(* The sum of a sequence does not depend on the order it is taken in.      *)

(***************************************************************************)
(* A set of naturals has a least element.                                  *)
(***************************************************************************)
LEMMA LeastOf ==
  ASSUME NEW T, T \subseteq Nat, T # {}
  PROVE  \E n \in T : \A k \in T : n <= k
<1>1. PICK n \in T : \A k \in T : ~(<< k, n >> \in OpToRel(<, Nat))
  BY NatLessThanWellFounded, WFMin
<1>2. \A k \in T : ~(k < n)
  BY <1>1 DEF OpToRel
<1>3. \A k \in T : k \in Nat /\ n \in Nat
  BY <1>1
<1>4. \A k \in T : n <= k
  BY <1>2, <1>3
<1> QED
  BY <1>1, <1>4

(***************************************************************************)
(* Total, unfolded: the sum over a set of positions takes one of them, in  *)
(* no particular order, and goes on with the others.                       *)
(***************************************************************************)
Taken(s) == CHOOSE x \in s : TRUE

SumOver(v) ==
  CHOOSE g : g = [s \in SUBSET (DOMAIN v) |->
                    IF s = {} THEN 0 ELSE v[Taken(s)] + g[s \ {Taken(s)}]]

(***************************************************************************)
(* The total of a sequence is the sum over its positions.                  *)
(***************************************************************************)
LEMMA TotalIsSum ==
  ASSUME NEW v
  PROVE  Total(v) = SumOver(v)[DOMAIN v]
BY DEF Total, FoldSeq, FoldFunction, FoldFunctionOnSet, MapThenFoldSet,
       SumOver, Taken

(***************************************************************************)
(* A sum over the sets of at most n positions.                             *)
(***************************************************************************)
SmallSets(D, n) == {s \in SUBSET D : Cardinality(s) <= n}

IsSum(g, v, D, n) ==
  /\ g \in [SmallSets(D, n) -> Int]
  /\ \A s \in SmallSets(D, n) :
       g[s] = IF s = {} THEN 0 ELSE v[Taken(s)] + g[s \ {Taken(s)}]

(***************************************************************************)
(* A finite set without one of its elements is smaller by one.             *)
(***************************************************************************)
LEMMA TakenOut ==
  ASSUME NEW D, IsFiniteSet(D), NEW s \in SUBSET D, s # {}
  PROVE  /\ Taken(s) \in s /\ s \ {Taken(s)} \in SUBSET D
         /\ Cardinality(s) \in Nat \ {0} /\ IsFiniteSet(s)
         /\ \A x \in s : Cardinality(s \ {x}) = Cardinality(s) - 1
<1>1. Taken(s) \in s
  BY DEF Taken
<1>2. IsFiniteSet(s)
  BY FS_Subset
<1>3. Cardinality(s) \in Nat /\ Cardinality(s) # 0
  BY <1>2, FS_CardinalityType, FS_EmptySet
<1>4. \A x \in s : Cardinality(s \ {x}) = Cardinality(s) - 1
  BY <1>2, FS_RemoveElement
<1> QED
  BY <1>1, <1>2, <1>3, <1>4

(***************************************************************************)
(* There is such a sum for every bound on the number of positions, by      *)
(* least counterexample: the sums over n - 1 positions give those over n.  *)
(***************************************************************************)
LEMMA SumsExist ==
  ASSUME NEW D, IsFiniteSet(D), NEW v \in [D -> Int]
  PROVE  \A n \in Nat : \E g : IsSum(g, v, D, n)
<1> DEFINE bad == {n \in Nat : ~ \E g : IsSum(g, v, D, n)}
<1> SUFFICES bad = {}
  OBVIOUS
<1> SUFFICES ASSUME bad # {} PROVE FALSE
  OBVIOUS
<1>1. PICK n \in bad : \A k \in bad : n <= k
  <2>1. bad \subseteq Nat
    OBVIOUS
  <2> HIDE DEF bad
  <2> QED
    BY <2>1, LeastOf
<1>2. n \in Nat /\ ~ \E g : IsSum(g, v, D, n)
  OBVIOUS
<1>3. CASE n = 0
  <2> DEFINE g == [s \in SmallSets(D, 0) |-> 0]
  <2>1. \A s \in SmallSets(D, 0) : s = {}
    <3> SUFFICES ASSUME NEW s \in SmallSets(D, 0), s # {} PROVE FALSE
      OBVIOUS
    <3>1. s \in SUBSET D /\ Cardinality(s) <= 0
      BY DEF SmallSets
    <3> QED
      BY <3>1, TakenOut
  <2>2. IsSum(g, v, D, 0)
    BY <2>1 DEF IsSum
  <2> QED
    BY <1>2, <1>3, <2>2
<1>4. CASE n # 0
  <2>1. n - 1 \in Nat /\ ~(n <= n - 1)
    BY <1>2, <1>4
  <2>2. PICK f : IsSum(f, v, D, n - 1)
    BY <1>1, <2>1
  <2> DEFINE g == [s \in SmallSets(D, n) |->
                     IF s = {} THEN 0 ELSE v[Taken(s)] + f[s \ {Taken(s)}]]
  <2>3. ASSUME NEW s \in SmallSets(D, n), s # {}
        PROVE  /\ s \ {Taken(s)} \in SmallSets(D, n - 1)
               /\ v[Taken(s)] \in Int /\ f[s \ {Taken(s)}] \in Int
    <3>1. s \in SUBSET D /\ Cardinality(s) <= n
      BY DEF SmallSets
    <3>2. /\ Taken(s) \in s /\ s \ {Taken(s)} \in SUBSET D
          /\ Cardinality(s) \in Nat \ {0}
          /\ Cardinality(s \ {Taken(s)}) = Cardinality(s) - 1
      BY <2>3, <3>1, TakenOut
    <3>3. Cardinality(s \ {Taken(s)}) <= n - 1
      BY <1>2, <3>1, <3>2
    <3>4. s \ {Taken(s)} \in SmallSets(D, n - 1)
      BY <3>2, <3>3 DEF SmallSets
    <3> QED
      BY <2>2, <3>1, <3>2, <3>4 DEF IsSum
  <2>4. g \in [SmallSets(D, n) -> Int]
    <3>1. \A s \in SmallSets(D, n) : s # {} =>
            v[Taken(s)] + f[s \ {Taken(s)}] \in Int
      <4> SUFFICES ASSUME NEW s \in SmallSets(D, n), s # {}
                   PROVE  v[Taken(s)] + f[s \ {Taken(s)}] \in Int
        OBVIOUS
      <4>1. v[Taken(s)] \in Int /\ f[s \ {Taken(s)}] \in Int
        BY <2>3
      <4> QED
        BY <4>1
    <3> QED
      BY <3>1
  <2>5. ASSUME NEW s \in SmallSets(D, n - 1) PROVE s \in SmallSets(D, n) /\ g[s] = f[s]
    <3>1. s \in SUBSET D /\ Cardinality(s) <= n - 1
      BY DEF SmallSets
    <3>2. Cardinality(s) <= n
      <4>1. Cardinality(s) \in Int
        BY <3>1, FS_Subset, FS_CardinalityType
      <4> QED
        BY <1>2, <3>1, <4>1
    <3>3. s \in SmallSets(D, n)
      BY <3>1, <3>2 DEF SmallSets
    <3> QED
      BY <2>2, <3>3 DEF IsSum
  <2>6. \A s \in SmallSets(D, n) :
          g[s] = IF s = {} THEN 0 ELSE v[Taken(s)] + g[s \ {Taken(s)}]
    BY <2>3, <2>5
  <2>7. IsSum(g, v, D, n)
    BY <2>4, <2>6 DEF IsSum
  <2> QED
    BY <1>2, <2>7
<1> QED
  BY <1>3, <1>4

(***************************************************************************)
(* So the function Total takes is one, and unfolds as it says.             *)
(***************************************************************************)
LEMMA SumUnfolds ==
  ASSUME NEW D, IsFiniteSet(D), NEW v \in [D -> Int]
  PROVE  \A s \in SUBSET D :
           SumOver(v)[s] = IF s = {} THEN 0
                           ELSE v[Taken(s)] + SumOver(v)[s \ {Taken(s)}]
<1>1. Cardinality(D) \in Nat
  BY FS_CardinalityType
<1>2. PICK g : IsSum(g, v, D, Cardinality(D))
  BY <1>1, SumsExist
<1>3. SmallSets(D, Cardinality(D)) = SUBSET D
  BY FS_Subset DEF SmallSets
<1>4. g = [s \in SUBSET D |-> IF s = {} THEN 0 ELSE v[Taken(s)] + g[s \ {Taken(s)}]]
  BY <1>2, <1>3 DEF IsSum
<1>5. DOMAIN v = D
  OBVIOUS
<1> DEFINE h == SumOver(v)
<1>6. h = [s \in SUBSET D |-> IF s = {} THEN 0 ELSE v[Taken(s)] + h[s \ {Taken(s)}]]
  BY <1>4, <1>5 DEF SumOver
<1> HIDE DEF h
<1>7. \A s \in SUBSET D : h[s] = IF s = {} THEN 0 ELSE v[Taken(s)] + h[s \ {Taken(s)}]
  BY <1>6, Zenon
<1> QED
  BY <1>7 DEF h

(***************************************************************************)
(* Induction over the subsets of a finite set: what holds of a set if it   *)
(* holds of the set without any one element holds of all.                  *)
(***************************************************************************)
LEMMA BySize ==
  ASSUME NEW D, IsFiniteSet(D), NEW G,
         \A s \in SUBSET D : (\A x \in s : s \ {x} \in G) => s \in G
  PROVE  \A s \in SUBSET D : s \in G
<1> DEFINE sizes == {Cardinality(s) : s \in {t \in SUBSET D : t \notin G}}
<1>1. \A s \in SUBSET D : Cardinality(s) \in Nat
  BY FS_Subset, FS_CardinalityType
<1> SUFFICES ASSUME NEW u \in SUBSET D, u \notin G PROVE FALSE
  OBVIOUS
<1>2. sizes \subseteq Nat /\ sizes # {}
  BY <1>1
<1>3. PICK n \in sizes : \A k \in sizes : n <= k
  <2> HIDE DEF sizes
  <2> QED
    BY <1>2, LeastOf
<1>4. PICK s \in SUBSET D : s \notin G /\ n = Cardinality(s)
  OBVIOUS
<1>5. PICK x \in s : s \ {x} \notin G
  BY <1>4
<1>6. Cardinality(s \ {x}) = Cardinality(s) - 1 /\ s \ {x} \in SUBSET D
  BY <1>5, TakenOut
<1>7. Cardinality(s \ {x}) \in sizes
  BY <1>5, <1>6
<1> HIDE DEF sizes
<1>8. Cardinality(s) <= Cardinality(s) - 1
  BY <1>3, <1>4, <1>6, <1>7
<1> QED
  BY <1>1, <1>8

(***************************************************************************)
(* Sums of integers are integers.                                          *)
(***************************************************************************)
LEMMA SumIsInt ==
  ASSUME NEW D, IsFiniteSet(D), NEW v \in [D -> Int]
  PROVE  \A s \in SUBSET D : SumOver(v)[s] \in Int
<1> DEFINE h == SumOver(v)
           G == {s \in SUBSET D : h[s] \in Int}
<1>1. \A s \in SUBSET D :
        h[s] = IF s = {} THEN 0 ELSE v[Taken(s)] + h[s \ {Taken(s)}]
  BY SumUnfolds
<1> HIDE DEF h
<1>2. ASSUME NEW s \in SUBSET D, \A x \in s : s \ {x} \in G
      PROVE  s \in G
  <2>1. CASE s = {}
    <3>1. h[s] = 0
      BY <1>1, <2>1
    <3> QED
      BY <3>1
  <2>2. CASE s # {}
    <3>1. Taken(s) \in s /\ h[s] = v[Taken(s)] + h[s \ {Taken(s)}]
      BY <1>1, <2>2, TakenOut
    <3>2. h[s \ {Taken(s)}] \in Int /\ v[Taken(s)] \in Int
      BY <1>2, <3>1
    <3>3. h[s] \in Int
      BY <3>1, <3>2
    <3> QED
      BY <3>3
  <2> QED
    BY <2>1, <2>2
<1>3. \A s \in SUBSET D : s \in G
  <2> HIDE DEF G
  <2> QED
    BY <1>2, BySize
<1> QED
  BY <1>3 DEF h

(***************************************************************************)
(* The order in which a sum takes its positions does not matter.           *)
(***************************************************************************)
LEMMA SumTakesAny ==
  ASSUME NEW D, IsFiniteSet(D), NEW v \in [D -> Int]
  PROVE  /\ SumOver(v)[{}] = 0
         /\ \A s \in SUBSET D :
              \A y \in s : SumOver(v)[s] = v[y] + SumOver(v)[s \ {y}]
<1> DEFINE h == SumOver(v)
           G == {s \in SUBSET D : \A y \in s : h[s] = v[y] + h[s \ {y}]}
<1>1. \A s \in SUBSET D :
        h[s] = IF s = {} THEN 0 ELSE v[Taken(s)] + h[s \ {Taken(s)}]
  BY SumUnfolds
<1>2. \A s \in SUBSET D : h[s] \in Int
  BY SumIsInt
<1> HIDE DEF h
<1>3. ASSUME NEW s \in SUBSET D, \A x \in s : s \ {x} \in G
      PROVE  s \in G
  <2> SUFFICES ASSUME NEW y \in s PROVE h[s] = v[y] + h[s \ {y}]
    OBVIOUS
  <2>1. PICK x \in s : h[s] = v[x] + h[s \ {x}]
    <3>1. Taken(s) \in s /\ h[s] = v[Taken(s)] + h[s \ {Taken(s)}]
      BY <1>1, TakenOut
    <3> QED
      BY <3>1
  <2>2. CASE y = x
    BY <2>1, <2>2
  <2>3. CASE y # x
    <3> DEFINE r == (s \ {x}) \ {y}
    <3>1. s \ {x} \in G /\ s \ {y} \in G /\ y \in s \ {x} /\ x \in s \ {y}
      BY <1>3, <2>3
    <3>2. h[s \ {x}] = v[y] + h[r]
      BY <3>1
    <3>3. (s \ {y}) \ {x} = r
      OBVIOUS
    <3>4. h[s \ {y}] = v[x] + h[r]
      BY <3>1, <3>3
    <3>5. h[r] \in Int /\ v[x] \in Int /\ v[y] \in Int
      BY <1>2
    <3> HIDE DEF r
    <3> QED
      BY <2>1, <3>2, <3>4, <3>5
  <2> QED
    BY <2>2, <2>3
<1>4. \A s \in SUBSET D : s \in G
  <2> HIDE DEF G
  <2> QED
    BY <1>3, BySize
<1>5. h[{}] = 0
  BY <1>1
<1> QED
  BY <1>4, <1>5 DEF h


(***************************************************************************)
(* Of finitely many values one is not below the others.                    *)
(***************************************************************************)
LEMMA Highest ==
  ASSUME NEW D, IsFiniteSet(D), NEW v \in [D -> Nat]
  PROVE  \A s \in SUBSET D : s # {} => \E x \in s : \A y \in s : v[y] <= v[x]
<1> DEFINE G == {s \in SUBSET D : s # {} => \E x \in s : \A y \in s : v[y] <= v[x]}
<1>1. ASSUME NEW s \in SUBSET D, \A x \in s : s \ {x} \in G
      PROVE  s \in G
  <2> SUFFICES ASSUME s # {} PROVE \E x \in s : \A y \in s : v[y] <= v[x]
    OBVIOUS
  <2>1. PICK z \in s : TRUE
    OBVIOUS
  <2>2. \A y \in s : v[y] \in Nat
    OBVIOUS
  <2>3. CASE s \ {z} = {}
    <3>1. \A y \in s : y = z
      BY <2>3
    <3> QED
      BY <2>1, <2>2, <3>1
  <2>4. CASE s \ {z} # {}
    <3>1. PICK x \in s \ {z} : \A y \in s \ {z} : v[y] <= v[x]
      BY <1>1, <2>4
    <3>2. v[x] \in Nat /\ v[z] \in Nat
      BY <2>2
    <3>3. CASE v[z] <= v[x]
      <4>1. \A y \in s : v[y] <= v[x]
        BY <3>1, <3>3
      <4> QED
        BY <3>1, <4>1
    <3>4. CASE v[x] <= v[z]
      <4>1. \A y \in s : v[y] <= v[z]
        <5> SUFFICES ASSUME NEW y \in s PROVE v[y] <= v[z]
          OBVIOUS
        <5>1. CASE y = z
          BY <3>2, <5>1
        <5>2. CASE y # z
          <6>1. v[y] <= v[x] /\ v[y] \in Nat
            BY <2>2, <3>1, <5>2
          <6> QED
            BY <3>2, <3>4, <6>1
        <5> QED
          BY <5>1, <5>2
      <4> QED
        BY <2>1, <4>1
    <3> QED
      BY <3>2, <3>3, <3>4
  <2> QED
    BY <2>3, <2>4
<1>2. \A s \in SUBSET D : s \in G
  <2> HIDE DEF G
  <2> QED
    BY <1>1, BySize
<1> QED
  BY <1>2

(***************************************************************************)
(* A sum of positive numbers is positive, unless there are none.           *)
(***************************************************************************)
LEMMA SumIsPositive ==
  ASSUME NEW D, IsFiniteSet(D), NEW v \in [D -> Nat \ {0}]
  PROVE  \A s \in SUBSET D : /\ SumOver(v)[s] \in Nat
                             /\ SumOver(v)[s] = 0 <=> s = {}
<1> DEFINE h == SumOver(v)
           G == {s \in SUBSET D : h[s] \in Nat /\ (h[s] = 0 <=> s = {})}
<1>1. \A s \in SUBSET D :
        h[s] = IF s = {} THEN 0 ELSE v[Taken(s)] + h[s \ {Taken(s)}]
  <2>1. v \in [D -> Int]
    OBVIOUS
  <2> QED
    BY <2>1, SumUnfolds
<1> HIDE DEF h
<1>2. ASSUME NEW s \in SUBSET D, \A x \in s : s \ {x} \in G
      PROVE  s \in G
  <2>1. CASE s = {}
    <3>1. h[s] = 0
      BY <1>1, <2>1
    <3> QED
      BY <2>1, <3>1
  <2>2. CASE s # {}
    <3>1. Taken(s) \in s /\ h[s] = v[Taken(s)] + h[s \ {Taken(s)}]
      BY <1>1, <2>2, TakenOut
    <3>2. h[s \ {Taken(s)}] \in Nat /\ v[Taken(s)] \in Nat \ {0}
      BY <1>2, <3>1
    <3>3. h[s] \in Nat /\ h[s] # 0
      BY <3>1, <3>2
    <3> QED
      BY <2>2, <3>3
  <2> QED
    BY <2>1, <2>2
<1>3. \A s \in SUBSET D : s \in G
  <2> HIDE DEF G
  <2> QED
    BY <1>2, BySize
<1> QED
  BY <1>3 DEF h

(***************************************************************************)
(* A total of positive values is zero only if there is none.               *)
(***************************************************************************)
LEMMA PositiveTotal ==
  ASSUME NEW values \in Seq(Nat \ {0})
  PROVE  Total(values) \in Nat /\ (Total(values) = 0 <=> values = << >>)
<1> DEFINE n == Len(values)
<1>1. n \in Nat /\ DOMAIN values = 1..n /\ values \in [1..n -> Nat \ {0}]
  OBVIOUS
<1> HIDE DEF n
<1>2. IsFiniteSet(1..n)
  <2>1. 1 \in Int /\ n \in Int
    BY <1>1
  <2> QED
    BY <2>1, FS_Interval
<1>3. /\ SumOver(values)[1..n] \in Nat
      /\ SumOver(values)[1..n] = 0 <=> 1..n = {}
  BY <1>1, <1>2, SumIsPositive
<1>4. Total(values) = SumOver(values)[1..n]
  <2>1. Total(values) = SumOver(values)[DOMAIN values]
    BY TotalIsSum
  <2> QED
    BY <1>1, <2>1, Zenon
<1>5. 1..n = {} <=> values = << >>
  <2>1. CASE n = 0
    BY <2>1 DEF n
  <2>2. CASE n # 0
    <3>1. 1 \in 1..n /\ values # << >>
      BY <1>1, <2>2 DEF n
    <3> QED
      BY <3>1
  <2> QED
    BY <2>1, <2>2
<1> QED
  BY <1>3, <1>4, <1>5

-----------------------------------------------------------------------------
(* The order statistics, and bags of the members of a sequence.            *)

Lower(values, x) == {i \in DOMAIN values : values[i] < x}

NotAboveIn(values, x) == {i \in DOMAIN values : values[i] <= x}

(***************************************************************************)
(* Of n values one stands at position k of their order: fewer than k are   *)
(* below it, and at least k not above it.                                  *)
(***************************************************************************)
LEMMA OrderStatistic ==
  ASSUME NEW n \in Nat, NEW values \in [1..n -> Nat], NEW k \in 1..n
  PROVE  \E x \in {values[i] : i \in 1..n} :
           Cardinality(Lower(values, x)) < k /\ k <= Cardinality(NotAboveIn(values, x))
<1> DEFINE all == {values[i] : i \in 1..n}
           up(x) == Cardinality(NotAboveIn(values, x))
           low(x) == Cardinality(Lower(values, x))
           good == {x \in all : k <= up(x)}
<1>1. /\ k \in Nat /\ k > 0 /\ DOMAIN values = 1..n /\ all \subseteq Nat
      /\ IsFiniteSet(1..n) /\ Cardinality(1..n) = n
  <2>1. 1 \in Int /\ n \in Int /\ ~(1 > n)
    OBVIOUS
  <2>2. /\ IsFiniteSet(1..n)
        /\ Cardinality(1..n) = IF 1 > n THEN 0 ELSE n - 1 + 1
    BY <2>1, FS_Interval
  <2> QED
    BY <2>1, <2>2
<1>2. \A P \in SUBSET (1..n) : Cardinality(P) \in Nat
  BY <1>1, FS_Subset, FS_CardinalityType
<1>3. \A x \in Nat : /\ Lower(values, x) \in SUBSET (1..n)
                     /\ NotAboveIn(values, x) \in SUBSET (1..n)
                     /\ up(x) \in Nat /\ low(x) \in Nat
  BY <1>1, <1>2 DEF Lower, NotAboveIn
<1>4. good # {}
  <2>1. 1..n # {}
    OBVIOUS
  <2>2. PICK i \in 1..n : \A j \in 1..n : values[j] <= values[i]
    BY <1>1, <2>1, Highest
  <2>3. NotAboveIn(values, values[i]) = 1..n
    BY <1>1, <2>2 DEF NotAboveIn
  <2>4. up(values[i]) = n /\ values[i] \in all
    BY <1>1, <2>3
  <2>5. k <= up(values[i])
    BY <2>4
  <2> QED
    BY <2>4, <2>5
<1>5. PICK x \in good : \A y \in good : x <= y
  <2>1. good \subseteq Nat
    BY <1>1
  <2> HIDE DEF good
  <2> QED
    BY <1>4, <2>1, LeastOf
<1>6. x \in all /\ x \in Nat /\ k <= up(x)
  BY <1>1, <1>5
<1>7. low(x) < k
  <2> SUFFICES ASSUME k <= low(x) PROVE FALSE
    BY <1>1, <1>3, <1>6
  <2>1. Lower(values, x) # {}
    <3>1. low(x) # 0
      BY <1>1, <1>3, <1>6
    <3> QED
      BY <3>1, FS_EmptySet
  <2>2. Lower(values, x) \in SUBSET (1..n)
    BY <1>3, <1>6
  <2>3. PICK i \in Lower(values, x) :
          \A j \in Lower(values, x) : values[j] <= values[i]
    BY <1>1, <2>1, <2>2, Highest
  <2>4. i \in 1..n /\ values[i] < x /\ values[i] \in Nat /\ values[i] \in all
    BY <1>1, <2>3 DEF Lower
  <2>5. NotAboveIn(values, values[i]) = Lower(values, x)
    <3>1. \A j \in 1..n : values[j] <= values[i] => values[j] < x
      BY <1>6, <2>4
    <3>2. \A j \in 1..n : values[j] < x => values[j] <= values[i]
      BY <1>1, <2>3 DEF Lower
    <3> QED
      BY <1>1, <3>1, <3>2 DEF Lower, NotAboveIn
  <2>6. k <= up(values[i])
    BY <2>5
  <2>7. x <= values[i]
    BY <1>5, <2>4, <2>6
  <2> QED
    BY <1>6, <2>4, <2>7
<1> QED
  BY <1>6, <1>7

(***************************************************************************)
(* So each place of the sorted values is filled, by one of the values.     *)
(***************************************************************************)
LEMMA SortedIs ==
  ASSUME NEW S, S \subseteq Nat, NEW values \in Seq(S)
  PROVE  /\ Ascending(values) \in Seq(S)
         /\ Len(Ascending(values)) = Len(values)
         /\ \A k \in 1..Len(values) :
              LET x == Ascending(values)[k]
              IN  /\ x \in ToSet(values)
                  /\ Cardinality(Lower(values, x)) < k
                  /\ k <= Cardinality(NotAboveIn(values, x))
<1> DEFINE n == Len(values)
           A == Ascending(values)
           at(k, x) == /\ Cardinality(Lower(values, x)) < k
                       /\ k <= Cardinality(NotAboveIn(values, x))
<1>1. /\ n \in Nat /\ DOMAIN values = 1..n /\ values \in [1..n -> Nat]
      /\ \A i \in 1..n : values[i] \in S
  <2>1. n \in Nat /\ DOMAIN values = 1..n /\ values \in [1..n -> S]
    OBVIOUS
  <2>2. values \in [1..n -> Nat]
    BY <2>1
  <2> QED
    BY <2>1, <2>2
<1>2. ToSet(values) = {values[i] : i \in 1..n}
  BY <1>1 DEF ToSet
<1>3. A = [k \in 1..n |-> CHOOSE x \in ToSet(values) : at(k, x)]
  BY <1>1 DEF Ascending, Lower, NotAboveIn
<1> HIDE DEF n, A
<1>4. ASSUME NEW k \in 1..n
      PROVE  A[k] \in ToSet(values) /\ at(k, A[k])
  <2>1. A[k] = CHOOSE x \in ToSet(values) : at(k, x)
    BY <1>3
  <2>2. \E x \in ToSet(values) : at(k, x)
    BY <1>1, <1>2, OrderStatistic
  <2> HIDE DEF at
  <2> QED
    BY <2>1, <2>2
<1>5. \A k \in 1..n : A[k] \in S
  BY <1>1, <1>2, <1>4
<1>6. A \in Seq(S) /\ Len(A) = n
  BY <1>1, <1>3, <1>5
<1> QED
  BY <1>4, <1>6 DEF A, n

(***************************************************************************)
(* A bag made of a sequence has as many copies as the sequence is long.    *)
(***************************************************************************)
LEMMA BagIsSum ==
  ASSUME NEW B
  PROVE  BagCardinality(B) = SumOver(B)[DOMAIN B]
BY DEF BagCardinality, SumOver, Taken

(***************************************************************************)
(* The bag of a sequence has as many members as the sequence.              *)
(***************************************************************************)
LEMMA BagAsLong ==
  ASSUME NEW S, NEW q \in Seq(S)
  PROVE  BagCardinality(ToBag(q)) = Len(q)
<1> DEFINE n == Len(q)
           D == {q[j] : j \in 1..n}
           v == ToBag(q)
           at(s) == {j \in 1..n : q[j] \in s}
           h == SumOver(v)
           G == {s \in SUBSET D : h[s] = Cardinality(at(s))}
<1>1. n \in Nat
  OBVIOUS
<1> HIDE DEF n
<1>2. IsFiniteSet(1..n) /\ Cardinality(1..n) = n
  <2>1. 1 \in Int /\ n \in Int
    BY <1>1
  <2>2. /\ IsFiniteSet(1..n)
        /\ Cardinality(1..n) = IF 1 > n THEN 0 ELSE n - 1 + 1
    BY <2>1, FS_Interval
  <2> QED
    BY <1>1, <2>1, <2>2
<1>3. IsFiniteSet(D)
  <2>1. q \in [1..n -> D]
    BY DEF n
  <2>2. \A y \in D : \E j \in 1..n : q[j] = y
    OBVIOUS
  <2> HIDE DEF D
  <2>3. q \in Surjection(1..n, D)
    BY <2>1, <2>2, Fun_IsSurj
  <2> QED
    BY <1>2, <2>3, FS_Surjection
<1>4. \A s : IsFiniteSet(at(s)) /\ Cardinality(at(s)) \in Nat
  <2> SUFFICES ASSUME NEW s PROVE IsFiniteSet(at(s)) /\ Cardinality(at(s)) \in Nat
    OBVIOUS
  <2>1. at(s) \in SUBSET (1..n)
    OBVIOUS
  <2> HIDE DEF at
  <2> QED
    BY <1>2, <2>1, FS_Subset, FS_CardinalityType
<1>5. v = [x \in D |-> Cardinality(at({x}))]
  <2>1. v = [x \in D |-> Cardinality(Positions(q, x))]
    BY BagOf DEF n
  <2>2. \A x : Positions(q, x) = at({x})
    BY DEF Positions, n
  <2> HIDE DEF v, D, at
  <2> QED
    BY <2>1, <2>2
<1> HIDE DEF v
<1>6. v \in [D -> Int] /\ DOMAIN v = D
  <2> HIDE DEF D, at
  <2>1. \A x \in D : Cardinality(at({x})) \in Int
    BY <1>4
  <2> QED
    BY <1>5, <2>1
<1> HIDE DEF D
<1>7. \A s \in SUBSET D :
        h[s] = IF s = {} THEN 0 ELSE v[Taken(s)] + h[s \ {Taken(s)}]
  BY <1>3, <1>6, SumUnfolds
<1> HIDE DEF h
<1>8. ASSUME NEW s \in SUBSET D, \A x \in s : s \ {x} \in G
      PROVE  s \in G
  <2>1. CASE s = {}
    <3>1. at(s) = {} /\ h[s] = 0
      BY <1>7, <2>1
    <3> QED
      BY <3>1, FS_EmptySet
  <2>2. CASE s # {}
    <3> DEFINE y == Taken(s)
    <3>1. y \in s /\ y \in D /\ h[s] = v[y] + h[s \ {y}]
      BY <1>3, <1>7, <2>2, TakenOut
    <3> HIDE DEF y
    <3>2. h[s \ {y}] = Cardinality(at(s \ {y}))
      BY <1>8, <3>1
    <3>3. v[y] = Cardinality(at({y}))
      BY <1>5, <3>1 DEF D
    <3>4. at(s) = at({y}) \cup at(s \ {y}) /\ at({y}) \cap at(s \ {y}) = {}
      BY <3>1
    <3> HIDE DEF at
    <3>5. Cardinality(at({y}) \cup at(s \ {y}))
            = Cardinality(at({y})) + Cardinality(at(s \ {y})) - Cardinality({})
      BY <1>4, <3>4, FS_Union
    <3>6. h[s] = Cardinality(at(s))
      <4>1. Cardinality({}) = 0
        BY FS_EmptySet
      <4>2. /\ Cardinality(at({y})) \in Nat
            /\ Cardinality(at(s \ {y})) \in Nat
        BY <1>4
      <4>3. Cardinality(at(s)) = Cardinality(at({y}) \cup at(s \ {y}))
        BY <3>4, Zenon
      <4>4. Cardinality(at(s)) = Cardinality(at({y})) + Cardinality(at(s \ {y}))
        BY <3>5, <4>1, <4>2, <4>3
      <4> QED
        BY <3>1, <3>2, <3>3, <4>4
    <3> QED
      BY <3>6
  <2> QED
    BY <2>1, <2>2
<1>9. \A s \in SUBSET D : s \in G
  <2> HIDE DEF G
  <2> QED
    BY <1>3, <1>8, BySize
<1>10. h[D] = Cardinality(at(D))
  BY <1>9
<1>11. at(D) = 1..n
  BY DEF D
<1>12. BagCardinality(v) = h[D]
  BY <1>6, BagIsSum DEF h
<1> QED
  BY <1>2, <1>10, <1>11, <1>12 DEF v, n

-----------------------------------------------------------------------------
(* What trimming leaves.                                                   *)

(***************************************************************************)
(* The trimming drops at least the highest value and at most half of them, *)
(* as the default of 0.95 does.                                            *)
(***************************************************************************)
TrimsOne == KeepNum < KeepDen /\ KeepDen <= 2 * KeepNum

(***************************************************************************)
(* What a division leaves.                                                 *)
(***************************************************************************)
LEMMA Quotient ==
  ASSUME NEW x \in Nat, NEW d \in Nat \ {0}
  PROVE  x \div d \in Nat /\ d * (x \div d) <= x /\ x < d * (x \div d) + d
OBVIOUS

(***************************************************************************)
(* None of a single value is kept, and one at least of two or more.        *)
(***************************************************************************)
LEMMA KeptCount ==
  ASSUME TrimsOne, NEW n \in Nat
  PROVE  LET k == (n * KeepNum) \div KeepDen
         IN  k \in 0..n /\ (k > 0 <=> n >= 2)
<1> DEFINE x == n * KeepNum
           d == KeepDen
           k == x \div d
<1>1. /\ KeepNum \in Nat /\ d \in Nat \ {0} /\ x \in Nat
      /\ KeepNum < d /\ d <= 2 * KeepNum
  BY KeepAssumption DEF TrimsOne
<1>2. k \in Nat /\ d * k <= x /\ x < d * k + d
  <2> HIDE DEF x, d
  <2> QED
    BY <1>1, Quotient
<1> HIDE DEF k
<1>3. k <= n
  <2> SUFFICES ASSUME n + 1 <= k PROVE FALSE
    BY <1>2
  <2> HIDE DEF d
  <2>1. d * (n + 1) <= d * k
    <3> DEFINE e == k - (n + 1)
    <3>1. e \in Nat
      BY <1>2
    <3> HIDE DEF e
    <3>2. d * e \in Nat
      BY <1>1, <3>1
    <3>3. d * k = d * (n + 1) + d * e
      BY <1>1, <1>2 DEF e
    <3>4. d * k \in Nat /\ d * (n + 1) \in Nat
      BY <1>1, <1>2
    <3> QED
      BY <3>2, <3>3, <3>4
  <2>2. n * KeepNum <= n * d
    <3> DEFINE e == d - KeepNum
    <3>1. e \in Nat
      BY <1>1
    <3> HIDE DEF e
    <3>2. n * e \in Nat
      BY <3>1
    <3>3. n * d = n * KeepNum + n * e
      BY <1>1 DEF e
    <3>4. n * d \in Nat /\ n * KeepNum \in Nat
      BY <1>1
    <3> QED
      BY <3>2, <3>3, <3>4
  <2>3. d * (n + 1) = n * d + d /\ d * k \in Nat /\ n * d \in Nat
    BY <1>1, <1>2
  <2> HIDE DEF x
  <2>4. x <= n * d
    BY <2>2 DEF x
  <2> QED
    BY <1>1, <1>2, <2>1, <2>3, <2>4
<1>4. k > 0 <=> n >= 2
  <2>1. CASE n = 0
    <3>1. x = 0
      BY <2>1, <1>1
    <3> HIDE DEF x, d
    <3>2. k = 0
      <4> SUFFICES ASSUME k # 0 PROVE FALSE
        OBVIOUS
      <4>1. d * k \in Nat \ {0}
        BY <1>1, <1>2
      <4> QED
        BY <1>2, <3>1, <4>1
    <3> QED
      BY <2>1, <3>2
  <2>2. CASE n = 1
    <3>1. x < d
      BY <2>2, <1>1
    <3> HIDE DEF x, d
    <3>2. k = 0
      <4> SUFFICES ASSUME k # 0 PROVE FALSE
        OBVIOUS
      <4>1. k - 1 \in Nat /\ d * k = d + d * (k - 1)
        BY <1>1, <1>2
      <4>2. d * (k - 1) \in Nat
        BY <1>1, <4>1
      <4> QED
        BY <1>1, <1>2, <3>1, <4>1, <4>2
    <3> QED
      BY <2>2, <3>2
  <2>3. CASE n >= 2
    <3>1. d <= x
      <4> DEFINE e == n - 2
      <4>1. e \in Nat
        BY <2>3
      <4> HIDE DEF e
      <4>2. e * KeepNum \in Nat
        BY <1>1, <4>1
      <4>3. x = 2 * KeepNum + e * KeepNum
        BY <1>1 DEF e
      <4> HIDE DEF x, d
      <4> QED
        BY <1>1, <4>2, <4>3
    <3> HIDE DEF x, d
    <3>2. k # 0
      <4> SUFFICES ASSUME k = 0 PROVE FALSE
        OBVIOUS
      <4>1. d * k = 0
        BY <1>1
      <4> QED
        BY <1>1, <1>2, <3>1, <4>1
    <3> QED
      BY <1>2, <2>3, <3>2
  <2> QED
    BY <2>1, <2>2, <2>3
<1> QED
  BY <1>2, <1>3, <1>4 DEF k

(***************************************************************************)
(* The trimmed mean of two or more positive values is positive, and that   *)
(* of fewer is none.                                                       *)
(***************************************************************************)
LEMMA MeanOfTwo ==
  ASSUME TrimsOne, NEW values \in Seq(Nat \ {0})
  PROVE  LET mean == Average(Kept(values))
         IN  /\ mean.sum \in Nat /\ mean.of \in Nat
             /\ mean.sum > 0 <=> Len(values) >= 2
             /\ mean.of > 0 <=> Len(values) >= 2
<1> DEFINE n == Len(values)
           k == (n * KeepNum) \div KeepDen
           low == SubSeq(Ascending(values), 1, k)
<1>1. n \in Nat /\ k \in 0..n /\ (k > 0 <=> n >= 2)
  <2>1. n \in Nat
    OBVIOUS
  <2> HIDE DEF n
  <2> QED
    BY <2>1, KeptCount
<1>2. Ascending(values) \in Seq(Nat \ {0}) /\ Len(Ascending(values)) = n
  BY SortedIs
<1>3. Kept(values) = low
  BY DEF Kept
<1> HIDE DEF n, k
<1>4. low \in Seq(Nat \ {0}) /\ Len(low) = k
  BY <1>1, <1>2
<1> HIDE DEF low
<1>5. Total(low) \in Nat /\ (Total(low) = 0 <=> low = << >>)
  BY <1>4, PositiveTotal
<1>6. low = << >> <=> k = 0
  BY <1>1, <1>4
<1>7. Average(low).sum = Total(low) /\ Average(low).of = k
  BY <1>4 DEF Average
<1>8. /\ Average(low).sum \in Nat /\ Average(low).of \in Nat
      /\ Average(low).sum > 0 <=> n >= 2
      /\ Average(low).of > 0 <=> n >= 2
  BY <1>1, <1>5, <1>6, <1>7
<1> QED
  BY <1>3, <1>8 DEF n

-----------------------------------------------------------------------------
(* Whether a window yields a responsiveness.                               *)

(***************************************************************************)
(* The latencies of a phase are positive numbers.                          *)
(***************************************************************************)
LEMMA LatencyRange ==
  /\ Max(Latency) \in Latency /\ Min(Latency) \in Latency
  /\ Latency \subseteq Nat \ {0}
<1>1. Latency \subseteq Nat \ {0} /\ Latency # {} /\ IsFiniteSet(Latency)
  BY MeasurementsAssumption
<1>2. Max(Latency) \in Latency
  <2> DEFINE v == [x \in Latency |-> x]
  <2>1. v \in [Latency -> Nat] /\ \A x \in Latency : v[x] = x
    BY <1>1
  <2> HIDE DEF v
  <2>2. PICK x \in Latency : \A y \in Latency : v[y] <= v[x]
    BY <1>1, <2>1, Highest
  <2>3. \A y \in Latency : x >= y
    BY <1>1, <2>1, <2>2
  <2> QED
    BY <2>3 DEF Max
<1>3. Min(Latency) \in Latency
  <2>1. PICK x \in Latency : \A y \in Latency : x <= y
    <3>1. Latency \subseteq Nat
      BY <1>1
    <3> QED
      BY <1>1, <3>1, LeastOf
  <2> QED
    BY <2>1 DEF Min
<1> QED
  BY <1>1, <1>2, <1>3

(***************************************************************************)
(* A window is a series of samples of the same kind.                       *)
(***************************************************************************)
LEMMA WindowLength ==
  ASSUME NEW S, Timed(S), NEW series \in Seq(S), Sorted(series),
         NEW from \in Int, NEW to \in Int, from <= to
  PROVE  /\ Window(series, from, to) \in Seq(S)
         /\ Len(Window(series, from, to)) = UpTo(series, to) - Before(series, from)
<1> DEFINE a == Before(series, from)
           b == UpTo(series, to)
           slice == SubSeq(series, a + 1, b)
<1>1. /\ a <= b /\ Window(series, from, to) = Reverse(slice)
      /\ a \in 0..Len(series) /\ b \in 0..Len(series) /\ Len(series) \in Nat
  <2>1. a <= b /\ Window(series, from, to) = Reverse(slice)
    BY WindowIsSlice
  <2>2. a \in 0..Len(series) /\ b \in 0..Len(series)
    BY Partitioned
  <2> QED
    BY <2>1, <2>2
<1> HIDE DEF a, b
<1>2. slice \in Seq(S) /\ Len(slice) = b - a
  BY <1>1
<1> HIDE DEF slice
<1>3. Reverse(slice) \in Seq(S) /\ Len(Reverse(slice)) = b - a
  <2>1. b - a \in Nat
    BY <1>1
  <2>2. Reverse(slice) = [i \in 1..(b - a) |-> slice[((b - a) - i) + 1]]
    BY <1>2 DEF Reverse
  <2>3. \A i \in 1..(b - a) : slice[((b - a) - i) + 1] \in S
    BY <1>2, <2>1
  <2> HIDE DEF a, b
  <2> QED
    BY <2>1, <2>2, <2>3
<1> QED
  BY <1>1, <1>3 DEF a, b

(***************************************************************************)
(* The values of a series of latencies.                                    *)
(***************************************************************************)
LEMMA ValuesOf ==
  ASSUME NEW q \in Seq(SelfSample)
  PROVE  Values(q) \in Seq(Nat \ {0}) /\ Len(Values(q)) = Len(q)
<1>1. \A i \in 1..Len(q) : q[i].value \in Nat \ {0}
  <2> SUFFICES ASSUME NEW i \in 1..Len(q) PROVE q[i].value \in Nat \ {0}
    OBVIOUS
  <2>1. q[i] \in SelfSample
    OBVIOUS
  <2>2. q[i].value \in Latency
    BY <2>1 DEF SelfSample
  <2> QED
    BY <2>2, LatencyRange
<1>2. Values(q) = [i \in 1..Len(q) |-> q[i].value] /\ Len(q) \in Nat
  BY DEF Values
<1> QED
  BY <1>1, <1>2

(***************************************************************************)
(* The series of a phase has the windows of the probes.                    *)
(***************************************************************************)
LEMMA PhaseWindow ==
  ASSUME NEW p \in Phase, NEW probes \in Seq(ForeignSample), Sorted(probes),
         NEW from \in Int, NEW to \in Int, from <= to
  PROVE  LET of == OfPhase(probes, p)
         IN  /\ of \in Seq(SelfSample) /\ Sorted(of)
             /\ Len(Window(of, from, to)) = Len(Window(probes, from, to))
<1> DEFINE n == Len(probes)
           of == OfPhase(probes, p)
<1>1. n \in Nat /\ DOMAIN probes = 1..n /\ \A i \in 1..n : probes[i] \in ForeignSample
  OBVIOUS
<1>2. of = [i \in 1..n |-> Sample(probes[i].at, probes[i].value[p])]
  BY <1>1 DEF OfPhase
<1> HIDE DEF n, of
<1>3. ASSUME NEW i \in 1..n
      PROVE  of[i] \in SelfSample /\ of[i].at = probes[i].at
  <2>1. probes[i].at \in Instant /\ probes[i].value \in Handshake
    BY <1>1 DEF ForeignSample
  <2>2. probes[i].value[p] \in Latency
    BY <2>1, LatencyRange DEF Handshake
  <2>3. of[i] = Sample(probes[i].at, probes[i].value[p])
    BY <1>2
  <2> QED
    BY <2>1, <2>2, <2>3 DEF Sample, SelfSample
<1>4. of \in Seq(SelfSample) /\ Len(of) = n /\ DOMAIN of = 1..n
  BY <1>1, <1>2, <1>3
<1>5. Sorted(of)
  BY <1>3, <1>4 DEF Sorted, n
<1>6. Before(of, from) = Before(probes, from) /\ UpTo(of, to) = UpTo(probes, to)
  <2>1. {i \in DOMAIN of : of[i].at < from} = {i \in DOMAIN probes : probes[i].at < from}
    BY <1>1, <1>3, <1>4
  <2>2. {i \in DOMAIN of : of[i].at <= to} = {i \in DOMAIN probes : probes[i].at <= to}
    BY <1>1, <1>3, <1>4
  <2> QED
    BY <2>1, <2>2, Zenon DEF Before, UpTo
<1>7. Len(Window(of, from, to)) = UpTo(of, to) - Before(of, from)
  BY <1>4, <1>5, WindowLength, SamplesAreTimed
<1>8. Len(Window(probes, from, to)) = UpTo(probes, to) - Before(probes, from)
  BY WindowLength, SamplesAreTimed
<1> QED
  BY <1>4, <1>5, <1>6, <1>7, <1>8 DEF of

(***************************************************************************)
(* A foreign round trip has a positive mean exactly if its window has two  *)
(* probes, of which the trimming leaves one in each phase.                 *)
(***************************************************************************)
LEMMA TripIsPositive ==
  ASSUME TrimsOne, NEW probes \in Seq(ForeignSample), Sorted(probes),
         NEW from \in Int, NEW to \in Int, from <= to
  PROVE  LET f == ForeignTrip(probes, from, to)
         IN  /\ f.sum \in Nat /\ f.of \in Nat
             /\ Positive(f) <=> Len(Window(probes, from, to)) >= 2
<1> DEFINE mean(p) == TrimmedMean(OfPhase(probes, p), from, to)
           w == Len(Window(probes, from, to))
           f == ForeignTrip(probes, from, to)
<1>1. ASSUME NEW p \in Phase
      PROVE  /\ mean(p).sum \in Nat /\ mean(p).of \in Nat
             /\ mean(p).sum > 0 <=> w >= 2
             /\ mean(p).of > 0 <=> w >= 2
  <2> DEFINE q == Window(OfPhase(probes, p), from, to)
  <2>1. q \in Seq(SelfSample) /\ Len(q) = w
    <3>1. /\ OfPhase(probes, p) \in Seq(SelfSample) /\ Sorted(OfPhase(probes, p))
          /\ Len(q) = w
      BY PhaseWindow
    <3> QED
      BY <3>1, WindowLength, SamplesAreTimed
  <2>2. mean(p) = Average(Kept(Values(q)))
    BY DEF TrimmedMean
  <2> HIDE DEF q, w
  <2>3. Values(q) \in Seq(Nat \ {0}) /\ Len(Values(q)) = w
    BY <2>1, ValuesOf
  <2> QED
    BY <2>2, <2>3, MeanOfTwo
<1>2. /\ f.sum = mean("tcp").sum + mean("tls").sum + mean("http").sum
      /\ f.of = 3 * mean("tcp").of
  BY DEF ForeignTrip, Phase
<1>3. "tcp" \in Phase /\ "tls" \in Phase /\ "http" \in Phase
  BY DEF Phase
<1> HIDE DEF mean, w, f
<1>4. /\ mean("tcp").sum \in Nat /\ mean("tls").sum \in Nat
      /\ mean("http").sum \in Nat /\ mean("tcp").of \in Nat
      /\ mean("tcp").sum > 0 <=> w >= 2
      /\ mean("tcp").of > 0 <=> w >= 2
      /\ mean("tls").sum > 0 <=> w >= 2
      /\ mean("http").sum > 0 <=> w >= 2
  BY <1>1, <1>3
<1>5. /\ f.sum \in Nat /\ f.of \in Nat
      /\ f.of > 0 <=> w >= 2
      /\ w >= 2 => f.sum > 0
  BY <1>2, <1>4
<1> QED
  BY <1>5 DEF Positive, f, w

(***************************************************************************)
(* The mean of the loaded connections is positive exactly then.            *)
(***************************************************************************)
LEMMA LoadedIsPositive ==
  ASSUME TrimsOne, NEW probes \in Seq(SelfSample), Sorted(probes),
         NEW from \in Int, NEW to \in Int, from <= to
  PROVE  LET l == TrimmedMean(probes, from, to)
         IN  /\ l.sum \in Nat /\ l.of \in Nat
             /\ Positive(l) <=> Len(Window(probes, from, to)) >= 2
<1> DEFINE q == Window(probes, from, to)
           l == TrimmedMean(probes, from, to)
<1>1. q \in Seq(SelfSample)
  BY WindowLength, SamplesAreTimed
<1>2. l = Average(Kept(Values(q)))
  BY DEF TrimmedMean
<1> HIDE DEF q, l
<1>3. Values(q) \in Seq(Nat \ {0}) /\ Len(Values(q)) = Len(q)
  BY <1>1, ValuesOf
<1>4. /\ l.sum \in Nat /\ l.of \in Nat
      /\ l.sum > 0 <=> Len(q) >= 2
      /\ l.of > 0 <=> Len(q) >= 2
  BY <1>2, <1>3, MeanOfTwo
<1> QED
  BY <1>4 DEF Positive, q, l

(***************************************************************************)
(* For any number of probes that end in any order, any latencies and any   *)
(* trimming that drops at least the highest and at most half: a window     *)
(* yields a responsiveness exactly if two probes of either kind started in *)
(* it, and then one that is a number (compute_responsiveness).             *)
(***************************************************************************)
THEOREM TwoProbesOfEither == TrimsOne => (Spec => []RpmNeedsBothKinds)
<1> SUFFICES ASSUME TrimsOne PROVE Spec => []RpmNeedsBothKinds
  OBVIOUS
<1>1. ASSUME IInv, WindowIsExact PROVE RpmNeedsBothKinds
  <2> SUFFICES ASSUME NEW from \in Instant, NEW to \in from..MaxTime
               PROVE  LET rpm == Rpm(foreign, loaded, from, to)
                      IN  /\ rpm # None <=>
                               /\ BagCardinality(StartedIn(taken.foreign, from, to)) >= 2
                               /\ BagCardinality(StartedIn(taken.loaded, from, to)) >= 2
                          /\ rpm # None => rpm.of > 0
    BY DEF RpmNeedsBothKinds
  <2> DEFINE f == ForeignTrip(foreign, from, to)
             l == TrimmedMean(loaded, from, to)
             wf == Window(foreign, from, to)
             wl == Window(loaded, from, to)
             rpm == Rpm(foreign, loaded, from, to)
  <2>1. from \in Int /\ to \in Int /\ from <= to
    BY MeasurementsAssumption DEF Instant
  <2>2. /\ foreign \in Seq(ForeignSample) /\ Sorted(foreign)
        /\ loaded \in Seq(SelfSample) /\ Sorted(loaded)
    BY <1>1 DEF IInv, ProbesKept
  <2>3. wf \in Seq(ForeignSample) /\ wl \in Seq(SelfSample)
    BY <2>1, <2>2, WindowLength, SamplesAreTimed
  <2>4. /\ ToBag(wf) = StartedIn(taken.foreign, from, to)
        /\ ToBag(wl) = StartedIn(taken.loaded, from, to)
    BY <1>1 DEF WindowIsExact
  <2>5. f.sum \in Nat /\ f.of \in Nat /\ (Positive(f) <=> Len(wf) >= 2)
    BY <2>1, <2>2, TripIsPositive
  <2>6. l.sum \in Nat /\ l.of \in Nat /\ (Positive(l) <=> Len(wl) >= 2)
    BY <2>1, <2>2, LoadedIsPositive
  <2>7. rpm = IF Positive(f) /\ Positive(l) THEN Mid(RateOf(f), RateOf(l)) ELSE None
    BY DEF Rpm
  <2> HIDE DEF f, l, wf, wl, rpm
  <2>8. /\ BagCardinality(StartedIn(taken.foreign, from, to)) = Len(wf)
        /\ BagCardinality(StartedIn(taken.loaded, from, to)) = Len(wl)
    BY <2>3, <2>4, BagAsLong
  <2>9. ASSUME Positive(f), Positive(l)
        PROVE  rpm.of > 0 /\ rpm # None
    <3>1. f.sum \in Nat \ {0} /\ l.sum \in Nat \ {0}
      BY <2>5, <2>6, <2>9 DEF Positive
    <3>2. rpm.of = 2 * f.sum * l.sum
      BY <2>7, <2>9 DEF Mid, RateOf
    <3>3. rpm.of > 0
      BY <3>1, <3>2
    <3> QED
      BY <3>3 DEF None
  <2>10. ~(Positive(f) /\ Positive(l)) => rpm = None
    BY <2>7
  <2> QED
    BY <2>5, <2>6, <2>8, <2>9, <2>10 DEF rpm
<1> QED
  BY <1>1, InvHolds, WindowsHoldWhatStarted, PTL

-----------------------------------------------------------------------------
(* A series without one of its samples.                                    *)

(***************************************************************************)
(* One sequence is the other without position m.                           *)
(***************************************************************************)
Without(less, more, m) ==
  /\ Len(more) = Len(less) + 1 /\ m \in 1..Len(more)
  /\ \A j \in 1..Len(less) : less[j] = IF j < m THEN more[j] ELSE more[j + 1]

(***************************************************************************)
(* RemoveAt leaves the sequence without that position.                     *)
(***************************************************************************)
LEMMA Removed ==
  ASSUME NEW S, NEW q \in Seq(S), NEW i \in 1..Len(q)
  PROVE  RemoveAt(q, i) \in Seq(S) /\ Without(RemoveAt(q, i), q, i)
<1> DEFINE low == SubSeq(q, 1, i - 1)
           high == SubSeq(q, i + 1, Len(q))
<1>1. Len(q) \in Nat /\ \A j \in 1..Len(q) : q[j] \in S
  OBVIOUS
<1>2. /\ low \in Seq(S) /\ Len(low) = i - 1
      /\ \A j \in 1..i - 1 : low[j] = q[j]
  <2>1. \A j \in 1..i - 1 : q[j] \in S
    BY <1>1
  <2>2. /\ low \in Seq(S)
        /\ Len(low) = IF 1 <= i - 1 THEN i - 1 - 1 + 1 ELSE 0
        /\ \A j \in 1..i - 1 - 1 + 1 : low[j] = q[1 + j - 1]
    BY <1>1, <2>1, SubSeqProperties
  <2> HIDE DEF low
  <2> QED
    BY <2>2
<1>3. /\ high \in Seq(S) /\ Len(high) = Len(q) - i
      /\ \A j \in 1..Len(q) - i : high[j] = q[i + j]
  <2>1. \A j \in i + 1..Len(q) : q[j] \in S
    BY <1>1
  <2>2. /\ high \in Seq(S)
        /\ Len(high) = IF i + 1 <= Len(q) THEN Len(q) - (i + 1) + 1 ELSE 0
        /\ \A j \in 1..Len(q) - (i + 1) + 1 : high[j] = q[(i + 1) + j - 1]
    BY <1>1, <2>1, SubSeqProperties
  <2> HIDE DEF high
  <2> QED
    BY <1>1, <2>2
<1>4. RemoveAt(q, i) = low \o high
  BY DEF RemoveAt
<1> HIDE DEF low, high
<1>5. /\ low \o high \in Seq(S) /\ Len(low \o high) = Len(q) - 1
      /\ \A j \in 1..Len(q) - 1 :
           (low \o high)[j] = IF j <= i - 1 THEN low[j] ELSE high[j - (i - 1)]
  <2>1. /\ low \o high \in Seq(S)
        /\ Len(low \o high) = Len(low) + Len(high)
        /\ \A j \in 1..Len(low) + Len(high) :
             (low \o high)[j] = IF j <= Len(low) THEN low[j]
                                ELSE high[j - Len(low)]
    BY <1>2, <1>3, ConcatProperties
  <2>2. Len(low) + Len(high) = Len(q) - 1
    BY <1>1, <1>2, <1>3
  <2> QED
    BY <1>2, <2>1, <2>2
<1> DEFINE r == low \o high
<1> HIDE DEF r
<1>6. \A j \in 1..Len(q) - 1 : r[j] = IF j < i THEN q[j] ELSE q[j + 1]
  <2> SUFFICES ASSUME NEW j \in 1..Len(q) - 1
               PROVE  r[j] = IF j < i THEN q[j] ELSE q[j + 1]
    OBVIOUS
  <2>1. CASE j < i
    BY <1>1, <1>2, <1>5, <2>1 DEF r
  <2>2. CASE ~(j < i)
    <3>1. r[j] = high[j - (i - 1)]
      BY <1>1, <1>5, <2>2 DEF r
    <3>2. j - (i - 1) \in 1..Len(q) - i /\ i + (j - (i - 1)) = j + 1
      BY <1>1, <2>2
    <3> QED
      BY <1>3, <2>2, <3>1, <3>2
  <2> QED
    BY <2>1, <2>2
<1>7. r \in Seq(S) /\ Len(r) = Len(q) - 1
  BY <1>5 DEF r
<1>8. Without(r, q, i)
  BY <1>1, <1>6, <1>7 DEF Without
<1> QED
  BY <1>4, <1>7, <1>8 DEF r

(***************************************************************************)
(* The samples of a window, the newest first.                              *)
(***************************************************************************)
LEMMA WindowElements ==
  ASSUME NEW S, Timed(S), NEW series \in Seq(S), Sorted(series),
         NEW from \in Int, NEW to \in Int, from <= to
  PROVE  LET w == Window(series, from, to)
             a == Before(series, from)
             b == UpTo(series, to)
         IN  /\ Len(w) = b - a
             /\ \A j \in 1..(b - a) : w[j] = series[(b - j) + 1]
<1> DEFINE a == Before(series, from)
           b == UpTo(series, to)
           slice == SubSeq(series, a + 1, b)
<1>1. /\ a <= b /\ Window(series, from, to) = Reverse(slice)
      /\ a \in 0..Len(series) /\ b \in 0..Len(series) /\ Len(series) \in Nat
  <2>1. a <= b /\ Window(series, from, to) = Reverse(slice)
    BY WindowIsSlice
  <2>2. a \in 0..Len(series) /\ b \in 0..Len(series)
    BY Partitioned
  <2> QED
    BY <2>1, <2>2
<1> HIDE DEF a, b
<1>2. /\ slice \in Seq(S) /\ Len(slice) = b - a
      /\ \A j \in 1..(b - a) : slice[j] = series[a + j]
  BY <1>1
<1> HIDE DEF slice
<1>3. Reverse(slice) = [j \in 1..(b - a) |-> slice[((b - a) - j) + 1]]
  BY <1>2 DEF Reverse
<1>4. /\ Len(Reverse(slice)) = b - a
      /\ \A j \in 1..(b - a) : Reverse(slice)[j] = series[(b - j) + 1]
  <2>1. b - a \in Nat
    BY <1>1
  <2>2. Len(Reverse(slice)) = b - a
    <3>1. \A j \in 1..(b - a) : slice[((b - a) - j) + 1] \in S
      BY <1>2, <2>1
    <3> QED
      BY <1>3, <2>1, <3>1
  <2>3. ASSUME NEW j \in 1..(b - a)
        PROVE  Reverse(slice)[j] = series[(b - j) + 1]
    <3>1. /\ ((b - a) - j) + 1 \in 1..(b - a)
          /\ a + (((b - a) - j) + 1) = (b - j) + 1
      BY <1>1
    <3> QED
      BY <1>2, <1>3, <3>1
  <2> QED
    BY <2>2, <2>3
<1> QED
  BY <1>1, <1>4 DEF a, b

(***************************************************************************)
(* The window of a series without one of its samples is the window without *)
(* that sample.                                                            *)
(***************************************************************************)
LEMMA WindowRemoved ==
  ASSUME NEW S, Timed(S), NEW more \in Seq(S), Sorted(more),
         NEW less \in Seq(S), NEW i \in 1..Len(more), Without(less, more, i),
         NEW from \in Int, NEW to \in Int, from <= to, more[i].at \in from..to
  PROVE  \E m \in 1..Len(Window(more, from, to)) :
           /\ Sorted(less)
           /\ Without(Window(less, from, to), Window(more, from, to), m)
           /\ Window(more, from, to)[m] = more[i]
<1> DEFINE a == Before(more, from)
           b == UpTo(more, to)
           n == Len(less)
<1>1. /\ n \in Nat /\ Len(more) = n + 1
      /\ \A j \in 1..n : less[j] = IF j < i THEN more[j] ELSE more[j + 1]
      /\ \A j \in 1..n + 1 : more[j] \in S /\ more[j].at \in Int
      /\ \A j \in 1..n : less[j] \in S /\ less[j].at \in Int
  BY DEF Without, Timed
<1>2. /\ a \in 0..n + 1 /\ b \in 0..n + 1
      /\ \A j \in 1..n + 1 : /\ j <= a <=> more[j].at < from
                             /\ j <= b <=> more[j].at <= to
  BY <1>1, Partitioned
<1> HIDE DEF a, b, n
<1>3. i \in 1..n + 1 /\ a < i /\ i <= b
  <2>1. i \in 1..n + 1
    BY <1>1
  <2>2. ~(i <= a) /\ i <= b
    BY <1>1, <1>2, <2>1
  <2> QED
    BY <1>2, <2>1, <2>2
<1>4. Sorted(less)
  <2> SUFFICES ASSUME NEW j \in 1..n, NEW k \in 1..n, j < k
               PROVE  less[j].at <= less[k].at
    BY DEF Sorted, n
  <2>1. PICK jj \in 1..n + 1 : less[j] = more[jj] /\ jj = IF j < i THEN j ELSE j + 1
    BY <1>1, <1>3
  <2>2. PICK kk \in 1..n + 1 : less[k] = more[kk] /\ kk = IF k < i THEN k ELSE k + 1
    BY <1>1, <1>3
  <2>3. jj < kk
    BY <1>1, <1>3, <2>1, <2>2
  <2>4. more[jj].at <= more[kk].at
    BY <1>1, <2>3 DEF Sorted
  <2> QED
    BY <2>1, <2>2, <2>4
<1>5. Before(less, from) = a
  <2>1. a \in 0..n
    BY <1>1, <1>2, <1>3
  <2>2. \A j \in 1..n : j <= a <=> less[j].at < from
    <3> SUFFICES ASSUME NEW j \in 1..n PROVE j <= a <=> less[j].at < from
      OBVIOUS
    <3>1. CASE j < i
      BY <1>1, <1>2, <3>1
    <3>2. CASE ~(j < i)
      <4>1. less[j] = more[j + 1] /\ j + 1 \in 1..n + 1 /\ ~(j <= a) /\ ~(j + 1 <= a)
        BY <1>1, <1>2, <1>3, <3>2
      <4> QED
        BY <1>2, <4>1
    <3> QED
      BY <3>1, <3>2
  <2> QED
    BY <1>4, <2>1, <2>2, BeforeUnique DEF n
<1>6. UpTo(less, to) = b - 1
  <2>1. b - 1 \in 0..n
    BY <1>1, <1>2, <1>3
  <2>2. \A j \in 1..n : j <= b - 1 <=> less[j].at <= to
    <3> SUFFICES ASSUME NEW j \in 1..n PROVE j <= b - 1 <=> less[j].at <= to
      OBVIOUS
    <3>1. CASE j < i
      <4>1. less[j] = more[j] /\ j \in 1..n + 1 /\ j <= b /\ j <= b - 1
        BY <1>1, <1>2, <1>3, <3>1
      <4> QED
        BY <1>2, <4>1
    <3>2. CASE ~(j < i)
      <4>1. less[j] = more[j + 1] /\ j + 1 \in 1..n + 1 /\ (j <= b - 1 <=> j + 1 <= b)
        BY <1>1, <1>2, <1>3, <3>2
      <4> QED
        BY <1>2, <4>1
    <3> QED
      BY <3>1, <3>2
  <2> QED
    BY <1>4, <2>1, <2>2, UpToUnique DEF n
<1> DEFINE w == b - a
           wm == Window(more, from, to)
           wl == Window(less, from, to)
           m == (b - i) + 1
<1>7. w \in Nat /\ w >= 1 /\ m \in 1..w
  BY <1>2, <1>3
<1>8. Len(wm) = w /\ \A j \in 1..w : wm[j] = more[(b - j) + 1]
  BY <1>1, <1>2, <1>3, WindowElements DEF a, b
<1>9. Len(wl) = w - 1 /\ \A j \in 1..(w - 1) : wl[j] = less[((b - 1) - j) + 1]
  <2>1. /\ Len(wl) = (b - 1) - a
        /\ \A j \in 1..((b - 1) - a) : wl[j] = less[((b - 1) - j) + 1]
    BY <1>4, <1>5, <1>6, WindowElements
  <2> QED
    BY <1>2, <2>1
<1> HIDE DEF wm, wl
<1>10. \A j \in 1..(w - 1) : wl[j] = IF j < m THEN wm[j] ELSE wm[j + 1]
  <2> SUFFICES ASSUME NEW j \in 1..(w - 1)
               PROVE  wl[j] = IF j < m THEN wm[j] ELSE wm[j + 1]
    OBVIOUS
  <2>1. ((b - 1) - j) + 1 = b - j /\ b - j \in 1..n /\ wl[j] = less[b - j]
    BY <1>1, <1>2, <1>3, <1>9
  <2>2. CASE j < m
    <3>1. ~(b - j < i) /\ j \in 1..w
      BY <1>2, <1>3, <2>2
    <3> QED
      BY <1>1, <1>8, <2>1, <2>2, <3>1
  <2>3. CASE ~(j < m)
    <3>1. b - j < i /\ j + 1 \in 1..w /\ (b - (j + 1)) + 1 = b - j
      BY <1>2, <1>3, <2>3
    <3> QED
      BY <1>1, <1>8, <2>1, <2>3, <3>1
  <2> QED
    BY <2>2, <2>3
<1>11. wm[m] = more[i]
  <2>1. (b - m) + 1 = i
    BY <1>2, <1>3
  <2> HIDE DEF m, w
  <2> QED
    BY <1>7, <1>8, <2>1
<1>12. Without(wl, wm, m)
  BY <1>7, <1>8, <1>9, <1>10 DEF Without
<1>13. m \in 1..Len(wm)
  BY <1>7, <1>8
<1> QED
  BY <1>4, <1>11, <1>12, <1>13 DEF wm, wl

-----------------------------------------------------------------------------
(* The order statistics without the highest value.                         *)

(***************************************************************************)
(* There are n positions up to n.                                          *)
(***************************************************************************)
LEMMA FirstFew ==
  ASSUME NEW n \in Nat
  PROVE  IsFiniteSet(1..n) /\ Cardinality(1..n) = n
<1>1. 1 \in Int /\ n \in Int
  OBVIOUS
<1>2. /\ IsFiniteSet(1..n)
      /\ Cardinality(1..n) = IF 1 > n THEN 0 ELSE n - 1 + 1
  BY <1>1, FS_Interval
<1> QED
  BY <1>2

(***************************************************************************)
(* Multiplying by a natural keeps the order.                               *)
(***************************************************************************)
LEMMA TimesNat ==
  ASSUME NEW x \in Int, NEW y \in Int, NEW z \in Nat, x <= y
  PROVE  z * x <= z * y
<1> DEFINE d == y - x
<1>1. d \in Nat
  OBVIOUS
<1>2. z * y = z * x + z * d
  OBVIOUS
<1> HIDE DEF d
<1>3. z * d \in Nat /\ z * x \in Int /\ z * y \in Int
  BY <1>1
<1> QED
  BY <1>2, <1>3

(***************************************************************************)
(* The counts of the positions below, and not above, a value.              *)
(***************************************************************************)
LEMMA Counted ==
  ASSUME NEW n \in Nat, NEW v \in [1..n -> Nat]
  PROVE  \A x \in Nat :
           /\ Cardinality(Lower(v, x)) \in Nat /\ Lower(v, x) \in SUBSET (1..n)
           /\ Cardinality(NotAboveIn(v, x)) \in Nat
           /\ NotAboveIn(v, x) \in SUBSET (1..n)
           /\ IsFiniteSet(Lower(v, x)) /\ IsFiniteSet(NotAboveIn(v, x))
<1> SUFFICES ASSUME NEW x \in Nat
             PROVE  /\ Cardinality(Lower(v, x)) \in Nat
                    /\ Lower(v, x) \in SUBSET (1..n)
                    /\ Cardinality(NotAboveIn(v, x)) \in Nat
                    /\ NotAboveIn(v, x) \in SUBSET (1..n)
                    /\ IsFiniteSet(Lower(v, x)) /\ IsFiniteSet(NotAboveIn(v, x))
  OBVIOUS
<1>1. Lower(v, x) \in SUBSET (1..n) /\ NotAboveIn(v, x) \in SUBSET (1..n)
  BY DEF Lower, NotAboveIn
<1>2. IsFiniteSet(1..n)
  BY FirstFew
<1> QED
  BY <1>1, <1>2, FS_Subset, FS_CardinalityType

(***************************************************************************)
(* What is below a value and not above a lower one.                        *)
(***************************************************************************)
LEMMA BelowAndUpTo ==
  ASSUME NEW n \in Nat, NEW v \in [1..n -> Nat],
         NEW x \in Nat, NEW y \in Nat, x < y
  PROVE  Cardinality(NotAboveIn(v, x)) <= Cardinality(Lower(v, y))
<1>1. NotAboveIn(v, x) \in SUBSET Lower(v, y)
  BY DEF NotAboveIn, Lower
<1>2. IsFiniteSet(Lower(v, y))
  BY Counted
<1> QED
  BY <1>1, <1>2, FS_Subset

(***************************************************************************)
(* Only one value is the k-th.                                             *)
(***************************************************************************)
Kth(v, k, x) ==
  Cardinality(Lower(v, x)) < k /\ k <= Cardinality(NotAboveIn(v, x))

(***************************************************************************)
(* A value at a higher position is not lower.                              *)
(***************************************************************************)
LEMMA KthGrows ==
  ASSUME NEW n \in Nat, NEW v \in [1..n -> Nat], NEW x \in Nat, NEW y \in Nat,
         NEW j \in Nat, NEW k \in Nat, j <= k, Kth(v, j, x), Kth(v, k, y)
  PROVE  x <= y
<1> SUFFICES ASSUME y < x PROVE FALSE
  OBVIOUS
<1>1. Cardinality(NotAboveIn(v, y)) <= Cardinality(Lower(v, x))
  BY BelowAndUpTo
<1>2. /\ Cardinality(NotAboveIn(v, y)) \in Nat
      /\ Cardinality(Lower(v, x)) \in Nat
  BY Counted
<1> QED
  BY <1>1, <1>2 DEF Kth

(***************************************************************************)
(* Of values that are naturals the sorted ones never fall.                 *)
(***************************************************************************)
LEMMA SortedKth ==
  ASSUME NEW values \in Seq(Nat)
  PROVE  /\ Ascending(values) \in Seq(Nat)
         /\ Len(Ascending(values)) = Len(values)
         /\ \A k \in 1..Len(values) :
              /\ Ascending(values)[k] \in ToSet(values)
              /\ Kth(values, k, Ascending(values)[k])
              /\ \A j \in 1..k : Ascending(values)[j] <= Ascending(values)[k]
<1> DEFINE n == Len(values)
           A == Ascending(values)
<1>1. A \in Seq(Nat) /\ Len(A) = n /\ n \in Nat /\ values \in [1..n -> Nat]
  BY SortedIs
<1>2. \A k \in 1..n : A[k] \in ToSet(values) /\ Kth(values, k, A[k])
  BY SortedIs DEF Kth
<1> HIDE DEF n, A
<1>3. ASSUME NEW k \in 1..n, NEW j \in 1..k
      PROVE  A[j] <= A[k]
  <2>1. j \in 1..n /\ j \in Nat /\ k \in Nat /\ j <= k
    BY <1>1
  <2>2. A[j] \in Nat /\ A[k] \in Nat
    BY <1>1, <2>1
  <2>3. Kth(values, j, A[j]) /\ Kth(values, k, A[k])
    BY <1>2, <2>1
  <2> QED
    BY <1>1, <2>1, <2>2, <2>3, KthGrows
<1> QED
  BY <1>1, <1>2, <1>3 DEF n, A

(***************************************************************************)
(* One more value, no lower than the others, is sorted behind them.        *)
(***************************************************************************)
LEMMA SortedWithout ==
  ASSUME NEW less \in Seq(Nat), NEW more \in Seq(Nat), NEW m,
         Without(less, more, m), \A j \in 1..Len(more) : more[j] <= more[m]
  PROVE  \A k \in 1..Len(less) : Ascending(less)[k] = Ascending(more)[k]
<1> SUFFICES ASSUME NEW k \in 1..Len(less)
             PROVE  Ascending(less)[k] = Ascending(more)[k]
  OBVIOUS
<1> DEFINE n == Len(less)
           y == Ascending(less)[k]
           z == Ascending(more)[k]
           f(j) == IF j < m THEN j ELSE j + 1
<1>1. /\ n \in Nat /\ Len(more) = n + 1 /\ m \in 1..n + 1
      /\ less \in [1..n -> Nat] /\ more \in [1..n + 1 -> Nat]
      /\ DOMAIN less = 1..n /\ DOMAIN more = 1..n + 1
      /\ k \in 1..n /\ k \in 1..n + 1 /\ k \in Nat
  BY DEF Without
<1>2. \A j \in 1..n : less[j] = IF j < m THEN more[j] ELSE more[j + 1]
  BY DEF Without
<1>3. /\ y \in Nat /\ y \in ToSet(less) /\ Kth(less, k, y)
      /\ z \in Nat /\ Kth(more, k, z)
  <2>1. /\ Ascending(less) \in Seq(Nat) /\ Len(Ascending(less)) = n
        /\ y \in ToSet(less) /\ Kth(less, k, y)
    BY <1>1, SortedKth
  <2>2. /\ Ascending(more) \in Seq(Nat) /\ Len(Ascending(more)) = n + 1
        /\ Kth(more, k, z)
    BY <1>1, SortedKth
  <2>3. y \in Nat
    BY <1>1, <2>1
  <2>4. z \in Nat
    BY <1>1, <2>2
  <2> QED
    BY <2>1, <2>2, <2>3, <2>4
<1>4. \A j \in 1..n : f(j) \in 1..n + 1 /\ f(j) # m /\ less[j] = more[f(j)]
  BY <1>1, <1>2
<1>5. \A i, j \in 1..n : f(i) = f(j) => i = j
  <2>1. m \in Int /\ n \in Nat
    BY <1>1
  <2> HIDE DEF n
  <2> SUFFICES ASSUME NEW i \in 1..n, NEW j \in 1..n, f(i) = f(j) PROVE i = j
    OBVIOUS
  <2>2. i \in Int /\ j \in Int
    BY <2>1
  <2>3. \/ i < m /\ j < m
        \/ i < m /\ ~(j < m)
        \/ ~(i < m) /\ j < m
        \/ ~(i < m) /\ ~(j < m)
    OBVIOUS
  <2> QED
    BY <2>1, <2>2, <2>3
<1>6. \A i \in 1..n + 1 : i # m => \E j \in 1..n : f(j) = i
  <2> SUFFICES ASSUME NEW i \in 1..n + 1, i # m PROVE \E j \in 1..n : f(j) = i
    OBVIOUS
  <2>1. CASE i < m
    <3>1. i \in 1..n /\ f(i) = i
      BY <1>1, <2>1
    <3> QED
      BY <3>1
  <2>2. CASE ~(i < m)
    <3>1. i - 1 \in 1..n /\ f(i - 1) = i
      BY <1>1, <2>2
    <3> QED
      BY <3>1
  <2> QED
    BY <2>1, <2>2
<1>7. y <= more[m]
  <2>1. PICK j \in 1..n : y = less[j]
    BY <1>1, <1>3 DEF ToSet
  <2> QED
    BY <1>1, <1>4, <2>1
<1> HIDE DEF y, z, f, n
<1>8. Cardinality(Lower(more, y)) = Cardinality(Lower(less, y))
  <2> DEFINE P == Lower(less, y)
             Q == Lower(more, y)
             g == [j \in P |-> f(j)]
  <2>1. P = {j \in 1..n : less[j] < y} /\ Q = {j \in 1..n + 1 : more[j] < y}
    BY <1>1 DEF Lower
  <2>2. ~(more[m] < y)
    BY <1>1, <1>3, <1>7
  <2>3. IsFiniteSet(P)
    BY <1>1, <1>3, Counted
  <2> HIDE DEF P, Q
  <2>4. \A j \in P : f(j) \in Q
    BY <1>4, <2>1
  <2>5. g \in [P -> Q]
    BY <2>4
  <2>6. \A i, j \in P : g[i] = g[j] => i = j
    BY <1>5, <2>1
  <2>7. \A i \in Q : \E j \in P : g[j] = i
    <3> SUFFICES ASSUME NEW i \in Q PROVE \E j \in P : g[j] = i
      OBVIOUS
    <3>1. i \in 1..n + 1 /\ i # m /\ more[i] < y
      BY <2>1, <2>2
    <3>2. PICK j \in 1..n : f(j) = i
      BY <1>6, <3>1
    <3>3. j \in P
      BY <1>4, <2>1, <3>1, <3>2
    <3> QED
      BY <3>2, <3>3
  <2> HIDE DEF g
  <2>8. Cardinality(Q) = Cardinality(P)
    BY <2>3, <2>5, <2>6, <2>7, Paired
  <2> QED
    BY <2>8 DEF P, Q
<1>9. Cardinality(NotAboveIn(less, y)) <= Cardinality(NotAboveIn(more, y))
  <2> DEFINE P == NotAboveIn(less, y)
             Q == NotAboveIn(more, y)
             g == [j \in P |-> f(j)]
  <2>1. P = {j \in 1..n : less[j] <= y} /\ Q = {j \in 1..n + 1 : more[j] <= y}
    BY <1>1 DEF NotAboveIn
  <2>2. IsFiniteSet(Q)
    <3>1. n + 1 \in Nat
      BY <1>1
    <3> QED
      BY <1>1, <1>3, <3>1, Counted
  <2> HIDE DEF P, Q
  <2>3. \A j \in P : f(j) \in Q
    BY <1>4, <2>1
  <2>4. g \in [P -> Q]
    BY <2>3
  <2>5. \A i, j \in P : g[i] = g[j] => i = j
    BY <1>5, <2>1
  <2> HIDE DEF g
  <2>6. g \in Injection(P, Q)
    BY <2>4, <2>5, Fun_IsInj
  <2>7. Cardinality(P) <= Cardinality(Q)
    BY <2>2, <2>6, FS_Injection
  <2> QED
    BY <2>7 DEF P, Q
<1>10. Kth(more, k, y)
  <2>1. /\ Cardinality(NotAboveIn(less, y)) \in Nat
        /\ Cardinality(NotAboveIn(more, y)) \in Nat
    <3>1. n + 1 \in Nat
      BY <1>1
    <3>2. Cardinality(NotAboveIn(less, y)) \in Nat
      BY <1>1, <1>3, Counted
    <3>3. Cardinality(NotAboveIn(more, y)) \in Nat
      BY <1>1, <1>3, <3>1, Counted
    <3> QED
      BY <3>2, <3>3
  <2> QED
    BY <1>1, <1>3, <1>8, <1>9, <2>1 DEF Kth
<1>11. y <= z /\ z <= y
  <2>1. n + 1 \in Nat /\ k <= k
    BY <1>1
  <2>2. y <= z
    BY <1>1, <1>3, <1>10, <2>1, KthGrows
  <2>3. z <= y
    BY <1>1, <1>3, <1>10, <2>1, KthGrows
  <2> QED
    BY <2>2, <2>3
<1>12. y = z
  BY <1>3, <1>11
<1> QED
  BY <1>12 DEF y, z

-----------------------------------------------------------------------------
(* The trimmed mean without the highest value.                             *)

(***************************************************************************)
(* A sum depends on its terms only.                                        *)
(***************************************************************************)
LEMMA SumOfSame ==
  ASSUME NEW D, IsFiniteSet(D), NEW v \in [D -> Int],
         NEW E, IsFiniteSet(E), NEW w \in [E -> Int],
         D \subseteq E, \A i \in D : v[i] = w[i]
  PROVE  \A s \in SUBSET D : SumOver(v)[s] = SumOver(w)[s]
<1> DEFINE h == SumOver(v)
           k == SumOver(w)
           G == {s \in SUBSET D : h[s] = k[s]}
<1>1. \A s \in SUBSET D :
        h[s] = IF s = {} THEN 0 ELSE v[Taken(s)] + h[s \ {Taken(s)}]
  BY SumUnfolds
<1>2. \A s \in SUBSET E :
        k[s] = IF s = {} THEN 0 ELSE w[Taken(s)] + k[s \ {Taken(s)}]
  BY SumUnfolds
<1> HIDE DEF h, k
<1>3. ASSUME NEW s \in SUBSET D, \A x \in s : s \ {x} \in G
      PROVE  s \in G
  <2>0. s \in SUBSET E
    OBVIOUS
  <2>1. CASE s = {}
    <3>1. h[s] = 0 /\ k[s] = 0
      BY <1>1, <1>2, <2>0, <2>1
    <3> QED
      BY <3>1
  <2>2. CASE s # {}
    <3> DEFINE x == Taken(s)
    <3>1. x \in s
      BY <2>2, TakenOut
    <3>2. h[s] = v[x] + h[s \ {x}] /\ k[s] = w[x] + k[s \ {x}]
      BY <1>1, <1>2, <2>0, <2>2
    <3> HIDE DEF x
    <3>3. h[s \ {x}] = k[s \ {x}] /\ v[x] = w[x]
      BY <1>3, <3>1
    <3>4. h[s] = k[s]
      BY <3>2, <3>3
    <3> QED
      BY <3>4
  <2> QED
    BY <2>1, <2>2
<1>4. \A s \in SUBSET D : s \in G
  <2> HIDE DEF G
  <2> QED
    BY <1>3, BySize
<1> QED
  BY <1>4 DEF h, k

(***************************************************************************)
(* A sum is at most the number of its terms times a bound of each.         *)
(***************************************************************************)
LEMMA SumBounded ==
  ASSUME NEW D, IsFiniteSet(D), NEW v \in [D -> Nat], NEW x \in Nat,
         \A i \in D : v[i] <= x
  PROVE  \A s \in SUBSET D : /\ SumOver(v)[s] \in Nat
                             /\ SumOver(v)[s] <= Cardinality(s) * x
<1> DEFINE h == SumOver(v)
           G == {s \in SUBSET D : h[s] \in Nat /\ h[s] <= Cardinality(s) * x}
<1>1. \A s \in SUBSET D :
        h[s] = IF s = {} THEN 0 ELSE v[Taken(s)] + h[s \ {Taken(s)}]
  <2>1. v \in [D -> Int]
    OBVIOUS
  <2> QED
    BY <2>1, SumUnfolds
<1> HIDE DEF h
<1>2. ASSUME NEW s \in SUBSET D, \A y \in s : s \ {y} \in G
      PROVE  s \in G
  <2>1. CASE s = {}
    <3>1. h[s] = 0 /\ Cardinality(s) = 0
      BY <1>1, <2>1, FS_EmptySet
    <3> QED
      BY <3>1
  <2>2. CASE s # {}
    <3> DEFINE y == Taken(s)
               c == Cardinality(s \ {y})
    <3>1. /\ y \in s /\ h[s] = v[y] + h[s \ {y}]
          /\ Cardinality(s) \in Nat /\ c = Cardinality(s) - 1 /\ c \in Nat
      <4>1. /\ y \in s /\ Cardinality(s) \in Nat \ {0}
            /\ c = Cardinality(s) - 1
        BY <2>2, TakenOut
      <4> QED
        BY <1>1, <2>2, <4>1
    <3>2. h[s \ {y}] \in Nat /\ h[s \ {y}] <= c * x
      BY <1>2, <3>1
    <3>3. v[y] \in Nat /\ v[y] <= x
      BY <3>1
    <3> HIDE DEF y, c
    <3>4. Cardinality(s) * x = c * x + x /\ c * x \in Nat
      BY <3>1
    <3>5. h[s] \in Nat /\ h[s] <= Cardinality(s) * x
      BY <3>1, <3>2, <3>3, <3>4
    <3> QED
      BY <3>5
  <2> QED
    BY <2>1, <2>2
<1>3. \A s \in SUBSET D : s \in G
  <2> HIDE DEF G
  <2> QED
    BY <1>2, BySize
<1> QED
  BY <1>3 DEF h

(***************************************************************************)
(* The total of a sequence of k integers.                                  *)
(***************************************************************************)
LEMMA TotalOf ==
  ASSUME NEW k \in Nat, NEW q \in Seq(Int), Len(q) = k
  PROVE  Total(q) = SumOver(q)[1..k] /\ Total(q) \in Int
<1>1. Total(q) = SumOver(q)[DOMAIN q]
  BY TotalIsSum
<1>2. DOMAIN q = 1..k /\ q \in [1..k -> Int]
  OBVIOUS
<1>3. Total(q) = SumOver(q)[1..k]
  BY <1>1, <1>2, Zenon
<1>4. IsFiniteSet(1..k)
  BY FirstFew
<1>5. SumOver(q)[1..k] \in Int
  BY <1>2, <1>4, SumIsInt
<1> QED
  BY <1>3, <1>5

(***************************************************************************)
(* One term taken out of a sum.                                            *)
(***************************************************************************)
LEMMA TermOut ==
  ASSUME NEW D, IsFiniteSet(D), NEW v \in [D -> Int], NEW y \in D
  PROVE  SumOver(v)[D] = v[y] + SumOver(v)[D \ {y}]
<1>1. D \in SUBSET D
  OBVIOUS
<1>2. /\ SumOver(v)[{}] = 0
      /\ \A s \in SUBSET D :
           \A x \in s : SumOver(v)[s] = v[x] + SumOver(v)[s \ {x}]
  BY SumTakesAny
<1> QED
  BY <1>1, <1>2

(***************************************************************************)
(* The first k of a sequence of naturals.                                  *)
(***************************************************************************)
LEMMA Prefix ==
  ASSUME NEW q \in Seq(Nat), NEW k \in 0..Len(q)
  PROVE  /\ SubSeq(q, 1, k) \in Seq(Nat) /\ Len(SubSeq(q, 1, k)) = k
         /\ SubSeq(q, 1, k) \in [1..k -> Nat]
         /\ \A j \in 1..k : SubSeq(q, 1, k)[j] = q[j]
<1> DEFINE p == SubSeq(q, 1, k)
<1>1. p \in Seq(Nat) /\ Len(p) = k /\ \A j \in 1..k : p[j] = q[j]
  OBVIOUS
<1> HIDE DEF p
<1>2. p \in [1..k -> Nat]
  BY <1>1
<1> QED
  BY <1>1, <1>2 DEF p

(***************************************************************************)
(* The sum of one more of the first values.                                *)
(***************************************************************************)
LEMMA OneMoreTerm ==
  ASSUME NEW q \in Seq(Nat), NEW k \in Nat, k + 1 <= Len(q)
  PROVE  Total(SubSeq(q, 1, k + 1)) = q[k + 1] + Total(SubSeq(q, 1, k))
<1> DEFINE v == SubSeq(q, 1, k)
           w == SubSeq(q, 1, k + 1)
           D == 1..k
           E == 1..k + 1
<1>1. /\ v \in Seq(Nat) /\ Len(v) = k /\ v \in [D -> Nat]
      /\ \A j \in D : v[j] = q[j]
  <2>1. k \in 0..Len(q)
    OBVIOUS
  <2> QED
    BY <2>1, Prefix
<1>2. /\ w \in Seq(Nat) /\ Len(w) = k + 1 /\ w \in [E -> Nat]
      /\ \A j \in E : w[j] = q[j]
  <2>1. k + 1 \in 0..Len(q)
    OBVIOUS
  <2> QED
    BY <2>1, Prefix
<1> HIDE DEF v, w
<1>3. IsFiniteSet(D) /\ IsFiniteSet(E) /\ k + 1 \in Nat
  BY FirstFew
<1>4. v \in Seq(Int) /\ w \in Seq(Int)
  BY <1>1, <1>2
<1>5. Total(v) = SumOver(v)[D] /\ Total(w) = SumOver(w)[E]
  BY <1>1, <1>2, <1>3, <1>4, TotalOf
<1>6. /\ D \in SUBSET D /\ E \in SUBSET E /\ D \subseteq E
      /\ k + 1 \in E /\ E \ {k + 1} = D
  OBVIOUS
<1>7. \A j \in D : v[j] = w[j]
  BY <1>1, <1>2, <1>6
<1> HIDE DEF D, E
<1>8. v \in [D -> Int] /\ w \in [E -> Int]
  BY <1>1, <1>2
<1>9. SumOver(w)[E] = w[k + 1] + SumOver(w)[E \ {k + 1}]
  BY <1>3, <1>6, <1>8, TermOut
<1>10. SumOver(v)[D] = SumOver(w)[D]
  BY <1>3, <1>6, <1>7, <1>8, SumOfSame
<1>11. w[k + 1] = q[k + 1]
  BY <1>2, <1>6
<1> QED
  BY <1>5, <1>6, <1>9, <1>10, <1>11 DEF v, w

(***************************************************************************)
(* Of one more value at most one more is kept.                             *)
(***************************************************************************)
LEMMA KeptStep ==
  ASSUME NEW n \in Nat
  PROVE  LET k == (n * KeepNum) \div KeepDen
             kk == ((n + 1) * KeepNum) \div KeepDen
         IN  /\ k \in 0..n /\ kk \in 0..n + 1
             /\ kk = k \/ kk = k + 1
<1> DEFINE x == n * KeepNum
           y == (n + 1) * KeepNum
           d == KeepDen
           k == x \div d
           kk == y \div d
<1>1. /\ KeepNum \in Nat /\ d \in Nat \ {0} /\ KeepNum <= d
      /\ x \in Nat /\ y \in Nat /\ y = x + KeepNum
  BY KeepAssumption
<1>2. n * KeepNum <= n * d /\ (n + 1) * KeepNum <= (n + 1) * d
  <2> HIDE DEF d
  <2> QED
    BY <1>1, TimesNat
<1>3. x <= n * d /\ y <= (n + 1) * d
  BY <1>2
<1> HIDE DEF x, y, d
<1>4. /\ k \in Nat /\ d * k <= x /\ x < d * k + d
      /\ kk \in Nat /\ d * kk <= y /\ y < d * kk + d
  BY <1>1, Quotient
<1> HIDE DEF k, kk
<1>5. ASSUME NEW p \in Nat, NEW r \in Nat, p + 1 <= r
      PROVE  d * p + d <= d * r
  <2>1. d * (p + 1) <= d * r
    BY <1>1, <1>5, TimesNat
  <2>2. d * (p + 1) = d * p + d
    BY <1>1
  <2> QED
    BY <2>1, <2>2
<1>6. \A p \in Nat : d * p \in Nat /\ p * d = d * p
  BY <1>1
<1>7. k <= n
  <2> SUFFICES ASSUME n + 1 <= k PROVE FALSE
    BY <1>4
  <2>1. d * n + d <= d * k
    BY <1>4, <1>5
  <2> QED
    BY <1>1, <1>3, <1>4, <1>6, <2>1
<1>8. kk <= n + 1
  <2> SUFFICES ASSUME (n + 1) + 1 <= kk PROVE FALSE
    BY <1>4
  <2>1. d * (n + 1) + d <= d * kk
    BY <1>4, <1>5
  <2>2. d * (n + 1) \in Nat /\ (n + 1) * d = d * (n + 1) /\ d * kk \in Nat
    BY <1>4, <1>6
  <2> QED
    BY <1>1, <1>3, <1>4, <2>1, <2>2
<1>9. k <= kk
  <2> SUFFICES ASSUME kk + 1 <= k PROVE FALSE
    BY <1>4
  <2>1. d * kk + d <= d * k
    BY <1>4, <1>5
  <2> QED
    BY <1>1, <1>4, <1>6, <2>1
<1>10. kk <= k + 1
  <2> SUFFICES ASSUME (k + 1) + 1 <= kk PROVE FALSE
    BY <1>4
  <2>1. d * (k + 1) + d <= d * kk
    BY <1>4, <1>5
  <2>2. d * k + d <= d * (k + 1)
    BY <1>4, <1>5
  <2>3. d * (k + 1) \in Nat /\ d * kk \in Nat /\ d * k \in Nat
    BY <1>4, <1>6
  <2> QED
    BY <1>1, <1>4, <2>1, <2>2, <2>3
<1>11. k \in 0..n /\ kk \in 0..n + 1 /\ (kk = k \/ kk = k + 1)
  BY <1>4, <1>7, <1>8, <1>9, <1>10
<1> QED
  BY <1>11 DEF k, kk, x, y, d

(***************************************************************************)
(* One more value, no lower than the others, never lowers the trimmed mean,*)
(* although it may be the one that is dropped.                             *)
(***************************************************************************)
LEMMA MeanOfMore ==
  ASSUME NEW less \in Seq(Nat), NEW more \in Seq(Nat), NEW m,
         Without(less, more, m), \A j \in 1..Len(more) : more[j] <= more[m]
  PROVE  LET a == Average(Kept(less))
             b == Average(Kept(more))
         IN  /\ a.sum \in Nat /\ a.of \in Nat /\ b.sum \in Nat /\ b.of \in Nat
             /\ a.sum * b.of <= b.sum * a.of
<1> DEFINE n == Len(less)
           k == (n * KeepNum) \div KeepDen
           kk == ((n + 1) * KeepNum) \div KeepDen
           A == Ascending(less)
           B == Ascending(more)
<1>1. n \in Nat /\ Len(more) = n + 1
  BY DEF Without
<1>2. k \in 0..n /\ kk \in 0..n + 1 /\ (kk = k \/ kk = k + 1)
  <2> HIDE DEF n
  <2> QED
    BY <1>1, KeptStep
<1>3. Kept(less) = SubSeq(A, 1, k) /\ Kept(more) = SubSeq(B, 1, kk)
  BY <1>1 DEF Kept
<1>4. /\ A \in Seq(Nat) /\ Len(A) = n /\ B \in Seq(Nat) /\ Len(B) = n + 1
      /\ \A j \in 1..n : A[j] = B[j]
  BY <1>1, SortedKth, SortedWithout
<1>5. \A i \in 1..n + 1 : \A j \in 1..i : B[j] <= B[i]
  BY <1>1, SortedKth
<1> HIDE DEF n, k, kk, A, B
<1>6. SubSeq(A, 1, k) = SubSeq(B, 1, k)
  <2> DEFINE a == SubSeq(A, 1, k)
             b == SubSeq(B, 1, k)
  <2>1. /\ k \in 0..Len(A) /\ k \in 0..Len(B)
        /\ \A j \in 1..k : A[j] = B[j]
    BY <1>1, <1>2, <1>4
  <2>2. a \in [1..k -> Nat] /\ \A j \in 1..k : a[j] = A[j]
    BY <1>4, <2>1, Prefix
  <2>3. b \in [1..k -> Nat] /\ \A j \in 1..k : b[j] = B[j]
    BY <1>4, <2>1, Prefix
  <2> HIDE DEF a, b
  <2>4. a = b
    <3> DEFINE D == 1..k
    <3>1. \A j \in D : a[j] = b[j]
      BY <2>1, <2>2, <2>3
    <3>2. a \in [D -> Nat] /\ b \in [D -> Nat]
      BY <2>2, <2>3
    <3> HIDE DEF D
    <3> QED
      BY <3>1, <3>2
  <2> QED
    BY <2>4 DEF a, b
<1> DEFINE p == SubSeq(B, 1, k)
           S == Total(p)
<1>7. p \in Seq(Nat) /\ Len(p) = k /\ k \in Nat /\ \A j \in 1..k : p[j] = B[j]
  BY <1>1, <1>2, <1>4
<1>8. ASSUME NEW x \in Nat, \A j \in 1..k : p[j] <= x
      PROVE  S \in Nat /\ S <= k * x
  <2> HIDE DEF p
  <2>1. p \in [1..k -> Nat] /\ p \in Seq(Int)
    BY <1>7
  <2>2. IsFiniteSet(1..k) /\ Cardinality(1..k) = k
    BY <1>7, FirstFew
  <2>3. /\ SumOver(p)[1..k] \in Nat
        /\ SumOver(p)[1..k] <= Cardinality(1..k) * x
    BY <1>8, <2>1, <2>2, SumBounded
  <2>4. S = SumOver(p)[1..k]
    BY <1>7, <2>1, TotalOf
  <2> QED
    BY <2>2, <2>3, <2>4
<1>9. S \in Nat
  <2>1. CASE k = 0
    <3>1. \A j \in 1..k : p[j] <= 0
      BY <2>1
    <3> HIDE DEF p, S
    <3> QED
      BY <1>8, <3>1
  <2>2. CASE k # 0
    <3>1. k \in 1..n + 1 /\ B[k] \in Nat
      BY <1>1, <1>2, <1>4, <2>2
    <3>2. \A j \in 1..k : p[j] <= B[k]
      BY <1>5, <1>7, <3>1
    <3> HIDE DEF p, S
    <3> QED
      BY <1>8, <3>1, <3>2
  <2> QED
    BY <2>1, <2>2
<1>10. Average(Kept(less)) = [sum |-> S, of |-> k]
  BY <1>3, <1>6, <1>7 DEF Average
<1>11. CASE kk = k
  <2>1. Average(Kept(more)) = [sum |-> S, of |-> k]
    BY <1>3, <1>7, <1>11 DEF Average
  <2> HIDE DEF S
  <2> QED
    BY <1>7, <1>9, <1>10, <2>1
<1>12. CASE kk = k + 1
  <2> DEFINE x == B[k + 1]
  <2>1. k + 1 \in 1..n + 1 /\ k + 1 <= Len(B) /\ x \in Nat
    BY <1>1, <1>2, <1>4, <1>12
  <2>2. \A j \in 1..k : p[j] <= x
    BY <1>5, <1>7, <2>1
  <2>3. S <= k * x
    <3> HIDE DEF p, S, x
    <3> QED
      BY <1>8, <2>1, <2>2
  <2>4. Total(SubSeq(B, 1, k + 1)) = x + S
    BY <1>4, <1>7, <2>1, OneMoreTerm
  <2>5. Len(SubSeq(B, 1, k + 1)) = k + 1
    BY <1>4, <1>7, <2>1
  <2>6. Average(Kept(more)) = [sum |-> x + S, of |-> k + 1]
    BY <1>3, <1>12, <2>4, <2>5 DEF Average
  <2> HIDE DEF x, S
  <2>7. S * (k + 1) = S * k + S /\ (x + S) * k = k * x + S * k
    BY <1>7, <1>9, <2>1
  <2>8. S * (k + 1) <= (x + S) * k
    <3>1. S * k \in Nat /\ k * x \in Nat
      BY <1>7, <1>9, <2>1
    <3> QED
      BY <1>9, <2>3, <2>7, <3>1
  <2>9. x + S \in Nat /\ k + 1 \in Nat
    BY <1>7, <1>9, <2>1
  <2> QED
    BY <1>7, <1>9, <1>10, <2>6, <2>8, <2>9
<1> QED
  BY <1>2, <1>11, <1>12

-----------------------------------------------------------------------------
(* The mean of each phase without a slow probe.                            *)

(***************************************************************************)
(* The series of a phase has a sample for each probe, at its time.         *)
(***************************************************************************)
LEMMA PhaseSample ==
  ASSUME NEW p \in Phase, NEW probes \in Seq(ForeignSample)
  PROVE  /\ Len(OfPhase(probes, p)) = Len(probes)
         /\ \A i \in 1..Len(probes) :
              /\ OfPhase(probes, p)[i].at = probes[i].at
              /\ OfPhase(probes, p)[i].value = probes[i].value[p]
<1> DEFINE of == OfPhase(probes, p)
           n == Len(probes)
<1>1. of = [i \in 1..n |-> Sample(probes[i].at, probes[i].value[p])] /\ n \in Nat
  BY DEF OfPhase
<1> HIDE DEF of, n
<1>2. \A i \in 1..n : of[i] = Sample(probes[i].at, probes[i].value[p])
  BY <1>1
<1>3. \A i \in 1..n : of[i].at = probes[i].at /\ of[i].value = probes[i].value[p]
  <2>1. \A x, y : Sample(x, y).at = x /\ Sample(x, y).value = y
    BY DEF Sample
  <2> QED
    BY <1>2, <2>1
<1>4. Len(of) = n
  <2> DEFINE T == {of[i] : i \in 1..n}
  <2>1. DOMAIN of = 1..n /\ of = [i \in 1..n |-> of[i]]
    BY <1>1
  <2>2. of \in [1..n -> T]
    BY <2>1
  <2> HIDE DEF T
  <2> QED
    BY <1>1, <2>2
<1> QED
  BY <1>3, <1>4 DEF of, n

(***************************************************************************)
(* The window of a phase has the latencies of that phase.                  *)
(***************************************************************************)
LEMMA PhaseValues ==
  ASSUME NEW p \in Phase, NEW probes \in Seq(ForeignSample), Sorted(probes),
         NEW from \in Int, NEW to \in Int, from <= to
  PROVE  \A j \in 1..Len(Window(probes, from, to)) :
           Window(OfPhase(probes, p), from, to)[j].value
             = Window(probes, from, to)[j].value[p]
<1> DEFINE of == OfPhase(probes, p)
           n == Len(probes)
           a == Before(probes, from)
           b == UpTo(probes, to)
<1>1. /\ of \in Seq(SelfSample) /\ Sorted(of) /\ Len(of) = n /\ n \in Nat
      /\ \A i \in 1..n : of[i].at = probes[i].at
      /\ \A i \in 1..n : of[i].value = probes[i].value[p]
  BY PhaseWindow, PhaseSample
<1>2. /\ a \in 0..n /\ b \in 0..n
      /\ \A i \in 1..n : /\ i <= a <=> probes[i].at < from
                         /\ i <= b <=> probes[i].at <= to
  BY Partitioned, SamplesAreTimed
<1>3. /\ Len(Window(probes, from, to)) = b - a
      /\ \A j \in 1..(b - a) : Window(probes, from, to)[j] = probes[(b - j) + 1]
  BY WindowElements, SamplesAreTimed
<1> HIDE DEF of, n, a, b
<1>4. Before(of, from) = a
  <2>1. a \in 0..Len(of) /\ \A i \in 1..Len(of) : i <= a <=> of[i].at < from
    BY <1>1, <1>2
  <2> QED
    BY <1>1, <2>1, BeforeUnique, SamplesAreTimed
<1>5. UpTo(of, to) = b
  <2>1. b \in 0..Len(of) /\ \A i \in 1..Len(of) : i <= b <=> of[i].at <= to
    BY <1>1, <1>2
  <2> QED
    BY <1>1, <2>1, UpToUnique, SamplesAreTimed
<1>6. \A j \in 1..(b - a) : Window(of, from, to)[j] = of[(b - j) + 1]
  BY <1>1, <1>4, <1>5, WindowElements, SamplesAreTimed
<1>7. \A j \in 1..(b - a) : (b - j) + 1 \in 1..n
  BY <1>1, <1>2
<1>8. \A j \in 1..(b - a) : Window(of, from, to)[j].value
                              = Window(probes, from, to)[j].value[p]
  BY <1>1, <1>3, <1>6, <1>7
<1> QED
  BY <1>3, <1>8 DEF of

(***************************************************************************)
(* The series of a phase lacks the probe that the probes lack.             *)
(***************************************************************************)
LEMMA PhaseWithout ==
  ASSUME NEW p \in Phase, NEW more \in Seq(ForeignSample),
         NEW less \in Seq(ForeignSample), NEW i, Without(less, more, i)
  PROVE  Without(OfPhase(less, p), OfPhase(more, p), i)
<1> DEFINE u == OfPhase(less, p)
           v == OfPhase(more, p)
           n == Len(less)
<1>1. /\ n \in Nat /\ Len(more) = n + 1 /\ i \in 1..n + 1
      /\ \A j \in 1..n : less[j] = IF j < i THEN more[j] ELSE more[j + 1]
  BY DEF Without
<1>2. Len(u) = n /\ Len(v) = n + 1
  BY <1>1, PhaseSample
<1>3. /\ u = [j \in 1..n |-> Sample(less[j].at, less[j].value[p])]
      /\ v = [j \in 1..n + 1 |-> Sample(more[j].at, more[j].value[p])]
  BY <1>1 DEF OfPhase
<1> HIDE DEF u, v, n
<1>4. \A j \in 1..n : u[j] = IF j < i THEN v[j] ELSE v[j + 1]
  <2> SUFFICES ASSUME NEW j \in 1..n
               PROVE  u[j] = IF j < i THEN v[j] ELSE v[j + 1]
    OBVIOUS
  <2>1. j \in 1..n + 1 /\ j + 1 \in 1..n + 1
    BY <1>1
  <2>2. /\ u[j] = Sample(less[j].at, less[j].value[p])
        /\ v[j] = Sample(more[j].at, more[j].value[p])
        /\ v[j + 1] = Sample(more[j + 1].at, more[j + 1].value[p])
    BY <1>3, <2>1
  <2> QED
    BY <1>1, <2>2
<1>5. Without(u, v, i)
  BY <1>1, <1>2, <1>4 DEF Without
<1> QED
  BY <1>5 DEF u, v

(***************************************************************************)
(* How many values trimming keeps.                                         *)
(***************************************************************************)
LEMMA MeanCount ==
  ASSUME NEW values \in Seq(Nat)
  PROVE  Average(Kept(values)).of = (Len(values) * KeepNum) \div KeepDen
<1> DEFINE n == Len(values)
           k == (n * KeepNum) \div KeepDen
           A == Ascending(values)
<1>1. n \in Nat
  OBVIOUS
<1>2. k \in 0..n
  <2> HIDE DEF n
  <2> QED
    BY <1>1, KeptStep
<1>3. A \in Seq(Nat) /\ Len(A) = n
  BY SortedKth
<1>4. Kept(values) = SubSeq(A, 1, k)
  BY DEF Kept
<1> HIDE DEF n, k, A
<1>5. Len(SubSeq(A, 1, k)) = k
  BY <1>2, <1>3, Prefix
<1>6. Average(Kept(values)).of = k
  BY <1>4, <1>5 DEF Average
<1> QED
  BY <1>6 DEF k, n

(***************************************************************************)
(* The trimmed mean of a window, with and without a sample that is no      *)
(* lower than the others.                                                  *)
(***************************************************************************)
LEMMA MeanWithout ==
  ASSUME NEW more \in Seq(SelfSample), Sorted(more), NEW less \in Seq(SelfSample),
         NEW i \in 1..Len(more), Without(less, more, i),
         NEW from \in Int, NEW to \in Int, from <= to, more[i].at \in from..to,
         \A j \in 1..Len(Window(more, from, to)) :
           Window(more, from, to)[j].value <= more[i].value
  PROVE  LET a == TrimmedMean(less, from, to)
             b == TrimmedMean(more, from, to)
         IN  /\ a.sum \in Nat /\ a.of \in Nat /\ b.sum \in Nat /\ b.of \in Nat
             /\ a.sum * b.of <= b.sum * a.of
             /\ a.of = (Len(Window(less, from, to)) * KeepNum) \div KeepDen
             /\ b.of = (Len(Window(more, from, to)) * KeepNum) \div KeepDen
<1> DEFINE wl == Window(less, from, to)
           wm == Window(more, from, to)
           u == Values(wl)
           v == Values(wm)
<1>1. PICK m \in 1..Len(wm) :
         Sorted(less) /\ Without(wl, wm, m) /\ wm[m] = more[i]
  BY WindowRemoved, SamplesAreTimed
<1>2. wl \in Seq(SelfSample) /\ wm \in Seq(SelfSample)
  BY <1>1, WindowLength, SamplesAreTimed
<1>3. TrimmedMean(less, from, to) = Average(Kept(u))
      /\ TrimmedMean(more, from, to) = Average(Kept(v))
  BY DEF TrimmedMean
<1>4. \A j \in 1..Len(wm) : wm[j].value <= wm[m].value
  BY <1>1
<1> HIDE DEF wl, wm
<1>5. /\ u \in Seq(Nat \ {0}) /\ Len(u) = Len(wl)
      /\ v \in Seq(Nat \ {0}) /\ Len(v) = Len(wm)
  BY <1>2, ValuesOf
<1>6. /\ \A j \in 1..Len(wl) : u[j] = wl[j].value
      /\ \A j \in 1..Len(wm) : v[j] = wm[j].value
  BY <1>2 DEF Values
<1> HIDE DEF u, v
<1>7. u \in Seq(Nat) /\ v \in Seq(Nat)
  BY <1>5
<1>8. Without(u, v, m)
  <2>1. /\ Len(wl) \in Nat /\ Len(wm) = Len(wl) + 1 /\ m \in 1..Len(wm)
        /\ \A j \in 1..Len(wl) : wl[j] = IF j < m THEN wm[j] ELSE wm[j + 1]
    <3>1. Len(wl) \in Nat
      BY <1>2
    <3>2. Without(wl, wm, m)
      BY <1>1
    <3> QED
      BY <3>1, <3>2, Zenon DEF Without
  <2>2. \A j \in 1..Len(wl) : u[j] = IF j < m THEN v[j] ELSE v[j + 1]
    <3> SUFFICES ASSUME NEW j \in 1..Len(wl)
                 PROVE  u[j] = IF j < m THEN v[j] ELSE v[j + 1]
      OBVIOUS
    <3>1. j \in 1..Len(wm) /\ j + 1 \in 1..Len(wm)
      BY <2>1
    <3> QED
      BY <1>6, <2>1, <3>1
  <2> QED
    BY <1>5, <2>1, <2>2 DEF Without
<1>9. \A j \in 1..Len(v) : v[j] <= v[m]
  BY <1>1, <1>4, <1>5, <1>6
<1>10. /\ Average(Kept(u)).of = (Len(u) * KeepNum) \div KeepDen
       /\ Average(Kept(v)).of = (Len(v) * KeepNum) \div KeepDen
  BY <1>7, MeanCount
<1>11. LET a == Average(Kept(u))
           b == Average(Kept(v))
       IN  /\ a.sum \in Nat /\ a.of \in Nat /\ b.sum \in Nat /\ b.of \in Nat
           /\ a.sum * b.of <= b.sum * a.of
  BY <1>7, <1>8, <1>9, MeanOfMore
<1> QED
  BY <1>3, <1>5, <1>10, <1>11 DEF wl, wm

(***************************************************************************)
(* A higher mean makes a lower rate, and so a lower average of rates.      *)
(***************************************************************************)
LEMMA Slower ==
  ASSUME NEW p \in Nat, NEW f \in Nat, NEW c \in Nat,
         NEW ls \in Nat, NEW lo \in Nat, NEW ms \in Nat, NEW mo \in Nat,
         ls * mo <= ms * lo
  PROVE  (p * ms + (c * mo) * f) * ((2 * f) * ls)
           <= (p * ls + (c * lo) * f) * ((2 * f) * ms)
<1> DEFINE z == (2 * c) * (f * f)
           base == (p * ms) * ((2 * f) * ls)
<1>1. z \in Nat /\ base \in Nat /\ ls * mo \in Nat /\ ms * lo \in Nat
  OBVIOUS
<1>2. (p * ms + (c * mo) * f) * ((2 * f) * ls) = base + z * (ls * mo)
  OBVIOUS
<1>3. (p * ls + (c * lo) * f) * ((2 * f) * ms) = base + z * (ms * lo)
  OBVIOUS
<1> HIDE DEF z, base
<1>4. z * (ls * mo) <= z * (ms * lo)
  BY <1>1, TimesNat
<1>5. z * (ls * mo) \in Nat /\ z * (ms * lo) \in Nat
  BY <1>1
<1> QED
  BY <1>1, <1>2, <1>3, <1>4, <1>5

(***************************************************************************)
(* A slower mean of the loaded connections makes a figure that is not      *)
(* higher,                                                                 *)
(***************************************************************************)
LEMMA SlowerLoaded ==
  ASSUME NEW f, NEW l, NEW m, f.sum \in Nat, f.of \in Nat,
         l.sum \in Nat, l.of \in Nat, m.sum \in Nat, m.of \in Nat,
         l.sum * m.of <= m.sum * l.of
  PROVE  LET x == Mid(RateOf(f), RateOf(m))
             y == Mid(RateOf(f), RateOf(l))
         IN  x.sum * y.of <= y.sum * x.of
<1> DEFINE p == Minute * f.of
<1>1. p \in Nat /\ Minute \in Nat
  BY DEF Minute
<1>2. (p * m.sum + (Minute * m.of) * f.sum) * ((2 * f.sum) * l.sum)
        <= (p * l.sum + (Minute * l.of) * f.sum) * ((2 * f.sum) * m.sum)
  <2> HIDE DEF p
  <2> QED
    BY <1>1, Slower
<1>3. /\ Mid(RateOf(f), RateOf(m)).sum = p * m.sum + (Minute * m.of) * f.sum
      /\ Mid(RateOf(f), RateOf(m)).of = (2 * f.sum) * m.sum
      /\ Mid(RateOf(f), RateOf(l)).sum = p * l.sum + (Minute * l.of) * f.sum
      /\ Mid(RateOf(f), RateOf(l)).of = (2 * f.sum) * l.sum
  BY DEF Mid, RateOf
<1> QED
  BY <1>2, <1>3

(***************************************************************************)
(* and so does a slower round trip.                                        *)
(***************************************************************************)
LEMMA SlowerForeign ==
  ASSUME NEW f, NEW l, NEW m, f.sum \in Nat, f.of \in Nat,
         l.sum \in Nat, l.of \in Nat, m.sum \in Nat, m.of \in Nat,
         l.sum * m.of <= m.sum * l.of
  PROVE  LET x == Mid(RateOf(m), RateOf(f))
             y == Mid(RateOf(l), RateOf(f))
         IN  x.sum * y.of <= y.sum * x.of
<1>1. LET x == Mid(RateOf(f), RateOf(m))
          y == Mid(RateOf(f), RateOf(l))
      IN  x.sum * y.of <= y.sum * x.of
  BY SlowerLoaded
<1>2. ASSUME NEW g, g.sum \in Nat, g.of \in Nat
      PROVE  Mid(RateOf(g), RateOf(f)) = Mid(RateOf(f), RateOf(g))
  <2>1. Minute \in Nat
    BY DEF Minute
  <2>2. 2 * g.sum * f.sum = 2 * f.sum * g.sum
    BY <1>2
  <2>3. (Minute * g.of) * f.sum + (Minute * f.of) * g.sum
          = (Minute * f.of) * g.sum + (Minute * g.of) * f.sum
    BY <1>2, <2>1
  <2> QED
    BY <2>2, <2>3 DEF Mid, RateOf
<1> QED
  BY <1>1, <1>2

-----------------------------------------------------------------------------
(* The responsiveness without a slow probe.                                *)

(***************************************************************************)
(* A total of naturals is a natural.                                       *)
(***************************************************************************)
LEMMA TotalIsNat ==
  ASSUME NEW q \in Seq(Nat)
  PROVE  Total(q) \in Nat
<1> DEFINE k == Len(q)
           D == 1..k
<1>1. k \in Nat /\ q \in Seq(Int) /\ q \in [D -> Nat] /\ D \in SUBSET D
  OBVIOUS
<1> HIDE DEF k
<1>2. IsFiniteSet(D)
  BY <1>1, FirstFew
<1>3. Total(q) = SumOver(q)[D]
  BY <1>1, TotalOf DEF k
<1> HIDE DEF D
<1>4. CASE D = {}
  <2>1. \A i \in D : q[i] <= 0
    BY <1>4
  <2>2. SumOver(q)[D] \in Nat
    BY <1>1, <1>2, <2>1, SumBounded
  <2> QED
    BY <1>3, <2>2
<1>5. CASE D # {}
  <2>1. PICK x \in D : \A i \in D : q[i] <= q[x]
    BY <1>1, <1>2, <1>5, Highest
  <2>2. q[x] \in Nat
    BY <1>1
  <2>3. SumOver(q)[D] \in Nat
    BY <1>1, <1>2, <2>1, <2>2, SumBounded
  <2> QED
    BY <1>3, <2>3
<1> QED
  BY <1>4, <1>5

(***************************************************************************)
(* A trimmed mean is a pair of naturals, however many it keeps,            *)
(***************************************************************************)
LEMMA MeanIsNat ==
  ASSUME NEW series \in Seq(SelfSample), Sorted(series),
         NEW from \in Int, NEW to \in Int, from <= to
  PROVE  LET a == TrimmedMean(series, from, to)
         IN  a.sum \in Nat /\ a.of \in Nat
<1> DEFINE w == Window(series, from, to)
           u == Values(w)
           A == Ascending(u)
           n == Len(u)
           k == (n * KeepNum) \div KeepDen
<1>1. w \in Seq(SelfSample)
  BY WindowLength, SamplesAreTimed
<1>2. TrimmedMean(series, from, to) = Average(Kept(u))
  BY DEF TrimmedMean
<1> HIDE DEF w
<1>3. u \in Seq(Nat)
  <2>1. u \in Seq(Nat \ {0})
    BY <1>1, ValuesOf
  <2> HIDE DEF u
  <2> QED
    BY <2>1
<1>4. Kept(u) = SubSeq(A, 1, k)
  BY DEF Kept
<1> HIDE DEF u
<1>5. A \in Seq(Nat) /\ Len(A) = n /\ n \in Nat
  BY <1>3, SortedKth
<1>6. k \in 0..n
  <2> HIDE DEF n
  <2> QED
    BY <1>5, KeptStep
<1> HIDE DEF A, n, k
<1>7. SubSeq(A, 1, k) \in Seq(Nat) /\ Len(SubSeq(A, 1, k)) = k
  BY <1>5, <1>6, Prefix
<1>8. Total(SubSeq(A, 1, k)) \in Nat
  BY <1>7, TotalIsNat
<1>9. k \in Nat
  BY <1>5, <1>6
<1> QED
  BY <1>2, <1>4, <1>7, <1>8, <1>9 DEF Average

(***************************************************************************)
(* Three sums that are each no higher for their count have no higher mean  *)
(* together.                                                               *)
(***************************************************************************)
LEMMA ThreeTimes ==
  ASSUME NEW c \in Nat, NEW d \in Nat,
         NEW x \in Nat, NEW y \in Nat, NEW z \in Nat,
         NEW u \in Nat, NEW v \in Nat, NEW w \in Nat,
         x * d <= u * c, y * d <= v * c, z * d <= w * c
  PROVE  (x + y + z) * (3 * d) <= (u + v + w) * (3 * c)
<1>1. (x + y + z) * (3 * d) = 3 * (x * d) + 3 * (y * d) + 3 * (z * d)
  OBVIOUS
<1>2. (u + v + w) * (3 * c) = 3 * (u * c) + 3 * (v * c) + 3 * (w * c)
  OBVIOUS
<1>3. /\ x * d \in Nat /\ y * d \in Nat /\ z * d \in Nat
      /\ u * c \in Nat /\ v * c \in Nat /\ w * c \in Nat
  OBVIOUS
<1> QED
  BY <1>1, <1>2, <1>3

(***************************************************************************)
(* and so is the mean of a round trip.                                     *)
(***************************************************************************)
LEMMA TripIsNat ==
  ASSUME NEW probes \in Seq(ForeignSample), Sorted(probes),
         NEW from \in Int, NEW to \in Int, from <= to
  PROVE  LET f == ForeignTrip(probes, from, to)
         IN  f.sum \in Nat /\ f.of \in Nat
<1> DEFINE mean(p) == TrimmedMean(OfPhase(probes, p), from, to)
           f == ForeignTrip(probes, from, to)
<1>1. ASSUME NEW p \in Phase
      PROVE  mean(p).sum \in Nat /\ mean(p).of \in Nat
  <2>1. OfPhase(probes, p) \in Seq(SelfSample) /\ Sorted(OfPhase(probes, p))
    BY PhaseWindow
  <2> QED
    BY <2>1, MeanIsNat
<1>2. /\ f.sum = mean("tcp").sum + mean("tls").sum + mean("http").sum
      /\ f.of = 3 * mean("tcp").of
  BY DEF ForeignTrip, Phase
<1>3. "tcp" \in Phase /\ "tls" \in Phase /\ "http" \in Phase
  BY DEF Phase
<1> HIDE DEF mean, f
<1>4. /\ mean("tcp").sum \in Nat /\ mean("tls").sum \in Nat
      /\ mean("http").sum \in Nat /\ mean("tcp").of \in Nat
  BY <1>1, <1>3
<1> QED
  BY <1>2, <1>4 DEF f

(***************************************************************************)
(* The mean round trip, with and without a probe that no other of its      *)
(* window is slower than in any phase.                                     *)
(***************************************************************************)
LEMMA TripWithout ==
  ASSUME NEW more \in Seq(ForeignSample), Sorted(more),
         NEW less \in Seq(ForeignSample), NEW i \in 1..Len(more),
         Without(less, more, i),
         NEW from \in Int, NEW to \in Int, from <= to, more[i].at \in from..to,
         \A j \in 1..Len(Window(more, from, to)) : \A p \in Phase :
           Window(more, from, to)[j].value[p] <= more[i].value[p]
  PROVE  LET a == ForeignTrip(less, from, to)
             b == ForeignTrip(more, from, to)
         IN  /\ a.sum \in Nat /\ a.of \in Nat /\ b.sum \in Nat /\ b.of \in Nat
             /\ a.sum * b.of <= b.sum * a.of
<1> DEFINE lacking(p) == TrimmedMean(OfPhase(less, p), from, to)
           having(p) == TrimmedMean(OfPhase(more, p), from, to)
           c == (Len(Window(less, from, to)) * KeepNum) \div KeepDen
           d == (Len(Window(more, from, to)) * KeepNum) \div KeepDen
           a == ForeignTrip(less, from, to)
           b == ForeignTrip(more, from, to)
<1>1. Sorted(less)
  BY WindowRemoved, SamplesAreTimed
<1>2. ASSUME NEW p \in Phase
      PROVE  /\ lacking(p).sum \in Nat /\ lacking(p).of \in Nat
             /\ having(p).sum \in Nat /\ having(p).of \in Nat
             /\ lacking(p).sum * having(p).of <= having(p).sum * lacking(p).of
             /\ lacking(p).of = c /\ having(p).of = d
  <2> DEFINE u == OfPhase(less, p)
             v == OfPhase(more, p)
  <2>1. /\ u \in Seq(SelfSample)
        /\ Len(Window(u, from, to)) = Len(Window(less, from, to))
    BY <1>1, PhaseWindow
  <2>2. /\ v \in Seq(SelfSample) /\ Sorted(v)
        /\ Len(Window(v, from, to)) = Len(Window(more, from, to))
    BY PhaseWindow
  <2>3. Without(u, v, i)
    BY PhaseWithout
  <2>4. Len(v) = Len(more) /\ v[i].at = more[i].at /\ v[i].value = more[i].value[p]
    BY PhaseSample
  <2>5. \A j \in 1..Len(Window(v, from, to)) :
          Window(v, from, to)[j].value <= v[i].value
    <3>1. \A j \in 1..Len(Window(more, from, to)) :
            Window(v, from, to)[j].value = Window(more, from, to)[j].value[p]
      BY PhaseValues
    <3> HIDE DEF v
    <3> QED
      BY <2>2, <2>4, <3>1
  <2> HIDE DEF u, v
  <2>6. i \in 1..Len(v) /\ v[i].at \in from..to
    BY <2>4
  <2>7. LET x == TrimmedMean(u, from, to)
            y == TrimmedMean(v, from, to)
        IN  /\ x.sum \in Nat /\ x.of \in Nat /\ y.sum \in Nat /\ y.of \in Nat
            /\ x.sum * y.of <= y.sum * x.of
            /\ x.of = (Len(Window(u, from, to)) * KeepNum) \div KeepDen
            /\ y.of = (Len(Window(v, from, to)) * KeepNum) \div KeepDen
    BY <2>1, <2>2, <2>3, <2>5, <2>6, MeanWithout
  <2> QED
    BY <2>1, <2>2, <2>7 DEF u, v
<1>3. /\ a.sum = lacking("tcp").sum + lacking("tls").sum + lacking("http").sum
      /\ a.of = 3 * lacking("tcp").of
      /\ b.sum = having("tcp").sum + having("tls").sum + having("http").sum
      /\ b.of = 3 * having("tcp").of
  BY DEF ForeignTrip, Phase
<1>4. "tcp" \in Phase /\ "tls" \in Phase /\ "http" \in Phase
  BY DEF Phase
<1> HIDE DEF lacking, having, a, b, c, d
<1>5. /\ lacking("tcp").sum \in Nat /\ lacking("tls").sum \in Nat /\ lacking("http").sum \in Nat
      /\ having("tcp").sum \in Nat /\ having("tls").sum \in Nat /\ having("http").sum \in Nat
      /\ c \in Nat /\ d \in Nat /\ lacking("tcp").of = c /\ having("tcp").of = d
      /\ lacking("tcp").sum * d <= having("tcp").sum * c
      /\ lacking("tls").sum * d <= having("tls").sum * c
      /\ lacking("http").sum * d <= having("http").sum * c
  <2>1. /\ lacking("tcp").sum \in Nat /\ having("tcp").sum \in Nat
        /\ c \in Nat /\ d \in Nat /\ lacking("tcp").of = c /\ having("tcp").of = d
        /\ lacking("tcp").sum * d <= having("tcp").sum * c
    BY <1>2, <1>4
  <2>2. /\ lacking("tls").sum \in Nat /\ having("tls").sum \in Nat
        /\ lacking("tls").sum * d <= having("tls").sum * c
    BY <1>2, <1>4
  <2>3. /\ lacking("http").sum \in Nat /\ having("http").sum \in Nat
        /\ lacking("http").sum * d <= having("http").sum * c
    BY <1>2, <1>4
  <2> QED
    BY <2>1, <2>2, <2>3
<1>6. (lacking("tcp").sum + lacking("tls").sum + lacking("http").sum) * (3 * d)
        <= (having("tcp").sum + having("tls").sum + having("http").sum) * (3 * c)
  BY <1>5, ThreeTimes
<1>7. a.sum \in Nat /\ a.of \in Nat /\ b.sum \in Nat /\ b.of \in Nat
  BY <1>1, TripIsNat DEF a, b
<1>8. a.sum * b.of <= b.sum * a.of
  <2>1. /\ a.of = 3 * c /\ b.of = 3 * d
    BY <1>3, <1>5
  <2> QED
    BY <1>3, <1>6, <2>1, Zenon
<1> QED
  BY <1>7, <1>8 DEF a, b

(***************************************************************************)
(* For any probes and any trimming: without a probe that is no faster than *)
(* the others of its window the responsiveness would be no lower, whether  *)
(* or not the trimming drops it (trimmed_mean, compute_responsiveness).    *)
(***************************************************************************)
THEOREM SlowProbesLowerTheFigure == Spec => []SlowProbesNeverHelp
<1>1. ASSUME IInv PROVE SlowProbesNeverHelp
  <2>1. /\ foreign \in Seq(ForeignSample) /\ Sorted(foreign)
        /\ loaded \in Seq(SelfSample) /\ Sorted(loaded)
    BY <1>1 DEF IInv, ProbesKept
  <2>2. ASSUME NEW from \in Instant, NEW to \in from..MaxTime,
               Rpm(foreign, loaded, from, to) # None, NEW i \in 1..Len(loaded),
               loaded[i].at \in from..to,
               \A s \in ToSet(Window(loaded, from, to)) : s.value <= loaded[i].value
        PROVE  NotAbove(Rpm(foreign, loaded, from, to),
                        Rpm(foreign, RemoveAt(loaded, i), from, to))
    <3> DEFINE less == RemoveAt(loaded, i)
               w == Window(loaded, from, to)
               f == ForeignTrip(foreign, from, to)
               l == TrimmedMean(less, from, to)
               m == TrimmedMean(loaded, from, to)
    <3>1. from \in Int /\ to \in Int /\ from <= to
      BY MeasurementsAssumption DEF Instant
    <3>2. less \in Seq(SelfSample) /\ Without(less, loaded, i)
      BY <2>1, Removed
    <3> HIDE DEF less
    <3>3. \A j \in 1..Len(w) : w[j].value <= loaded[i].value
      <4>1. w \in Seq(SelfSample)
        BY <2>1, <3>1, WindowLength, SamplesAreTimed
      <4> HIDE DEF w
      <4>2. \A j \in 1..Len(w) : w[j] \in ToSet(w)
        BY <4>1 DEF ToSet
      <4> QED
        BY <2>2, <4>2 DEF w
    <3>4. /\ l.sum \in Nat /\ l.of \in Nat /\ m.sum \in Nat /\ m.of \in Nat
          /\ l.sum * m.of <= m.sum * l.of
      BY <2>1, <2>2, <3>1, <3>2, <3>3, MeanWithout
    <3>5. f.sum \in Nat /\ f.of \in Nat
      BY <2>1, <3>1, TripIsNat
    <3>6. /\ Rpm(foreign, loaded, from, to) = Mid(RateOf(f), RateOf(m))
          /\ Rpm(foreign, less, from, to) # None
               => Rpm(foreign, less, from, to) = Mid(RateOf(f), RateOf(l))
      BY <2>2 DEF Rpm
    <3> HIDE DEF f, l, m
    <3>7. LET x == Mid(RateOf(f), RateOf(m))
              y == Mid(RateOf(f), RateOf(l))
          IN  x.sum * y.of <= y.sum * x.of
      BY <3>4, <3>5, SlowerLoaded
    <3> QED
      BY <3>6, <3>7 DEF NotAbove, less
  <2>3. ASSUME NEW from \in Instant, NEW to \in from..MaxTime,
               Rpm(foreign, loaded, from, to) # None, NEW i \in 1..Len(foreign),
               foreign[i].at \in from..to,
               \A s \in ToSet(Window(foreign, from, to)) :
                 \A p \in Phase : s.value[p] <= foreign[i].value[p]
        PROVE  NotAbove(Rpm(foreign, loaded, from, to),
                        Rpm(RemoveAt(foreign, i), loaded, from, to))
    <3> DEFINE less == RemoveAt(foreign, i)
               w == Window(foreign, from, to)
               f == TrimmedMean(loaded, from, to)
               l == ForeignTrip(less, from, to)
               m == ForeignTrip(foreign, from, to)
    <3>1. from \in Int /\ to \in Int /\ from <= to
      BY MeasurementsAssumption DEF Instant
    <3>2. less \in Seq(ForeignSample) /\ Without(less, foreign, i)
      BY <2>1, Removed
    <3> HIDE DEF less
    <3>3. \A j \in 1..Len(w) : \A p \in Phase : w[j].value[p] <= foreign[i].value[p]
      <4>1. w \in Seq(ForeignSample)
        BY <2>1, <3>1, WindowLength, SamplesAreTimed
      <4> HIDE DEF w
      <4>2. \A j \in 1..Len(w) : w[j] \in ToSet(w)
        BY <4>1 DEF ToSet
      <4> QED
        BY <2>3, <4>2 DEF w
    <3>4. /\ l.sum \in Nat /\ l.of \in Nat /\ m.sum \in Nat /\ m.of \in Nat
          /\ l.sum * m.of <= m.sum * l.of
      BY <2>1, <2>3, <3>1, <3>2, <3>3, TripWithout
    <3>5. f.sum \in Nat /\ f.of \in Nat
      BY <2>1, <3>1, MeanIsNat
    <3>6. /\ Rpm(foreign, loaded, from, to) = Mid(RateOf(m), RateOf(f))
          /\ Rpm(less, loaded, from, to) # None
               => Rpm(less, loaded, from, to) = Mid(RateOf(l), RateOf(f))
      BY <2>3 DEF Rpm
    <3> HIDE DEF f, l, m
    <3>7. LET x == Mid(RateOf(m), RateOf(f))
              y == Mid(RateOf(l), RateOf(f))
          IN  x.sum * y.of <= y.sum * x.of
      BY <3>4, <3>5, SlowerForeign
    <3> QED
      BY <3>6, <3>7 DEF NotAbove, less
  <2>4. DOMAIN loaded = 1..Len(loaded) /\ DOMAIN foreign = 1..Len(foreign)
    BY <2>1
  <2> QED
    BY <2>2, <2>3, <2>4 DEF SlowProbesNeverHelp
<1> QED
  BY <1>1, InvHolds, PTL
=============================================================================
