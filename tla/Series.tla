------------------------------- MODULE Series -------------------------------
(***************************************************************************)
(* The two series measurements are kept in (nq_stats): TimeSeries, the     *)
(* samples of a probe phase or of a per-interval figure, and CounterSeries,*)
(* the running byte total of one load.  A sample is a record of a time and *)
(* a value; values are naturals, and a fraction is kept as a pair of them. *)
(***************************************************************************)
EXTENDS Integers, Sequences, FiniteSets, SequencesExt

CONSTANTS
  KeepNum,  \* trimmed_mean_percent is KeepNum / KeepDen
  KeepDen

ASSUME KeepAssumption ==
  KeepNum \in Nat /\ KeepDen \in Nat \ {0} /\ KeepNum <= KeepDen

Sample(at, value) == [at |-> at, value |-> value]
None == [sum |-> 0, of |-> 0]

(***************************************************************************)
(* partition_point on sorted times: how many samples lie before, or not    *)
(* after, a time.                                                          *)
(***************************************************************************)
Before(series, t) == Cardinality({i \in DOMAIN series : series[i].at < t})

UpTo(series, t) == Cardinality({i \in DOMAIN series : series[i].at <= t})

(***************************************************************************)
(* TimeSeries::add: where a sample may be inserted.  Among equal times the *)
(* binary search may stop at any.                                          *)
(***************************************************************************)
SlotsAtTheEnd(series, t) == {Len(series) + 1}

Slots(series, t) ==
  LET same == {i \in DOMAIN series : series[i].at = t}
  IN  IF same = {} THEN {Before(series, t) + 1} ELSE same

AddedOnce(series, sample) ==
  {IF i \in DOMAIN series /\ series[i].at = sample.at
   THEN [series EXCEPT ![i] = sample]
   ELSE InsertAt(series, i, sample) : i \in Slots(series, sample.at)}

Added(series, sample) ==
  {InsertAt(series, i, sample) : i \in Slots(series, sample.at)}

(***************************************************************************)
(* TimeSeries::sample_interval: from the newest sample not after `to` back *)
(* to the first one before `from`.                                         *)
(***************************************************************************)
WindowEnd(series, to) ==
  SelectLastInSeq(series, LAMBDA s : s.at <= to)

Window(series, from, to) ==
  LET last == WindowEnd(series, to)
      cut == SelectLastInSeq(SubSeq(series, 1, last), LAMBDA s : s.at < from)
  IN  Reverse(SubSeq(series, cut + 1, last))

Values(series) == [i \in DOMAIN series |-> series[i].value]

Total(values) == FoldSeq(LAMBDA v, sum : v + sum, 0, values)

(***************************************************************************)
(* trimmed_mean: the average of the lowest samples, as a sum and a count;  *)
(* None of no sample.  At position k of the sorted values stands the one   *)
(* that fewer than k of them are below, and at least k not above.          *)
(***************************************************************************)
Ascending(values) ==
  LET lower(x) == {i \in DOMAIN values : values[i] < x}
      upTo(x) == {i \in DOMAIN values : values[i] <= x}
  IN  [k \in DOMAIN values |->
         CHOOSE x \in ToSet(values) :
           Cardinality(lower(x)) < k /\ k <= Cardinality(upTo(x))]

KeptUnsorted(values) == SubSeq(values, 1, (Len(values) * KeepNum) \div KeepDen)

Kept(values) ==
  SubSeq(Ascending(values), 1, (Len(values) * KeepNum) \div KeepDen)

Average(values) == [sum |-> Total(values), of |-> Len(values)]

TrimmedMean(series, from, to) == Average(Kept(Values(Window(series, from, to))))

(***************************************************************************)
(* std(values) < bound * num / den, without the square root: the variance  *)
(* is the mean square less the squared mean, scaled by the count squared.  *)
(***************************************************************************)
StdAtMost(values, bound, num, den) ==
  LET n == Len(values)
      squares == Total([i \in DOMAIN values |-> values[i] * values[i]])
      sum == Total(values)
  IN  /\ n > 0
      /\ den * den * (n * squares - sum * sum) <= num * num * bound * bound * n * n

StdBelow(values, bound, num, den) ==
  LET n == Len(values)
      squares == Total([i \in DOMAIN values |-> values[i] * values[i]])
      sum == Total(values)
  IN  /\ n > 0
      /\ bound > 0
      /\ den * den * (n * squares - sum * sum) < num * num * bound * bound * n * n

(***************************************************************************)
(* CounterSeries::add: at the end when newer than the last, or before the  *)
(* samples that are not older.                                             *)
(***************************************************************************)
CounterAdded(series, sample) ==
  IF series # << >> /\ sample.at > Last(series).at
  THEN Append(series, sample)
  ELSE InsertAt(series, Before(series, sample.at) + 1, sample)

(***************************************************************************)
(* CounterSeries::interval_sum: the last total in the interval less the    *)
(* last one before it, or less the first of all.                           *)
(***************************************************************************)
IntervalStartInside(series, from) == Before(series, from) + 1

IntervalStart(series, from) ==
  IF Before(series, from) = 0 THEN 1 ELSE Before(series, from)

IntervalSum(series, from, to) ==
  LET start == IntervalStart(series, from)
      end == UpTo(series, to)
  IN  IF start > end THEN 0 ELSE series[end].value - series[start].value

(***************************************************************************)
(* CounterSeries::average: the sum between the first and the last report   *)
(* over the time between them; None if they are at one instant.            *)
(***************************************************************************)
CounterAverage(series) ==
  LET from == series[1].at
      to == Last(series).at
  IN  IF from = to THEN None
      ELSE [sum |-> IntervalSum(series, from, to), of |-> to - from]
=============================================================================
