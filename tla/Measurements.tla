---------------------------- MODULE Measurements ----------------------------
(***************************************************************************)
(* How measurements reach the series of a test and what is read off them:  *)
(* a load reports its running total in the order of time, sometimes twice  *)
(* in one instant, while a probe is recorded at the instant it started and *)
(* whenever it ends, so probes arrive in any order and land in windows     *)
(* that were already read.  The loop may read any window at any time.      *)
(***************************************************************************)
EXTENDS Series

CONSTANTS
  MaxTime,    \* instants of the run
  Latency,    \* what a self probe may measure
  SlowPhases, \* the sets of phases that may be slow in a foreign probe
  Chunk,      \* what a load may transfer between two reports
  MaxProbes,  \* bound: probes of each kind
  MaxEvents,  \* bound: reports, probes and instants together
  MaxTotal    \* bound: bytes of the load

Phase == {"tcp", "tls", "http"}

ASSUME MeasurementsAssumption ==
  /\ MaxTime \in Nat /\ MaxTotal \in Nat
  /\ MaxProbes \in Nat /\ MaxEvents \in Nat
  /\ Latency \subseteq Nat \ {0} /\ Latency # {} /\ IsFiniteSet(Latency)
  /\ SlowPhases \subseteq SUBSET Phase /\ Chunk \subseteq Nat

Instant == 0..MaxTime

(***************************************************************************)
(* The latencies of the phases of a foreign probe: a slow phase takes the  *)
(* longest of Latency, another the shortest.                               *)
(***************************************************************************)
Handshake ==
  {[p \in Phase |-> IF p \in slow THEN Max(Latency) ELSE Min(Latency)] :
     slow \in SlowPhases}

VARIABLES
  now,      \* the clock
  total,    \* the bytes the load has transferred
  counter,  \* the load's total_bytes_series
  foreign,  \* ForeignProbeResults: a sample has a latency for each phase
  loaded,   \* SelfProbeResults
  taken,    \* history: the probes of each kind, with their start
  bytesAt   \* history: the total at the end of every instant so far

probeVars == << foreign, loaded, taken >>
loadVars == << now, total, counter, bytesAt >>
vars == << loadVars, probeVars >>

(***************************************************************************)
(* The body reports a zero when it is created.                             *)
(***************************************************************************)
Init ==
  /\ now = 0 /\ total = 0
  /\ counter = CounterAdded(<< >>, Sample(0, 0))
  /\ foreign = << >> /\ loaded = << >>
  /\ taken = [foreign |-> EmptyBag, loaded |-> EmptyBag]
  /\ bytesAt = [t \in Instant |-> 0]

Room == now + Len(counter) + Len(foreign) + Len(loaded) <= MaxEvents

(***************************************************************************)
(* Time passes, and the load reports what it has transferred since; the    *)
(* end of a body sends the same count a second time.                       *)
(***************************************************************************)
Report(chunk, twice) ==
  /\ Room /\ now < MaxTime /\ total + chunk <= MaxTotal
  /\ now' = now + 1 /\ total' = total + chunk
  /\ counter' =
       LET sample == Sample(now', total')
           once == CounterAdded(counter, sample)
       IN  IF twice THEN CounterAdded(once, sample) ELSE once
  /\ bytesAt' = [t \in Instant |-> IF t >= now' THEN total' ELSE bytesAt[t]]
  /\ UNCHANGED probeVars

Quiet ==
  /\ now < MaxTime
  /\ now' = now + 1
  /\ UNCHANGED << total, counter, bytesAt, probeVars >>

(***************************************************************************)
(* ForeignProbeResults::add and SelfProbeResults::add.  The series of the  *)
(* three phases of a foreign probe have the same times and are therefore   *)
(* kept as one.                                                            *)
(***************************************************************************)
ForeignEnds(start, handshake) ==
  /\ Room /\ Len(foreign) < MaxProbes /\ start <= now
  /\ foreign' \in Added(foreign, Sample(start, handshake))
  /\ taken' = [taken EXCEPT
       !.foreign = @ (+) SetToBag({Sample(start, handshake)})]
  /\ UNCHANGED << loadVars, loaded >>

SelfEnds(start, latency) ==
  /\ Room /\ Len(loaded) < MaxProbes /\ start <= now
  /\ loaded' \in Added(loaded, Sample(start, latency))
  /\ taken' = [taken EXCEPT
       !.loaded = @ (+) SetToBag({Sample(start, latency)})]
  /\ UNCHANGED << loadVars, foreign >>

Next ==
  \/ \E chunk \in Chunk, twice \in BOOLEAN : Report(chunk, twice)
  \/ Quiet
  \/ \E start \in Instant, handshake \in Handshake : ForeignEnds(start, handshake)
  \/ \E start \in Instant, latency \in Latency : SelfEnds(start, latency)

Spec == Init /\ [][Next]_vars

-----------------------------------------------------------------------------
(* The responsiveness of a window.                                         *)

OfPhase(probes, p) ==
  [i \in DOMAIN probes |-> Sample(probes[i].at, probes[i].value[p])]

(***************************************************************************)
(* The mean of a foreign round trip: that of the three trimmed means.      *)
(***************************************************************************)
ForeignTrip(probes, from, to) ==
  LET mean == [p \in Phase |-> TrimmedMean(OfPhase(probes, p), from, to)]
  IN  [sum |-> mean["tcp"].sum + mean["tls"].sum + mean["http"].sum,
       of |-> 3 * mean["tcp"].of]

(***************************************************************************)
(* compute_responsiveness: None without a sample left of either kind or    *)
(* with a mean that is not positive, else the average of the two rates,    *)
(* as a fraction.                                                          *)
(***************************************************************************)
Minute == 60000

Positive(mean) == mean.of > 0 /\ mean.sum > 0

RateOf(mean) == [sum |-> Minute * mean.of, of |-> mean.sum]

Mid(a, b) == [sum |-> a.sum * b.of + b.sum * a.of, of |-> 2 * a.of * b.of]

RpmOfOneKind(foreignProbes, selfProbes, from, to) ==
  LET f == ForeignTrip(foreignProbes, from, to)
      l == TrimmedMean(selfProbes, from, to)
  IN  IF ~Positive(f) THEN None
      ELSE IF ~Positive(l) THEN RateOf(f) ELSE Mid(RateOf(f), RateOf(l))

Rpm(foreignProbes, selfProbes, from, to) ==
  LET f == ForeignTrip(foreignProbes, from, to)
      l == TrimmedMean(selfProbes, from, to)
  IN  IF Positive(f) /\ Positive(l) THEN Mid(RateOf(f), RateOf(l)) ELSE None

(***************************************************************************)
(* BpsMeasurement::from_loaded_connections: the average of a load's        *)
(* counter, which is uploaded as its bits per second.                      *)
(***************************************************************************)
AimBps == CounterAverage(counter)

-----------------------------------------------------------------------------
(***************************************************************************)
(* A window holds every probe that started in it, as often as it was       *)
(* measured, and no other, whatever the order in which the probes ended    *)
(* (TimeSeries::add and sample_interval).                                  *)
(***************************************************************************)
StartedIn(probes, from, to) ==
  RestrictDomain(probes, LAMBDA s : s.at \in from..to)

WindowIsExact ==
  \A from \in Instant : \A to \in from..MaxTime :
    /\ ToBag(Window(foreign, from, to)) = StartedIn(taken.foreign, from, to)
    /\ ToBag(Window(loaded, from, to)) = StartedIn(taken.loaded, from, to)

(***************************************************************************)
(* A window measures a responsiveness if and only if at least two probes   *)
(* of each kind started in it: of a single one the trimming leaves         *)
(* nothing.  A figure that is reported is a number, and what is read off a *)
(* window is never a division by zero (compute_responsiveness, with        *)
(* trimmed_mean).                                                          *)
(***************************************************************************)
RpmNeedsBothKinds ==
  \A from \in Instant : \A to \in from..MaxTime :
    LET rpm == Rpm(foreign, loaded, from, to)
    IN  /\ rpm # None <=>
             /\ BagCardinality(StartedIn(taken.foreign, from, to)) >= 2
             /\ BagCardinality(StartedIn(taken.loaded, from, to)) >= 2
        /\ rpm # None => rpm.of > 0

(***************************************************************************)
(* A slow answer cannot improve the figure: had a probe that is no faster  *)
(* than the others of its window not been made, or, for a foreign probe,   *)
(* no faster in any phase, the responsiveness would be no lower, whether   *)
(* the trimming drops that probe or another ("We keep all values less than *)
(* the given percentile", nq_stats/mod.rs trimmed_mean).                   *)
(***************************************************************************)
NotAbove(a, b) == b # None => a.sum * b.of <= b.sum * a.of

SlowProbesNeverHelp ==
  \A from \in Instant : \A to \in from..MaxTime :
    LET rpm == Rpm(foreign, loaded, from, to)
        others(probes) == ToSet(Window(probes, from, to))
    IN  rpm # None =>
          /\ \A i \in DOMAIN loaded :
               /\ loaded[i].at \in from..to
               /\ \A s \in others(loaded) : s.value <= loaded[i].value
               => NotAbove(rpm, Rpm(foreign, RemoveAt(loaded, i), from, to))
          /\ \A i \in DOMAIN foreign :
               /\ foreign[i].at \in from..to
               /\ \A s \in others(foreign) :
                    \A p \in Phase : s.value[p] <= foreign[i].value[p]
               => NotAbove(rpm, Rpm(RemoveAt(foreign, i), loaded, from, to))

(***************************************************************************)
(* The bytes of a window are what the load transferred between the report  *)
(* before the window and its end: never negative, for any window, and the  *)
(* same although the last count is reported twice (CounterSeries, of which *)
(* the goodput of an interval is made).                                    *)
(***************************************************************************)
BytesOfWindow ==
  \A from, to \in 0..now :
    from <= to =>
      IntervalSum(counter, from, to)
        = bytesAt[to] - (IF from = 0 THEN 0 ELSE bytesAt[from - 1])

(***************************************************************************)
(* "`None` means this window held no probe measurements at all"            *)
(* (nq_rpm/mod.rs:399).                                                    *)
(***************************************************************************)
NoneMeansNoProbes ==
  \A from \in Instant : \A to \in from..MaxTime :
    Rpm(foreign, loaded, from, to) = None =>
      Window(foreign, from, to) = << >> /\ Window(loaded, from, to) = << >>

(***************************************************************************)
(* "The bits per second of the transfer" (aim_report.rs:147).              *)
(***************************************************************************)
BpsIsBits == AimBps.sum = 8 * total
=============================================================================
