---------------------------- MODULE Convergence ----------------------------
(***************************************************************************)
(* How a responsiveness test decides that it may stop: the part of         *)
(* on_interval that follows the connection ramp (which Responsiveness      *)
(* models).  Each interval adds a goodput and a responsiveness figure to   *)
(* their series, compares the deviation of the recent ones with the        *)
(* tolerance, and latches what has settled.                                *)
(*                                                                         *)
(* Goodput is in bytes per window of four intervals, which is proportional *)
(* to the bits per second of the code; an optional figure is a set of at   *)
(* most one.  What the loads transfer and the probes measure in an         *)
(* interval is arbitrary, save that nothing is seen at interval 0, whose   *)
(* window ends where the test begins.                                      *)
(***************************************************************************)
EXTENDS Series, FiniteSetsExt

CONSTANTS
  MAD,        \* config.moving_average_distance
  TolNum,     \* config.std_tolerance is TolNum / TolDen
  TolDen,
  Rate,       \* bytes the loads may transfer in one interval
  Rpm,        \* figures the probes of a window may yield
  Intervals   \* bound: the interval the time limit lies after

ASSUME ConvergenceAssumption ==
  /\ MAD \in Nat \ {0} /\ TolNum \in Nat /\ TolDen \in Nat \ {0}
  /\ Rate \subseteq Nat /\ Rpm \subseteq Nat \ {0} /\ Intervals \in Nat

VARIABLES
  pc,                \* "running" or "done"
  interval,          \* the interval whose tick comes next
  moved,             \* bytes transferred up to the end of each interval
  goodputs,          \* average_goodput_series
  rpms,              \* rpm_series
  capacity,          \* the last goodput that was stable
  goodputSaturated,
  rpm,               \* the latched responsiveness, then the reported one
  lastRpm,           \* the newest measured responsiveness
  rpmSaturated,
  measured           \* history: the responsiveness figures measured

vars == << pc, interval, moved, goodputs, rpms, capacity, goodputSaturated,
           rpm, lastRpm, rpmSaturated, measured >>

Init ==
  /\ pc = "running" /\ interval = 0
  /\ moved = << >> /\ goodputs = << >> /\ rpms = << >>
  /\ capacity = 0 /\ goodputSaturated = FALSE
  /\ rpm = {} /\ lastRpm = {} /\ rpmSaturated = FALSE
  /\ measured = {}

(***************************************************************************)
(* current_average_throughput: the bytes of the last four intervals.       *)
(***************************************************************************)
GoodputSpan == 4

MovedBy(totals, i) == IF i < 0 THEN 0 ELSE totals[i + 1]

Goodput(totals, i) == MovedBy(totals, i) - MovedBy(totals, i - GoodputSpan)

(***************************************************************************)
(* The figures a deviation is taken of: those stamped within the moving    *)
(* average distance before the end of interval i, both ends included.      *)
(***************************************************************************)
Recent(series, i) == Values(Window(series, i - MAD, i))

Settled(series, i, current) ==
  StdBelow(Recent(series, i), current, TolNum, TolDen)

(***************************************************************************)
(* An interval without a figure counts as one of zero.                     *)
(***************************************************************************)
AsSampleIfAny(series, i, current) ==
  IF current = {} THEN {series} ELSE Added(series, Sample(i, Max(current)))

AsSample(series, i, current) ==
  Added(series, Sample(i, Max(current \union {0})))

NewestEvenNone(current) == current

Newest(current) == IF current = {} THEN lastRpm ELSE current

OnInterval(bytes, current) ==
  /\ pc = "running"
  /\ interval = 0 => bytes = 0 /\ current = {}
  /\ moved' = Append(moved, MovedBy(moved, interval - 1) + bytes)
  /\ LET goodput == Goodput(moved', interval) IN
       /\ goodputs' \in Added(goodputs, Sample(interval, goodput))
       /\ IF Settled(goodputs', interval, goodput)
          THEN capacity' = goodput /\ goodputSaturated' = TRUE
          ELSE UNCHANGED << capacity, goodputSaturated >>
  /\ rpms' \in AsSample(rpms, interval, current)
  /\ lastRpm' = Newest(current)
  /\ IF Settled(rpms', interval, Max(current \union {0}))
     THEN rpm' = {Max(current \union {0})} /\ rpmSaturated' = TRUE
     ELSE UNCHANGED << rpm, rpmSaturated >>
  /\ measured' = measured \union current

(***************************************************************************)
(* select_reported_rpm, once the loop has ended.                           *)
(***************************************************************************)
Reported(latched, newest) == IF latched # {} THEN latched ELSE newest

Report == pc' = "done" /\ rpm' = Reported(rpm, lastRpm)

Tick ==
  /\ interval <= Intervals
  /\ ~(goodputSaturated /\ rpmSaturated)
  /\ \E bytes \in Rate \union {0}, current \in {{}} \union {{r} : r \in Rpm} :
       OnInterval(bytes, current)
  /\ interval' = interval + 1
  /\ UNCHANGED pc

(***************************************************************************)
(* The loop ends when both have saturated, or earlier, by the time limit   *)
(* or by a shutdown.                                                       *)
(***************************************************************************)
Finish ==
  /\ pc = "running"
  /\ Report
  /\ UNCHANGED << interval, moved, goodputs, rpms, capacity, goodputSaturated,
                  lastRpm, rpmSaturated, measured >>

Next == Tick \/ Finish

Spec == Init /\ [][Next]_vars

-----------------------------------------------------------------------------
TypeOK ==
  /\ pc \in {"running", "done"} /\ interval \in 0..(Intervals + 1)
  /\ moved \in Seq(Nat) /\ Len(moved) = interval
  /\ Len(goodputs) = interval /\ Len(rpms) = interval
  /\ capacity \in Nat
  /\ goodputSaturated \in BOOLEAN /\ rpmSaturated \in BOOLEAN
  /\ rpm \subseteq Nat /\ lastRpm \subseteq Rpm /\ measured \subseteq Rpm

(***************************************************************************)
(* No figure is declared stable while the ramp is within the window: the   *)
(* zero that interval 0 contributes keeps the deviation up until it has    *)
(* left the window ("that inflation is the only thing currently preventing *)
(* responsiveness from being declared stable during the ramp",             *)
(* nq_rpm/mod.rs:411).                                                     *)
(***************************************************************************)
NotStableInRamp ==
  goodputSaturated \/ rpmSaturated => interval > MAD + 1

(***************************************************************************)
(* What is latched was measured: "a probe-less interval can never latch    *)
(* 0 RPM" (nq_rpm/mod.rs:448), however many intervals measure nothing.     *)
(***************************************************************************)
LatchedWasMeasured == rpm \subseteq measured

(***************************************************************************)
(* A finished test reports a figure if any interval measured one: neither  *)
(* a last interval without probes nor an unstable test loses it            *)
(* (select_reported_rpm).                                                  *)
(***************************************************************************)
MeasuredIsReported == pc = "done" => (rpm = {} <=> measured = {})

(***************************************************************************)
(* "If goodput saturation has been declared: [...] declare responsiveness  *)
(* saturation" (nq_rpm/mod.rs:348).                                        *)
(***************************************************************************)
RpmAfterGoodput == rpmSaturated => goodputSaturated

(***************************************************************************)
(* "The number of total bytes of data transferred within interval p and    *)
(* the MAD (Moving Average Distance) - 1 immediately preceding intervals"  *)
(* (nq_rpm/mod.rs:528).                                                    *)
(***************************************************************************)
GoodputSpansMAD ==
  \A i \in 1..(interval - 1) :
    goodputs[i + 1].value = MovedBy(moved, i) - MovedBy(moved, i - MAD)

(***************************************************************************)
(* "The standard deviation of the past MAD responsiveness values"          *)
(* (nq_rpm/mod.rs:352).                                                    *)
(***************************************************************************)
DeviationOfMADValues ==
  \A i \in 0..(interval - 1) : Len(Recent(rpms, i)) <= MAD
=============================================================================
