# A TLA+ verification of `mach` (networkquality-rs)

`mach` measures the quality of a network: responsiveness under load (RPM), capacity,
latency, packet loss, and plain transfers. This directory models the part of it that is
concurrent or numerically delicate, checks the models with TLC, and proves the central
results for every value of the constants with TLAPS. Source paths below are relative to
the repository; every modelled definition is listed with its lines in `PROJECT.json`.

## 1. Inventory

| Component | State it keeps | Operations | Correct when | Module |
|---|---|---|---|---|
| Bodies (`src/nq_core/body`) | bytes counted, whether Finished was sent, an event channel | `CountingBody::poll_frame`, `UploadBody::poll_frame` | the final count precedes Finished, which is sent once; a broken body is not a finished one | `BodyEvents` |
| `ThroughputClient` (`src/nq_core/client.rs`) | one task per request, a clone of the body's sender, the `InflightBody` | send, create the response body, `consume_body`, `wait_for_finish` | a failure the body cannot see reaches the channel; nobody waits on a dead transfer | `UploadLoad`, `DownloadTransfer` |
| Load generator (`src/nq_load_generator`) | `LoadState` of each load; for an upload the driver (`UploadReissue`), its `CumulativeRelay` and `watch_tail` tasks | new connection, update, stop, re-issue, relay | cumulative totals are exact across requests, failures genuine, final and noticed, tasks end | `LoadState`, `LoadContract`, `UploadLoad`, `DownloadTransfer` |
| Responsiveness loop (`src/nq_rpm`, `run_test`) | loads, probe results, failure and starvation counts, latched figures | the branches of its `select!`, the connection policy, the ramp | one probe at a time, no figure off an idle link, an end in every run | `Responsiveness` |
| Convergence (`src/nq_rpm`, `on_interval`) | goodput and RPM series, latched figures | one interval, `select_reported_rpm` | nothing stable during the ramp, only measured figures latched or reported | `Convergence` |
| Series (`src/nq_stats`) | sorted samples, cumulative counters | add, window, means, deviation | a window holds exactly what happened in it | `Series`, `Measurements` |
| Connections (`src/nq_core/connection`, `src/nq_tokio_network`) | timing stamps, the registry, a task per connection | resolve, connect, TLS, HTTP handshake, register, send, shutdown | phases neither overlap nor include each other; a shutdown ends what the program owns of a connection | `Connection` |
| Packet loss (`src/nq_packetloss`) | message tracker, sender task, data channel, two loads | the branches of its `select!`, `send_messages` | the count is that of distinct returned messages, the test ends | `PacketLoss` |
| Latency test (`src/nq_latency`) | one series | one run | the latency is that of the TCP handshake | kind "latency" of `Connection`; its requests in `Commands` |
| Commands (`src/main.rs`, `rpm.rs`, `saturate.rs`, `up_down.rs`, `latency.rs`, `packet_loss.rs`) | the phase of the run, a token per leg, the task that uploads AIM scores | dispatch, phases, legs, cancellation, report, exit | legs of `rpm` do not load each other's link, only a whole report is printed, every run exits | `Commands` |
| Scoped headers and credentials (`src/nq_core/scoped_headers.rs`, `access.rs`) | an allowed domain and its headers | match a host, apply to a request | the token goes to hosts under the domain and to no others, on every request | `ScopedHeaders`, `Commands` |
| Reports (`src/report.rs`, `aim_report.rs`) | none over time | build, refuse, upload | no placeholder stands for a figure that is missing | when they exist in `Commands`, the rate of a load in `Measurements`; formatting is not modelled |
| Arguments (`src/args`) | none over time | parse | the options that change the course of a run are the constants and the `command` of the models | choices in `Commands`; the rest is not modelled |

How they interact: a test loop asks the load generator for a connection and gets it
through a oneshot; body events flow over unbounded channels (for an upload through the
driver) and are drained on each tick of the interval timer; probes are tasks that post
their result, or an error, on the loop's bounded channel; one cancellation token is
shared by the loop, the drivers, the body consumers, the connection tasks and the
registry of connections. There are no locks held across a decision except those of one
connection's handle; all concurrency is between tokio tasks and through channels.

What is hard here: the response to an upload arrives after its last byte, when the next
request is already under way; a dead HTTP/2 stream never polls its body again, so a failure has
no voice of its own; an HTTP/2 stream outlives the task that the shutdown ends; a channel that closes means failure, success or teardown depending on
what is buffered; probes keep themselves going through their results; samples are stamped
with a time other than the one at which they are added; windows are read about one interval late;
an error of one leg leaves its tasks running until the program exits; requests are made in eight places,
each of which has to decide on the scoped headers anew.
`PROJECT.json` lists each of these hazards at its line with the properties aimed at it.

## 2. Modules

```
BodyEvents <- LoadState <- UploadLoad        -- refines --> LoadContract
                      \--- DownloadTransfer  -- refines --> LoadContract
Responsiveness (a load is how its transfer stands and what the loop has seen of it)
Series <- Measurements, Convergence
ScopedHeaders <- Commands  (a leg is one run of Responsiveness)
PacketLoss            Connection
each but the pure operators has its proofs beside it: UploadLoad_proofs, DownloadTransfer_proofs,
Responsiveness_proofs, Measurements_proofs, Convergence_proofs, Connection_proofs,
PacketLoss_proofs, Commands_proofs
```

**BodyEvents**, **LoadState**: pure operators. `FrameEvents`, `EndEvents` and
`ErrorEvents` are the three arms of `CountingBody::poll_frame`; `Drain` and `StopLoad`
are `LoadState::drain` and `LoadedConnection::stop`, taking the queue as it stands and
whether its senders are gone.

**LoadContract** is the abstract specification: a load is offered once, its total never
decreases, its outcome is decided at most once, and nothing happens after the loop let go
of it. The two transfer modules are shown to implement it. It is what lets the event loop be
modelled without the tasks behind its loads: there a load is how its transfer stands (`link`) and what
the loop has been told of it (`seen`), and `LoadsSeenTruly` relates the two.

**UploadLoad**: one upload connection. `PollFrame`/`PollClosed`/`BodyDropped` are hyper
polling, or dropping, the body; `HandOver`, `Accepted`, `Rejected`, `ResponseLost` the
client task; `DriverStart` ... `DriverFails` the positions of `UploadReissue::run`
(`recv`: in its `select!`, `await`: waiting for the next request to be handed over);
`TailForwards`/`TailEnds` are `watch_tail`; `Update`, `Stop`, `Abandon` the
test loop. The driver's select is unbiased in the code, so its branches are separate
actions. `bad` is a history variable: the requests that went wrong before any shutdown.

`protocol` tells what the task the program spawns for a connection (`http.rs:149-203`) owns, and so
what a shutdown cuts off. Over HTTP/1.1 that is the connection. Over HTTP/2 it is only hyper's
dispatcher of new requests: the connection proper, the bodies and the futures of the responses are tasks that
hyper spawned on its executor and that never see the token. `ConnectionShutdown` therefore closes an HTTP/1.1
connection, while an HTTP/2 one is `draining`: it refuses new requests, may lose those not dispatched
yet, and carries the streams in flight on. `DownloadTransfer` (`CutOff`) and `Connection` (`Served`,
`CutOff`) make the same distinction.

**DownloadTransfer**: one GET, whose consumer is either the loop or `wait_for_finish`. Only once the
response has come does anything of the program look at the token (`consume_body`).

**Responsiveness**: `run_test`. Each branch of the `select!` is one action which includes
all the calls the branch makes: `IntervalTick` updates the loads, applies the error
policy with its two early returns, ramps, and takes the interval's figures. The test at
the foot of the loop (`TimeUp`) is part of every branch. What an interval measures is
nondeterministic within what the probe results and loads permit; `Convergence` is the
detailed model of that part. The error policy is a variable that never changes, so one run
covers both.

**Series**: `TimeSeries` and `CounterSeries` over integers; a mean is a pair (sum, count)
and the comparison of a standard deviation with a tolerance is done on squares, so there is no
rounding. Where a binary search may stop at any of several equal times, `Slots` is the
set of places. **Measurements** feeds both series the way the program does and reads any window
at any time. `Rpm` there is `compute_responsiveness` in exact fractions: a foreign probe has a
latency for each phase, the three trimmed means are averaged, and the mean of the two rates per minute
is the figure, `None` when either kind has nothing left after the trimming.

**Convergence**: `on_interval` after the ramp, with the series' own operators.

**Connection**: one request from resolution to its answer, for the four kinds of user (a
foreign probe and a transfer through the client, the latency test, a self probe on an
existing connection). Each step takes an arbitrary time; `took` records how long each
phase really took and the properties compare the stamps with it.

**PacketLoss**: `run_test` and `send_messages`. WebRTC is external: from its use in
`webrtc_data_channel.rs` (unordered, no retransmission) a message may be lost or
overtaken but returns at most once. `packet_loss.rs` itself never cancels the token it
passes; the shutdown is modelled because `run_test` takes one.

**ScopedHeaders**: matching a host and adding a header to a request. A host is a sequence over
four symbols: the allowed domain as configured, the same in other letter case, a dot, and any
other text, which is enough to write every case the matching tells apart (a subdomain `.s`, a name that
merely ends alike `xs`, a trailing dot `s.`, letter case `S`). `UnderDomain` is the reference it is
compared with: the last label, not the text.

**Commands**: one run of the program from dispatch to exit. `pc` is the phase, `command` what the
command line chose; `Exit` is the return of `main`, which ends every task. Of a leg it keeps how it ends,
which figures it yields, its token and the transfers its loads have under way; that a leg ends at
all is `Terminates` of `Responsiveness`. Every request of the program is made here, to an arbitrary
host, through `Ask`, which applies the scoped headers the client was given.
`TransferEnds` may happen at any time, also after the leg; a transfer whose token was not cancelled
may also never end.

Each module has its configurations beside it and needs no separate instance module: all
constants are numbers, or flags of the code's configuration. There is no symmetry to use:
requests, messages and connections are numbered in the order they are created, and the
code depends on that order.

Operators such as `RebasedNot` or `GivesUpLate` that stand directly before the definition they
vary are *faulty variants*, the mistakes the properties are meant to catch; nothing in a
specification uses them. `PROJECT.json` ("mutants") says which property each one breaks.

## 3. What the runs check

| Run | Bounds | Shows |
|---|---|---|
| `UploadLoad_safety` | 2 requests of 3 units, frames of 2 | types, `RelayExact`, `LoopNotAhead`, `FailureIsGenuine`, `ImplementsContract` |
| `UploadLoad_live` | 2 requests of 1 unit, both protocols | `FailureIsNoticed`, `ShutdownEndsAll` (the driver, and over HTTP/1.1 every task, ends whatever the peer does; over HTTP/2 the rest ends with a peer that reads and answers), `LettingGoEndsAll` |
| `DownloadTransfer` | a body of 3 units, both consumers, both protocols | `CompleteMeansAll`, `FailureIsGenuine`, `ImplementsContract`, `NoZombie`, `WaiterAnswered` |
| `Responsiveness` | 3 intervals, 3 connections, 2 probe results, both policies, fair | the probe chain (`AtMostOneProbe`, `SelfFollowsForeign`), `RpmNeedsLoad`, `NoDegradedResult`, `FailuresOnlyGrow`, `LoadsSeenTruly`, `Terminates` |
| `PacketLoss_sent` | 4 messages, batches of 1, fair | `CountIsDistinct`, `UnsentMeansCutShort`, `EndsOnceOpen`, `ShutdownEnds` |
| `Measurements_windows` | 4 instants, 3 probes of each kind, latencies 1 and 3, 6 bytes, 6 events | `WindowIsExact`, `BytesOfWindow`, `RpmNeedsBothKinds`, `SlowProbesNeverHelp` |
| `Convergence_stable` | 7 intervals, moving average distance 2, tolerance 5% | `NotStableInRamp`, `LatchedWasMeasured`, `MeasuredIsReported` |
| `Connection` | each step takes 0 to 2, every protocol | `ProbeFiguresAreExact`, `ShutdownEnds` |
| `Commands` | hosts of up to 2 symbols, 1 transfer per leg, fair | `TokenStaysInScope`, `LegsRunAlone`, `ReportIsWhole`, `Exits` |
| `Responsiveness_probes` | violated | one failed probe, once its error is handled, ends probing |
| `PacketLoss_early` | violated | the last message is never sent |
| `Connection_latency` | violated | the latency includes name resolution |

Why the bounds are enough. *Upload*: the driver holds at most two requests at a time (the
current one and the one it awaits), and three units in frames of two give a full frame,
a short last frame and a periodic count in between; more requests repeat the same
situation, and the safety properties are proved for every number of them.
The liveness run uses one frame per request because its properties are about tasks
ending, not about totals. *Responsiveness*: three connections is all the ramp can start in three
intervals, enough for one to fail, one to be refused and one to survive, and for two
starved intervals in a row; again the safety part is proved for every bound.
*Packet loss*: three batches are sent, with messages from different batches in flight
together. *Measurements*: three probes give two with the same start and a third on
either side; four instants give windows that start before, at, between and after the samples; the
trimming drops one of two or of three, and a foreign probe may be slow in one phase, in two or in none, so that
a probe can be the slowest in one phase only.
*Convergence*: MAD + 2 intervals must pass before anything can be stable, and seven leave room for
stability, a stall, and a recovery. *Connection*: two units are enough
to tell every phase from every other and to give odd and even TLS times for the division by the
round trips. *Commands*: two symbols write the domain, a subdomain, a look-alike, a trailing dot and
either letter case; one transfer per leg is enough to outlive it. For hosts of any length and any
number of transfers the safety properties are proved.

Deadlock checking is off everywhere: every one of these systems is meant to stop.

### Fairness

* The program's own tasks run (weak fairness per task): tokio is a fair scheduler, and a
  closed channel or a cancelled token stays so.
* `select!` picks among ready branches at random; a branch that stays ready is taken in the
  end. In `PacketLoss` this is fairness per branch; in `Responsiveness` only the timer's
  branch is assumed fair, as the interval's tick stays due until it is taken.
* A connection attempt settles (the operating system gives up in the end). hyper resolves
  what is left on a dead stream.
* In `Commands` a running leg ends (`Terminates` of `Responsiveness`), the code between the legs and the
  exit runs, and the timeout of the score upload fires. A phase that waits for a peer need not end.
* Nothing is assumed of the peer or of the network: it may never read, answer or close.
  `LettingGoEndsAll` needs a peer that reads and answers, and has that as its hypothesis: letting go
  of a load does not cancel a request whose bytes nobody takes. So have the second conjuncts of
  `ShutdownEndsAll` and of `ShutdownEnds` in `Connection`, which say what becomes of HTTP/2 streams that
  are in flight at a shutdown; their first conjuncts say what ends without the peer. `WaiterAnswered`
  leaves out a request over HTTP/2 whose response had not come when the token was cancelled.

## 4. What is proved

All eight proof modules are checked by TLAPS from nothing, with the assumptions named in the
models (`BoundAssumption`, `MaxConnsAssumption`, ...) and no others, save the two hypotheses that two
theorems name in their statements, `SmallTolerance` and `TrimsOne`.

**`UploadLoad_proofs`**, for every bound, frame size and number of requests: type correctness,
`RelayExact`, `LoopNotAhead`, `FailureIsGenuine`, `CounterMonotone`, and that the load implements
`LoadContract`. None of these is inductive alone, because the totals travel through two queues.
The invariant is `IInv == TypeOK /\ Positions /\ Counting /\ LoopTotals /\ FailuresBlamed /\
NeverFinishes`:

* `Positions` ties the driver's position to the states of the requests before, at and after `cur`;
* `Counting` says of the current request's channel that its counts ascend up to what the body has
  counted, and that Finished comes only after a count of the whole bound. This is what makes
  `Completed` add exactly `Bound`;
* `LoopTotals` says the same of the channel to the loop, up to what the relay has seen;
* `FailuresBlamed` says that a Failed in any queue has a request in `bad`, or a shutdown, behind
  it, and that senders disappear silently only for such a cause;
* `NeverFinishes` says that Finished is never forwarded, so an upload cannot complete.

There is one lemma per group of actions, under it one step per conjunct, and lemmas about what
appending to and removing from a queue does to each conjunct.

**`Responsiveness_proofs`**, for every duration, load limit, policy and number of probes: type
correctness, `AtMostOneProbe`, `SelfFollowsForeign`, `RpmNeedsLoad`, `NoDegradedResult`,
`FailuresOnlyGrow` and `LoadsSeenTruly`. The invariant is `IInv == TypeOK /\ RampBound /\
AtMostOneProbe /\ SelfFollowsForeign /\ LoadComesFirst /\ CountLags /\ NotDegraded`. `RampBound`
(connections against ticks, ticks against time) is needed for type correctness itself: it shows
that the ramp never asks for more than `MaxConns`, so that this bound cuts nothing off.
`LoadComesFirst` carries "some load was seen" from the first self probe to the figure. `CountLags`
says that the loop's count of failures is at most the number of failed loads it sees, from which
monotonicity follows because a failed load stays failed. `LoadsSeenTruly` has an invariant of its own,
`LinkInv`: what was not started is unused, what the loop was given had been established, and nothing
falls silent before the shutdown. `LookIsTrue` says that one look at a load (`Updated`) tells the truth.

**`PacketLoss_proofs`**, for every number of messages and batch size: type correctness,
`CountIsDistinct` and `UnsentMeansCutShort`. The count is that of the TRUE flags of a sequence
into which a flag is *inserted*, so it is exact only because no message is counted twice. The
invariant is `IInv == Fields /\ Queues /\ OpensOnce /\ Numbered /\ Truthful /\ CountIsDistinct`:
`OpensOnce` (the channel opens once, so the numbering never restarts), `Numbered` (every message
in flight, queued or back has a number below the next one and is in one place only), and
`Truthful` (a notice that everything was sent comes from a sender at its end). `TrackingAddsOne`
is the lemma about insertion, by a bijection between the flags before and after.

**`Convergence_proofs`**, for every rate, figure, tolerance and distance: `LatchedWasMeasured` and
`MeasuredIsReported`. The invariant says that the latched and the newest figure are measured ones
and that there is a newest one as soon as there is any; `ZeroNeverSettles` shows why the zero that
stands for an interval without a figure is never latched.

`NotStableInRamp` is proved under `SmallTolerance`, that `2 (MAD + 1) tolerance^2` is at most 1:
the defaults (a distance of 4, 5%) satisfy it with room to spare, up to a tolerance of 31%. The
invariant, `RampInv`, says of the three series that they hold one figure per interval, at the time
of that interval, and that the one of interval 0 is zero. In the ramp the window of a figure
therefore holds that zero and the newest figure `c`, and `ZeroKeepsApart` says that `n` numbers,
one of them 0 and another `c`, have a variance of at least `c^2 / 2n` (`Spread`, an induction over
sets of positions), which a small tolerance never allows. The hypothesis is needed and exact: with
`--mad 4` and a `--std` above 0.3163 the averages `c, c/2, c/2, c/2, 0` are declared stable in the
ramp.

**`Commands_proofs`**, for hosts of every length and any number of transfers: `ScopeIsByLabel`
(the normalised comparison admits exactly the hosts whose last label is the domain),
`TokenStaysInScope`, `LegsRunAlone` and `ReportIsWhole`. The invariant says which command may be
in which phase, how the legs stand in it, that a leg that is done has a cancelled token, and what
is printed when.

**`DownloadTransfer_proofs`**, for a body of any size, cut into frames in any way: type
correctness, `CompleteMeansAll`, `FailureIsGenuine`, and that a download load implements
`LoadContract`. The invariant is `IInv == TypeOK /\ Stages /\ InTransit(chan, Known, counted) /\
LastWord /\ FailuresBlamed /\ CompleteMeansAll`. `InTransit` says of the events on their way that
their counts ascend from what the consumer knows to what the body has counted, and that Finished
directly follows the count of the whole body, which is what makes it true for the consumer when it
is read; `LastWord` that Finished is sent once and no failure follows it; `FailuresBlamed` that a
Failed event, and a body that went away without Finished, have a cause. `BurstInTransit` is the
lemma about what one poll of the body adds to the channel, `HeadTaken` and `AllTaken` are those
about the waiter, which takes one event at a time, and the loop, which takes all there are.

**`Connection_proofs`**, for steps of any length: type correctness and `ProbeFiguresAreExact`. The
invariant adds `ForeignStamps` and `SelfStamps`, which tie the clock and every stamp to the phases
that are over: at each stage of the set-up the clock is the start plus the last stamp, the stamps
are the sums of the phases' times, and a phase that has not begun has taken nothing. The self
probe's clock starts at its own request, whatever the age of the connection.

**`Measurements_proofs`**, for any number of probes, instants and reports: `WindowIsExact` and
`BytesOfWindow`. The invariant is that the series are in the order of time and hold what was taken
(`ProbesKept`), and that the counter starts with the zero report, is in order, and has, up to any
instant, the total of that instant as its last entry (`TotalsKept`). The lemmas are about the
operators of `Series`: on a series in order a search returns the length of a prefix
(`Partitioned`), so that a window is a slice of it (`WindowIsSlice`); every slot that the binary
search may stop at keeps the order (`SlotsKeepOrder`); an insertion adds one sample to the bag
(`InsertedBag`), and a window has the bag of its times (`WindowBag`), both by a bijection between
positions.

The same module proves `RpmNeedsBothKinds` and `SlowProbesNeverHelp`, for any number of probes and
any latencies. Neither needs more of the state than `ProbesKept`; they rest on what sorting,
trimming and averaging do:

* `Series` states sorting by what it yields: at position k stands the value that fewer than k are
  below and at least k are not above. `OrderStatistic` shows that there is one, the
  least value that at least k are not above, and `KthGrows` that they ascend. A unique description of each place lets two sorted windows be
  compared place by place.
* A total is a fold over the set of positions. `SumsExist` gives the recursive sum a meaning on
  every finite set, by well-founded induction on subsets, and `SumTakesAny` that its terms may be
  taken in any order; `BagAsLong`, `SumIsPositive` and `SumBounded` follow from it.
* `TwoProbesOfEither`: what trimming keeps of n values is empty exactly for n < 2 (`KeptCount`), a
  kept mean is positive because latencies are, and the windows are as long as the bags that
  `WindowsHoldWhatStarted` says they hold. The hypothesis `TrimsOne`, that the trimming drops one
  of two values and keeps one, holds of the default 95% and of every percentage from 50 up to, but
  without, 100.
* `SlowProbesLowerTheFigure` has no hypothesis. A window without a probe is the same window
  without one place (`WindowRemoved`), and its sorted values are the first ones of the longer
  (`SortedWithout`). One more value keeps at most one more of them (`KeptStep`), and that one is
  not below the rest, so the mean cannot fall (`MeanOfMore`) and the rate cannot rise (`Slower`);
  for a foreign probe this is added up over its three phases (`TripWithout`).

**Model-checked only.** Liveness and everything under fairness (`FailureIsNoticed`,
`ShutdownEndsAll`, `LettingGoEndsAll`, `NoZombie`, `WaiterAnswered`, `Terminates`, `EndsOnceOpen`,
`ShutdownEnds`, `Exits`), which the provers here do not reach. Every safety and action property of
a passing run is proved; the properties of the three runs that end in a violation have no theorem,
since the code does not have them.

## 5. Where the code and its documentation part

Three runs show a violation and are findings in `PROJECT.json`:

* **One failed probe ends probing** (`src/nq_rpm/mod.rs:263`, doc at 211): an error is
  only logged, but the next probe is sent only from the handler of the last one's result.
* **The last message may never be sent** (`src/nq_packetloss/mod.rs:263`, comment at 184):
  the end is tested with `message_count + 1 >= num_packets`.
* **The latency includes name resolution** (`src/nq_latency/mod.rs:86`, doc at
  `src/nq_core/connection/mod.rs:153`): the lookup is stamped on a copy.

Further statements of the documentation are formulas in the models, each with a
configuration of its own that TLC refutes; they are kept out of the regular runs:

| Configuration | Formula | Statement |
|---|---|---|
| `UploadLoad_terminal` | `FailedIsTerminal` | "will produce no further bytes" (`counting_body.rs:28-34`): after a late rejection the driver goes on |
| `UploadLoad_teardown` | `TeardownIsNotFailure` | "the consumer tells teardown apart from a failure" (`nq_load_generator/mod.rs:243-246`): a load updated after a cancellation but before its stop is a failed one |
| `Responsiveness_limit` | `MaxLoadsRespected` | "The maximum number of loaded connections" (`args/rpm.rs:119`): connections still opening are not counted |
| `Responsiveness_count` | `ResultCountsFailures` | "connections that terminated early with an error" (`nq_rpm/mod.rs:960`): the count is older than the loads beside it |
| `Responsiveness_replace` | `ReplacementWasTried` | "Aborts only if load can no longer be sustained at all" (`nq_rpm/mod.rs:38`): two starved ticks may pass without the even one that ramps |
| `PacketLoss_tracker` | `TrackerIsPerMessage` | "stored as false until a response is received" (`nq_packetloss/mod.rs:87`): `insert` shifts the flags behind it; the count remains right |
| `Measurements_single` | `NoneMeansNoProbes` | "`None` means this window held no probe measurements at all" (`nq_rpm/mod.rs:399`): the trimmed mean keeps none of one sample |
| `Measurements_bits` | `BpsIsBits` | "The bits per second of the transfer" (`aim_report.rs:147`): for a load it is the average of the byte counter, which is bytes per second |
| `Convergence_gated` | `RpmAfterGoodput` | "If goodput saturation has been declared" (`nq_rpm/mod.rs:348`): not tested, as the comment at 411 admits |
| `Convergence_span` | `GoodputSpansMAD` | "the MAD - 1 immediately preceding intervals" (`nq_rpm/mod.rs:528`): the span is a literal four |
| `Convergence_deviation` | `DeviationOfMADValues` | "the past MAD responsiveness values" (`nq_rpm/mod.rs:352`): the window is closed at both ends and holds one more |
| `Connection_dns` | `DnsIsRecorded` | "Returns the DNS lookup duration" (`connection/mod.rs:128`): it is measured on a timing that is thrown away, and transfers report zero |
| `Connection_handles` | `ClosedDropsAll` | "Drop all `SendRequest` structs" (`connection/map.rs:58`): a connection registered afterwards keeps its own |
| `Connection_streams` | `CloseCancelsAll` | "effectively cancelling all connections" (`connection/map.rs:58`): an HTTP/2 stream that is open goes on while its peer is silent |

## 6. Abstractions and limits

* Inside a channel timestamps are left out: events are queued in the order their stamps are taken.
* Data is counted in abstract units; no counter comes near the width of `usize` or `f64`'s
  53 bits at the rates of a test, so widths are not modelled.
* `upload_bytes_per_request` is assumed positive. Zero would make an upload an endless
  sequence of empty requests.
* Two different totals within one clock tick are left out of `Measurements`;
  `CounterSeries::add` would store them in the wrong order.
* The loop's bounded channel (1024 events) is never near its limit: one probe is outstanding at a
  time, and a connection posts one event.
* `Convergence` takes the figure of an interval as arbitrary; the formula is that of `Measurements`.
  Quantiles (the median), jitter, progress reports and logging are not modelled.
* `Commands` gives a leg any set of figures in which a responsiveness comes with a goodput and a
  loaded latency, which is all `Responsiveness` and `Measurements` say about them together.
* A URL of the command line that has no host is refused by the client before a request exists.
* `Connection` models one connection; the registry's other entries do not influence it.
* What hyper does is taken from how the program uses it: which tasks serve a stream (section 2), and that an
  HTTP/1.1 connection still busy with an earlier request may or may not refuse the next upload
  (`MayRefuse`). The response of an upload is read and dropped by `consume_body`; nothing depends on it.
* Latencies in `Measurements` are positive. The guard against a mean of zero
  (`src/nq_rpm/mod.rs:866`) is part of `Rpm`, but only a side without samples reaches it.
* In `Commands` the first request of each load of the packet loss test is made in phase `loss`, and those its
  upload issues later by `LoadReissues`, as for a leg.

What the models show of the code and no statement of its documentation contradicts: a leg that fails
never cancels its token (its tasks end with the program, `LegsRunAlone` says why that disturbs no other
leg); when both legs of `saturate` run, the failure of one is printed as its absence; the scores may
be uploaded although the report fails afterwards, and then carry a responsiveness of 0.0, as the comment at
`aim_report.rs:80` admits; the synthetic entry made of a leg's result multiplies bits per second by the
duration and calls the product bytes (`aim_report.rs:168`); the headers `download` accepts on its command line are not
used; the token of a latency test is never cancelled.

## 7. Plan

Done, in this order: `BodyEvents`, `LoadState`, `LoadContract`, `UploadLoad`,
`DownloadTransfer`, `Responsiveness`, their first proofs, `PacketLoss`, `Series`,
`Measurements`, `Convergence`, `Connection`; then the responsiveness formula, `ScopedHeaders`,
`Commands`, and the proofs about `Convergence`, `PacketLoss`, `Commands`, `DownloadTransfer`,
`Connection`, `Measurements` and the formula of responsiveness.

Next:

1. Proofs: that `Rpm` is never above the fastest round trip's rate, and that an interval of the
   counter sums up to the total of the test.
2. Packet loss with its loads through `LoadContract`: it neither updates them nor replaces them.
3. A registry of several connections, for the cancellation of one while another is being
   registered.

Not modelled: formatting of reports and progress bars, logging, the figures `download` and `upload`
print, medians and jitter, the declarative part of the argument parser, and WebRTC, TLS, HTTP and DNS
themselves, which are libraries and appear by what the code can observe of them.
