--------------------------- MODULE Responsiveness ---------------------------
(***************************************************************************)
(* The event loop of one leg of the responsiveness test                    *)
(* (Responsiveness::run_test): it opens load-generating connections on a   *)
(* ramp, keeps a chain of probes going, looks at its loads on every tick   *)
(* of the interval timer, and ends when the figures are stable, the time   *)
(* is up, the token is cancelled or the error policy gives up.             *)
(*                                                                         *)
(* A load is abstract here: `link` is how the transfer really stands and   *)
(* `seen` what the loop's LoadedConnection says of it.  What an interval's *)
(* numbers come to is left open, as far as the probe results and loads at  *)
(* hand permit.                                                            *)
(*                                                                         *)
(* Time counts whole intervals: `now` = k means that a little more than k  *)
(* intervals have passed since the start.                                  *)
(***************************************************************************)
EXTENDS Naturals, FiniteSets

CONSTANTS
  MaxLoads,    \* config.max_loaded_connections
  Duration,    \* config.test_duration, in intervals
  Policies,    \* the values of config.on_connection_error considered
  LoadOnly,    \* config.determine_load_only
  MaxConns,    \* model bound on connections; never reached, by assumption
  MaxProbes    \* model bound on the probes that are answered

ASSUME MaxLoadsAssumption == MaxLoads \in Nat
ASSUME DurationAssumption == Duration \in Nat
ASSUME PoliciesAssumption == Policies \subseteq {"Retire", "Abort"}
ASSUME LoadOnlyAssumption == LoadOnly \in BOOLEAN
ASSUME MaxConnsAssumption ==
  MaxConns \in Nat /\ MaxConns >= 2 + (Duration \div 2)
ASSUME MaxProbesAssumption == MaxProbes \in Nat

Conn == 1..MaxConns
Probe == {"foreign", "self"}
Source == {"probe", "connection"}

VARIABLES
  policy,    \* config.on_connection_error, which no step changes
  pc,        \* the loop: "running", "ending", "done", or how it gave up
  now,       \* time since the start
  ticks,     \* ticks of the interval timer handled so far
  shutdown,  \* the shutdown token is cancelled
  created,   \* load-generating connections started so far
  link,      \* how each transfer really stands
  seen,      \* LoadState of each connection pushed to the LoadGenerator
  errors,    \* Error events not handled yet, of probes and of connections
  flying,    \* probes sent and not ended, of each kind
  answers,   \* ForeignProbe and SelfProbe events not handled yet
  results,   \* probe results recorded, of each kind
  failed,    \* Responsiveness::failed_connections
  starved,   \* Responsiveness::starved_intervals
  stable,    \* goodput_saturated and rpm_saturated
  rpm,       \* what would be reported: "none", "last" or "saturated"
  tried      \* history: a connection was started since all loads were lost

timeVars == << now, ticks >>
loadVars == << created, link, seen >>
probeVars == << flying, answers, results >>
verdictVars == << policy, failed, starved, stable, rpm, tried >>
vars == << policy, pc, now, ticks, shutdown, created, link, seen, errors,
           flying, answers, results, failed, starved, stable, rpm, tried >>

LinkState ==
  {"unused", "opening", "refused", "up", "failed", "complete", "silent"}

Active == pc \in {"running", "ending"}

Ongoing(s) == {c \in Conn : s[c] = "ongoing"}
FailedLoads(s) == {c \in Conn : s[c] = "failed"}

(***************************************************************************)
(* The loop's NewLoadedConnection event for c is waiting to be handled.    *)
(***************************************************************************)
Offered(c) ==
  link[c] \in {"up", "failed", "complete", "silent"} /\ seen[c] = "no"

-----------------------------------------------------------------------------
Init ==
  /\ policy \in Policies
  /\ pc = "running" /\ now = 0 /\ ticks = 0 /\ shutdown = FALSE
  /\ created = 1
  /\ link = [c \in Conn |-> IF c = 1 THEN "opening" ELSE "unused"]
  /\ seen = [c \in Conn |-> "no"]
  /\ errors = [e \in Source |-> 0]
  /\ flying = [p \in Probe |-> IF p = "foreign" /\ ~LoadOnly THEN 1 ELSE 0]
  /\ answers = [p \in Probe |-> 0]
  /\ results = [p \in Probe |-> 0]
  /\ failed = 0 /\ starved = 0
  /\ stable = [goodput |-> FALSE, rpm |-> FALSE]
  /\ rpm = "none" /\ tried = FALSE

-----------------------------------------------------------------------------
(* The world outside the loop.                                             *)

(***************************************************************************)
(* The clock is cut off once the time is up.                               *)
(***************************************************************************)
Advance ==
  /\ Active /\ now <= Duration
  /\ now' = now + 1
  /\ UNCHANGED << pc, ticks, shutdown, loadVars, errors, probeVars,
                  verdictVars >>

Shutdown ==
  /\ Active /\ ~shutdown
  /\ shutdown' = TRUE
  /\ UNCHANGED << pc, timeVars, loadVars, errors, probeVars, verdictVars >>

LinkStep(c, from, to) ==
  /\ Active /\ link[c] = from
  /\ link' = [link EXCEPT ![c] = to]
  /\ UNCHANGED << pc, timeVars, shutdown, created, seen, probeVars,
                  verdictVars >>

Opens(c) == LinkStep(c, "opening", "up") /\ UNCHANGED errors

Reports(e) == errors' = [errors EXCEPT ![e] = @ + 1]

Refused(c) == LinkStep(c, "opening", "refused") /\ Reports("connection")

Fails(c) == LinkStep(c, "up", "failed") /\ UNCHANGED errors

Completes(c) == LinkStep(c, "up", "complete") /\ UNCHANGED errors

(***************************************************************************)
(* At shutdown the tasks behind a load end without a word.                 *)
(***************************************************************************)
FallsSilent(c) ==
  shutdown /\ LinkStep(c, "up", "silent") /\ UNCHANGED errors

ProbeAnswered(p) ==
  /\ Active /\ flying[p] > 0
  /\ results["foreign"] + results["self"] < MaxProbes
  /\ flying' = [flying EXCEPT ![p] = @ - 1]
  /\ answers' = [answers EXCEPT ![p] = @ + 1]
  /\ UNCHANGED << pc, timeVars, shutdown, loadVars, errors, results,
                  verdictVars >>

ProbeFails(p) ==
  /\ Active /\ flying[p] > 0
  /\ flying' = [flying EXCEPT ![p] = @ - 1]
  /\ Reports("probe")
  /\ UNCHANGED << pc, timeVars, shutdown, loadVars, answers, results,
                  verdictVars >>

-----------------------------------------------------------------------------
(* The branches of the loop's select.                                      *)

(***************************************************************************)
(* After every branch the loop ends if it was told to or the time is up.   *)
(***************************************************************************)
TimeUpNever == FALSE

TimeUp == now >= Duration

LoopsOn(stop) == pc' = IF stop \/ TimeUp THEN "ending" ELSE "running"

OnNewLoad(c) ==
  /\ pc = "running" /\ Offered(c)
  /\ seen' = [seen EXCEPT ![c] = "ongoing"]
  /\ LoopsOn(FALSE)
  /\ UNCHANGED << timeVars, shutdown, created, link, errors, probeVars,
                  verdictVars >>

(***************************************************************************)
(* A result of kind p is recorded and a probe of kind `next` sent.         *)
(***************************************************************************)
OnProbe(p, next) ==
  /\ pc = "running" /\ answers[p] > 0
  /\ answers' = [answers EXCEPT ![p] = @ - 1]
  /\ results' = [results EXCEPT ![p] = @ + 1]
  /\ flying' = [flying EXCEPT ![next] = @ + 1]
  /\ LoopsOn(FALSE)
  /\ UNCHANGED << timeVars, shutdown, loadVars, errors, verdictVars >>

NextAfterForeignAlwaysSelf == "self"

(***************************************************************************)
(* After a foreign probe comes a self probe, on one of the loads believed  *)
(* to be ongoing, or another foreign probe when there is none.             *)
(***************************************************************************)
NextAfterForeign == IF Ongoing(seen) # {} THEN "self" ELSE "foreign"

NextAfterSelfAgain == "self"

NextAfterSelf == "foreign"

OnForeignProbe == OnProbe("foreign", NextAfterForeign)

OnSelfProbe == OnProbe("self", NextAfterSelf)

OnErrorRestartsChain(e) ==
  /\ pc = "running" /\ errors[e] > 0
  /\ errors' = [errors EXCEPT ![e] = @ - 1]
  /\ flying' = [flying EXCEPT !["foreign"] = @ + 1]
  /\ LoopsOn(FALSE)
  /\ UNCHANGED << timeVars, shutdown, loadVars, answers, results,
                  verdictVars >>

(***************************************************************************)
(* An error, of a probe or of a connection, is only logged.                *)
(***************************************************************************)
OnError(e) ==
  /\ pc = "running" /\ errors[e] > 0
  /\ errors' = [errors EXCEPT ![e] = @ - 1]
  /\ LoopsOn(FALSE)
  /\ UNCHANGED << timeVars, shutdown, loadVars, probeVars, verdictVars >>

OnShutdown ==
  /\ pc = "running" /\ shutdown
  /\ pc' = "ending"
  /\ UNCHANGED << timeVars, shutdown, loadVars, errors, probeVars,
                  verdictVars >>

-----------------------------------------------------------------------------
(* The interval timer.                                                     *)

(***************************************************************************)
(* What draining a load that is believed to be ongoing makes of it.        *)
(***************************************************************************)
Drained(s, l) ==
  IF s # "ongoing" THEN s
  ELSE CASE l = "failed" \/ l = "silent" -> "failed"
         [] l = "complete" -> "finished"
         [] OTHER -> "ongoing"

Updated == [c \in Conn |-> Drained(seen[c], link[c])]

TickDue == pc = "running" /\ ticks <= now

(***************************************************************************)
(* The first tick fires at once and only updates the loads.                *)
(***************************************************************************)
FirstTick ==
  /\ TickDue /\ ticks = 0
  /\ ticks' = 1
  /\ seen' = Updated
  /\ LoopsOn(FALSE)
  /\ UNCHANGED << now, shutdown, created, link, errors, probeVars,
                  verdictVars >>

(***************************************************************************)
(* enforce_connection_error_policy: failures are recounted, a new one      *)
(* aborts the test under "Abort", and so does a second interval in a row   *)
(* with failures and no load left.                                         *)
(***************************************************************************)
CountNewOnly(s) == Cardinality(FailedLoads(s) \ FailedLoads(seen))

Count(s) == Cardinality(FailedLoads(s))

PolicyAbortsOnSecond(s) == policy = "Abort" /\ Count(s) > failed + 1

PolicyAborts(s) == policy = "Abort" /\ Count(s) > failed

StarvedNow(s) ==
  IF FailedLoads(s) # {} /\ Ongoing(s) = {} THEN starved + 1 ELSE 0

GivesUpLate(s) == StarvedNow(s) > 2

GivesUp(s) == StarvedNow(s) >= 2

(***************************************************************************)
(* The ramp: a further connection on every other interval, while fewer     *)
(* than the limit are believed to be ongoing.                              *)
(***************************************************************************)
RampsEveryTick(s) == Cardinality(Ongoing(s)) < MaxLoads

Ramps(s) == Cardinality(Ongoing(s)) < MaxLoads /\ (ticks - 1) % 2 = 0

Ramp(s) ==
  IF Ramps(s)
    THEN /\ created' = created + 1
         /\ link' = [link EXCEPT ![created + 1] = "opening"]
         /\ tried' = (Ongoing(s) = {})
    ELSE /\ tried' = (tried /\ Ongoing(s) = {})
         /\ UNCHANGED << created, link >>

(***************************************************************************)
(* The interval's figures: responsiveness is measured only if both kinds   *)
(* of probe have results, and only a measured value can be stable; goodput *)
(* can be stable only if some load has transferred.                        *)
(***************************************************************************)
Measure(s) ==
  \E measured, rpmStable, goodputStable \in BOOLEAN :
    /\ measured => results["foreign"] > 0 /\ results["self"] > 0
    /\ rpmStable => measured
    /\ goodputStable => \E c \in Conn : s[c] # "no"
    /\ stable' = [goodput |-> stable.goodput \/ goodputStable,
                  rpm |-> stable.rpm \/ rpmStable]
    /\ rpm' = IF rpmStable \/ rpm = "saturated" THEN "saturated"
              ELSE IF measured THEN "last" ELSE rpm
    /\ LoopsOn(stable'.goodput /\ stable'.rpm)

(***************************************************************************)
(* A later tick: the loads are updated and on_interval runs, to its end or *)
(* to the error that aborts the test.                                      *)
(***************************************************************************)
IntervalTick ==
  /\ TickDue /\ ticks > 0
  /\ seen' = Updated
  /\ failed' = Count(Updated)
  /\ IF PolicyAborts(Updated)
       THEN /\ pc' = "aborted by policy"
            /\ UNCHANGED << ticks, created, link, starved, stable, rpm, tried >>
       ELSE /\ starved' = StarvedNow(Updated)
            /\ IF GivesUp(Updated)
                 THEN /\ pc' = "aborted starved"
                      /\ UNCHANGED << ticks, created, link, stable, rpm,
                                      tried >>
                 ELSE /\ Ramp(Updated)
                      /\ Measure(Updated)
                      /\ ticks' = ticks + 1
  /\ UNCHANGED << policy, now, shutdown, errors, probeVars >>

FinishUnseen ==
  /\ pc = "ending"
  /\ pc' = "done"
  /\ UNCHANGED << timeVars, shutdown, loadVars, errors, probeVars,
                  verdictVars >>

(***************************************************************************)
(* After the loop: every load is stopped, which drains its channel once    *)
(* more but takes no silent end for a failure.                             *)
(***************************************************************************)
Finish ==
  /\ pc = "ending"
  /\ pc' = "done"
  /\ seen' = [c \in Conn |->
                IF link[c] = "silent" THEN seen[c] ELSE Updated[c]]
  /\ UNCHANGED << timeVars, shutdown, created, link, errors, probeVars,
                  verdictVars >>

-----------------------------------------------------------------------------
World ==
  \/ Advance \/ Shutdown
  \/ \E c \in Conn :
       Opens(c) \/ Refused(c) \/ Fails(c) \/ Completes(c) \/ FallsSilent(c)
  \/ \E p \in Probe : ProbeAnswered(p) \/ ProbeFails(p)

Loop ==
  \/ \E c \in Conn : OnNewLoad(c)
  \/ \E e \in Source : OnError(e)
  \/ OnForeignProbe \/ OnSelfProbe \/ OnShutdown
  \/ FirstTick \/ IntervalTick

Next == World \/ Loop \/ Finish

Spec == Init /\ [][Next]_vars

(***************************************************************************)
(* The clock advances, a due tick is handled in the end although select    *)
(* picks among the ready branches at random, and the code after the loop   *)
(* runs.  Nothing is assumed of connections or probes.                     *)
(***************************************************************************)
Fairness ==
  WF_vars(Advance) /\ WF_vars(FirstTick \/ IntervalTick) /\ WF_vars(Finish)

FairSpec == Spec /\ Fairness

-----------------------------------------------------------------------------
TypeOK ==
  /\ policy \in Policies
  /\ pc \in {"running", "ending", "done", "aborted by policy",
             "aborted starved"}
  /\ now \in 0..(Duration + 1) /\ ticks \in Nat
  /\ shutdown \in BOOLEAN
  /\ created \in 1..MaxConns
  /\ link \in [Conn -> LinkState]
  /\ seen \in [Conn -> {"no", "ongoing", "failed", "finished"}]
  /\ errors \in [Source -> Nat]
  /\ flying \in [Probe -> Nat]
  /\ answers \in [Probe -> Nat]
  /\ results \in [Probe -> Nat]
  /\ failed \in Nat /\ starved \in Nat
  /\ stable \in [goodput : BOOLEAN, rpm : BOOLEAN]
  /\ rpm \in {"none", "last", "saturated"}
  /\ tried \in BOOLEAN

(***************************************************************************)
(* Probes are sent one at a time: among the probes under way and the       *)
(* results not handled yet there is never more than one, so probes never   *)
(* load the link against each other (run_test sends the next probe only    *)
(* from the handler of the last one's result).                             *)
(***************************************************************************)
Outstanding == flying["foreign"] + flying["self"]
                 + answers["foreign"] + answers["self"]

AtMostOneProbe == Outstanding <= 1

(***************************************************************************)
(* Every self probe follows a foreign probe of its own, so the two series  *)
(* behind a responsiveness figure grow in step and the loaded one never    *)
(* outweighs the foreign one.                                              *)
(***************************************************************************)
SelfFollowsForeign ==
  flying["self"] + answers["self"] + results["self"] <= results["foreign"]

(***************************************************************************)
(* No responsiveness is reported off a link that never carried a load:     *)
(* a figure needs a self probe, and that needs a load-generating           *)
(* connection the loop was given.                                          *)
(***************************************************************************)
RpmNeedsLoad == rpm # "none" => \E c \in Conn : seen[c] # "no"

(***************************************************************************)
(* The recount of failed connections never goes down, which the policy's   *)
(* `newly_failed` takes for granted: a failure counted once is not counted *)
(* as new again, and none is missed behind a smaller total.                *)
(***************************************************************************)
FailuresOnlyGrow == [][failed' >= failed]_failed

(***************************************************************************)
(* A result is never reported in which the loop itself has counted two     *)
(* intervals in a row without load, nor, under "Abort", a failed           *)
(* connection (enforce_connection_error_policy runs before any figure of   *)
(* the interval is taken).                                                 *)
(***************************************************************************)
NoDegradedResult ==
  pc = "done" => starved < 2 /\ (policy = "Abort" => failed = 0)

(***************************************************************************)
(* What the loop believes of a load is never wrong, only late: one it has  *)
(* retired as failed really failed, or fell silent in a shutdown, and one  *)
(* that it takes for complete is.  A result is not even late: the last     *)
(* look of stop leaves no load ongoing that had come to its end since the  *)
(* last tick.                                                              *)
(***************************************************************************)
LoadsSeenTruly ==
  \A c \in Conn :
    /\ seen[c] = "failed" =>
         link[c] = "failed" \/ (link[c] = "silent" /\ shutdown)
    /\ seen[c] = "finished" => link[c] = "complete"
    /\ pc = "done" /\ seen[c] = "ongoing" => link[c] \in {"up", "silent"}

(***************************************************************************)
(* Every run ends, whatever becomes of its connections and probes.         *)
(***************************************************************************)
Terminates == <>(~Active)

(***************************************************************************)
(* "sends alternating self and foreign probes" (nq_rpm/mod.rs:211): while  *)
(* the loop runs, a probe is under way or an event of one, be it a result  *)
(* or an error, is still to be handled and may send the next.              *)
(***************************************************************************)
ProbesKeepGoing ==
  pc = "running" /\ ~LoadOnly => Outstanding + errors["probe"] > 0

(***************************************************************************)
(* "The maximum number of loaded connections that the test can use"        *)
(* (args/rpm.rs:119): the connections opened and not yet over.             *)
(***************************************************************************)
MaxLoadsRespected ==
  Cardinality({c \in Conn : link[c] \in {"opening", "up"}}) <= MaxLoads

(***************************************************************************)
(* "Load-generating connections that terminated early with an error"       *)
(* (nq_rpm/mod.rs:960): the count in the result is that of the failed      *)
(* loads in the result.                                                    *)
(***************************************************************************)
ResultCountsFailures == pc = "done" => failed = Count(seen)

(***************************************************************************)
(* "Retire the failed connection, keep measuring ... Aborts only if load   *)
(* can no longer be sustained at all" (nq_rpm/mod.rs:38): before the test  *)
(* is given up for want of load, a replacement was at least started.       *)
(***************************************************************************)
ReplacementWasTried == pc = "aborted starved" => tried
=============================================================================
