------------------------ MODULE Responsiveness_proofs ------------------------
(***************************************************************************)
(* The safety properties of the responsiveness test's event loop, proved   *)
(* for every configuration: any number of loads, any duration, either      *)
(* error policy.                                                           *)
(***************************************************************************)
EXTENDS Responsiveness, FiniteSetTheorems, TLAPS

(***************************************************************************)
(* The ramp is slow enough for Conn to hold every connection.              *)
(***************************************************************************)
RampBound ==
  /\ ticks <= Duration + 1
  /\ pc = "running" => ticks <= Duration
  /\ created <= 1 + ticks \div 2

(***************************************************************************)
(* A self probe, at whatever stage, and a figure taken from one come after *)
(* a load that the loop was given.                                         *)
(***************************************************************************)
LoadComesFirst ==
  flying["self"] + answers["self"] + results["self"] > 0 \/ rpm # "none"
    => \E c \in Conn : seen[c] # "no"

(***************************************************************************)
(* The count of failures lags behind the loads, never ahead of them.       *)
(***************************************************************************)
CountLags == failed <= Cardinality(FailedLoads(seen))

(***************************************************************************)
(* The error policy has not given up on a loop that goes on.               *)
(***************************************************************************)
NotDegraded ==
  pc \in {"running", "ending", "done"}
    => starved < 2 /\ (policy = "Abort" => failed = 0)

IInv ==
  /\ TypeOK /\ RampBound
  /\ AtMostOneProbe /\ SelfFollowsForeign /\ LoadComesFirst
  /\ CountLags /\ NotDegraded

-----------------------------------------------------------------------------
(***************************************************************************)
(* Conn has room for the connection the ramp may start at this tick.       *)
(***************************************************************************)
LEMMA RampFits ==
  ASSUME NEW t \in Nat, NEW k \in Nat, t <= Duration, k <= 1 + t \div 2
  PROVE  /\ (t - 1) % 2 = 0 /\ t > 0 => k + 1 <= 1 + (t + 1) \div 2
         /\ k <= 1 + (t + 1) \div 2
         /\ k <= MaxConns
         /\ (t - 1) % 2 = 0 /\ t > 0 => k + 1 <= MaxConns
BY DurationAssumption, MaxConnsAssumption

(***************************************************************************)
(* Failed loads form a finite set.                                         *)
(***************************************************************************)
LEMMA FailedLoadsFinite ==
  ASSUME NEW s
  PROVE  IsFiniteSet(FailedLoads(s)) /\ Cardinality(FailedLoads(s)) \in Nat
<1>1. IsFiniteSet(Conn)
  BY FS_Interval, MaxConnsAssumption DEF Conn
<1>2. FailedLoads(s) \subseteq Conn
  BY DEF FailedLoads
<1> QED
  BY <1>1, <1>2, FS_Subset, FS_CardinalityType

(***************************************************************************)
(* Looking at the loads keeps the type of what is known of them, loses no  *)
(* connection, and never takes a failure back.                             *)
(***************************************************************************)
LEMMA UpdateKeeps ==
  ASSUME TypeOK
  PROVE  /\ Updated \in [Conn -> {"no", "ongoing", "failed", "finished"}]
         /\ \A c \in Conn : seen[c] # "no" => Updated[c] # "no"
         /\ FailedLoads(seen) \subseteq FailedLoads(Updated)
         /\ Cardinality(FailedLoads(seen)) <= Cardinality(FailedLoads(Updated))
<1>1. \A c \in Conn : seen[c] \in {"no", "ongoing", "failed", "finished"}
  BY DEF TypeOK
<1>2. /\ Updated \in [Conn -> {"no", "ongoing", "failed", "finished"}]
      /\ \A c \in Conn : seen[c] # "no" => Updated[c] # "no"
      /\ FailedLoads(seen) \subseteq FailedLoads(Updated)
  BY <1>1 DEF Updated, Drained, FailedLoads
<1> QED
  BY <1>2, FailedLoadsFinite, FS_Subset

-----------------------------------------------------------------------------
(* The initial states.                                                     *)

(***************************************************************************)
(* Before the first tick one load is being set up and, unless only the     *)
(* load is wanted, one foreign probe is out, so the invariant holds.       *)
(***************************************************************************)
LEMMA InitInvariant == Init => IInv
<1> SUFFICES ASSUME Init PROVE IInv
  OBVIOUS
<1> USE DurationAssumption, MaxConnsAssumption, LoadOnlyAssumption
<1>1. TypeOK
  <2>1. created \in 1..MaxConns /\ now \in 0..(Duration + 1)
    BY DEF Init
  <2>2. link \in [Conn -> LinkState]
    BY DEF Init, LinkState
  <2>3. /\ flying \in [Probe -> Nat]
        /\ answers \in [Probe -> Nat]
        /\ results \in [Probe -> Nat]
    BY DEF Init
  <2> QED
    BY <2>1, <2>2, <2>3 DEF Init, TypeOK
<1>2. RampBound
  BY DEF Init, RampBound
<1>3. AtMostOneProbe /\ SelfFollowsForeign /\ LoadComesFirst
  BY DEF Init, AtMostOneProbe, Outstanding, SelfFollowsForeign,
         LoadComesFirst, Probe
<1>4. CountLags
  BY FailedLoadsFinite DEF Init, CountLags
<1>5. NotDegraded
  BY DEF Init, NotDegraded
<1> QED
  BY <1>1, <1>2, <1>3, <1>4, <1>5 DEF IInv

-----------------------------------------------------------------------------
(* What the steps that leave most of the state alone keep.                 *)

(***************************************************************************)
(* Steps that touch neither ramp nor verdict nor what is known of a load.  *)
(***************************************************************************)
LEMMA QuietKeeps ==
  ASSUME IInv, pc' \in {pc, "ending"}, Active,
         UNCHANGED << ticks, created, failed, starved, rpm, seen, policy >>
  PROVE  RampBound' /\ CountLags' /\ NotDegraded'
BY DEF IInv, RampBound, CountLags, NotDegraded, Active, FailedLoads

(***************************************************************************)
(* Steps that touch no probe and forget no load.                           *)
(***************************************************************************)
LEMMA ProbesKept ==
  ASSUME IInv, UNCHANGED << flying, answers, results >>,
         \A c \in Conn : seen[c] # "no" => seen'[c] # "no",
         rpm' # "none" => rpm # "none" \/ results["self"] > 0
  PROVE  AtMostOneProbe' /\ SelfFollowsForeign' /\ LoadComesFirst'
<1>1. AtMostOneProbe' /\ SelfFollowsForeign'
  BY DEF IInv, AtMostOneProbe, Outstanding, SelfFollowsForeign
<1>2. LoadComesFirst'
  <2> SUFFICES ASSUME \/ flying["self"] + answers["self"] + results["self"] > 0
                      \/ rpm' # "none"
               PROVE  \E c \in Conn : seen'[c] # "no"
    BY DEF LoadComesFirst
  <2>1. {flying["self"], answers["self"], results["self"]} \subseteq Nat
    BY DEF IInv, TypeOK, Probe
  <2>2. \/ flying["self"] + answers["self"] + results["self"] > 0
        \/ rpm # "none"
    BY <2>1
  <2> QED
    BY <2>2 DEF IInv, LoadComesFirst
<1> QED
  BY <1>1, <1>2

(***************************************************************************)
(* Steps at which probes are sent, answered, recorded or lost keep what is *)
(* known of the loads; only the probes' own invariants are left to show.   *)
(***************************************************************************)
LEMMA ProbeStepKeeps ==
  ASSUME IInv, Active, pc' \in {pc, "ending"},
         UNCHANGED << now, ticks, shutdown, created, link, seen, failed,
                      starved, stable, rpm, tried, policy >>,
         errors' \in [Source -> Nat], flying' \in [Probe -> Nat],
         answers' \in [Probe -> Nat], results' \in [Probe -> Nat]
  PROVE  TypeOK' /\ RampBound' /\ CountLags' /\ NotDegraded'
<1>1. TypeOK'
  BY DEF IInv, TypeOK, Active
<1> QED
  BY <1>1, QuietKeeps

-----------------------------------------------------------------------------
(* The steps of the world outside the loop.                                *)

(***************************************************************************)
(* Time passing and a cancellation touch neither the probes nor the loads. *)
(***************************************************************************)
LEMMA ClockKeeps ==
  ASSUME IInv, Advance \/ Shutdown
  PROVE  IInv'
<1>1. TypeOK'
  <2>1. now' \in 0..(Duration + 1)
    <3>1. now \in 0..(Duration + 1)
      BY DEF IInv, TypeOK
    <3>2. now' = now \/ (now <= Duration /\ now' = now + 1)
      BY DEF Advance, Shutdown, timeVars
    <3> QED
      BY <3>1, <3>2, DurationAssumption
  <2>2. shutdown' \in BOOLEAN
    BY DEF IInv, TypeOK, Advance, Shutdown
  <2>3. UNCHANGED << pc, ticks, created, link, seen, errors, flying, answers,
                     results, failed, starved, stable, rpm, tried, policy >>
    BY DEF Advance, Shutdown, timeVars, loadVars, probeVars, verdictVars
  <2> QED
    BY <2>1, <2>2, <2>3 DEF IInv, TypeOK
<1>2. RampBound' /\ CountLags' /\ NotDegraded'
  BY QuietKeeps DEF Advance, Shutdown, timeVars, loadVars, verdictVars
<1>3. AtMostOneProbe' /\ SelfFollowsForeign' /\ LoadComesFirst'
  BY ProbesKept DEF Advance, Shutdown, loadVars, probeVars, verdictVars
<1> QED
  BY <1>1, <1>2, <1>3 DEF IInv

(***************************************************************************)
(* What happens to a connection in the network (it opens, is refused,      *)
(* fails, completes or falls silent) is not known to the loop before it    *)
(* looks.                                                                  *)
(***************************************************************************)
LEMMA LinkKeeps ==
  ASSUME IInv, NEW c \in Conn,
         Opens(c) \/ Refused(c) \/ Fails(c) \/ Completes(c) \/ FallsSilent(c)
  PROVE  IInv'
<1>1. PICK from \in LinkState, to \in LinkState : LinkStep(c, from, to)
  BY DEF Opens, Refused, Fails, Completes, FallsSilent, LinkState
<1>2. errors' = errors \/ Reports("connection")
  BY DEF Opens, Refused, Fails, Completes, FallsSilent
<1>3. TypeOK'
  <2>1. link' \in [Conn -> LinkState]
    BY <1>1 DEF IInv, TypeOK, LinkStep
  <2>2. errors' \in [Source -> Nat]
    <3>1. errors \in [Source -> Nat]
      BY DEF IInv, TypeOK
    <3> QED
      BY <1>2, <3>1 DEF Reports, Source
  <2>3. UNCHANGED << pc, now, ticks, shutdown, created, seen, flying, answers,
                     results, failed, starved, stable, rpm, tried, policy >>
    BY <1>1 DEF LinkStep, timeVars, probeVars, verdictVars
  <2> QED
    BY <2>1, <2>2, <2>3 DEF IInv, TypeOK
<1>4. RampBound' /\ CountLags' /\ NotDegraded'
  BY <1>1, QuietKeeps DEF LinkStep, timeVars, verdictVars
<1>5. AtMostOneProbe' /\ SelfFollowsForeign' /\ LoadComesFirst'
  BY <1>1, ProbesKept DEF LinkStep, probeVars, verdictVars
<1> QED
  BY <1>3, <1>4, <1>5 DEF IInv

(***************************************************************************)
(* A probe that ends leaves the network and joins the events in one step,  *)
(* so the number outstanding stays the same.                               *)
(***************************************************************************)
LEMMA FlightKeeps ==
  ASSUME IInv, NEW p \in Probe, ProbeAnswered(p) \/ ProbeFails(p)
  PROVE  IInv'
<1> USE DEF Probe
<1>1. /\ flying \in [Probe -> Nat]
      /\ answers \in [Probe -> Nat]
      /\ results \in [Probe -> Nat]
      /\ errors \in [Source -> Nat]
  BY DEF IInv, TypeOK
<1>2. /\ errors' \in [Source -> Nat]
      /\ flying' \in [Probe -> Nat]
      /\ answers' \in [Probe -> Nat]
      /\ results' \in [Probe -> Nat]
  BY <1>1 DEF ProbeAnswered, ProbeFails, Reports, Source
<1>3. TypeOK' /\ RampBound' /\ CountLags' /\ NotDegraded'
  BY <1>2, ProbeStepKeeps
     DEF ProbeAnswered, ProbeFails, timeVars, loadVars, verdictVars
<1>4. AtMostOneProbe'
  BY <1>1 DEF IInv, AtMostOneProbe, Outstanding, ProbeAnswered, ProbeFails
<1>5. /\ flying'["self"] + answers'["self"] <= flying["self"] + answers["self"]
      /\ results' = results
  BY <1>1 DEF ProbeAnswered, ProbeFails
<1>6. SelfFollowsForeign'
  BY <1>1, <1>2, <1>5 DEF IInv, SelfFollowsForeign
<1>7. LoadComesFirst'
  BY <1>1, <1>2, <1>5
     DEF IInv, LoadComesFirst, ProbeAnswered, ProbeFails, loadVars, verdictVars
<1> QED
  BY <1>3, <1>4, <1>6, <1>7 DEF IInv

-----------------------------------------------------------------------------
(* The branches of the loop's select.                                      *)

(***************************************************************************)
(* NewLoadedConnection makes a load known, which was not known before, and *)
(* sends no probe.                                                         *)
(***************************************************************************)
LEMMA NewLoadKeeps ==
  ASSUME IInv, NEW c \in Conn, OnNewLoad(c)
  PROVE  IInv'
<1>1. /\ seen \in [Conn -> {"no", "ongoing", "failed", "finished"}]
      /\ seen[c] = "no"
      /\ seen' = [seen EXCEPT ![c] = "ongoing"]
  BY DEF IInv, TypeOK, OnNewLoad, Offered
<1>2. /\ seen' \in [Conn -> {"no", "ongoing", "failed", "finished"}]
      /\ \A d \in Conn : seen[d] # "no" => seen'[d] # "no"
      /\ FailedLoads(seen') = FailedLoads(seen)
  BY <1>1 DEF FailedLoads
<1>3. /\ pc = "running" /\ pc' \in {"running", "ending"}
      /\ UNCHANGED << now, ticks, shutdown, created, link, errors, flying,
                      answers, results, failed, starved, stable, rpm, tried,
                      policy >>
  BY DEF OnNewLoad, LoopsOn, timeVars, probeVars, verdictVars
<1>4. TypeOK'
  BY <1>2, <1>3 DEF IInv, TypeOK
<1>5. RampBound' /\ NotDegraded'
  BY <1>3 DEF IInv, RampBound, NotDegraded
<1>6. CountLags'
  BY <1>2, <1>3 DEF IInv, CountLags
<1>7. AtMostOneProbe' /\ SelfFollowsForeign' /\ LoadComesFirst'
  BY <1>2, <1>3, ProbesKept
<1> QED
  BY <1>4, <1>5, <1>6, <1>7 DEF IInv

(***************************************************************************)
(* A recorded probe is answered by exactly one new probe.                  *)
(***************************************************************************)
LEMMA RecordKeeps ==
  ASSUME IInv, OnForeignProbe \/ OnSelfProbe
  PROVE  IInv'
<1> USE DEF Probe
<1>1. /\ flying \in [Probe -> Nat]
      /\ answers \in [Probe -> Nat]
      /\ results \in [Probe -> Nat]
      /\ errors \in [Source -> Nat]
  BY DEF IInv, TypeOK
<1>2. PICK p \in Probe, next \in Probe :
        /\ OnProbe(p, next)
        /\ p = "self" => next = "foreign"
        /\ next = "self" => Ongoing(seen) # {}
  BY DEF OnForeignProbe, OnSelfProbe, NextAfterForeign, NextAfterSelf
<1>3. /\ errors' \in [Source -> Nat]
      /\ flying' \in [Probe -> Nat]
      /\ answers' \in [Probe -> Nat]
      /\ results' \in [Probe -> Nat]
  BY <1>1, <1>2 DEF OnProbe
<1>4. TypeOK' /\ RampBound' /\ CountLags' /\ NotDegraded'
  BY <1>2, <1>3, ProbeStepKeeps
     DEF OnProbe, LoopsOn, timeVars, loadVars, verdictVars, Active
<1>5. AtMostOneProbe'
  BY <1>1, <1>2 DEF IInv, AtMostOneProbe, Outstanding, OnProbe
<1>6. SelfFollowsForeign'
  BY <1>1, <1>2 DEF IInv, SelfFollowsForeign, OnProbe
<1>7. LoadComesFirst'
  <2>1. UNCHANGED << seen, rpm >>
    BY <1>2 DEF OnProbe, loadVars, verdictVars
  <2>2. CASE next = "self"
    BY <1>2, <2>1, <2>2 DEF LoadComesFirst, Ongoing
  <2>3. CASE next = "foreign"
    <3>1. flying'["self"] + answers'["self"] + results'["self"]
            = flying["self"] + answers["self"] + results["self"]
      BY <1>1, <1>2, <2>3 DEF OnProbe
    <3> QED
      BY <2>1, <3>1 DEF IInv, LoadComesFirst
  <2> QED
    BY <2>2, <2>3
<1> QED
  BY <1>4, <1>5, <1>6, <1>7 DEF IInv

(***************************************************************************)
(* An error or a shutdown sends no probe; an error uses up the one that    *)
(* failed.                                                                 *)
(***************************************************************************)
LEMMA ErrorKeeps ==
  ASSUME IInv, OnShutdown \/ \E e \in Source : OnError(e)
  PROVE  IInv'
<1>1. /\ pc = "running" /\ pc' \in {"running", "ending"}
      /\ UNCHANGED << now, ticks, shutdown, created, link, seen, flying,
                      answers, results, failed, starved, stable, rpm, tried,
                      policy >>
      /\ \/ errors' = errors
         \/ \E e \in Source :
              errors[e] > 0 /\ errors' = [errors EXCEPT ![e] = @ - 1]
  BY DEF OnError, OnShutdown, LoopsOn, timeVars, loadVars, probeVars,
         verdictVars
<1>2. errors' \in [Source -> Nat]
  <2>1. errors \in [Source -> Nat]
    BY DEF IInv, TypeOK
  <2> QED
    BY <1>1, <2>1
<1>3. /\ flying \in [Probe -> Nat]
      /\ answers \in [Probe -> Nat]
      /\ results \in [Probe -> Nat]
  BY DEF IInv, TypeOK
<1>4. TypeOK' /\ RampBound' /\ CountLags' /\ NotDegraded'
  BY <1>1, <1>2, <1>3, ProbeStepKeeps DEF Active
<1>5. AtMostOneProbe' /\ SelfFollowsForeign' /\ LoadComesFirst'
  BY <1>1, ProbesKept
<1> QED
  BY <1>4, <1>5 DEF IInv

-----------------------------------------------------------------------------
(* The interval timer and the end.                                         *)

(***************************************************************************)
(* The first tick of the timer only looks at the loads.                    *)
(***************************************************************************)
LEMMA FirstTickKeeps ==
  ASSUME IInv, FirstTick
  PROVE  IInv'
<1>1. /\ pc = "running" /\ pc' = IF TimeUp THEN "ending" ELSE "running"
      /\ ticks = 0 /\ ticks' = 1 /\ seen' = Updated
      /\ UNCHANGED << now, shutdown, created, link, errors, flying, answers,
                      results, failed, starved, stable, rpm, tried, policy >>
  BY DEF FirstTick, TickDue, LoopsOn, probeVars, verdictVars
<1>2. TypeOK'
  BY <1>1, UpdateKeeps DEF IInv, TypeOK
<1>3. RampBound'
  <2>1. now \in Nat /\ created \in Nat /\ created <= 1
    BY <1>1, DurationAssumption, MaxConnsAssumption DEF IInv, TypeOK, RampBound
  <2>2. pc' = "running" => 1 <= Duration
    BY <1>1, <2>1, DurationAssumption DEF TimeUp
  <2> QED
    BY <1>1, <2>1, <2>2, DurationAssumption DEF RampBound
<1>4. CountLags'
  <2>1. failed <= Cardinality(FailedLoads(Updated))
    <3>1. failed \in Nat /\ failed <= Cardinality(FailedLoads(seen))
      BY DEF IInv, TypeOK, CountLags
    <3> QED
      BY <3>1, UpdateKeeps, FailedLoadsFinite DEF IInv
  <2> QED
    BY <1>1, <2>1 DEF CountLags
<1>5. NotDegraded'
  BY <1>1 DEF IInv, NotDegraded
<1>6. AtMostOneProbe' /\ SelfFollowsForeign' /\ LoadComesFirst'
  BY <1>1, UpdateKeeps, ProbesKept DEF IInv
<1> QED
  BY <1>2, <1>3, <1>4, <1>5, <1>6 DEF IInv

(***************************************************************************)
(* A later tick leaves what it does not reach in on_interval as it was: it *)
(* gives up before the ramp, or ramps, measures and goes on.               *)
(***************************************************************************)
LEMMA IntervalOutcome ==
  ASSUME IInv, IntervalTick
  PROVE  \/ /\ pc' \in {"aborted by policy", "aborted starved"}
            /\ starved' \in {starved, StarvedNow(Updated)}
            /\ UNCHANGED << ticks, created, link, stable, rpm, tried >>
         \/ /\ pc' \in {"running", "ending"}
            /\ pc' = "running" => ~TimeUp
            /\ ~PolicyAborts(Updated)
            /\ ~GivesUp(Updated)
            /\ starved' = StarvedNow(Updated)
            /\ ticks' = ticks + 1
            /\ Ramp(Updated)
            /\ stable' \in [goodput : BOOLEAN, rpm : BOOLEAN]
            /\ rpm' \in {"none", "last", "saturated"}
            /\ rpm' # "none" => rpm # "none" \/ results["self"] > 0
<1>1. CASE PolicyAborts(Updated)
  BY <1>1 DEF IntervalTick
<1>2. CASE ~PolicyAborts(Updated) /\ GivesUp(Updated)
  BY <1>2 DEF IntervalTick
<1>3. CASE ~PolicyAborts(Updated) /\ ~GivesUp(Updated)
  <2>1. /\ starved' = StarvedNow(Updated)
        /\ Ramp(Updated) /\ Measure(Updated) /\ ticks' = ticks + 1
    BY <1>3 DEF IntervalTick
  <2>2. stable \in [goodput : BOOLEAN, rpm : BOOLEAN]
          /\ rpm \in {"none", "last", "saturated"}
    BY DEF IInv, TypeOK
  <2>3. PICK measured \in BOOLEAN, rpmStable \in BOOLEAN,
              goodputStable \in BOOLEAN :
          /\ measured => results["foreign"] > 0 /\ results["self"] > 0
          /\ rpmStable => measured
          /\ stable' = [goodput |-> stable.goodput \/ goodputStable,
                        rpm |-> stable.rpm \/ rpmStable]
          /\ rpm' = IF rpmStable \/ rpm = "saturated" THEN "saturated"
                    ELSE IF measured THEN "last" ELSE rpm
          /\ LoopsOn(stable'.goodput /\ stable'.rpm)
    BY <2>1 DEF Measure
  <2>4. stable' \in [goodput : BOOLEAN, rpm : BOOLEAN]
    BY <2>2, <2>3
  <2>5. /\ rpm' \in {"none", "last", "saturated"}
        /\ rpm' # "none" => rpm # "none" \/ results["self"] > 0
    BY <2>2, <2>3
  <2>6. /\ pc' \in {"running", "ending"}
        /\ pc' = "running" => ~TimeUp
    BY <2>3 DEF LoopsOn
  <2> QED
    BY <1>3, <2>1, <2>4, <2>5, <2>6
<1> QED
  BY <1>1, <1>2, <1>3

(***************************************************************************)
(* The ramp starts a connection at most every other interval and never     *)
(* beyond what Conn has room for.                                          *)
(***************************************************************************)
LEMMA IntervalKeepsRamp ==
  ASSUME IInv, IntervalTick
  PROVE  /\ RampBound' /\ created' \in 1..MaxConns /\ ticks' \in Nat
         /\ link' \in [Conn -> LinkState] /\ tried' \in BOOLEAN
<1>1. /\ ticks \in Nat /\ created \in 1..MaxConns /\ now \in Nat
      /\ link \in [Conn -> LinkState] /\ tried \in BOOLEAN
  <2>1. /\ ticks \in Nat /\ created \in 1..MaxConns
        /\ now \in 0..(Duration + 1)
        /\ link \in [Conn -> LinkState] /\ tried \in BOOLEAN
    BY DEF IInv, TypeOK
  <2>2. now \in Nat
    BY <2>1, DurationAssumption
  <2> QED
    BY <2>1, <2>2
<1>2. ticks > 0 /\ ticks <= now /\ ticks <= Duration /\ created <= 1 + ticks \div 2
  BY DEF IInv, RampBound, IntervalTick, TickDue
<1>3. created \in Nat /\ MaxConns \in Nat
  BY <1>1, MaxConnsAssumption
<1>4. CASE /\ pc' \in {"aborted by policy", "aborted starved"}
           /\ UNCHANGED << ticks, created, link, tried >>
  BY <1>1, <1>4 DEF IInv, RampBound
<1>5. CASE /\ pc' = "running" => ~TimeUp
           /\ ticks' = ticks + 1
           /\ Ramp(Updated)
  <2>1. \/ /\ (ticks - 1) % 2 = 0
           /\ created' = created + 1
           /\ link' = [link EXCEPT ![created + 1] = "opening"]
           /\ tried' \in BOOLEAN
        \/ /\ UNCHANGED << created, link >>
           /\ tried' \in BOOLEAN
    BY <1>1, <1>5 DEF Ramp, Ramps
  <2>2. link' \in [Conn -> LinkState] /\ tried' \in BOOLEAN
    BY <1>1, <2>1 DEF LinkState
  <2>3. /\ created' \in 1..MaxConns
        /\ created' <= 1 + ticks' \div 2
    BY <1>2, <1>1, <1>3, <1>5, <2>1, RampFits
  <2>4. ticks' <= Duration + 1 /\ (pc' = "running" => ticks' <= Duration)
    BY <1>1, <1>2, <1>5, DurationAssumption DEF TimeUp
  <2> QED
    BY <1>1, <1>5, <2>2, <2>3, <2>4 DEF RampBound
<1> QED
  BY <1>4, <1>5, IntervalOutcome

(***************************************************************************)
(* An interval tick that goes on, aborts or ends the loop keeps the        *)
(* invariant, the comparison of failures with the policy included.         *)
(***************************************************************************)
LEMMA IntervalKeeps ==
  ASSUME IInv, IntervalTick
  PROVE  IInv'
<1>1. /\ seen' = Updated /\ failed' = Count(Updated)
      /\ UNCHANGED << now, shutdown, errors, flying, answers, results,
                      policy >>
  BY DEF IntervalTick, probeVars
<1>2. failed' \in Nat /\ CountLags'
  <2>1. failed' = Cardinality(FailedLoads(seen'))
    BY <1>1 DEF Count
  <2> QED
    BY <2>1, FailedLoadsFinite DEF CountLags
<1>3. starved' \in Nat
  <2>1. starved \in Nat
    BY DEF IInv, TypeOK
  <2>2. starved' \in {starved, starved + 1, 0}
    BY IntervalOutcome DEF StarvedNow
  <2> QED
    BY <2>1, <2>2
<1>4. /\ stable' \in [goodput : BOOLEAN, rpm : BOOLEAN]
      /\ rpm' \in {"none", "last", "saturated"}
      /\ pc' \in {"running", "ending", "done", "aborted by policy",
                  "aborted starved"}
  BY IntervalOutcome DEF IInv, TypeOK
<1>5. TypeOK'
  BY <1>1, <1>2, <1>3, <1>4, UpdateKeeps, IntervalKeepsRamp DEF IInv, TypeOK
<1>6. NotDegraded'
  <2> SUFFICES ASSUME pc' \in {"running", "ending", "done"}
               PROVE  starved' < 2 /\ (policy = "Abort" => failed' = 0)
    BY <1>1 DEF NotDegraded
  <2>1. /\ ~PolicyAborts(Updated) /\ ~GivesUp(Updated)
        /\ starved' = StarvedNow(Updated)
    BY IntervalOutcome
  <2>2. starved' < 2
    BY <1>3, <2>1 DEF GivesUp
  <2>3. ASSUME policy = "Abort" PROVE failed' = 0
    <3>1. pc = "running"
      BY DEF IntervalTick, TickDue
    <3>2. failed = 0
      BY <2>3, <3>1 DEF IInv, NotDegraded
    <3> QED
      BY <1>1, <1>2, <2>1, <2>3, <3>2 DEF PolicyAborts
  <2> QED
    BY <2>2, <2>3
<1>7. AtMostOneProbe' /\ SelfFollowsForeign' /\ LoadComesFirst'
  <2>1. rpm' # "none" => rpm # "none" \/ results["self"] > 0
    BY IntervalOutcome
  <2> QED
    BY <1>1, <2>1, UpdateKeeps, ProbesKept DEF IInv
<1> QED
  BY <1>2, <1>5, <1>6, <1>7, IntervalKeepsRamp DEF IInv

(***************************************************************************)
(* Stopping the loads and building the result takes no failure back.       *)
(***************************************************************************)
LEMMA FinishKeeps ==
  ASSUME IInv, Finish
  PROVE  IInv'
<1>1. /\ pc = "ending" /\ pc' = "done"
      /\ seen' = [c \in Conn |->
                    IF link[c] = "silent" THEN seen[c] ELSE Updated[c]]
      /\ UNCHANGED << now, ticks, shutdown, created, link, errors, flying,
                      answers, results, failed, starved, stable, rpm, tried,
                      policy >>
  BY DEF Finish, timeVars, probeVars, verdictVars
<1>2. /\ seen \in [Conn -> {"no", "ongoing", "failed", "finished"}]
      /\ failed \in Nat /\ failed <= Cardinality(FailedLoads(seen))
  BY DEF IInv, TypeOK, CountLags
<1>3. /\ seen' \in [Conn -> {"no", "ongoing", "failed", "finished"}]
      /\ \A c \in Conn : seen[c] # "no" => seen'[c] # "no"
      /\ FailedLoads(seen) \subseteq FailedLoads(seen')
  BY <1>1, <1>2, UpdateKeeps DEF IInv, FailedLoads
<1>4. TypeOK'
  BY <1>1, <1>3 DEF IInv, TypeOK
<1>5. RampBound' /\ NotDegraded'
  BY <1>1 DEF IInv, RampBound, NotDegraded
<1>6. CountLags'
  <2>1. Cardinality(FailedLoads(seen)) <= Cardinality(FailedLoads(seen'))
    BY <1>3, FailedLoadsFinite, FS_Subset
  <2> QED
    BY <1>1, <1>2, <2>1, FailedLoadsFinite DEF CountLags
<1>7. AtMostOneProbe' /\ SelfFollowsForeign' /\ LoadComesFirst'
  BY <1>1, <1>3, ProbesKept
<1> QED
  BY <1>4, <1>5, <1>6, <1>7 DEF IInv

-----------------------------------------------------------------------------
(* The theorems.                                                           *)

(***************************************************************************)
(* Every step of the test keeps the invariant.                             *)
(***************************************************************************)
LEMMA NextInvariant == IInv /\ [Next]_vars => IInv'
<1> SUFFICES ASSUME IInv, [Next]_vars PROVE IInv'
  OBVIOUS
<1>1. CASE World
  BY <1>1, ClockKeeps, LinkKeeps, FlightKeeps DEF World
<1>2. CASE Loop
  BY <1>2, NewLoadKeeps, RecordKeeps, ErrorKeeps, FirstTickKeeps, IntervalKeeps
     DEF Loop
<1>3. CASE Finish
  BY <1>3, FinishKeeps
<1>4. CASE UNCHANGED vars
  BY <1>4
     DEF vars, IInv, TypeOK, RampBound, AtMostOneProbe, Outstanding,
         SelfFollowsForeign, LoadComesFirst, CountLags, FailedLoads,
         NotDegraded
<1> QED
  BY <1>1, <1>2, <1>3, <1>4 DEF Next

(***************************************************************************)
(* The invariant holds in every state of every run.                        *)
(***************************************************************************)
LEMMA Invariance == Spec => []IInv
<1> QED
  BY InitInvariant, NextInvariant, PTL DEF Spec

(***************************************************************************)
(* Every variable keeps its type; in particular the ramp never starts more *)
(* connections than one at the start and one every other interval.         *)
(***************************************************************************)
THEOREM TypeCorrect == Spec => []TypeOK
<1>1. IInv => TypeOK
  BY DEF IInv
<1> QED
  BY <1>1, Invariance, PTL

(***************************************************************************)
(* At most one probe is outstanding, however events and errors interleave. *)
(***************************************************************************)
THEOREM OneProbeAtATime == Spec => []AtMostOneProbe
<1>1. IInv => AtMostOneProbe
  BY DEF IInv
<1> QED
  BY <1>1, Invariance, PTL

(***************************************************************************)
(* Self probes never outnumber the foreign results they follow.            *)
(***************************************************************************)
THEOREM ProbesInStep == Spec => []SelfFollowsForeign
<1>1. IInv => SelfFollowsForeign
  BY DEF IInv
<1> QED
  BY <1>1, Invariance, PTL

(***************************************************************************)
(* A responsiveness figure always rests on a link that carried a load.     *)
(***************************************************************************)
THEOREM FigureNeedsLoad == Spec => []RpmNeedsLoad
<1>1. IInv => RpmNeedsLoad
  BY DEF IInv, LoadComesFirst, RpmNeedsLoad
<1> QED
  BY <1>1, Invariance, PTL

(***************************************************************************)
(* A result is reported only if the error policy had nothing against it.   *)
(***************************************************************************)
THEOREM ResultNotDegraded == Spec => []NoDegradedResult
<1>1. IInv => NoDegradedResult
  BY DEF IInv, NotDegraded, NoDegradedResult
<1> QED
  BY <1>1, Invariance, PTL

(***************************************************************************)
(* The recount of failures never goes down: a failed load stays failed,    *)
(* and the count never runs ahead of the loads.                            *)
(***************************************************************************)
LEMMA StepKeepsFailures ==
  ASSUME IInv, [Next]_vars
  PROVE  failed' = failed \/ failed' >= failed
<1>1. CASE IntervalTick
  <2>1. failed \in Nat /\ failed <= Cardinality(FailedLoads(seen))
    BY DEF IInv, TypeOK, CountLags
  <2>2. failed' = Cardinality(FailedLoads(Updated))
    BY <1>1 DEF IntervalTick, Count
  <2> QED
    BY <2>1, <2>2, UpdateKeeps, FailedLoadsFinite DEF IInv
<1>2. CASE Next /\ ~IntervalTick
  BY <1>2
     DEF Next, World, Loop, Advance, Shutdown, LinkStep, Opens, Refused, Fails,
         Completes, FallsSilent, ProbeAnswered, ProbeFails, OnNewLoad,
         OnForeignProbe, OnSelfProbe, OnProbe, OnError, OnShutdown, FirstTick,
         Finish, verdictVars
<1>3. CASE UNCHANGED vars
  BY <1>3 DEF vars
<1> QED
  BY <1>1, <1>2, <1>3

(***************************************************************************)
(* The failure count of a run never goes down: a failed load is counted    *)
(* again at every interval and stays failed.                               *)
(***************************************************************************)
THEOREM FailuresAreFinal == Spec => FailuresOnlyGrow
<1>1. IInv /\ [Next]_vars => [failed' >= failed]_failed
  BY StepKeepsFailures
<1> QED
  BY <1>1, Invariance, PTL DEF Spec, FailuresOnlyGrow

(***************************************************************************)
(* How the loads really stand, as far as the loop depends on it: what was  *)
(* not started is unused, what the loop was given had been established,    *)
(* and nothing falls silent before the shutdown.                           *)
(***************************************************************************)
Established == {"up", "failed", "complete", "silent"}

LinkInv ==
  \A c \in Conn :
    /\ c > created => link[c] = "unused"
    /\ seen[c] # "no" => link[c] \in Established
    /\ link[c] = "silent" => shutdown

TruthInv == LinkInv /\ LoadsSeenTruly

(***************************************************************************)
(* A look at a load that is told the truth keeps to the truth.             *)
(***************************************************************************)
LEMMA LookIsTrue ==
  ASSUME IInv, TruthInv, NEW c \in Conn
  PROVE  /\ seen[c] = "no" <=> Updated[c] = "no"
         /\ Updated[c] = "failed" =>
              link[c] = "failed" \/ (link[c] = "silent" /\ shutdown)
         /\ Updated[c] = "finished" => link[c] = "complete"
         /\ Updated[c] = "ongoing" => link[c] = "up"
<1>1. /\ seen[c] \in {"no", "ongoing", "failed", "finished"}
      /\ Updated[c] = Drained(seen[c], link[c])
  BY DEF IInv, TypeOK, Updated
<1>2. /\ seen[c] # "no" => link[c] \in Established
      /\ link[c] = "silent" => shutdown
      /\ seen[c] = "failed" =>
           link[c] = "failed" \/ (link[c] = "silent" /\ shutdown)
      /\ seen[c] = "finished" => link[c] = "complete"
  BY DEF TruthInv, LinkInv, LoadsSeenTruly
<1> QED
  BY <1>1, <1>2 DEF Drained, Established

(***************************************************************************)
(* A transfer that was decided, or fell silent, is not reopened, so what   *)
(* the loop believes of it stays true whatever happens in the network.     *)
(***************************************************************************)
LEMMA WorldKeepsTruth ==
  ASSUME IInv, TruthInv, World
  PROVE  TruthInv'
<1>1. pc' = pc /\ Active /\ UNCHANGED << created, seen >>
  BY DEF World, Advance, Shutdown, LinkStep, Opens, Refused, Fails, Completes,
         FallsSilent, ProbeAnswered, ProbeFails, loadVars
<1>2. shutdown => shutdown'
  BY DEF World, Advance, Shutdown, LinkStep, Opens, Refused, Fails, Completes,
         FallsSilent, ProbeAnswered, ProbeFails
<1>3. link \in [Conn -> LinkState]
  BY DEF IInv, TypeOK
<1>4. ASSUME NEW c \in Conn
      PROVE  \/ link'[c] = link[c]
             \/ link[c] = "opening" /\ link'[c] \in {"up", "refused"}
             \/ link[c] = "up" /\ link'[c] \in {"failed", "complete"}
             \/ link[c] = "up" /\ link'[c] = "silent" /\ shutdown
  <2>1. CASE \E d \in Conn : \/ Opens(d) \/ Refused(d) \/ Fails(d)
                             \/ Completes(d) \/ FallsSilent(d)
    BY <1>3, <2>1
       DEF Opens, Refused, Fails, Completes, FallsSilent, LinkStep
  <2>2. CASE \/ Advance \/ Shutdown
             \/ \E p \in Probe : ProbeAnswered(p) \/ ProbeFails(p)
    BY <2>2 DEF Advance, Shutdown, ProbeAnswered, ProbeFails, loadVars
  <2> QED
    BY <2>1, <2>2 DEF World
<1>5. LinkInv'
  BY <1>1, <1>2, <1>4 DEF TruthInv, LinkInv, Established
<1>6. LoadsSeenTruly'
  BY <1>1, <1>2, <1>4 DEF TruthInv, LoadsSeenTruly, Active
<1> QED
  BY <1>5, <1>6 DEF TruthInv

(***************************************************************************)
(* A connection is given to the loop once it is established.               *)
(***************************************************************************)
LEMMA NewLoadKeepsTruth ==
  ASSUME IInv, TruthInv, NEW c \in Conn, OnNewLoad(c)
  PROVE  TruthInv'
<1>1. /\ seen' = [seen EXCEPT ![c] = "ongoing"] /\ link[c] \in Established
      /\ pc' # "done" /\ UNCHANGED << created, link, shutdown >>
  BY DEF OnNewLoad, Offered, LoopsOn, Established
<1>2. seen \in [Conn -> {"no", "ongoing", "failed", "finished"}]
  BY DEF IInv, TypeOK
<1> QED
  BY <1>1, <1>2 DEF TruthInv, LinkInv, LoadsSeenTruly

(***************************************************************************)
(* A tick looks at the loads, and may start a connection that no load was  *)
(* made of yet.                                                            *)
(***************************************************************************)
LEMMA TickKeepsTruth ==
  ASSUME IInv, TruthInv, FirstTick \/ IntervalTick
  PROVE  TruthInv'
<1>1. seen' = Updated /\ UNCHANGED shutdown /\ pc' # "done"
  BY IntervalOutcome DEF FirstTick, IntervalTick, LoopsOn
<1>2. /\ created \in Nat /\ link \in [Conn -> LinkState] /\ Conn \subseteq Nat
      /\ \A c \in Conn : seen[c] \in {"no", "ongoing", "failed", "finished"}
  <2>1. /\ created \in 1..MaxConns /\ link \in [Conn -> LinkState]
        /\ \A c \in Conn : seen[c] \in {"no", "ongoing", "failed", "finished"}
    BY DEF IInv, TypeOK
  <2>2. \A c \in 1..MaxConns : c \in Nat
    BY MaxConnsAssumption
  <2> QED
    BY <2>1, <2>2 DEF Conn
<1>3. \/ UNCHANGED << created, link >>
      \/ /\ created' = created + 1
         /\ link' = [link EXCEPT ![created + 1] = "opening"]
  BY IntervalOutcome DEF FirstTick, Ramp
<1>4. ASSUME NEW c \in Conn, Updated[c] # "no"
      PROVE  link'[c] = link[c] /\ link[c] \in Established
  <2>1. link[c] \in Established /\ c <= created
    BY <1>2, <1>4, LookIsTrue DEF TruthInv, LinkInv, Established
  <2> QED
    BY <1>2, <1>3, <2>1
<1>5. LinkInv'
  <2> SUFFICES ASSUME NEW c \in Conn
               PROVE  /\ c > created' => link'[c] = "unused"
                      /\ seen'[c] # "no" => link'[c] \in Established
                      /\ link'[c] = "silent" => shutdown'
    BY DEF LinkInv
  <2>1. c > created' => link'[c] = "unused"
    BY <1>2, <1>3 DEF TruthInv, LinkInv
  <2>2. seen'[c] # "no" => link'[c] \in Established
    BY <1>1, <1>4
  <2>3. link'[c] = "silent" => shutdown'
    BY <1>1, <1>2, <1>3 DEF TruthInv, LinkInv
  <2> QED
    BY <2>1, <2>2, <2>3
<1>6. LoadsSeenTruly'
  BY <1>1, <1>4, LookIsTrue DEF LoadsSeenTruly
<1> QED
  BY <1>5, <1>6 DEF TruthInv

(***************************************************************************)
(* stop looks once more at every load, and leaves a silent one as it was.  *)
(***************************************************************************)
LEMMA FinishKeepsTruth ==
  ASSUME IInv, TruthInv, Finish
  PROVE  TruthInv'
<1>1. /\ UNCHANGED << created, link, shutdown >>
      /\ seen' = [c \in Conn |->
                    IF link[c] = "silent" THEN seen[c] ELSE Updated[c]]
  BY DEF Finish
<1>2. LinkInv'
  BY <1>1, LookIsTrue DEF TruthInv, LinkInv
<1>3. LoadsSeenTruly'
  BY <1>1, LookIsTrue DEF TruthInv, LoadsSeenTruly
<1> QED
  BY <1>2, <1>3 DEF TruthInv

LEMMA StepKeepsTruth ==
  ASSUME IInv, TruthInv, [Next]_vars
  PROVE  TruthInv'
<1>1. CASE World
  BY <1>1, WorldKeepsTruth
<1>2. CASE \E c \in Conn : OnNewLoad(c)
  BY <1>2, NewLoadKeepsTruth
<1>3. CASE \/ OnForeignProbe \/ OnSelfProbe \/ OnShutdown
           \/ \E e \in Source : OnError(e)
  <2>1. UNCHANGED << created, link, seen, shutdown >> /\ pc' # "done"
    BY <1>3 DEF OnForeignProbe, OnSelfProbe, OnProbe, OnError, OnShutdown,
                LoopsOn, loadVars
  <2> QED
    BY <2>1 DEF TruthInv, LinkInv, LoadsSeenTruly
<1>4. CASE FirstTick \/ IntervalTick
  BY <1>4, TickKeepsTruth
<1>5. CASE Finish
  BY <1>5, FinishKeepsTruth
<1>6. CASE UNCHANGED vars
  BY <1>6 DEF vars, TruthInv, LinkInv, LoadsSeenTruly
<1> QED
  BY <1>1, <1>2, <1>3, <1>4, <1>5, <1>6 DEF Next, Loop

(***************************************************************************)
(* The loop's view of its loads is true in every state, and in a result it *)
(* is up to date.                                                          *)
(***************************************************************************)
THEOREM ViewIsTrue == Spec => []LoadsSeenTruly
<1>1. Init => TruthInv
  BY MaxConnsAssumption
     DEF Init, TruthInv, LinkInv, LoadsSeenTruly, Conn
<1>2. IInv /\ TruthInv /\ [Next]_vars => TruthInv'
  BY StepKeepsTruth
<1>3. TruthInv => LoadsSeenTruly
  BY DEF TruthInv
<1> QED
  BY <1>1, <1>2, <1>3, Invariance, PTL DEF Spec
=============================================================================
