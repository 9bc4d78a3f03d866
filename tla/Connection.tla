----------------------------- MODULE Connection -----------------------------
(***************************************************************************)
(* One request from name resolution to the last byte of its answer: how    *)
(* its connection is set up and registered, what times are taken on the    *)
(* way, which figures a probe makes of them, and what a shutdown does to   *)
(* it at any point (ThroughputClient, TokioNetwork, ConnectionManager, the *)
(* connection tasks and ConnectionTiming).                                 *)
(*                                                                         *)
(* Every step takes some time, which `took` records beside the stamps the  *)
(* code keeps.                                                             *)
(***************************************************************************)
EXTENDS Naturals

CONSTANT MaxStep  \* bound: how long one step may take

ASSUME MaxStepAssumption == MaxStep \in Nat

(***************************************************************************)
(* A foreign probe and a transfer set up a connection through the client,  *)
(* the latency test one of its own, and a self probe reuses that of a      *)
(* load.  The protocol of a transfer is chosen on the command line; "h1    *)
(* plain" is HTTP/1.1 without TLS.                                         *)
(***************************************************************************)
Kind == {"foreign", "transfer", "latency", "self"}
Protocol == {"h1 plain", "h1", "h2"}

ProtocolsOf(k) ==
  CASE k = "transfer" -> Protocol
    [] k = "latency" -> {"h1"}
    [] k \in {"foreign", "self"} -> {"h2"}

Duration == 0..MaxStep
Phase == {"dns", "tcp", "tls", "application", "request"}

VARIABLES
  kind,
  protocol,
  at,        \* where the request is
  now,       \* the clock
  begun,     \* when the request began
  timing,    \* ConnectionTiming
  result,    \* what the probe reports
  driver,    \* the task the program spawns to run the connection
  handle,    \* the registered connection still has its SendRequest
  token,     \* the shutdown token is cancelled
  manager,   \* "open", or "closed" once the shutdown task dropped the handles
  took       \* history: how long each phase really took

who == << kind, protocol >>
vars == << kind, protocol, at, now, begun, timing, result, driver, handle,
           token, manager, took >>

(***************************************************************************)
(* Timestamp::duration_since and Duration::saturating_sub.                 *)
(***************************************************************************)
SinceAbsolute(t, earlier) == t

Since(t, earlier) == IF t >= earlier THEN t - earlier ELSE 0

FreshTiming(start) ==
  [start |-> start, lookup |-> 0, connect |-> 0, secure |-> 0,
   application |-> 0, dns |-> 0, roundTrips |-> 1]

Ended == at \in {"done", "failed"}

Init ==
  /\ kind \in Kind /\ protocol \in ProtocolsOf(kind)
  /\ at = IF kind = "self" THEN "ready" ELSE "resolving"
  /\ begun \in 0..1 /\ now = begun /\ timing = FreshTiming(0)
  /\ result = [tcp |-> 0, tls |-> 0, http |-> 0]
  /\ driver = IF kind = "self" THEN "running" ELSE "none"
  /\ handle = (kind = "self")
  /\ token = FALSE /\ manager = "open"
  /\ took = [p \in Phase |-> 0]

(***************************************************************************)
(* A step of the request that takes d and counts towards a phase.          *)
(***************************************************************************)
Step(from, to, phase, d) ==
  /\ at = from /\ at' = to
  /\ now' = now + d
  /\ took' = [took EXCEPT ![phase] = @ + d]
  /\ UNCHANGED << who, begun, token, manager >>

(***************************************************************************)
(* The client starts the connection's clock once the name is resolved, the *)
(* latency test before.  What timed_lookup_host measures stays with it.    *)
(***************************************************************************)
ClockStart(d) == IF kind = "latency" THEN now ELSE now + d

Resolve(d) ==
  /\ Step("resolving", "connecting", "dns", d)
  /\ timing' = FreshTiming(ClockStart(d))
  /\ UNCHANGED << result, driver, handle >>

Connect(d) ==
  /\ Step("connecting",
          IF protocol = "h1 plain" THEN "handshaking" ELSE "securing", "tcp", d)
  /\ timing' = [timing EXCEPT !.connect = Since(now', timing.start)]
  /\ UNCHANGED << result, driver, handle >>

(***************************************************************************)
(* tls_connection: TLS 1.3 takes one round trip and TLS 1.2 two.           *)
(***************************************************************************)
Secure(d, trips) ==
  /\ Step("securing", "handshaking", "tls", d)
  /\ timing' = [timing EXCEPT !.secure = Since(now', timing.start),
                              !.roundTrips = trips]
  /\ UNCHANGED << result, driver, handle >>

(***************************************************************************)
(* start_h1_conn and start_h2_conn.                                        *)
(***************************************************************************)
Handshake(d) ==
  /\ Step("handshaking", "registering", "application", d)
  /\ timing' = [timing EXCEPT !.application = Since(now', timing.start)]
  /\ driver' = "running"
  /\ UNCHANGED << result, handle >>

(***************************************************************************)
(* The connection joins the manager's, which may have shut down already.   *)
(* The latency test then stamps the lookup on a copy of the timing.        *)
(***************************************************************************)
Register(d) ==
  /\ Step("registering", "ready", "request", d)
  /\ handle' = TRUE
  /\ UNCHANGED << timing, result, driver >>

(***************************************************************************)
(* The request is queued for hyper's dispatcher, which belongs to the      *)
(* connection's task; once dispatched it waits for its response.           *)
(***************************************************************************)
Send ==
  /\ at = "ready"
  /\ at' = IF handle THEN "queued" ELSE "failed"
  /\ UNCHANGED << who, now, begun, timing, result, driver, handle, token,
                  manager, took >>

Dispatch ==
  /\ at = "queued" /\ driver = "running"
  /\ at' = "awaiting"
  /\ UNCHANGED << who, now, begun, timing, result, driver, handle, token,
                  manager, took >>

(***************************************************************************)
(* The connection's task owns an HTTP/1.1 connection, but of an HTTP/2 one *)
(* only the dispatcher: the streams are served by tasks of hyper's own.    *)
(***************************************************************************)
Served == driver = "running" \/ protocol = "h2"

(***************************************************************************)
(* foreign_probe_phases, the latency of a run and the time of a self       *)
(* probe.                                                                  *)
(***************************************************************************)
TcpHandshake == Since(timing.connect, timing.lookup)

TlsHandshake == Since(timing.secure, timing.connect)

FiguresFromStart(finished) ==
  [tcp |-> TcpHandshake, tls |-> timing.secure \div timing.roundTrips,
   http |-> Since(finished, timing.start)]

Figures(finished) ==
  IF kind = "self"
  THEN [tcp |-> 0, tls |-> 0, http |-> Since(finished, begun)]
  ELSE [tcp |-> TcpHandshake, tls |-> TlsHandshake \div timing.roundTrips,
        http |-> Since(finished, timing.start + timing.application)]

Answer(d) ==
  /\ Served
  /\ Step("awaiting", "done", "request", d)
  /\ result' = Figures(now')
  /\ UNCHANGED << timing, driver, handle >>

(***************************************************************************)
(* Any step over the network may fail.  A request fails when nothing is    *)
(* left to dispatch it or to serve it.                                     *)
(***************************************************************************)
Fail ==
  /\ at \in {"resolving", "connecting", "securing", "handshaking", "queued",
            "awaiting"}
  /\ at' = "failed"
  /\ UNCHANGED << who, now, begun, timing, result, driver, handle, token,
                  manager, took >>

CutOff ==
  /\ driver = "ended"
  /\ at = "queued" \/ (at = "awaiting" /\ ~Served)
  /\ Fail

Cancel ==
  /\ ~token /\ token' = TRUE
  /\ UNCHANGED << who, at, now, begun, timing, result, driver, handle,
                  manager, took >>

(***************************************************************************)
(* ConnectionManager::shutdown drops the handles registered so far.        *)
(***************************************************************************)
ManagerShutdown ==
  /\ token /\ manager = "open"
  /\ manager' = "closed" /\ handle' = FALSE
  /\ UNCHANGED << who, at, now, begun, timing, result, driver, token, took >>

(***************************************************************************)
(* The connection's task ends with its connection, and at shutdown.        *)
(***************************************************************************)
DriverEnds ==
  /\ driver = "running" /\ driver' = "ended"
  /\ UNCHANGED << who, at, now, begun, timing, result, handle, token,
                  manager, took >>


DriverShutdown == token /\ DriverEnds

NetworkStep ==
  \E d \in Duration :
    \/ Resolve(d) \/ Connect(d) \/ Handshake(d)
    \/ \E trips \in {1, 2} : Secure(d, trips)

Next ==
  \/ NetworkStep \/ Fail \/ Cancel \/ ManagerShutdown \/ DriverEnds
  \/ \E d \in Duration : Register(d) \/ Answer(d)
  \/ Send \/ Dispatch \/ CutOff \/ DriverShutdown

Spec == Init /\ [][Next]_vars

(***************************************************************************)
(* The tasks run.  A step of the set-up ends in success or failure: the    *)
(* code has no time limit of its own there and relies on the system's.     *)
(* Nothing makes the peer answer a request.                                *)
(***************************************************************************)
Fairness ==
  /\ WF_vars(NetworkStep)
  /\ WF_vars(\E d \in Duration : Register(d)) /\ WF_vars(Send)
  /\ WF_vars(Dispatch)
  /\ WF_vars(CutOff) /\ WF_vars(ManagerShutdown) /\ WF_vars(DriverShutdown)

FairSpec == Spec /\ Fairness

(***************************************************************************)
(* The peer answers the request.                                           *)
(***************************************************************************)
PeerFairness == WF_vars(\E d \in Duration : Answer(d))

-----------------------------------------------------------------------------
(***************************************************************************)
(* Stamps are of the past: a connection was ready to transmit before now.  *)
(***************************************************************************)
TypeOK ==
  /\ kind \in Kind /\ protocol \in ProtocolsOf(kind)
  /\ at \in {"resolving", "connecting", "securing", "handshaking",
             "registering", "ready", "queued", "awaiting", "done", "failed"}
  /\ now \in Nat /\ begun \in Nat
  /\ timing \in [start : Nat, lookup : Nat, connect : Nat, secure : Nat,
                 application : Nat, dns : Nat, roundTrips : 1..2]
  /\ timing.start + timing.application <= now
  /\ result \in [tcp : Nat, tls : Nat, http : Nat]
  /\ driver \in {"none", "running", "ended"}
  /\ handle \in BOOLEAN /\ token \in BOOLEAN
  /\ manager \in {"open", "closed"}
  /\ took \in [Phase -> Nat]

(***************************************************************************)
(* The three figures of a foreign probe do not overlap and leave out the   *)
(* resolution of the name: each is the time its own phase took, however    *)
(* slow the others were (foreign_probe_phases).  A self probe measures its *)
(* request alone, whatever the age of the connection it borrows            *)
(* (send_self_probe).                                                      *)
(***************************************************************************)
ProbeFiguresAreExact ==
  at = "done" =>
    /\ kind = "foreign" =>
         result = [tcp |-> took["tcp"],
                   tls |-> took["tls"] \div timing.roundTrips,
                   http |-> took["request"]]
    /\ kind = "self" => result.http = took["request"]

(***************************************************************************)
(* After a cancellation no task of the program keeps a connection running, *)
(* also when it was established only after the manager had shut down, and  *)
(* the request comes to an end whatever its peer does, unless it was       *)
(* already on an HTTP/2 stream: that one ends only when the peer answers.  *)
(***************************************************************************)
ShutdownEnds ==
  /\ token ~> [](/\ driver # "running"
                 /\ Ended \/ (protocol = "h2" /\ at = "awaiting"))
  /\ PeerFairness => (token ~> []Ended)

(***************************************************************************)
(* "The duration of the TCP handshake alone (excluding DNS resolution)"    *)
(* (connection/mod.rs:153): the latency of a run is that of the handshake. *)
(***************************************************************************)
LatencyIsHandshake ==
  kind = "latency" /\ at = "done" => result.tcp = took["tcp"]

(***************************************************************************)
(* "Returns the DNS lookup duration" (connection/mod.rs:128), which a      *)
(* transfer reports as its dns_time.                                       *)
(***************************************************************************)
DnsIsRecorded ==
  kind = "transfer" /\ at = "done" => timing.dns = took["dns"]

(***************************************************************************)
(* "Drop all `SendRequest` structs" (connection/map.rs:58): none is left   *)
(* once the manager has shut down.                                         *)
(***************************************************************************)
ClosedDropsAll == manager = "closed" => ~handle

(***************************************************************************)
(* "effectively cancelling all connections" (connection/map.rs:58): every  *)
(* request of a connection ends once the manager has shut down.            *)
(***************************************************************************)
CloseCancelsAll == manager = "closed" ~> Ended
=============================================================================
