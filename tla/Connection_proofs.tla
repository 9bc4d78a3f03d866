------------------------- MODULE Connection_proofs -------------------------
(***************************************************************************)
(* Proofs about Connection: however long the steps of a request take, and  *)
(* whenever the program is shut down, the figures of a probe are the times *)
(* of its own phases.                                                      *)
(***************************************************************************)
EXTENDS Connection, TLAPS

(***************************************************************************)
(* The stamps of a foreign probe add up to the phases that are over, and   *)
(* no phase has begun before its turn.  A request that failed keeps its    *)
(* stamps, but nobody reads them.                                          *)
(***************************************************************************)
Untouched ==
  /\ at \in {"resolving", "connecting"} => took["tcp"] = 0
  /\ at \in {"resolving", "connecting", "securing"} => took["tls"] = 0
  /\ at \in {"resolving", "connecting", "securing", "handshaking",
             "registering"} => took["request"] = 0

Stamped ==
  /\ timing.lookup = 0
  /\ at \in {"securing", "handshaking", "registering", "ready", "queued",
             "awaiting"}
       => timing.connect = took["tcp"]
  /\ at \in {"handshaking", "registering", "ready", "queued", "awaiting"}
       => timing.secure = took["tcp"] + took["tls"]

Clock ==
  /\ at = "connecting" => now = timing.start
  /\ at = "securing" => now = timing.start + timing.connect
  /\ at = "handshaking" => now = timing.start + timing.secure
  /\ at \in {"registering", "ready", "queued", "awaiting"}
       => now = timing.start + timing.application + took["request"]

ForeignStamps == kind = "foreign" => Untouched /\ Stamped /\ Clock

(***************************************************************************)
(* A self probe has no phase but its request.                              *)
(***************************************************************************)
SelfStamps ==
  kind = "self" =>
    /\ at \in {"ready", "queued", "awaiting", "done", "failed"}
    /\ now = begun + took["request"]

IInv == TypeOK /\ ForeignStamps /\ SelfStamps /\ ProbeFiguresAreExact

-----------------------------------------------------------------------------
(***************************************************************************)
(* The difference of two stamps, and the time of one of the one or two     *)
(* round trips of a TLS handshake, are naturals.                           *)
(***************************************************************************)
LEMMA Differences ==
  ASSUME NEW t \in Nat, NEW earlier \in Nat
  PROVE  /\ Since(t, earlier) \in Nat
         /\ earlier <= t => Since(t, earlier) = t - earlier
         /\ \A trips \in 1..2 : t \div trips \in Nat
<1>1. \A trips \in 1..2 : t \div trips \in Nat
  <2>1. t \div 1 \in Nat /\ t \div 2 \in Nat
    OBVIOUS
  <2> QED
    BY <2>1
<1> QED
  BY <1>1 DEF Since

(***************************************************************************)
(* A stamp taken now is the time since the connection's clock started.     *)
(***************************************************************************)
LEMMA StampedNow ==
  ASSUME TypeOK, now' \in Nat, now <= now'
  PROVE  /\ Since(now', timing.start) = now' - timing.start
         /\ Since(now', timing.start) \in Nat
         /\ timing.start + Since(now', timing.start) = now'
<1>1. /\ timing.start \in Nat /\ timing.application \in Nat /\ now \in Nat
      /\ timing.start + timing.application <= now
  BY DEF TypeOK
<1> QED
  BY <1>1 DEF Since

LEMMA InitInvariant == Init => IInv
<1> SUFFICES ASSUME Init PROVE IInv
  OBVIOUS
<1>1. TypeOK
  <2>1. handle \in BOOLEAN
    <3>1. handle = (kind = "self")
      BY DEF Init
    <3> QED
      BY <3>1
  <2> QED
    <3>1. /\ timing \in [start : Nat, lookup : Nat, connect : Nat, secure : Nat,
                         application : Nat, dns : Nat, roundTrips : 1..2]
          /\ timing.start + timing.application = 0
      BY DEF Init, FreshTiming
    <3>2. now \in Nat /\ begun \in Nat /\ 0 <= now
      BY DEF Init
    <3>3. /\ result \in [tcp : Nat, tls : Nat, http : Nat]
          /\ took \in [Phase -> Nat]
      BY DEF Init
    <3> QED
      BY <2>1, <3>1, <3>2, <3>3 DEF Init, TypeOK, Kind
<1>2. ForeignStamps /\ SelfStamps /\ ProbeFiguresAreExact
  BY DEF Init, ForeignStamps, Untouched, Stamped, Clock, SelfStamps,
         ProbeFiguresAreExact, FreshTiming, Phase, Kind
<1> QED
  BY <1>1, <1>2 DEF IInv

(***************************************************************************)
(* A step that takes time adds it to the clock and to its own phase only.  *)
(***************************************************************************)
LEMMA StepAdds ==
  ASSUME TypeOK, NEW from, NEW to, NEW phase \in Phase, NEW d \in Duration,
         Step(from, to, phase, d)
  PROVE  /\ d \in Nat /\ now' = now + d /\ now' \in Nat
         /\ at = from /\ at' = to
         /\ took' \in [Phase -> Nat]
         /\ took'[phase] = took[phase] + d
         /\ \A p \in Phase \ {phase} : took'[p] = took[p]
         /\ \A p \in Phase : took[p] \in Nat
         /\ UNCHANGED << kind, protocol, begun, token, manager >>
BY MaxStepAssumption DEF TypeOK, Step, Duration, who

LEMMA ResolveKeeps ==
  ASSUME IInv, NEW d \in Duration, Resolve(d)
  PROVE  IInv'
<1>1. Step("resolving", "connecting", "dns", d) /\ "dns" \in Phase
  BY DEF Resolve, Phase
<1>2. /\ d \in Nat /\ now' = now + d /\ now' \in Nat
      /\ at = "resolving" /\ at' = "connecting"
      /\ took' \in [Phase -> Nat]
      /\ \A p \in Phase \ {"dns"} : took'[p] = took[p]
      /\ UNCHANGED << kind, protocol, begun, token, manager >>
  BY <1>1, StepAdds DEF IInv
<1>3. /\ timing' = FreshTiming(ClockStart(d))
      /\ UNCHANGED << result, driver, handle >>
  BY DEF Resolve
<1>4. ClockStart(d) \in Nat /\ ClockStart(d) <= now'
      /\ (kind = "foreign" => ClockStart(d) = now')
  BY <1>2 DEF ClockStart, IInv, TypeOK
<1>5. TypeOK'
  BY <1>2, <1>3, <1>4 DEF IInv, TypeOK, FreshTiming
<1>6. ForeignStamps'
  BY <1>2, <1>3, <1>4
     DEF IInv, ForeignStamps, Untouched, Stamped, Clock, FreshTiming, Phase
<1>7. SelfStamps' /\ ProbeFiguresAreExact'
  BY <1>2 DEF IInv, SelfStamps, ProbeFiguresAreExact
<1> QED
  BY <1>5, <1>6, <1>7 DEF IInv

LEMMA ConnectKeeps ==
  ASSUME IInv, NEW d \in Duration, Connect(d)
  PROVE  IInv'
<1> DEFINE next == IF protocol = "h1 plain" THEN "handshaking" ELSE "securing"
<1>1. Step("connecting", next, "tcp", d) /\ "tcp" \in Phase
  BY DEF Connect, Phase
<1>n. /\ next \in {"securing", "handshaking"}
      /\ kind = "foreign" => next = "securing"
  BY DEF IInv, TypeOK, ProtocolsOf
<1>a. at = "connecting" /\ at' = next
  BY <1>1 DEF Step
<1>2. /\ d \in Nat /\ now' = now + d /\ now' \in Nat
      /\ at = "connecting" /\ at' \in {"securing", "handshaking"}
      /\ kind = "foreign" => at' = "securing"
      /\ took' \in [Phase -> Nat] /\ took'["tcp"] = took["tcp"] + d
      /\ \A p \in Phase \ {"tcp"} : took'[p] = took[p]
      /\ UNCHANGED << kind, protocol, begun, token, manager >>
  <2> HIDE DEF next
  <2> QED
    BY <1>1, <1>n, <1>a, StepAdds DEF IInv
<1>3. /\ timing' = [timing EXCEPT !.connect = Since(now', timing.start)]
      /\ UNCHANGED << result, driver, handle >>
  BY DEF Connect
<1>4. /\ Since(now', timing.start) = now' - timing.start
      /\ Since(now', timing.start) \in Nat
      /\ timing.start + Since(now', timing.start) = now'
  <2>1. now <= now'
    BY <1>2 DEF IInv, TypeOK
  <2> QED
    BY <1>2, <2>1, StampedNow DEF IInv
<1>5. TypeOK'
  BY <1>2, <1>3, <1>4 DEF IInv, TypeOK
<1>6. ForeignStamps'
  BY <1>2, <1>3, <1>4
     DEF IInv, TypeOK, ForeignStamps, Untouched, Stamped, Clock, Phase
<1>7. SelfStamps' /\ ProbeFiguresAreExact'
  BY <1>2 DEF IInv, SelfStamps, ProbeFiguresAreExact
<1> QED
  BY <1>5, <1>6, <1>7 DEF IInv

LEMMA SecureKeeps ==
  ASSUME IInv, NEW d \in Duration, NEW trips \in {1, 2}, Secure(d, trips)
  PROVE  IInv'
<1>1. Step("securing", "handshaking", "tls", d) /\ "tls" \in Phase
  BY DEF Secure, Phase
<1>2. /\ d \in Nat /\ now' = now + d /\ now' \in Nat
      /\ at = "securing" /\ at' = "handshaking"
      /\ took' \in [Phase -> Nat] /\ took'["tls"] = took["tls"] + d
      /\ \A p \in Phase \ {"tls"} : took'[p] = took[p]
      /\ UNCHANGED << kind, protocol, begun, token, manager >>
  BY <1>1, StepAdds DEF IInv
<1>3. /\ timing' = [timing EXCEPT !.secure = Since(now', timing.start),
                                  !.roundTrips = trips]
      /\ UNCHANGED << result, driver, handle >>
  BY DEF Secure
<1>4. /\ Since(now', timing.start) = now' - timing.start
      /\ Since(now', timing.start) \in Nat
      /\ timing.start + Since(now', timing.start) = now'
  <2>1. now <= now'
    BY <1>2 DEF IInv, TypeOK
  <2> QED
    BY <1>2, <2>1, StampedNow DEF IInv
<1>5. TypeOK'
  <2> DEFINE since == Since(now', timing.start)
  <2>1. timing \in [start : Nat, lookup : Nat, connect : Nat, secure : Nat,
                    application : Nat, dns : Nat, roundTrips : 1..2]
    BY DEF IInv, TypeOK
  <2>2. since \in Nat /\ trips \in 1..2
    BY <1>4
  <2> HIDE DEF since
  <2>3. /\ [timing EXCEPT !.secure = since, !.roundTrips = trips]
             \in [start : Nat, lookup : Nat, connect : Nat, secure : Nat,
                 application : Nat, dns : Nat, roundTrips : 1..2]
        /\ [timing EXCEPT !.secure = since, !.roundTrips = trips].start
             = timing.start
        /\ [timing EXCEPT !.secure = since, !.roundTrips = trips].application
             = timing.application
    BY <2>1, <2>2
  <2> QED
    BY <1>2, <1>3, <2>3 DEF IInv, TypeOK, since
<1>6. ForeignStamps'
  BY <1>2, <1>3, <1>4
     DEF IInv, TypeOK, ForeignStamps, Untouched, Stamped, Clock, Phase
<1>7. SelfStamps' /\ ProbeFiguresAreExact'
  BY <1>2 DEF IInv, SelfStamps, ProbeFiguresAreExact
<1> QED
  BY <1>5, <1>6, <1>7 DEF IInv

LEMMA HandshakeKeeps ==
  ASSUME IInv, NEW d \in Duration, Handshake(d)
  PROVE  IInv'
<1>1. Step("handshaking", "registering", "application", d)
      /\ "application" \in Phase
  BY DEF Handshake, Phase
<1>2. /\ d \in Nat /\ now' = now + d /\ now' \in Nat
      /\ at = "handshaking" /\ at' = "registering"
      /\ took' \in [Phase -> Nat]
      /\ \A p \in Phase \ {"application"} : took'[p] = took[p]
      /\ UNCHANGED << kind, protocol, begun, token, manager >>
  BY <1>1, StepAdds DEF IInv
<1>3. /\ timing' = [timing EXCEPT !.application = Since(now', timing.start)]
      /\ driver' = "running"
      /\ UNCHANGED << result, handle >>
  BY DEF Handshake
<1>4. /\ Since(now', timing.start) = now' - timing.start
      /\ Since(now', timing.start) \in Nat
      /\ timing.start + Since(now', timing.start) = now'
  <2>1. now <= now'
    BY <1>2 DEF IInv, TypeOK
  <2> QED
    BY <1>2, <2>1, StampedNow DEF IInv
<1>5. TypeOK'
  BY <1>2, <1>3, <1>4 DEF IInv, TypeOK
<1>6. ForeignStamps'
  BY <1>2, <1>3, <1>4
     DEF IInv, TypeOK, ForeignStamps, Untouched, Stamped, Clock, Phase
<1>7. SelfStamps' /\ ProbeFiguresAreExact'
  BY <1>2 DEF IInv, SelfStamps, ProbeFiguresAreExact
<1> QED
  BY <1>5, <1>6, <1>7 DEF IInv

LEMMA RegisterKeeps ==
  ASSUME IInv, NEW d \in Duration, Register(d)
  PROVE  IInv'
<1>1. Step("registering", "ready", "request", d) /\ "request" \in Phase
  BY DEF Register, Phase
<1>2. /\ d \in Nat /\ now' = now + d /\ now' \in Nat
      /\ at = "registering" /\ at' = "ready"
      /\ took' \in [Phase -> Nat] /\ took'["request"] = took["request"] + d
      /\ \A p \in Phase \ {"request"} : took'[p] = took[p]
      /\ UNCHANGED << kind, protocol, begun, token, manager >>
  BY <1>1, StepAdds DEF IInv
<1>3. handle' = TRUE /\ UNCHANGED << timing, result, driver >>
  BY DEF Register
<1>4. TypeOK'
  BY <1>2, <1>3 DEF IInv, TypeOK
<1>5. ForeignStamps'
  BY <1>2, <1>3
     DEF IInv, TypeOK, ForeignStamps, Untouched, Stamped, Clock, Phase
<1>6. SelfStamps' /\ ProbeFiguresAreExact'
  BY <1>2 DEF IInv, SelfStamps, ProbeFiguresAreExact
<1> QED
  BY <1>4, <1>5, <1>6 DEF IInv

(***************************************************************************)
(* The figures of a probe are read when its answer is complete.            *)
(***************************************************************************)
LEMMA AnswerKeeps ==
  ASSUME IInv, NEW d \in Duration, Answer(d)
  PROVE  IInv'
<1>1. Step("awaiting", "done", "request", d) /\ "request" \in Phase
  BY DEF Answer, Phase
<1>2. /\ d \in Nat /\ now' = now + d /\ now' \in Nat
      /\ at = "awaiting" /\ at' = "done"
      /\ took' \in [Phase -> Nat] /\ took'["request"] = took["request"] + d
      /\ \A p \in Phase \ {"request"} : took'[p] = took[p]
      /\ \A p \in Phase : took[p] \in Nat
      /\ UNCHANGED << kind, protocol, begun, token, manager >>
  BY <1>1, StepAdds DEF IInv
<1>3. result' = Figures(now') /\ UNCHANGED << timing, driver, handle >>
  BY DEF Answer
<1>4. /\ timing.start \in Nat /\ timing.application \in Nat
      /\ timing.connect \in Nat /\ timing.secure \in Nat
      /\ timing.lookup \in Nat /\ timing.roundTrips \in 1..2
      /\ begun \in Nat /\ timing.start + timing.application \in Nat
  BY DEF IInv, TypeOK
<1>5. Figures(now') \in [tcp : Nat, tls : Nat, http : Nat]
  BY <1>2, <1>4, Differences DEF Figures, TcpHandshake, TlsHandshake
<1>6. TypeOK'
  BY <1>2, <1>3, <1>5 DEF IInv, TypeOK
<1>7. ASSUME kind = "foreign"
      PROVE  Figures(now') = [tcp |-> took'["tcp"],
                              tls |-> took'["tls"] \div timing.roundTrips,
                              http |-> took'["request"]]
  <2>1. /\ timing.lookup = 0 /\ timing.connect = took["tcp"]
        /\ timing.secure = took["tcp"] + took["tls"]
        /\ now = timing.start + timing.application + took["request"]
    BY <1>2, <1>7 DEF IInv, ForeignStamps, Stamped, Clock
  <2>2. took["tcp"] \in Nat /\ took["tls"] \in Nat /\ took["request"] \in Nat
        /\ took'["tcp"] = took["tcp"] /\ took'["tls"] = took["tls"]
    BY <1>2 DEF Phase
  <2>3. TcpHandshake = took'["tcp"] /\ TlsHandshake = took'["tls"]
    BY <1>4, <2>1, <2>2 DEF TcpHandshake, TlsHandshake, Since
  <2>4. Since(now', timing.start + timing.application) = took'["request"]
    BY <1>2, <1>4, <2>1, <2>2 DEF Since
  <2> QED
    BY <1>7, <2>3, <2>4 DEF Figures
<1>8. ASSUME kind = "self"
      PROVE  Figures(now').http = took'["request"]
                /\ now' = begun + took'["request"]
  <2>1. now = begun + took["request"] /\ took["request"] \in Nat
    BY <1>2, <1>8 DEF IInv, SelfStamps, Phase
  <2> QED
    BY <1>2, <1>4, <1>8, <2>1 DEF Figures, Since
<1>9. ForeignStamps'
  BY <1>2, <1>3 DEF IInv, ForeignStamps, Untouched, Stamped, Clock
<1>10. SelfStamps' /\ ProbeFiguresAreExact'
  BY <1>2, <1>3, <1>7, <1>8 DEF SelfStamps, ProbeFiguresAreExact
<1> QED
  BY <1>6, <1>9, <1>10 DEF IInv

(***************************************************************************)
(* Steps that take no time: sending, failing, and the shutdown.            *)
(***************************************************************************)
LEMMA InstantKeeps ==
  ASSUME IInv,
         Send \/ Dispatch \/ Fail \/ Cancel \/ ManagerShutdown
           \/ DriverEnds \/ UNCHANGED vars
  PROVE  IInv'
<1>1. UNCHANGED << kind, protocol, now, begun, timing, result, took >>
  BY DEF Send, Dispatch, Fail, Cancel, ManagerShutdown, DriverEnds, vars, who
<1>2. \/ UNCHANGED at
      \/ at = "ready" /\ at' = "queued"
      \/ at = "queued" /\ at' = "awaiting"
      \/ at # "done" /\ at' = "failed"
  BY DEF Send, Dispatch, Fail, Cancel, ManagerShutdown, DriverEnds, vars, who
<1>3. TypeOK'
  <2>1. /\ driver' \in {"none", "running", "ended"}
        /\ handle' \in BOOLEAN /\ token' \in BOOLEAN
        /\ manager' \in {"open", "closed"}
    BY DEF IInv, TypeOK, Send, Dispatch, Fail, Cancel, ManagerShutdown,
           DriverEnds, vars, who
  <2> QED
    BY <1>1, <1>2, <2>1 DEF IInv, TypeOK
<1>4. ForeignStamps'
  BY <1>1, <1>2 DEF IInv, ForeignStamps, Untouched, Stamped, Clock
<1>5. SelfStamps'
  BY <1>1, <1>2 DEF IInv, SelfStamps
<1>6. ProbeFiguresAreExact'
  BY <1>1, <1>2 DEF IInv, ProbeFiguresAreExact
<1> QED
  BY <1>3, <1>4, <1>5, <1>6 DEF IInv

-----------------------------------------------------------------------------
LEMMA Invariance == Spec => []IInv
<1>1. IInv /\ [Next]_vars => IInv'
  <2> SUFFICES ASSUME IInv, [Next]_vars PROVE IInv'
    OBVIOUS
  <2>1. CASE NetworkStep
    BY <2>1, ResolveKeeps, ConnectKeeps, HandshakeKeeps, SecureKeeps
       DEF NetworkStep
  <2>2. CASE \E d \in Duration : Register(d) \/ Answer(d)
    BY <2>2, RegisterKeeps, AnswerKeeps
  <2>3. CASE Send \/ Dispatch \/ Fail \/ Cancel \/ ManagerShutdown
               \/ DriverEnds \/ UNCHANGED vars
    BY <2>3, InstantKeeps
  <2> QED
    BY <2>1, <2>2, <2>3 DEF Next, CutOff, DriverShutdown
<1> QED
  BY <1>1, InitInvariant, PTL DEF Spec

(***************************************************************************)
(* Type correctness, with a connection that was ready before now.          *)
(***************************************************************************)
THEOREM TypeCorrect == Spec => []TypeOK
<1>1. IInv => TypeOK
  BY DEF IInv
<1> QED
  BY <1>1, Invariance, PTL

(***************************************************************************)
(* For any length of any step: the three figures of a foreign probe are    *)
(* the times of its TCP handshake, of a round trip of its TLS handshake    *)
(* and of its request, and a self probe measures its request alone.        *)
(***************************************************************************)
THEOREM FiguresAreExact == Spec => []ProbeFiguresAreExact
<1>1. IInv => ProbeFiguresAreExact
  BY DEF IInv
<1> QED
  BY <1>1, Invariance, PTL
=============================================================================
