------------------------------ MODULE Commands ------------------------------
(***************************************************************************)
(* One run of the program, from its start to its exit: main dispatches to  *)
(* a command, the command goes through its phases, and the run ends with   *)
(* success or with an error, which takes every task down with it.          *)
(*                                                                         *)
(* A leg of `rpm` and `saturate` is one run of Responsiveness; of it this  *)
(* module keeps how it ends, the figures it yields, the transfers its      *)
(* loads have under way and its shutdown token.  The phases of `rpm` are   *)
(* those of rpm::run, of which the two legs run one after the other; the   *)
(* legs of `saturate` run at the same time.                                *)
(*                                                                         *)
(* Every request of the program is made somewhere in here: `request` is    *)
(* the last one, to a host that is arbitrary, since the URLs come from the *)
(* command line or from a server; a client refuses a URL without a host.   *)
(***************************************************************************)
EXTENDS ScopedHeaders

CONSTANTS
  MaxLength,   \* model bound on the symbols of a host
  MaxTransfers \* model bound on the transfers of one leg

ASSUME MaxLengthAssumption == MaxLength \in Nat
ASSUME MaxTransfersAssumption == MaxTransfers \in Nat

Leg == {"download", "upload"}
Host == UNION {[1..n -> Symbol] : n \in 1..MaxLength}

(***************************************************************************)
(* What the command line says: the command, whether `rpm` is to fetch its  *)
(* URLs from an endpoint and to upload AIM scores, and the legs to run.    *)
(***************************************************************************)
Command ==
  [name : {"rpm"}, endpoint : BOOLEAN, aim : BOOLEAN, legs : {Leg}]
    \union
  [name : {"saturate"}, endpoint : {FALSE}, aim : {FALSE},
   legs : {Leg, {"download"}, {"upload"}}]
    \union
  [name : {"download", "upload", "rtt", "packet_loss"}, endpoint : {FALSE},
   aim : {FALSE}, legs : {{}}]

VARIABLES
  command,    \* the command line
  access,     \* the access token: "unset", "set" or "invalid"
  pc,         \* the phase, or how the run ended: "ok" or "failed"
  leg,        \* each leg: "idle", "running", "done" or "failed"
  figures,    \* what a leg that is done has measured
  cancelled,  \* the shutdown token of each leg
  transfers,  \* loads of each leg that are connecting or transferring
  aim,        \* the task that uploads the AIM scores
  printed,    \* the result was printed
  request     \* the last request made

legVars == << leg, figures, cancelled, transfers >>
vars == << command, access, pc, legVars, aim, printed, request >>

Exited == pc \in {"ok", "failed"}

Init ==
  /\ command \in Command
  /\ access \in {"unset", "set", "invalid"}
  /\ pc = "start"
  /\ leg = [l \in Leg |-> "idle"]
  /\ figures = [l \in Leg |-> {}]
  /\ cancelled = [l \in Leg |-> FALSE]
  /\ transfers = [l \in Leg |-> 0]
  /\ aim = "none" /\ printed = FALSE
  /\ request = [kind |-> "none", host |-> << >>, given |-> "none",
                header |-> "none"]

-----------------------------------------------------------------------------
(* Requests.                                                               *)

(***************************************************************************)
(* The clients that are given the scoped headers; a request that an upload *)
(* load issues after its first is one of them again.  ThroughputClient,    *)
(* which transfers and probes use, and Client apply them alike.            *)
(***************************************************************************)
Scoped(kind) == access = "set" /\ kind # "aim"

Ask(kind, host, given) ==
  request' = [kind |-> kind, host |-> host, given |-> given,
              header |-> Apply(Scoped(kind), host, given)]

-----------------------------------------------------------------------------
(* How a run moves on.                                                     *)

(***************************************************************************)
(* main returns, and what still runs ends with the runtime.                *)
(***************************************************************************)
Exit(outcome) ==
  /\ pc' = outcome
  /\ transfers' = [l \in Leg |-> 0]
  /\ aim' = IF aim \in {"spawned", "posted"} THEN "killed" ELSE aim

PrintAndExit == printed' = TRUE /\ Exit("ok")

GoTo(phase) == pc' = phase /\ UNCHANGED << transfers, aim >>

LegsStart(legs) ==
  leg' = [l \in Leg |-> IF l \in legs THEN "running" ELSE leg[l]]

FirstPhase ==
  CASE command.endpoint -> "config"
    [] command.name \in {"rpm", "rtt"} /\ ~command.endpoint -> "latency"
    [] command.name = "saturate" -> "legs"
    [] command.name \in {"download", "upload"} -> "transfer"
    [] command.name = "packet_loss" -> "creds"

(***************************************************************************)
(* Everything that can go wrong before the first request: an argument that *)
(* does not parse, or a token that is no header value.                     *)
(***************************************************************************)
StartFails ==
  /\ pc = "start"
  /\ Exit("failed")
  /\ UNCHANGED << command, access, leg, figures, cancelled, printed, request >>

Start ==
  /\ pc = "start" /\ access # "invalid"
  /\ GoTo(FirstPhase)
  /\ IF command.name = "saturate" THEN LegsStart(command.legs)
                                  ELSE UNCHANGED leg
  /\ UNCHANGED << command, access, figures, cancelled, printed, request >>

(***************************************************************************)
(* The requests of the phases that run one at a time.  Only `upload` takes *)
(* headers from the command line; a latency test makes one request after   *)
(* the other.                                                              *)
(***************************************************************************)
AskIn(phase, host, given) ==
  /\ pc = phase
  /\ Ask(phase, host, given)
  /\ UNCHANGED << command, access, pc, legVars, aim, printed >>

GetRpmConfig(host) == AskIn("config", host, "none")

MeasureLatency(host) == AskIn("latency", host, "none")

Download(host) == command.name = "download" /\ AskIn("transfer", host, "none")

Upload(host, given) ==
  command.name = "upload" /\ AskIn("transfer", host, given)

FetchTurnServerCreds(host) == AskIn("creds", host, "none")

LoadForLoss(host) == AskIn("loss", host, "none")

PhaseAsks(host) ==
  \/ GetRpmConfig(host) \/ MeasureLatency(host) \/ Download(host)
  \/ FetchTurnServerCreds(host) \/ LoadForLoss(host)
  \/ \E given \in {"none", "own"} : Upload(host, given)

(***************************************************************************)
(* A phase ends well.  The latency phase of `rpm` leads to the download    *)
(* leg, that of `rtt` is the last one; so are a transfer and the packet    *)
(* loss test, whose loads need not have started.                           *)
(***************************************************************************)
ConfigDone ==
  /\ pc = "config" /\ request.kind = pc
  /\ GoTo("latency")
  /\ UNCHANGED << command, access, leg, figures, cancelled, printed, request >>

LatencyDone ==
  /\ pc = "latency" /\ request.kind = pc
  /\ IF command.name = "rpm"
     THEN GoTo("legs") /\ LegsStart({"download"}) /\ UNCHANGED printed
     ELSE PrintAndExit /\ UNCHANGED leg
  /\ UNCHANGED << command, access, figures, cancelled, request >>

TransferDone ==
  /\ pc = "transfer" /\ request.kind = pc
  /\ PrintAndExit
  /\ UNCHANGED << command, access, leg, figures, cancelled, request >>

CredsDone ==
  /\ pc = "creds" /\ request.kind = pc
  /\ GoTo("loss")
  /\ UNCHANGED << command, access, leg, figures, cancelled, printed, request >>

LossDone ==
  /\ pc = "loss"
  /\ PrintAndExit
  /\ UNCHANGED << command, access, leg, figures, cancelled, request >>

PhaseDone ==
  ConfigDone \/ LatencyDone \/ TransferDone \/ CredsDone \/ LossDone

(***************************************************************************)
(* A connection or request fails, the status is no success, the answer     *)
(* cannot be read, or the configuration lacks a URL.                       *)
(***************************************************************************)
PhaseFails ==
  /\ pc \in {"config", "latency", "transfer", "creds", "loss"}
  /\ Exit("failed")
  /\ UNCHANGED << command, access, leg, figures, cancelled, printed, request >>

-----------------------------------------------------------------------------
(* The legs.                                                               *)

(***************************************************************************)
(* A load starts.                                                          *)
(***************************************************************************)
LoadAsks(l, host) ==
  /\ leg[l] = "running" /\ transfers[l] < MaxTransfers
  /\ Ask("load", host, "none")
  /\ transfers' = [transfers EXCEPT ![l] = @ + 1]
  /\ UNCHANGED << command, access, pc, leg, figures, cancelled, aim, printed >>

(***************************************************************************)
(* An upload load, of a leg or of the packet loss test, issues its next    *)
(* request.                                                                *)
(***************************************************************************)
LoadReissues(host) ==
  /\ \/ transfers["upload"] > 0
     \/ pc = "loss" /\ request.kind \in {"loss", "reissue"}
  /\ Ask("reissue", host, "none")
  /\ UNCHANGED << command, access, pc, legVars, aim, printed >>

(***************************************************************************)
(* `rpm` probes its legs, `saturate` only loads the link.                  *)
(***************************************************************************)
Probes(l, host) ==
  /\ leg[l] = "running" /\ command.name = "rpm"
  /\ Ask("probe", host, "none")
  /\ UNCHANGED << command, access, pc, legVars, aim, printed >>

(***************************************************************************)
(* A transfer ends.  A cancelled token makes it, save that over HTTP/2 a   *)
(* request already on its stream may wait for the peer.                    *)
(***************************************************************************)
TransferEnds(l) ==
  /\ transfers[l] > 0
  /\ transfers' = [transfers EXCEPT ![l] = @ - 1]
  /\ UNCHANGED << command, access, pc, leg, figures, cancelled, aim, printed,
                  request >>

(***************************************************************************)
(* The figures a leg may yield: a goodput as soon as there was an interval *)
(* and a loaded latency once a self probe was answered; a responsiveness   *)
(* needs both.                                                             *)
(***************************************************************************)
AllFigures == {"throughput", "latency", "rpm"}

Yield == {f \in SUBSET AllFigures : "rpm" \in f => f = AllFigures}

TokenKept(l) == cancelled

(***************************************************************************)
(* rpm::run_test and saturate::run_single_test cancel a leg's token when   *)
(* its test has a result, and leave it alone when the test fails.          *)
(***************************************************************************)
TokenCancelled(l) == [cancelled EXCEPT ![l] = TRUE]

(***************************************************************************)
(* What the command does once leg l has ended, and the legs stand as in s. *)
(***************************************************************************)
Others(s) == {l \in Leg : s[l] = "running"}

AfterLeg(l) ==
  LET ended == [leg EXCEPT ![l] = "done"] IN
  CASE command.name = "rpm" /\ l = "download" ->
         GoTo("legs") /\ leg' = [ended EXCEPT !["upload"] = "running"]
    [] command.name = "rpm" /\ l = "upload" ->
         GoTo("assemble") /\ leg' = ended
    [] OTHER ->
         GoTo(IF Others(ended) = {} THEN "print" ELSE "legs") /\ leg' = ended

LegDone(l) ==
  /\ leg[l] = "running"
  /\ \E f \in Yield : figures' = [figures EXCEPT ![l] = f]
  /\ cancelled' = TokenCancelled(l)
  /\ AfterLeg(l)
  /\ UNCHANGED << command, access, printed, request >>

(***************************************************************************)
(* An error of a leg is the command's error, save when two legs run at the *)
(* same time: then it is logged and the result is printed without the leg. *)
(***************************************************************************)
Tolerated == command.name = "saturate" /\ command.legs = Leg

LegFails(l) ==
  /\ leg[l] = "running"
  /\ leg' = [leg EXCEPT ![l] = "failed"]
  /\ IF Tolerated
     THEN GoTo(IF Others(leg') = {} THEN "print" ELSE "legs")
     ELSE Exit("failed")
  /\ UNCHANGED << command, access, figures, cancelled, printed, request >>

PrintResults ==
  /\ pc = "print"
  /\ PrintAndExit
  /\ UNCHANGED << command, access, leg, figures, cancelled, request >>

-----------------------------------------------------------------------------
(* The report of `rpm` and the upload of its AIM scores.                   *)

(***************************************************************************)
(* The task that uploads the scores is spawned before the report is built; *)
(* with the upload disabled it has nothing to do.                          *)
(***************************************************************************)
Assemble ==
  /\ pc = "assemble"
  /\ pc' = "report"
  /\ aim' = IF command.aim THEN "spawned" ELSE "over"
  /\ UNCHANGED << command, access, legVars, printed, request >>

AimHost == << "x" >>

AimPosts ==
  /\ aim = "spawned"
  /\ aim' = "posted"
  /\ Ask("aim", AimHost, "none")
  /\ UNCHANGED << command, access, pc, legVars, printed >>

AimEnds ==
  /\ aim \in {"spawned", "posted"}
  /\ aim' = "over"
  /\ UNCHANGED << command, access, pc, legVars, printed, request >>

(***************************************************************************)
(* A leg without throughput, loaded latency or responsiveness fails the    *)
(* report.                                                                 *)
(***************************************************************************)
ReportableWithoutRpm(l) == {"throughput", "latency"} \subseteq figures[l]

Reportable(l) == AllFigures \subseteq figures[l]

Report ==
  /\ pc = "report"
  /\ IF \A l \in Leg : Reportable(l)
     THEN printed' = TRUE /\ GoTo("deliver")
     ELSE Exit("failed") /\ UNCHANGED printed
  /\ UNCHANGED << command, access, leg, figures, cancelled, request >>

(***************************************************************************)
(* The report is out; the program waits for the upload of the scores, but  *)
(* no longer than a timeout.                                               *)
(***************************************************************************)
Delivered ==
  /\ pc = "deliver" /\ aim = "over"
  /\ Exit("ok")
  /\ UNCHANGED << command, access, leg, figures, cancelled, printed, request >>

TimedOutNever == FALSE

TimedOut == aim # "over"

TimesOut ==
  /\ pc = "deliver" /\ TimedOut
  /\ Exit("ok")
  /\ UNCHANGED << command, access, leg, figures, cancelled, printed, request >>

-----------------------------------------------------------------------------
Next ==
  \/ StartFails \/ Start \/ PhaseDone \/ PhaseFails
  \/ \E host \in Host :
       \/ PhaseAsks(host) \/ LoadReissues(host)
       \/ \E l \in Leg : LoadAsks(l, host) \/ Probes(l, host)
  \/ \E l \in Leg : TransferEnds(l) \/ LegDone(l) \/ LegFails(l)
  \/ PrintResults \/ Assemble \/ AimPosts \/ AimEnds \/ Report
  \/ Delivered \/ TimesOut

Spec == Init /\ [][Next]_vars

(***************************************************************************)
(* Each leg ends (Terminates in Responsiveness), the code between the legs *)
(* and the exit runs, and the timer of the timeout fires.  Nothing is      *)
(* assumed of a phase that waits for a peer.                               *)
(***************************************************************************)
Fairness ==
  /\ \A l \in Leg : WF_vars(LegDone(l) \/ LegFails(l))
  /\ WF_vars(PrintResults) /\ WF_vars(Assemble) /\ WF_vars(Report)
  /\ WF_vars(Delivered \/ TimesOut)

FairSpec == Spec /\ Fairness

-----------------------------------------------------------------------------
(***************************************************************************)
(* A request carries the access token exactly if there is one, the request *)
(* goes to a host under the allowed domain, and the user gave no such      *)
(* header, which is then sent as it is.  It holds for every request of     *)
(* every command, the later ones of an upload load and the probes          *)
(* included, whatever hosts a configuration names (ScopedHeaders::apply    *)
(* and each client it is handed to).                                       *)
(***************************************************************************)
TokenStaysInScope ==
  /\ request.header = "scoped" <=>
       /\ access = "set" /\ request.given = "none"
       /\ UnderDomain(request.host)
  /\ request.given = "own" => request.header = "own"

(***************************************************************************)
(* A leg of `rpm` measures a link that no other leg loads: while it runs,  *)
(* the other leg has no transfer under way, or one that was told to end    *)
(* (rpm::run_test cancels on success, and rpm::run goes no further on an   *)
(* error, which leaves the token alone).  What becomes of a transfer that  *)
(* was told is ShutdownEndsAll in UploadLoad.                              *)
(***************************************************************************)
LegsRunAlone ==
  command.name = "rpm" =>
    \A l, m \in Leg :
      leg[l] = "running" /\ m # l => transfers[m] = 0 \/ cancelled[m]

(***************************************************************************)
(* What is printed is the run's verdict: a run that exits with success has *)
(* printed a result, one that exits with an error has not, a report of     *)
(* `rpm` has every figure of both legs, and AIM scores leave the program   *)
(* only after both legs and only if they were not disabled ("a run that    *)
(* measured no responsiveness must not publish a plausible-looking         *)
(* number", report.rs tests).                                              *)
(***************************************************************************)
ReportIsWhole ==
  /\ pc = "ok" => printed
  /\ pc = "failed" => ~printed
  /\ printed /\ command.name = "rpm" =>
       \A l \in Leg : leg[l] = "done" /\ figures[l] = AllFigures
  /\ request.kind = "aim" =>
       command.aim /\ \A l \in Leg : leg[l] = "done"

(***************************************************************************)
(* From its first leg on a run comes to its end by itself: no load, failed *)
(* leg or silent AIM server keeps the program from exiting.                *)
(***************************************************************************)
Exits == pc = "legs" ~> Exited
=============================================================================
