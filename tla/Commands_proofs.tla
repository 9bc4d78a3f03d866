-------------------------- MODULE Commands_proofs --------------------------
(***************************************************************************)
(* Proofs about Commands and ScopedHeaders, for hosts of every length and  *)
(* any number of transfers.                                                *)
(***************************************************************************)
EXTENDS Commands, WellFoundedInduction, TLAPS

-----------------------------------------------------------------------------
(* The scope of the headers.                                               *)

(***************************************************************************)
(* A set of naturals that is not empty has a least element.                *)
(***************************************************************************)
LEMMA LeastNatural ==
  ASSUME NEW T \in SUBSET Nat, T # {}
  PROVE  \E n \in T : \A m \in T : n <= m
<1> DEFINE R == OpToRel(<, Nat)
<1>1. PICK n \in T : \A m \in T : << m, n >> \notin R
  <2>1. IsWellFoundedOn(R, Nat)
    BY NatLessThanWellFounded
  <2> HIDE DEF R
  <2> QED
    BY <2>1, WFMin
<1>2. \A m \in T : ~(m < n)
  BY <1>1 DEF OpToRel
<1> QED
  BY <1>2

(***************************************************************************)
(* What LastOfName chooses exists: only dots follow the last symbol of the *)
(* name, which is no dot itself.                                           *)
(***************************************************************************)
LEMMA LastOfNameIs ==
  ASSUME NEW host \in Seq(Symbol)
  PROVE  /\ LastOfName(host) \in 0..Len(host)
         /\ LastOfName(host) > 0 => host[LastOfName(host)] # "."
         /\ \A i \in (LastOfName(host) + 1)..Len(host) : host[i] = "."
<1> DEFINE T == {n \in 0..Len(host) : \A i \in (n + 1)..Len(host) : host[i] = "."}
<1>1. T \in SUBSET Nat /\ T # {}
  <2>1. Len(host) \in T
    OBVIOUS
  <2> QED
    BY <2>1
<1>2. PICK n \in T : \A m \in T : n <= m
  <2> HIDE DEF T
  <2> QED
    BY <1>1, LeastNatural
<1>3. n > 0 => host[n] # "."
  <2> SUFFICES ASSUME n > 0, host[n] = "."
               PROVE  FALSE
    OBVIOUS
  <2>1. \A i \in n..Len(host) : i = n \/ i \in (n + 1)..Len(host)
    BY <1>2
  <2>2. n - 1 \in T
    BY <1>2, <2>1
  <2> QED
    BY <1>2, <2>2
<1> QED
  BY <1>2, <1>3 DEF LastOfName

(***************************************************************************)
(* For every host: allows_host, which works on the normalised text, admits *)
(* a host exactly if its last label is the allowed domain.                 *)
(***************************************************************************)
THEOREM ScopeIsByLabel ==
  ASSUME NEW host \in Seq(Symbol)
  PROVE  AllowsHost(host) <=> UnderDomain(host)
<1> DEFINE n == LastOfName(host)
           name == Normalised(host)
<1>1. /\ n \in 0..Len(host)
      /\ n > 0 => host[n] # "."
      /\ \A i \in (n + 1)..Len(host) : host[i] = "."
  BY LastOfNameIs
<1>2. \A i \in DOMAIN host : host[i] \in Symbol
  OBVIOUS
<1>3. /\ name \in Seq(Symbol) /\ Len(name) = n
      /\ \A i \in 1..n : name[i] = IF host[i] = "S" THEN "s" ELSE host[i]
  <2>1. name = [i \in 1..n |-> IF host[i] = "S" THEN "s" ELSE host[i]]
    BY DEF Normalised
  <2> HIDE DEF name, n
  <2>2. name \in [1..n -> Symbol]
    BY <1>1, <1>2, <2>1 DEF Symbol
  <2> QED
    BY <1>1, <2>1, <2>2
<1> HIDE DEF n, name
<1>4. AllowsHost(host) <=>
        n > 0 /\ name[n] = "s" /\ (n > 1 => name[n - 1] = ".")
  <2>1. name = << "s" >> <=> n = 1 /\ name[1] = "s"
    BY <1>1, <1>3
  <2> QED
    BY <1>1, <1>3, <2>1 DEF AllowsHost, EndsWithDomain, name
<1>5. ASSUME n > 0
      PROVE  /\ name[n] = "s" <=> host[n] \in {"s", "S"}
             /\ n > 1 => (name[n - 1] = "." <=> host[n - 1] = ".")
  BY <1>1, <1>3, <1>5
<1>6. ASSUME NEW i \in DOMAIN host, host[i] # ".",
             \A j \in (i + 1)..Len(host) : host[j] = "."
      PROVE  i = n
  <2>1. i \in 1..Len(host)
    OBVIOUS
  <2>2. ~(i > n)
    BY <1>1, <1>6, <2>1
  <2>3. ~(n > i)
    BY <1>1, <1>6, <2>1
  <2> QED
    BY <1>1, <2>1, <2>2, <2>3
<1>7. UnderDomain(host) <=>
        /\ n > 0 /\ host[n] \in {"s", "S"}
        /\ n > 1 => host[n - 1] = "."
  <2>1. ASSUME UnderDomain(host)
        PROVE  /\ n > 0 /\ host[n] \in {"s", "S"}
               /\ n > 1 => host[n - 1] = "."
    <3>1. PICK i \in DOMAIN host :
            /\ host[i] \in {"s", "S"}
            /\ i > 1 => host[i - 1] = "."
            /\ \A j \in (i + 1)..Len(host) : host[j] = "."
      BY <2>1 DEF UnderDomain
    <3>2. i = n
      BY <1>6, <3>1
    <3> QED
      BY <3>1, <3>2
  <2>2. ASSUME n > 0, host[n] \in {"s", "S"}, n > 1 => host[n - 1] = "."
        PROVE  UnderDomain(host)
    <3>1. n \in DOMAIN host
      BY <1>1, <2>2
    <3> QED
      BY <1>1, <2>2, <3>1 DEF UnderDomain
  <2> QED
    BY <2>1, <2>2
<1> QED
  BY <1>4, <1>5, <1>7

-----------------------------------------------------------------------------
(* The invariant.                                                          *)

TypeInv ==
  /\ command \in Command
  /\ access \in {"unset", "set", "invalid"}
  /\ pc \in {"start", "config", "latency", "transfer", "creds", "loss",
             "legs", "assemble", "report", "deliver", "print", "ok", "failed"}
  /\ leg \in [Leg -> {"idle", "running", "done", "failed"}]
  /\ figures \in [Leg -> SUBSET AllFigures]
  /\ cancelled \in [Leg -> BOOLEAN]
  /\ transfers \in [Leg -> Nat]
  /\ aim \in {"none", "spawned", "posted", "over", "killed"}
  /\ printed \in BOOLEAN

(***************************************************************************)
(* The last request was made to a host of symbols, with what Ask puts into *)
(* it; its kind tells how far the run is.                                  *)
(***************************************************************************)
RequestInv ==
  /\ request.host \in Seq(Symbol)
  /\ request.given \in {"none", "own"}
  /\ \/ request.kind = "none" /\ request.given = "none"
        /\ request.header = "none" /\ request.host = << >>
     \/ request.header = Apply(Scoped(request.kind), request.host,
                               request.given)
  /\ request.kind = "aim" => request.host = AimHost
  /\ request.kind = "aim" \/ aim \in {"spawned", "posted"} =>
       /\ command.aim
       /\ \A l \in Leg : leg[l] = "done"
       /\ pc \in {"report", "deliver", "ok", "failed"}

(***************************************************************************)
(* Which command is in which phase.                                        *)
(***************************************************************************)
PhaseInv ==
  /\ pc \in {"config", "assemble", "report", "deliver"} =>
       command.name = "rpm"
  /\ pc = "transfer" => command.name \in {"download", "upload"}
  /\ pc \in {"creds", "loss"} => command.name = "packet_loss"
  /\ pc = "print" => command.name = "saturate"
  /\ command.endpoint => command.name = "rpm"

(***************************************************************************)
(* How the legs stand in each phase.                                       *)
(***************************************************************************)
LegsInv ==
  /\ pc \in {"start", "config", "latency"} =>
       \A l \in Leg : leg[l] = "idle"
  /\ \A l \in Leg : leg[l] = "idle" => transfers[l] = 0
  /\ \A l \in Leg : leg[l] = "done" => cancelled[l]
  /\ \A l \in Leg : leg[l] = "running" => pc = "legs"
  /\ \A l \in Leg : leg[l] # "idle" =>
       command.name \in {"rpm", "saturate"} /\ l \in command.legs
  /\ command.name = "rpm" =>
       /\ pc = "legs" =>
            \/ leg["download"] = "running" /\ leg["upload"] = "idle"
            \/ leg["download"] = "done" /\ leg["upload"] = "running"
       /\ pc \in {"assemble", "report", "deliver"} =>
            \A l \in Leg : leg[l] = "done"

(***************************************************************************)
(* What is printed when.                                                   *)
(***************************************************************************)
OutputInv ==
  /\ printed <=> pc \in {"deliver", "ok"}
  /\ printed /\ command.name = "rpm" =>
       \A l \in Leg : leg[l] = "done" /\ figures[l] = AllFigures

IInv == TypeInv /\ RequestInv /\ PhaseInv /\ LegsInv /\ OutputInv

-----------------------------------------------------------------------------
(* Each step keeps the invariant.                                          *)

LEMMA InitInvariant == Init => IInv
<1> SUFFICES ASSUME Init PROVE IInv
  OBVIOUS
<1>1. TypeInv
  BY DEF Init, TypeInv
<1>2. RequestInv
  BY DEF Init, RequestInv, Symbol
<1>3. PhaseInv
  BY DEF Init, PhaseInv, Command
<1>4. LegsInv /\ OutputInv
  BY DEF Init, LegsInv, OutputInv
<1> QED
  BY <1>1, <1>2, <1>3, <1>4 DEF IInv

(***************************************************************************)
(* What Command says of the commands, as far as the steps ask.             *)
(***************************************************************************)
LEMMA CommandFacts ==
  ASSUME TypeInv
  PROVE  /\ command.name \in {"rpm", "saturate", "download", "upload", "rtt",
                              "packet_loss"}
         /\ command.legs \subseteq Leg
         /\ command.name = "rpm" => command.legs = Leg
         /\ \A l, m \in command.legs : l # m => command.legs = Leg
         /\ command.endpoint \in BOOLEAN /\ command.aim \in BOOLEAN
<1> DEFINE Rpm == [name : {"rpm"}, endpoint : BOOLEAN, aim : BOOLEAN,
                   legs : {Leg}]
           Saturate == [name : {"saturate"}, endpoint : {FALSE}, aim : {FALSE},
                        legs : {Leg, {"download"}, {"upload"}}]
           Plain == [name : {"download", "upload", "rtt", "packet_loss"},
                     endpoint : {FALSE}, aim : {FALSE}, legs : {{}}]
<1>1. command \in Rpm \/ command \in Saturate \/ command \in Plain
  BY DEF TypeInv, Command
<1>2. CASE command \in Rpm
  <2>1. command.name = "rpm" /\ command.endpoint \in BOOLEAN
        /\ command.aim \in BOOLEAN /\ command.legs = Leg
    BY <1>2
  <2> QED
    BY <2>1
<1>3. CASE command \in Saturate
  <2>1. command.name = "saturate" /\ command.endpoint = FALSE
        /\ command.aim = FALSE
        /\ command.legs \in {Leg, {"download"}, {"upload"}}
    BY <1>3
  <2>2. command.legs \subseteq Leg
        /\ \A l, m \in command.legs : l # m => command.legs = Leg
    BY <2>1 DEF Leg
  <2> QED
    BY <2>1, <2>2
<1>4. CASE command \in Plain
  <2>1. command.name \in {"download", "upload", "rtt", "packet_loss"}
        /\ command.endpoint = FALSE /\ command.aim = FALSE
        /\ command.legs = {}
    BY <1>4
  <2> QED
    BY <2>1
<1> QED
  BY <1>1, <1>2, <1>3, <1>4

(***************************************************************************)
(* Every host of the model is a sequence of symbols.                       *)
(***************************************************************************)
LEMMA HostIsSeq == Host \subseteq Seq(Symbol)
BY MaxLengthAssumption DEF Host

(***************************************************************************)
(* A step that ends the run, when no leg runs any more.                    *)
(***************************************************************************)
LEMMA ExitKeeps ==
  ASSUME IInv, Exit(pc'), pc' \in {"ok", "failed"},
         printed' <=> pc' = "ok",
         printed' => printed \/ command.name # "rpm",
         leg' \in [Leg -> {"idle", "running", "done", "failed"}],
         \A l \in Leg : leg'[l] # "running",
         \A l \in Leg : leg'[l] # leg[l] => leg[l] = "running" /\ leg'[l] = "failed",
         UNCHANGED << command, access, figures, cancelled, request >>
  PROVE  IInv'
<1>1. TypeInv'
  BY DEF IInv, TypeInv, Exit
<1>2. RequestInv'
  BY DEF IInv, RequestInv, TypeInv, Exit, Scoped
<1>3. PhaseInv'
  BY DEF IInv, PhaseInv
<1>4. LegsInv'
  BY DEF IInv, LegsInv, TypeInv, Exit
<1>5. OutputInv'
  BY DEF IInv, OutputInv, TypeInv
<1> QED
  BY <1>1, <1>2, <1>3, <1>4, <1>5 DEF IInv

(***************************************************************************)
(* A request of any client but that of the AIM scores.                     *)
(***************************************************************************)
LEMMA AskKeeps ==
  ASSUME IInv, NEW kind \in {"config", "latency", "transfer", "creds", "loss",
                             "load", "reissue", "probe"},
         NEW host \in Host, NEW given \in {"none", "own"},
         Ask(kind, host, given),
         transfers' \in [Leg -> Nat],
         \A l \in Leg : transfers'[l] = transfers[l] \/ leg[l] = "running",
         UNCHANGED << command, access, pc, leg, figures, cancelled, aim,
                      printed >>
  PROVE  IInv'
<1>1. TypeInv'
  BY DEF IInv, TypeInv
<1>2. RequestInv'
  <2>1. host \in Seq(Symbol)
    BY HostIsSeq
  <2> QED
    BY <2>1 DEF IInv, RequestInv, Ask, Scoped
<1>3. PhaseInv' /\ OutputInv'
  BY DEF IInv, PhaseInv, OutputInv
<1>4. LegsInv'
  BY DEF IInv, LegsInv
<1> QED
  BY <1>1, <1>2, <1>3, <1>4 DEF IInv

(***************************************************************************)
(* A step within the run that makes no request.                            *)
(***************************************************************************)
LEMMA RequestKept ==
  ASSUME IInv, UNCHANGED << command, access, request >>,
         aim' \in {"spawned", "posted"} =>
           command.aim /\ pc' \in {"report", "deliver"},
         \A l \in Leg : leg[l] = "done" => leg'[l] = "done",
         aim' \in {"spawned", "posted"} => \A l \in Leg : leg[l] = "done",
         pc \in {"report", "deliver", "ok", "failed"} =>
           pc' \in {"report", "deliver", "ok", "failed"}
  PROVE  RequestInv'
BY DEF IInv, RequestInv, Scoped

LEMMA StartKeeps ==
  ASSUME IInv, StartFails \/ Start
  PROVE  IInv'
<1>1. CASE StartFails
  <2>1. pc = "start" /\ ~printed /\ \A l \in Leg : leg[l] # "running"
    BY <1>1 DEF StartFails, IInv, OutputInv, LegsInv
  <2>2. Exit(pc') /\ pc' = "failed"
    BY <1>1 DEF StartFails, Exit
  <2> QED
    BY <1>1, <2>1, <2>2, ExitKeeps DEF StartFails, IInv, TypeInv
<1>2. CASE Start
  <2>1. /\ pc = "start" /\ pc' = FirstPhase
        /\ UNCHANGED << command, access, figures, cancelled, transfers, aim,
                        printed, request >>
    BY <1>2 DEF Start, GoTo
  <2>2. /\ command.name \in {"rpm", "saturate", "download", "upload", "rtt",
                            "packet_loss"}
        /\ command.legs \subseteq Leg /\ command.endpoint \in BOOLEAN
        /\ command.endpoint => command.name = "rpm"
    BY CommandFacts DEF IInv, PhaseInv
  <2>3. /\ command.name = "rpm" => pc' \in {"config", "latency"}
        /\ command.name = "saturate" => pc' = "legs"
        /\ command.name \in {"download", "upload"} => pc' = "transfer"
        /\ command.name = "rtt" => pc' = "latency"
        /\ command.name = "packet_loss" => pc' = "creds"
    BY <2>1, <2>2 DEF FirstPhase
  <2>4. \A l \in Leg :
          /\ \/ leg'[l] = "idle"
             \/ /\ leg'[l] = "running" /\ command.name = "saturate"
                /\ l \in command.legs
          /\ leg[l] = "idle" /\ transfers[l] = 0
    BY <1>2, <2>1 DEF Start, LegsStart, IInv, LegsInv
  <2>5. leg' \in [Leg -> {"idle", "running", "done", "failed"}]
    BY <1>2 DEF Start, LegsStart, IInv, TypeInv
  <2>6. TypeInv'
    BY <2>1, <2>2, <2>3, <2>5 DEF IInv, TypeInv
  <2>7. RequestInv'
    BY <2>1, <2>4, RequestKept DEF IInv, RequestInv
  <2>8. PhaseInv'
    BY <2>1, <2>2, <2>3 DEF PhaseInv
  <2>9. LegsInv'
    BY <2>1, <2>2, <2>3, <2>4 DEF LegsInv
  <2>10. OutputInv'
    BY <2>1, <2>2, <2>3 DEF IInv, OutputInv
  <2> QED
    BY <2>6, <2>7, <2>8, <2>9, <2>10 DEF IInv
<1> QED
  BY <1>1, <1>2

LEMMA RequestsKeep ==
  ASSUME IInv, NEW host \in Host, NEW l \in Leg,
         \/ PhaseAsks(host) \/ LoadReissues(host)
         \/ LoadAsks(l, host) \/ Probes(l, host)
  PROVE  IInv'
<1>1. transfers \in [Leg -> Nat]
  BY DEF IInv, TypeInv
<1>2. CASE PhaseAsks(host)
  <2>1. PICK kind \in {"config", "latency", "transfer", "creds", "loss"},
             given \in {"none", "own"} : AskIn(kind, host, given)
    BY <1>2 DEF PhaseAsks, GetRpmConfig, MeasureLatency, Download, Upload,
       FetchTurnServerCreds, LoadForLoss
  <2> QED
    BY <1>1, <2>1, AskKeeps DEF AskIn, legVars
<1>3. CASE LoadReissues(host)
  BY <1>1, <1>3, AskKeeps DEF LoadReissues, legVars
<1>4. CASE LoadAsks(l, host)
  <2>1. /\ leg[l] = "running"
        /\ transfers' = [transfers EXCEPT ![l] = @ + 1]
    BY <1>4 DEF LoadAsks
  <2>2. transfers' \in [Leg -> Nat]
        /\ \A m \in Leg : transfers'[m] = transfers[m] \/ leg[m] = "running"
    BY <1>1, <2>1
  <2> QED
    BY <1>4, <2>2, AskKeeps DEF LoadAsks
<1>5. CASE Probes(l, host)
  BY <1>1, <1>5, AskKeeps DEF Probes, legVars
<1> QED
  BY <1>2, <1>3, <1>4, <1>5

LEMMA PhaseEndKeeps ==
  ASSUME IInv, PhaseDone \/ PhaseFails
  PROVE  IInv'
<1>1. /\ pc \in {"config", "latency", "transfer", "creds", "loss"}
      /\ ~printed /\ UNCHANGED << command, access, figures, cancelled, request >>
  BY DEF PhaseDone, ConfigDone, LatencyDone, TransferDone, CredsDone, LossDone,
     PhaseFails, IInv, OutputInv
<1>2. /\ command.name = "rpm" => pc \in {"config", "latency"}
      /\ \A l \in Leg : leg[l] # "running"
      /\ pc = "config" => command.name = "rpm"
      /\ pc = "creds" => command.name = "packet_loss"
      /\ pc \in {"config", "latency"} =>
           \A l \in Leg : leg[l] = "idle" /\ transfers[l] = 0
      /\ leg \in [Leg -> {"idle", "running", "done", "failed"}]
  BY <1>1 DEF IInv, PhaseInv, LegsInv, TypeInv
<1>3. CASE PhaseFails
  <2>1. Exit(pc') /\ pc' = "failed" /\ UNCHANGED << leg, printed >>
    BY <1>3 DEF PhaseFails, Exit
  <2> QED
    BY <1>1, <1>2, <2>1, ExitKeeps
<1>4. CASE PhaseDone /\ pc # "config" /\ pc # "creds"
           /\ ~(pc = "latency" /\ command.name = "rpm")
  <2>1. Exit(pc') /\ pc' = "ok" /\ UNCHANGED leg /\ printed'
    BY <1>4 DEF PhaseDone, ConfigDone, LatencyDone, TransferDone, CredsDone,
       LossDone, PrintAndExit, Exit
  <2> QED
    BY <1>1, <1>2, <1>4, <2>1, ExitKeeps
<1>5. CASE PhaseDone
           /\ (pc = "config" \/ pc = "creds"
                 \/ (pc = "latency" /\ command.name = "rpm"))
  <2>1. /\ UNCHANGED << transfers, aim, printed >>
        /\ pc = "config" => pc' = "latency" /\ UNCHANGED leg
        /\ pc = "creds" => pc' = "loss" /\ UNCHANGED leg
        /\ pc = "latency" => pc' = "legs" /\ LegsStart({"download"})
    BY <1>5 DEF PhaseDone, ConfigDone, LatencyDone, TransferDone, CredsDone,
       LossDone, GoTo
  <2>2. /\ leg' \in [Leg -> {"idle", "running", "done", "failed"}]
        /\ pc = "latency" => leg'["download"] = "running" /\ leg'["upload"] = "idle"
    BY <1>2, <1>5, <2>1 DEF LegsStart, Leg
  <2>3. TypeInv'
    BY <1>1, <1>5, <2>1, <2>2 DEF IInv, TypeInv
  <2>4. RequestInv'
    <3>1. \A l \in Leg : leg[l] = "done" => leg'[l] = "done"
      BY <1>1, <1>2, <1>5, <2>1
    <3>2. aim' \notin {"spawned", "posted"}
      BY <1>1, <2>1 DEF IInv, RequestInv
    <3> QED
      BY <1>1, <3>1, <3>2, RequestKept
  <2>5. PhaseInv'
    BY <1>1, <1>2, <1>5, <2>1 DEF IInv, PhaseInv
  <2>6. LegsInv'
    <3>1. pc = "latency" =>
            /\ "download" \in command.legs /\ command.name = "rpm"
            /\ \A l \in Leg : l = "download" \/ leg'[l] = leg[l]
      BY <1>5, <2>1, <2>2, <1>2, CommandFacts DEF IInv, Leg
    <3> QED
      BY <1>1, <1>2, <1>5, <2>1, <2>2, <3>1 DEF IInv, LegsInv, Leg
  <2>7. OutputInv'
    BY <1>1, <1>5, <2>1 DEF IInv, OutputInv
  <2> QED
    BY <2>3, <2>4, <2>5, <2>6, <2>7 DEF IInv
<1> QED
  BY <1>3, <1>4, <1>5

LEMMA TransferEndsKeeps ==
  ASSUME IInv, NEW l \in Leg, TransferEnds(l)
  PROVE  IInv'
<1>1. /\ transfers[l] > 0 /\ transfers \in [Leg -> Nat]
      /\ transfers' = [transfers EXCEPT ![l] = @ - 1]
      /\ UNCHANGED << command, access, pc, leg, figures, cancelled, aim,
                      printed, request >>
  BY DEF TransferEnds, IInv, TypeInv
<1>2. TypeInv'
  BY <1>1 DEF IInv, TypeInv
<1>3. RequestInv' /\ PhaseInv' /\ OutputInv'
  BY <1>1 DEF IInv, RequestInv, PhaseInv, OutputInv, Scoped
<1>4. LegsInv'
  BY <1>1 DEF IInv, LegsInv
<1> QED
  BY <1>2, <1>3, <1>4 DEF IInv

(***************************************************************************)
(* A leg ends with a result: its token is cancelled, and `rpm` goes on to  *)
(* the next leg or to the report.                                          *)
(***************************************************************************)
LEMMA LegDoneKeeps ==
  ASSUME IInv, NEW l \in Leg, LegDone(l)
  PROVE  IInv'
<1> DEFINE ended == [leg EXCEPT ![l] = "done"]
<1>1. /\ leg[l] = "running"
      /\ leg \in [Leg -> {"idle", "running", "done", "failed"}]
      /\ cancelled' = [cancelled EXCEPT ![l] = TRUE]
      /\ UNCHANGED << command, access, transfers, aim, printed, request >>
  BY DEF LegDone, TokenCancelled, AfterLeg, GoTo, IInv, TypeInv
<1>2. figures' \in [Leg -> SUBSET AllFigures]
      /\ \A m \in Leg : m # l => figures'[m] = figures[m]
  BY DEF LegDone, Yield, IInv, TypeInv
<1>3. cancelled' \in [Leg -> BOOLEAN] /\ cancelled'[l]
      /\ \A m \in Leg : cancelled[m] => cancelled'[m]
  BY <1>1 DEF IInv, TypeInv
<1>4. pc \notin {"report", "deliver", "ok", "failed"} \/ command.name # "rpm"
  BY <1>1 DEF IInv, LegsInv
<1>5. aim \notin {"spawned", "posted"}
  BY <1>1 DEF IInv, RequestInv
<1>6. /\ command.name = "rpm" /\ l = "download" =>
           pc' = "legs" /\ leg' = [ended EXCEPT !["upload"] = "running"]
      /\ command.name = "rpm" /\ l = "upload" => pc' = "assemble" /\ leg' = ended
      /\ command.name # "rpm" =>
           /\ leg' = ended
           /\ \/ pc' = "legs"
              \/ pc' = "print" /\ \A m \in Leg : leg'[m] # "running"
  BY DEF LegDone, AfterLeg, GoTo, Leg, Others
<1>7. l = "download" \/ l = "upload"
  BY DEF Leg
<1>8. /\ leg' \in [Leg -> {"idle", "running", "done", "failed"}]
      /\ leg'[l] = "done"
      /\ \A m \in Leg : leg[m] = "done" => leg'[m] = "done" \/ command.name = "rpm"
      /\ \A m \in Leg : leg'[m] = "idle" => leg[m] = "idle"
  BY <1>1, <1>6, <1>7 DEF Leg
<1>9. command.name = "rpm" =>
        /\ pc = "legs" /\ command.legs = Leg
        /\ l = "download" => leg["upload"] = "idle"
        /\ l = "upload" => leg["download"] = "done"
  BY <1>1, <1>7, CommandFacts DEF IInv, LegsInv, Leg
<1>10. \A m \in Leg : leg[m] = "done" => leg'[m] = "done"
  BY <1>1, <1>6, <1>7, <1>8, <1>9 DEF Leg
<1>11. ~printed /\ pc = "legs"
  BY <1>1 DEF IInv, OutputInv, LegsInv
<1>12. TypeInv'
  BY <1>1, <1>2, <1>3, <1>6, <1>7, <1>8 DEF IInv, TypeInv
<1>13. RequestInv'
  BY <1>1, <1>5, <1>10, <1>11, RequestKept DEF IInv, RequestInv, LegsInv
<1>14. PhaseInv'
  BY <1>1, <1>6, <1>7, <1>11 DEF IInv, PhaseInv, LegsInv
<1>15. LegsInv'
  BY <1>1, <1>3, <1>6, <1>7, <1>8, <1>9, <1>10 DEF IInv, LegsInv, Leg
<1>16. OutputInv'
  BY <1>1, <1>6, <1>7, <1>11 DEF IInv, OutputInv
<1> QED
  BY <1>12, <1>13, <1>14, <1>15, <1>16 DEF IInv

(***************************************************************************)
(* A leg fails, and with it the run, unless two legs run at the same time. *)
(***************************************************************************)
LEMMA LegFailsKeeps ==
  ASSUME IInv, NEW l \in Leg, LegFails(l)
  PROVE  IInv'
<1>1. /\ leg[l] = "running" /\ pc = "legs" /\ ~printed
      /\ leg \in [Leg -> {"idle", "running", "done", "failed"}]
      /\ leg' = [leg EXCEPT ![l] = "failed"]
      /\ command.name \in {"rpm", "saturate"} /\ l \in command.legs
      /\ UNCHANGED << command, access, figures, cancelled, printed, request >>
  BY DEF LegFails, IInv, TypeInv, LegsInv, OutputInv
<1>2. leg' \in [Leg -> {"idle", "running", "done", "failed"}]
  BY <1>1
<1>3. CASE ~Tolerated
  <2>1. Exit(pc') /\ pc' = "failed"
    BY <1>3 DEF LegFails, Exit
  <2>2. \A m \in Leg : m # l => leg[m] # "running"
    <3>1. CASE command.name = "rpm"
      BY <1>1, <3>1 DEF IInv, LegsInv, Leg
    <3>2. CASE command.name = "saturate"
      <4>1. command.legs # Leg
        BY <1>3, <3>2 DEF Tolerated
      <4>2. \A m \in command.legs : m = l
        BY <1>1, <4>1, CommandFacts DEF IInv
      <4> QED
        BY <4>2 DEF IInv, LegsInv
    <3> QED
      BY <1>1, <3>1, <3>2
  <2>3. \A m \in Leg : leg'[m] # "running"
    BY <1>1, <2>2
  <2> QED
    BY <1>1, <1>2, <2>1, <2>3, ExitKeeps
<1>4. CASE Tolerated
  <2>1. /\ command.name = "saturate"
        /\ UNCHANGED << transfers, aim >>
        /\ \/ pc' = "legs"
           \/ pc' = "print" /\ \A m \in Leg : leg'[m] # "running"
    BY <1>4 DEF LegFails, Tolerated, GoTo, Others
  <2>2. TypeInv'
    BY <1>1, <1>2, <2>1 DEF IInv, TypeInv
  <2>3. RequestInv'
    <3>1. aim \notin {"spawned", "posted"}
      BY <1>1 DEF IInv, RequestInv
    <3>2. \A m \in Leg : leg[m] = "done" => leg'[m] = "done"
      BY <1>1
    <3> QED
      BY <1>1, <2>1, <3>1, <3>2, RequestKept
  <2>4. PhaseInv'
    BY <1>1, <2>1 DEF IInv, PhaseInv
  <2>5. LegsInv'
    BY <1>1, <2>1 DEF IInv, LegsInv
  <2>6. OutputInv'
    BY <1>1, <2>1 DEF IInv, OutputInv
  <2> QED
    BY <2>2, <2>3, <2>4, <2>5, <2>6 DEF IInv
<1> QED
  BY <1>3, <1>4

LEMMA PrintKeeps ==
  ASSUME IInv, PrintResults
  PROVE  IInv'
<1>1. /\ pc = "print" /\ pc' = "ok" /\ Exit(pc') /\ printed'
      /\ UNCHANGED << command, access, leg, figures, cancelled, request >>
  BY DEF PrintResults, PrintAndExit, Exit
<1>2. /\ command.name = "saturate" /\ \A l \in Leg : leg[l] # "running"
      /\ leg \in [Leg -> {"idle", "running", "done", "failed"}]
  BY <1>1 DEF IInv, PhaseInv, LegsInv, TypeInv
<1> QED
  BY <1>1, <1>2, ExitKeeps

(***************************************************************************)
(* The task that uploads the scores: spawned, at work, over.               *)
(***************************************************************************)
LEMMA AimKeeps ==
  ASSUME IInv, Assemble \/ AimPosts \/ AimEnds
  PROVE  IInv'
<1>1. UNCHANGED << command, access, leg, figures, cancelled, transfers, printed >>
  BY DEF Assemble, AimPosts, AimEnds, legVars
<1>2. CASE Assemble
  <2>1. /\ pc = "assemble" /\ pc' = "report" /\ UNCHANGED request
        /\ aim' \in {"spawned", "over"}
        /\ aim' = "spawned" => command.aim
    BY <1>2 DEF Assemble
  <2>2. command.name = "rpm" /\ \A l \in Leg : leg[l] = "done"
    BY <2>1 DEF IInv, PhaseInv, LegsInv
  <2>3. TypeInv'
    BY <1>1, <2>1 DEF IInv, TypeInv
  <2>4. RequestInv'
    BY <1>1, <2>1, <2>2, RequestKept
  <2>5. PhaseInv' /\ LegsInv' /\ OutputInv'
    BY <1>1, <2>1, <2>2 DEF IInv, PhaseInv, LegsInv, OutputInv
  <2> QED
    BY <2>3, <2>4, <2>5 DEF IInv
<1>3. CASE AimPosts
  <2>1. /\ aim = "spawned" /\ aim' = "posted" /\ UNCHANGED pc
        /\ Ask("aim", AimHost, "none")
    BY <1>3 DEF AimPosts
  <2>2. AimHost \in Seq(Symbol)
    BY DEF AimHost, Symbol
  <2>3. TypeInv' /\ PhaseInv' /\ LegsInv' /\ OutputInv'
    BY <1>1, <2>1 DEF IInv, TypeInv, PhaseInv, LegsInv, OutputInv
  <2>4. RequestInv'
    BY <1>1, <2>1, <2>2 DEF IInv, RequestInv, Ask, Scoped
  <2> QED
    BY <2>3, <2>4 DEF IInv
<1>4. CASE AimEnds
  <2>1. aim' = "over" /\ UNCHANGED << pc, request >>
    BY <1>4 DEF AimEnds
  <2>2. TypeInv' /\ PhaseInv' /\ LegsInv' /\ OutputInv'
    BY <1>1, <2>1 DEF IInv, TypeInv, PhaseInv, LegsInv, OutputInv
  <2>3. RequestInv'
    BY <1>1, <2>1, RequestKept
  <2> QED
    BY <2>2, <2>3 DEF IInv
<1> QED
  BY <1>2, <1>3, <1>4

(***************************************************************************)
(* The report is built and, after it, the run ends.                        *)
(***************************************************************************)
LEMMA ReportKeeps ==
  ASSUME IInv, Report \/ Delivered \/ TimesOut
  PROVE  IInv'
<1>1. /\ pc \in {"report", "deliver"} /\ command.name = "rpm"
      /\ \A l \in Leg : leg[l] = "done"
      /\ leg \in [Leg -> {"idle", "running", "done", "failed"}]
      /\ UNCHANGED << command, access, leg, figures, cancelled, request >>
  BY DEF Report, Delivered, TimesOut, IInv, PhaseInv, LegsInv, TypeInv
<1>2. CASE Delivered \/ TimesOut
  <2>1. pc' = "ok" /\ Exit(pc') /\ printed /\ UNCHANGED printed
    BY <1>2 DEF Delivered, TimesOut, Exit, IInv, OutputInv
  <2> QED
    BY <1>1, <2>1, ExitKeeps
<1>3. CASE Report /\ ~(\A l \in Leg : Reportable(l))
  <2>1. pc' = "failed" /\ Exit(pc') /\ ~printed /\ UNCHANGED printed
    BY <1>3 DEF Report, Exit, IInv, OutputInv
  <2> QED
    BY <1>1, <2>1, ExitKeeps
<1>4. CASE Report /\ \A l \in Leg : Reportable(l)
  <2>1. /\ pc' = "deliver" /\ printed'
        /\ UNCHANGED << transfers, aim >>
    BY <1>4 DEF Report, GoTo
  <2>2. \A l \in Leg : figures[l] = AllFigures
    BY <1>4 DEF Reportable, IInv, TypeInv
  <2>3. TypeInv' /\ PhaseInv' /\ LegsInv' /\ OutputInv'
    BY <1>1, <2>1, <2>2 DEF IInv, TypeInv, PhaseInv, LegsInv, OutputInv
  <2>4. RequestInv'
    BY <1>1, <2>1, RequestKept DEF IInv, RequestInv
  <2> QED
    BY <2>3, <2>4 DEF IInv
<1> QED
  BY <1>2, <1>3, <1>4

LEMMA NextInvariant == IInv /\ [Next]_vars => IInv'
<1> SUFFICES ASSUME IInv, [Next]_vars PROVE IInv'
  OBVIOUS
<1>1. CASE \E host \in Host :
             \/ PhaseAsks(host) \/ LoadReissues(host)
             \/ \E l \in Leg : LoadAsks(l, host) \/ Probes(l, host)
  BY <1>1, RequestsKeep DEF Leg
<1>2. CASE \E l \in Leg : TransferEnds(l) \/ LegDone(l) \/ LegFails(l)
  BY <1>2, TransferEndsKeeps, LegDoneKeeps, LegFailsKeeps
<1>3. CASE StartFails \/ Start
  BY <1>3, StartKeeps
<1>4. CASE PhaseDone \/ PhaseFails
  BY <1>4, PhaseEndKeeps
<1>5. CASE PrintResults
  BY <1>5, PrintKeeps
<1>6. CASE Assemble \/ AimPosts \/ AimEnds
  BY <1>6, AimKeeps
<1>7. CASE Report \/ Delivered \/ TimesOut
  BY <1>7, ReportKeeps
<1>8. CASE UNCHANGED vars
  BY <1>8 DEF vars, legVars, IInv, TypeInv, RequestInv, PhaseInv, LegsInv,
     OutputInv, Scoped
<1> QED
  BY <1>1, <1>2, <1>3, <1>4, <1>5, <1>6, <1>7, <1>8 DEF Next

(***************************************************************************)
(* The invariant holds throughout, for any bound on hosts and transfers.   *)
(***************************************************************************)
THEOREM InvariantHolds == Spec => []IInv
<1>1. Init => IInv
  BY InitInvariant
<1>2. IInv /\ [Next]_vars => IInv'
  BY NextInvariant
<1> QED
  BY <1>1, <1>2, PTL DEF Spec

-----------------------------------------------------------------------------
(* What the invariant is for.                                              *)

(***************************************************************************)
(* For hosts of every length: a request of any client carries the access   *)
(* token exactly if it goes to a host under the allowed domain and has no  *)
(* such header of its own; the AIM scores never carry it, since their host *)
(* is not under the domain.                                                *)
(***************************************************************************)
THEOREM TokenScope == Spec => []TokenStaysInScope
<1>1. IInv => TokenStaysInScope
  <2> SUFFICES ASSUME IInv PROVE TokenStaysInScope
    OBVIOUS
  <2>1. request.host \in Seq(Symbol)
    BY DEF IInv, RequestInv
  <2>2. AllowsHost(request.host) <=> UnderDomain(request.host)
    BY <2>1, ScopeIsByLabel
  <2>3. CASE request.kind = "none" /\ request.given = "none"
             /\ request.header = "none" /\ request.host = << >>
    <3>1. ~UnderDomain(<< >>)
      BY DEF UnderDomain
    <3> QED
      BY <2>3, <3>1 DEF TokenStaysInScope
  <2>4. CASE request.header = Apply(Scoped(request.kind), request.host,
                                    request.given)
    <3>1. request.kind = "aim" => ~UnderDomain(request.host)
      BY DEF IInv, RequestInv, AimHost, UnderDomain
    <3>2. request.given \in {"none", "own"}
      BY DEF IInv, RequestInv
    <3> QED
      BY <2>2, <2>4, <3>1, <3>2 DEF TokenStaysInScope, Apply, Scoped
  <2> QED
    BY <2>3, <2>4 DEF IInv, RequestInv
<1> QED
  BY <1>1, InvariantHolds, PTL

(***************************************************************************)
(* With any number of transfers: a leg of `rpm` runs only while the other  *)
(* has no transfer left, or none that its token does not end.              *)
(***************************************************************************)
THEOREM LegsAlone == Spec => []LegsRunAlone
<1>1. IInv => LegsRunAlone
  <2> SUFFICES ASSUME IInv, command.name = "rpm",
                      NEW l \in Leg, NEW m \in Leg,
                      leg[l] = "running", m # l
               PROVE  transfers[m] = 0 \/ cancelled[m]
    BY DEF LegsRunAlone
  <2>1. \/ leg["download"] = "running" /\ leg["upload"] = "idle"
        \/ leg["download"] = "done" /\ leg["upload"] = "running"
    BY DEF IInv, LegsInv
  <2>2. leg[m] = "idle" \/ leg[m] = "done"
    BY <2>1 DEF Leg
  <2> QED
    BY <2>2 DEF IInv, LegsInv
<1> QED
  BY <1>1, InvariantHolds, PTL

(***************************************************************************)
(* A run exits with success exactly after it printed a result, the printed *)
(* report of `rpm` has every figure of both legs, and the scores leave the *)
(* program after both.                                                     *)
(***************************************************************************)
THEOREM WholeReport == Spec => []ReportIsWhole
<1>1. IInv => ReportIsWhole
  BY DEF IInv, ReportIsWhole, RequestInv, OutputInv
<1> QED
  BY <1>1, InvariantHolds, PTL
=============================================================================
