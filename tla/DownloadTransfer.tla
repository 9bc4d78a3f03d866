-------------------------- MODULE DownloadTransfer --------------------------
(***************************************************************************)
(* One GET whose response body is counted and discarded, and the task that *)
(* waits for it: the test loop's LoadedConnection for a load, or           *)
(* wait_for_finish for a probe and for the download command.               *)
(*                                                                         *)
(* Unlike an upload, the response is awaited before the InflightBody is    *)
(* handed over, and consume_body polls the CountingBody, so the events     *)
(* reach the consumer on the body's own channel.                           *)
(***************************************************************************)
EXTENDS LoadState

CONSTANT Size  \* the length of the response body, in units of data

ASSUME SizeAssumption == Size \in Nat

VARIABLES
  protocol,  \* "h1" or "h2", which no step changes
  consumer,  \* who waits for the transfer: "load" or "waiter"
  body,      \* "requested", "live" once the response came, or "gone"
  counted,   \* CountingBody::total
  sent,      \* CountingBody::sent_finished
  chan,      \* the events channel
  shutdown,  \* the shutdown token is cancelled
  handle,    \* the consumer: "none", "held", "stopped" or "dropped"
  load,      \* LoadState, when the consumer is the test loop
  waiter,    \* wait_for_finish: body_total and its result
  broken     \* history: the transfer went wrong before any shutdown

choice == << protocol, consumer >>
vars == << protocol, consumer, body, counted, sent, chan, shutdown, handle,
           load, waiter, broken >>

WaiterRecord == [total : Nat, result : {"waiting", "ok", "err"}]

Send(events) == chan' = IF handle = "held" THEN chan \o events ELSE << >>

Blame == broken' = (broken \/ ~shutdown)

Init ==
  /\ protocol \in {"h1", "h2"} /\ consumer \in {"load", "waiter"}
  /\ body = "requested" /\ counted = 0 /\ sent = FALSE /\ chan = << >>
  /\ shutdown = FALSE /\ handle = "none"
  /\ load = FreshLoad /\ waiter = [total |-> 0, result |-> "waiting"]
  /\ broken = FALSE

-----------------------------------------------------------------------------
Shutdown ==
  /\ ~shutdown
  /\ shutdown' = TRUE
  /\ UNCHANGED << choice, body, counted, sent, chan, handle, load, waiter,
                  broken >>

(***************************************************************************)
(* A success status: the body is wrapped, consume_body spawned, and the    *)
(* InflightBody handed to the consumer.                                    *)
(***************************************************************************)
Respond ==
  /\ body = "requested"
  /\ body' = "live"
  /\ chan' = FirstEvents
  /\ handle' = "held"
  /\ UNCHANGED << choice, counted, sent, shutdown, load, waiter, broken >>

(***************************************************************************)
(* No connection, no response, or another status: the caller gets an error *)
(* through the oneshot and the transfer never starts.                      *)
(***************************************************************************)
Refuse ==
  /\ body = "requested"
  /\ body' = "gone"
  /\ waiter' = [waiter EXCEPT !.result = "err"]
  /\ Blame
  /\ UNCHANGED << choice, counted, sent, chan, shutdown, handle, load >>

(***************************************************************************)
(* At shutdown an HTTP/1.1 connection ends with its task, and the request  *)
(* with it.  Over HTTP/2 only the dispatcher ends: a stream under way goes *)
(* on, and nothing that waits for its response looks at the token.         *)
(***************************************************************************)
CutOff == shutdown /\ protocol = "h1" /\ Refuse

-----------------------------------------------------------------------------
(* consume_body polls CountingBody, which stops when nobody listens.       *)

(***************************************************************************)
(* A data frame; `eos` says whether it is known to be the last one.        *)
(***************************************************************************)
Frame ==
  /\ body = "live" /\ handle = "held" /\ ~sent /\ counted < Size
  /\ \E n \in 1..(Size - counted), due \in BOOLEAN, eos \in BOOLEAN :
       /\ eos => counted + n = Size
       /\ counted' = Counted(counted, n)
       /\ sent' = eos
       /\ Send(FrameEvents(Counted(counted, n), due, eos, sent))
  /\ UNCHANGED << choice, body, shutdown, handle, load, waiter, broken >>

EndOfBody ==
  /\ body = "live" /\ handle = "held" /\ counted = Size
  /\ body' = "gone" /\ sent' = TRUE
  /\ Send(EndEvents(counted, sent))
  /\ UNCHANGED << choice, counted, shutdown, handle, load, waiter, broken >>

BodyError ==
  /\ body = "live" /\ handle = "held"
  /\ body' = "gone" /\ sent' = TRUE
  /\ Send(ErrorEvents(sent))
  /\ Blame
  /\ UNCHANGED << choice, counted, shutdown, handle, load, waiter >>

PollClosed ==
  /\ body = "live" /\ handle # "held"
  /\ body' = "gone"
  /\ UNCHANGED << choice, counted, sent, chan, shutdown, handle, load, waiter,
                  broken >>

(***************************************************************************)
(* consume_body selects on the token and drops the body when it fires.     *)
(***************************************************************************)
ConsumerShutdownLate ==
  /\ body = "live" /\ shutdown /\ sent
  /\ body' = "gone"
  /\ UNCHANGED << choice, counted, sent, chan, shutdown, handle, load, waiter,
                  broken >>

ConsumerShutdown ==
  /\ body = "live" /\ shutdown
  /\ body' = "gone"
  /\ UNCHANGED << choice, counted, sent, chan, shutdown, handle, load, waiter,
                  broken >>

-----------------------------------------------------------------------------
(* The test loop.                                                          *)

LoopTakes(loadAfter, handleAfter) ==
  /\ consumer = "load" /\ handle = "held"
  /\ load' = loadAfter
  /\ handle' = handleAfter
  /\ chan' = << >>
  /\ UNCHANGED << choice, body, counted, sent, shutdown, waiter, broken >>

Update == LoopTakes(Drain(load, chan, body = "gone"), "held")

Stop == LoopTakes(StopLoad(load, chan), "stopped")

Abandon == LoopTakes(load, "dropped")

-----------------------------------------------------------------------------
(* wait_for_finish.                                                        *)

(***************************************************************************)
(* A count is remembered; Finished and Failed decide the result, and the   *)
(* receiver is dropped.                                                    *)
(***************************************************************************)
WaiterOnEvent ==
  /\ consumer = "waiter" /\ handle = "held" /\ chan # << >>
  /\ LET e == Head(chan)
     IN  /\ waiter' =
              IF IsByteCount(e) THEN [waiter EXCEPT !.total = e.total]
              ELSE [waiter EXCEPT !.result =
                      IF IsFinished(e) THEN "ok" ELSE "err"]
         /\ handle' = IF IsByteCount(e) THEN "held" ELSE "dropped"
         /\ chan' = IF IsByteCount(e) THEN Tail(chan) ELSE << >>
  /\ UNCHANGED << choice, body, counted, sent, shutdown, load, broken >>

(***************************************************************************)
(* The channel closed before either: "body did not finish".                *)
(***************************************************************************)
WaiterOnCloseAsDone ==
  /\ consumer = "waiter" /\ handle = "held" /\ chan = << >> /\ body = "gone"
  /\ waiter' = [waiter EXCEPT !.result = "ok"]
  /\ handle' = "dropped"
  /\ UNCHANGED << choice, body, counted, sent, chan, shutdown, load,
                  broken >>

WaiterOnClose ==
  /\ consumer = "waiter" /\ handle = "held" /\ chan = << >> /\ body = "gone"
  /\ waiter' = [waiter EXCEPT !.result = "err"]
  /\ handle' = "dropped"
  /\ UNCHANGED << choice, body, counted, sent, chan, shutdown, load,
                  broken >>

-----------------------------------------------------------------------------
Peer == Respond \/ Refuse \/ Frame \/ EndOfBody \/ BodyError

Next == Shutdown \/ Peer \/ PollClosed \/ ConsumerShutdown
          \/ Update \/ Stop \/ Abandon \/ WaiterOnEvent \/ WaiterOnClose

Spec == Init /\ [][Next]_vars

(***************************************************************************)
(* The tasks of this process run, and over HTTP/1.1 a request that is      *)
(* still unanswered at shutdown fails with its connection.  Nothing is     *)
(* assumed of the peer: a response or the rest of a body may never come.   *)
(***************************************************************************)
Fairness ==
  /\ WF_vars(CutOff)
  /\ WF_vars(PollClosed \/ ConsumerShutdown)
  /\ WF_vars(Update)
  /\ WF_vars(WaiterOnEvent \/ WaiterOnClose)

FairSpec == Spec /\ Fairness

-----------------------------------------------------------------------------
TypeOK ==
  /\ protocol \in {"h1", "h2"} /\ consumer \in {"load", "waiter"}
  /\ body \in {"requested", "live", "gone"}
  /\ counted \in 0..Size
  /\ sent \in BOOLEAN /\ shutdown \in BOOLEAN /\ broken \in BOOLEAN
  /\ chan \in Seq(Event)
  /\ handle \in {"none", "held", "stopped", "dropped"}
  /\ load \in LoadRecord
  /\ waiter \in WaiterRecord

(***************************************************************************)
(* Whoever is told that the transfer completed has been told every byte of *)
(* it: the final count always comes before Finished, whichever way the     *)
(* body ends, and a truncated body never passes for a complete one.        *)
(***************************************************************************)
CompleteMeansAll ==
  /\ load.finished => load.total = Size
  /\ waiter.result = "ok" => waiter.total = Size

(***************************************************************************)
(* A transfer is reported as failed only if it went wrong or the program   *)
(* is shutting down.                                                       *)
(***************************************************************************)
FailureIsGenuine ==
  load.failed \/ waiter.result = "err" => broken \/ shutdown

(***************************************************************************)
(* The loop's view of a download load obeys the same contract as that of   *)
(* an upload, except that it may complete.                                 *)
(***************************************************************************)
Contract == INSTANCE LoadContract WITH
  CanFinish <- TRUE,
  phase <- IF load.failed THEN "failed"
           ELSE IF load.finished THEN "finished" ELSE "running",
  total <- load.total,
  handle <- IF handle \in {"stopped", "dropped"} THEN "gone" ELSE handle

ImplementsContract == Contract!Spec

(***************************************************************************)
(* A body that ended, in whatever way, is noticed by the loop that holds   *)
(* it: no load stays "ongoing" with nothing behind it.                     *)
(***************************************************************************)
NoZombie ==
  (body = "gone" /\ handle = "held") ~> (~IsOngoing(load) \/ handle # "held")

(***************************************************************************)
(* A waiter never hangs on a transfer that is over, nor, once the body was *)
(* handed over, past a cancellation, which consume_body looks out for.     *)
(* Before that only HTTP/1.1 lets go of it: over HTTP/2 a request that is  *)
(* cancelled before its response came waits for the peer.                  *)
(***************************************************************************)
WaiterAnswered ==
  /\ consumer = "waiter" /\ body = "gone" ~> waiter.result # "waiting"
  /\ consumer = "waiter" /\ shutdown /\ (handle = "held" \/ protocol = "h1")
       ~> waiter.result # "waiting"
=============================================================================
