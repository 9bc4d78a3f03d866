----------------------------- MODULE PacketLoss -----------------------------
(***************************************************************************)
(* The packet loss test: numbered messages are sent in batches over a      *)
(* WebRTC data channel through a TURN server, and those that come back     *)
(* are counted (PacketLoss::run_test and send_messages).                   *)
(*                                                                         *)
(* The actors are the test's event loop, the sender task it spawns when    *)
(* the data channel opens, the two tasks that await a load-generating      *)
(* connection, and the WebRTC stack with the network behind it, which is   *)
(* external: its channel is unordered and never retransmits, so a message  *)
(* may be lost or overtaken but comes back at most once.                   *)
(***************************************************************************)
EXTENDS Naturals, Sequences, FiniteSets, SequencesExt

CONSTANTS
  NumPackets,  \* config.num_packets
  BatchSize    \* config.batch_size; 0 sends everything in one batch

ASSUME NumPacketsAssumption == NumPackets \in Nat \ {0}
ASSUME BatchSizeAssumption == BatchSize \in Nat

Message == 0..(NumPackets - 1)
LoadDirection == {"down", "up"}

VARIABLES
  pc,        \* the loop: "setup", "running", "ending", "done" or "error"
  why,       \* what ended the loop
  shutdown,  \* the shutdown token is cancelled
  channel,   \* the data channel: "new", "opening", "open" or "closed"
  failures,  \* peer connections that have not reported a failure
  events,    \* DataChannelEvents not handled yet
  notices,   \* PacketLossEvents not handled yet
  loads,     \* the load-generating connections
  sender,    \* the sender task: its position, next message, end of batch
  flight,    \* messages sent and neither back nor lost
  tracker,   \* message_tracker
  back       \* history: messages whose return the loop has handled

worldVars == << shutdown, channel, failures, loads >>
vars == << pc, why, shutdown, channel, failures, events, notices, loads,
           sender, flight, tracker, back >>

Open == [kind |-> "open"]

(***************************************************************************)
(* A message carries its number, which is sent and read in the same byte   *)
(* order.                                                                  *)
(***************************************************************************)
ReturnedSwapped(m) == [kind |-> "message", message |-> m * 256]

Returned(m) == [kind |-> "message", message |-> m]

PeerFailed == [kind |-> "failed"]

Trues(seq) == Cardinality({i \in DOMAIN seq : seq[i]})

Live == pc \in {"setup", "running"}

Init ==
  /\ pc = "setup" /\ why = "none" /\ shutdown = FALSE
  /\ channel = "new" /\ failures = 2
  /\ events = << >> /\ notices = << >>
  /\ loads = [d \in LoadDirection |-> "opening"]
  /\ sender = [at |-> "none", next |-> 0, stop |-> 0]
  /\ flight = {} /\ back = {}
  /\ tracker = [i \in 1..NumPackets |-> FALSE]

-----------------------------------------------------------------------------
(* WebRTC, the network and the load-generating connections.                *)

ChannelOpens ==
  /\ Live /\ channel = "opening"
  /\ channel' = "open"
  /\ events' = Append(events, Open)
  /\ UNCHANGED << pc, why, shutdown, failures, notices, loads, sender, flight,
                  tracker, back >>

(***************************************************************************)
(* A peer connection reaches the Failed state, before or after the data    *)
(* channel opened.                                                         *)
(***************************************************************************)
PeerFails ==
  /\ Live /\ channel # "new" /\ failures > 0
  /\ failures' = failures - 1
  /\ events' = Append(events, PeerFailed)
  /\ UNCHANGED << pc, why, shutdown, channel, notices, loads, sender, flight,
                  tracker, back >>

MessageReturns(m) ==
  /\ m \in flight /\ channel = "open"
  /\ flight' = flight \ {m}
  /\ events' = Append(events, Returned(m))
  /\ UNCHANGED << pc, why, worldVars, notices, sender, tracker, back >>

MessageLost(m) ==
  /\ m \in flight
  /\ flight' = flight \ {m}
  /\ UNCHANGED << pc, why, worldVars, events, notices, sender, tracker, back >>

LoadSettles(d, how) ==
  /\ Live /\ loads[d] = "opening"
  /\ loads' = [loads EXCEPT ![d] = how]
  /\ notices' = Append(notices, IF how = "up" THEN d ELSE "load error")
  /\ UNCHANGED << pc, why, shutdown, channel, failures, events, sender, flight,
                  tracker, back >>

Shutdown ==
  /\ Live /\ ~shutdown
  /\ shutdown' = TRUE
  /\ UNCHANGED << pc, why, channel, failures, events, notices, loads, sender,
                  flight, tracker, back >>

-----------------------------------------------------------------------------
(* The sender task.                                                        *)

(***************************************************************************)
(* Where the batch that starts at message n ends.                          *)
(***************************************************************************)
BatchEnd(n) ==
  IF BatchSize = 0 \/ n + BatchSize > NumPackets THEN NumPackets
  ELSE n + BatchSize

(***************************************************************************)
(* After a batch the task takes the test to be fully sent or pauses.       *)
(***************************************************************************)
AllSentPast(n) == n > NumPackets

AllSentTwoEarly(n) == n + 2 >= NumPackets

AllSent(n) == n + 1 >= NumPackets

AfterBatch(n) == IF AllSent(n) THEN "settling" ELSE "pausing"

(***************************************************************************)
(* The next message of the batch; a failed send is logged and counted as   *)
(* sent all the same.                                                      *)
(***************************************************************************)
SendMessage ==
  /\ sender.at = "sending" /\ sender.next < sender.stop
  /\ sender' = [sender EXCEPT !.next = @ + 1]
  /\ flight' \in {flight} \union
       IF channel = "open" THEN {flight \union {sender.next}} ELSE {}
  /\ UNCHANGED << pc, why, worldVars, events, notices, tracker, back >>

EndBatch ==
  /\ sender.at = "sending" /\ sender.next = sender.stop
  /\ sender' = [sender EXCEPT !.at = AfterBatch(sender.next)]
  /\ UNCHANGED << pc, why, worldVars, events, notices, flight, tracker, back >>

(***************************************************************************)
(* The pause between batches is over: the token is looked at only here.    *)
(***************************************************************************)
NextBatchRestarts(n) == [at |-> "sending", next |-> 0, stop |-> BatchEnd(n)]

NextBatch(n) == [at |-> "sending", next |-> n, stop |-> BatchEnd(n)]

PauseOver ==
  /\ sender.at = "pausing"
  /\ sender' = IF shutdown THEN [sender EXCEPT !.at = "ended"]
               ELSE NextBatch(sender.next)
  /\ UNCHANGED << pc, why, worldVars, events, notices, flight, tracker, back >>

(***************************************************************************)
(* The time for late responses is over; the notice is lost if the loop has *)
(* gone.                                                                   *)
(***************************************************************************)
Settled ==
  /\ sender.at = "settling"
  /\ sender' = [sender EXCEPT !.at = "ended"]
  /\ notices' = IF Live THEN Append(notices, "all sent") ELSE notices
  /\ UNCHANGED << pc, why, worldVars, events, flight, tracker, back >>

-----------------------------------------------------------------------------
(* run_test.                                                               *)

(***************************************************************************)
(* The peer connections are created and the handshake started, or the test *)
(* returns the error.                                                      *)
(***************************************************************************)
Establish ==
  /\ pc = "setup" /\ channel = "new"
  /\ channel' = "opening"
  /\ UNCHANGED << pc, why, shutdown, failures, events, notices, loads, sender,
                  flight, tracker, back >>

SetupDone ==
  /\ pc = "setup" /\ channel # "new"
  /\ pc' = "running"
  /\ UNCHANGED << why, worldVars, events, notices, sender, flight, tracker,
                  back >>

SetupFails ==
  /\ pc = "setup"
  /\ pc' = "error" /\ why' = "setup" /\ channel' = "closed"
  /\ UNCHANGED << shutdown, failures, events, notices, loads, sender, flight,
                  tracker, back >>

OnOpen ==
  /\ pc = "running" /\ events # << >> /\ Head(events) = Open
  /\ events' = Tail(events)
  /\ sender' = NextBatch(0)
  /\ UNCHANGED << pc, why, worldVars, notices, flight, tracker, back >>

(***************************************************************************)
(* The flag of a returned message is inserted at its index, which moves    *)
(* every flag behind it.                                                   *)
(***************************************************************************)
Tracked(seq, m) == InsertAt(seq, m + 1, TRUE)

OnMessage ==
  /\ pc = "running" /\ events # << >> /\ Head(events).kind = "message"
  /\ events' = Tail(events)
  /\ tracker' = Tracked(tracker, Head(events).message)
  /\ back' = back \union {Head(events).message}
  /\ UNCHANGED << pc, why, worldVars, notices, sender, flight >>

LoopEnds(reason) == pc' = "ending" /\ why' = reason

OnPeerFailed ==
  /\ pc = "running" /\ events # << >> /\ Head(events) = PeerFailed
  /\ events' = Tail(events)
  /\ LoopEnds("peer failed")
  /\ UNCHANGED << worldVars, notices, sender, flight, tracker, back >>

OnLoad ==
  /\ pc = "running" /\ notices # << >> /\ Head(notices) \in LoadDirection
  /\ notices' = Tail(notices)
  /\ loads' = [loads EXCEPT ![Head(notices)] = "held"]
  /\ UNCHANGED << pc, why, shutdown, channel, failures, events, sender, flight,
                  tracker, back >>

OnNoticeOfEnd ==
  /\ pc = "running" /\ notices # << >>
  /\ Head(notices) \in {"all sent", "load error"}
  /\ notices' = Tail(notices)
  /\ LoopEnds(Head(notices))
  /\ UNCHANGED << worldVars, events, sender, flight, tracker, back >>

OnShutdownNever == FALSE /\ UNCHANGED vars

OnShutdown ==
  /\ pc = "running" /\ shutdown
  /\ LoopEnds("shutdown")
  /\ UNCHANGED << worldVars, events, notices, sender, flight, tracker, back >>

(***************************************************************************)
(* The loads are stopped, the peer connections closed, and both receivers  *)
(* dropped with whatever they still hold.                                  *)
(***************************************************************************)
Finish ==
  /\ pc = "ending"
  /\ pc' = "done"
  /\ loads' = [d \in LoadDirection |->
                 IF loads[d] = "held" THEN "stopped" ELSE loads[d]]
  /\ channel' = "closed" /\ flight' = {} /\ events' = << >> /\ notices' = << >>
  /\ UNCHANGED << why, shutdown, failures, sender, tracker, back >>

-----------------------------------------------------------------------------
World ==
  \/ ChannelOpens \/ PeerFails \/ Shutdown
  \/ \E m \in Message : MessageReturns(m) \/ MessageLost(m)
  \/ \E d \in LoadDirection : LoadSettles(d, "up") \/ LoadSettles(d, "refused")

Sender == SendMessage \/ EndBatch \/ PauseOver \/ Settled

Setup == Establish \/ SetupDone \/ SetupFails

Loop == OnOpen \/ OnMessage \/ OnPeerFailed \/ OnLoad \/ OnNoticeOfEnd
          \/ OnShutdown

Next == World \/ Sender \/ Setup \/ Loop \/ Finish

Spec == Init /\ [][Next]_vars

(***************************************************************************)
(* The tasks run; select! picks at random among the branches that are      *)
(* ready, so a branch that stays ready is taken in the end.  The network   *)
(* may drop every message, and the data channel need never open.           *)
(***************************************************************************)
Fairness ==
  /\ WF_vars(Sender) /\ WF_vars(Setup) /\ WF_vars(Finish)
  /\ WF_vars(OnOpen \/ OnMessage \/ OnPeerFailed)
  /\ WF_vars(OnLoad \/ OnNoticeOfEnd)
  /\ WF_vars(OnShutdown)

FairSpec == Spec /\ Fairness

-----------------------------------------------------------------------------
TypeOK ==
  /\ pc \in {"setup", "running", "ending", "done", "error"}
  /\ why \in {"none", "setup", "peer failed", "all sent", "load error",
              "shutdown"}
  /\ shutdown \in BOOLEAN
  /\ channel \in {"new", "opening", "open", "closed"} /\ failures \in 0..2
  /\ \A e \in ToSet(events) :
       e \in {Open, PeerFailed} \union [kind : {"message"}, message : Message]
  /\ ToSet(notices) \subseteq LoadDirection \union {"all sent", "load error"}
  /\ loads \in [LoadDirection ->
                  {"opening", "up", "refused", "held", "stopped"}]
  /\ sender \in [at : {"none", "sending", "pausing", "settling", "ended"},
                 next : 0..NumPackets, stop : 0..NumPackets]
  /\ flight \subseteq Message /\ back \subseteq Message
  /\ tracker \in Seq(BOOLEAN)

(***************************************************************************)
(* What is reported as received is the number of distinct messages that    *)
(* came back, whatever their order, so `num_packets - num_messages` cannot *)
(* underflow and the loss ratio lies between 0 and 100 (run_test, the      *)
(* count after the loop).                                                  *)
(***************************************************************************)
CountIsDistinct == Trues(tracker) = Cardinality(back)

(***************************************************************************)
(* "All of the messages / UDP packets have been submitted and the wait     *)
(* timeout has completed" (nq_packetloss/mod.rs:184): a test that ends     *)
(* because everything was sent has sent everything.                        *)
(***************************************************************************)
CompleteRunSentAll ==
  why = "all sent" => sender.next = NumPackets

(***************************************************************************)
(* A result in which more than the last message was never sent, and counts *)
(* as lost all the same, comes only from a test that was cut short: by a   *)
(* failed peer, a refused load or a cancellation.  A test that ends by     *)
(* itself has handed over every message but at most one, however the       *)
(* batches, the pauses and those failures interleave (run_test returns Ok  *)
(* on each of its breaks).                                                 *)
(***************************************************************************)
UnsentMeansCutShort ==
  pc \in {"ending", "done"} /\ sender.next + 1 < NumPackets =>
    why \in {"peer failed", "load error", "shutdown"}

(***************************************************************************)
(* Once the data channel has opened for the loop, the test ends by itself: *)
(* the sender comes to the end of the messages, however they are batched.  *)
(***************************************************************************)
EndsOnceOpen == (pc = "running" /\ sender.at # "none") ~> pc = "done"

(***************************************************************************)
(* Cancelling the token ends the test at any time, and the sender too, if  *)
(* after its current batch.                                                *)
(***************************************************************************)
ShutdownEnds ==
  (pc = "running" /\ shutdown)
    ~> (pc = "done" /\ sender.at \in {"none", "ended"})

(***************************************************************************)
(* "A sent message is stored as false until a response is received setting *)
(* it to true" (nq_packetloss/mod.rs:87): the flag of a message that did   *)
(* not come back is not set.                                               *)
(***************************************************************************)
TrackerIsPerMessage == \A m \in Message : tracker[m + 1] <=> m \in back
=============================================================================
