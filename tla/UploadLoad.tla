----------------------------- MODULE UploadLoad -----------------------------
(***************************************************************************)
(* One upload load-generating connection: an open-ended sequence of        *)
(* bounded POSTs on a single established connection.                       *)
(*                                                                         *)
(* The tasks are: for each request the body hyper polls and the client     *)
(* task that awaits the response; the driver (UploadReissue::run), which   *)
(* relays the current request's events and issues the next request; one    *)
(* watch_tail task for each earlier request; and the test loop, which      *)
(* holds the LoadedConnection.  Events travel on one channel per request   *)
(* (`chan`) and on the channel to the loop (`out`).  A channel whose       *)
(* receiver is gone holds nothing.                                         *)
(*                                                                         *)
(* MaxRequests bounds the requests; no other quantity grows without bound. *)
(***************************************************************************)
EXTENDS LoadState

CONSTANTS
  Bound,        \* upload_bytes_per_request, in units of data
  Chunk,        \* the most units in one frame
  MaxRequests   \* model bound on the requests issued on the connection

ASSUME BoundAssumption == Bound \in Nat \ {0}
ASSUME ChunkAssumption == Chunk \in Nat \ {0}
ASSUME MaxRequestsAssumption == MaxRequests \in Nat \ {0}

Request == 1..MaxRequests

VARIABLES
  protocol,  \* "h1" or "h2", which no step changes
  conn,      \* the connection: "none" until established, "up", "closed", or
             \* "draining": no new streams, those there are go on
  lost,      \* requests whose stream the peer reset or hyper did not open
  shutdown,  \* the shutdown token is cancelled
  client,    \* the client task of each request
  body,      \* the body of each request, as hyper holds it
  counted,   \* CountingBody::total of each request
  chan,      \* the events channel of each request
  driver,    \* the driver's position
  cur,       \* the request the driver relays
  issued,    \* the last request issued: cur, or cur + 1 while awaiting it
  relay,     \* CumulativeRelay
  tails,     \* requests drained by a watch_tail task
  out,       \* the channel to the loop
  handle,    \* the loop's LoadedConnection
  load,      \* its LoadState
  bad        \* history: requests that went wrong before any shutdown

netVars == << protocol, conn, lost, shutdown >>
taskVars == << driver, cur, issued, relay, tails >>
loopVars == << handle, load >>
vars == << protocol, conn, lost, shutdown, client, body, counted, chan, driver,
           cur, issued, relay, tails, out, handle, load, bad >>

-----------------------------------------------------------------------------
(* Who holds which end of a channel.                                       *)

(***************************************************************************)
(* The driver holds the receivers from the current request on, a tail the  *)
(* receiver of its own.                                                    *)
(***************************************************************************)
ReceiverOpen(r) == (driver # "done" /\ r \in cur..issued) \/ r \in tails

(***************************************************************************)
(* The body and the client task's clone are the senders of a request.      *)
(***************************************************************************)
SendersGone(r) == body[r] = "gone" /\ client[r] = "done"

OutOpen == handle = "held"

OutSendersGone == driver = "done" /\ tails = {}

Send(r, events) ==
  chan' = [chan EXCEPT ![r] = IF ReceiverOpen(r) THEN @ \o events ELSE << >>]

Discard(requests) ==
  [r \in Request |-> IF r \in requests THEN << >> ELSE chan[r]]

Forward(e) == out' = IF OutOpen THEN Append(out, e) ELSE << >>

Blame(r) == bad' = IF shutdown THEN bad ELSE bad \union {r}

(***************************************************************************)
(* No more frames or response can come on the stream of r.                 *)
(***************************************************************************)
Dead(r) == conn = "closed" \/ r \in lost

-----------------------------------------------------------------------------
(* CumulativeRelay.                                                        *)

Relay == [base : Nat, last : Nat]

RebasedNot(rel, e) == e

Rebased(rel, e) == ByteCount(rel.base + e.total)

CompletedKeepsLast(rel) == [base |-> rel.base + rel.last, last |-> rel.last]

Completed(rel) == [base |-> rel.base + rel.last, last |-> 0]

RelayTotal(rel) == rel.base + rel.last

-----------------------------------------------------------------------------
Init ==
  /\ protocol \in {"h1", "h2"}
  /\ conn = "none" /\ lost = {} /\ shutdown = FALSE
  /\ client = [r \in Request |-> IF r = 1 THEN "sending" ELSE "none"]
  /\ body = [r \in Request |-> IF r = 1 THEN "live" ELSE "none"]
  /\ counted = [r \in Request |-> 0]
  /\ chan = [r \in Request |-> IF r = 1 THEN FirstEvents ELSE << >>]
  /\ driver = "start" /\ cur = 1 /\ issued = 1
  /\ relay = [base |-> 0, last |-> 0] /\ tails = {}
  /\ out = << >> /\ handle = "none" /\ load = FreshLoad
  /\ bad = {}

-----------------------------------------------------------------------------
(* The network, the peer and the shutdown token.                           *)

Connect ==
  /\ conn = "none" /\ client[1] = "sending"
  /\ conn' = "up"
  /\ UNCHANGED << protocol, lost, shutdown, client, body, counted, chan,
                  taskVars, out, loopVars, bad >>

(***************************************************************************)
(* No connection: the client task fails before it hands the events over,   *)
(* so the driver's task ends too and the loop gets an error, not a load.   *)
(***************************************************************************)
ConnectFails ==
  /\ conn = "none" /\ client[1] = "sending"
  /\ conn' = "closed"
  /\ client' = [client EXCEPT ![1] = "done"]
  /\ body' = [body EXCEPT ![1] = "gone"]
  /\ chan' = Discard({1})
  /\ driver' = "done"
  /\ UNCHANGED << protocol, lost, shutdown, counted, cur, issued, relay, tails,
                  out, loopVars, bad >>

Shutdown ==
  /\ ~shutdown
  /\ shutdown' = TRUE
  /\ UNCHANGED << protocol, conn, lost, client, body, counted, chan, taskVars,
                  out, loopVars, bad >>

ConnectionLost ==
  /\ conn \in {"up", "draining"}
  /\ conn' = "closed"
  /\ UNCHANGED << protocol, lost, shutdown, client, body, counted, chan,
                  taskVars, out, loopVars, bad >>

(***************************************************************************)
(* The task that the program spawns for a connection selects on the token. *)
(* Over HTTP/1.1 it owns the connection, which ends with it.  Over HTTP/2  *)
(* it owns only the dispatcher of new requests: the connection proper, the *)
(* bodies and the responses are tasks of hyper's own and know nothing of   *)
(* the token, so a stream goes on unless its request was still `Queued`.   *)
(***************************************************************************)
Queued ==
  {r \in Request : client[r] = "waiting" /\ body[r] = "live" /\ counted[r] = 0}

ConnectionShutdownGraceful ==
  /\ conn = "up" /\ shutdown /\ \A r \in Request : client[r] # "waiting"
  /\ conn' = IF protocol = "h1" THEN "closed" ELSE "draining"
  /\ UNCHANGED << protocol, lost, shutdown, client, body, counted, chan,
                  taskVars, out, loopVars, bad >>

ConnectionShutdown ==
  /\ conn = "up" /\ shutdown
  /\ conn' = IF protocol = "h1" THEN "closed" ELSE "draining"
  /\ \E refused \in SUBSET Queued : lost' = lost \union refused
  /\ UNCHANGED << protocol, shutdown, client, body, counted, chan, taskVars,
                  out, loopVars, bad >>

ResetStream(r) ==
  /\ protocol = "h2" /\ ~Dead(r)
  /\ client[r] = "waiting" \/ (client[r] = "done" /\ body[r] = "live")
  /\ lost' = lost \union {r}
  /\ UNCHANGED << protocol, conn, shutdown, client, body, counted, chan,
                  taskVars, out, loopVars, bad >>

-----------------------------------------------------------------------------
(* The body of a request: UploadBody inside CountingBody.                  *)

FrameSizeUnsliced(left) == Chunk

FrameSize(left) == IF left > Chunk THEN Chunk ELSE left

(***************************************************************************)
(* hyper polls the body and gets the next chunk; `due` says whether the    *)
(* update interval has passed.  After its last chunk hyper drops the body. *)
(***************************************************************************)
PollFrame(r) ==
  /\ body[r] = "live" /\ client[r] # "sending" /\ ~Dead(r)
  /\ ReceiverOpen(r)
  /\ LET left == Bound - counted[r]
         size == FrameSize(left)
         eos == size >= left
     IN  /\ counted' = [counted EXCEPT ![r] = Counted(@, size)]
         /\ body' = [body EXCEPT ![r] = IF eos THEN "gone" ELSE @]
         /\ \E due \in BOOLEAN :
              Send(r, FrameEvents(Counted(counted[r], size), due, eos, FALSE))
  /\ UNCHANGED << netVars, client, taskVars, out, loopVars, bad >>

(***************************************************************************)
(* Nobody listens to the body any more: it ends, truncating the request.   *)
(***************************************************************************)
PollClosedPends(r) ==
  /\ body[r] = "live" /\ client[r] # "sending" /\ ~Dead(r)
  /\ ~ReceiverOpen(r)
  /\ UNCHANGED vars

PollClosed(r) ==
  /\ body[r] = "live" /\ client[r] # "sending" /\ ~Dead(r)
  /\ ~ReceiverOpen(r)
  /\ body' = [body EXCEPT ![r] = "gone"]
  /\ UNCHANGED << netVars, client, counted, chan, taskVars, out, loopVars,
                  bad >>

BodyDropped(r) ==
  /\ Dead(r) /\ body[r] = "live" /\ client[r] # "sending"
  /\ body' = [body EXCEPT ![r] = "gone"]
  /\ Blame(r)
  /\ UNCHANGED << netVars, client, counted, chan, taskVars, out, loopVars >>

-----------------------------------------------------------------------------
(* The client task of a request.                                           *)

(***************************************************************************)
(* A connection whose dispatcher is gone opens no stream.  An HTTP/1.1     *)
(* connection that is still busy with an earlier request may refuse one.   *)
(***************************************************************************)
MayRefuse(r) ==
  \/ conn = "draining"
  \/ protocol = "h1" /\ \E q \in 1..(r - 1) :
                           client[q] = "waiting" \/ body[q] = "live"

(***************************************************************************)
(* The request is passed to the network and the InflightBody to whoever    *)
(* asked for it, before any response.                                      *)
(***************************************************************************)
HandOver(r) ==
  /\ client[r] = "sending" /\ conn # "none"
  /\ client' = [client EXCEPT ![r] = "waiting"]
  /\ \/ conn # "draining" /\ UNCHANGED lost
     \/ MayRefuse(r) /\ lost' = lost \union {r}
  /\ UNCHANGED << protocol, conn, shutdown, body, counted, chan, taskVars, out,
                  loopVars, bad >>

Accepted(r) ==
  /\ client[r] = "waiting" /\ ~Dead(r)
  /\ client' = [client EXCEPT ![r] = "done"]
  /\ UNCHANGED << netVars, body, counted, chan, taskVars, out, loopVars, bad >>

(***************************************************************************)
(* The response never came, or has a status that is not a success: Failed  *)
(* is sent on the body's channel and the sender clone dropped.             *)
(***************************************************************************)
ClientFails(r) ==
  /\ client[r] = "waiting"
  /\ client' = [client EXCEPT ![r] = "done"]
  /\ Send(r, << Failed >>)
  /\ Blame(r)
  /\ UNCHANGED << netVars, body, counted, taskVars, out, loopVars >>

Rejected(r) == ~Dead(r) /\ ClientFails(r)

ResponseLost(r) == Dead(r) /\ ClientFails(r)

-----------------------------------------------------------------------------
(* The driver.                                                             *)

(***************************************************************************)
(* The first request is under way: the loop gets its LoadedConnection and  *)
(* the driver starts relaying.                                             *)
(***************************************************************************)
DriverStart ==
  /\ driver = "start" /\ client[1] # "sending"
  /\ driver' = "recv"
  /\ handle' = "held"
  /\ UNCHANGED << netVars, client, body, counted, chan, cur, issued, relay,
                  tails, out, load, bad >>

DriverShutdown ==
  /\ driver = "recv" /\ shutdown
  /\ driver' = "done"
  /\ chan' = Discard({cur})
  /\ UNCHANGED << netVars, client, body, counted, cur, issued, relay, tails,
                  out, loopVars, bad >>

(***************************************************************************)
(* A count is rebased onto the requests before it; a failed send means the *)
(* loop no longer listens, and ends the driver.                            *)
(***************************************************************************)
DriverForwards ==
  /\ driver = "recv" /\ chan[cur] # << >> /\ IsByteCount(Head(chan[cur]))
  /\ relay' = [relay EXCEPT !.last = Head(chan[cur]).total]
  /\ Forward(Rebased(relay, Head(chan[cur])))
  /\ IF OutOpen
       THEN /\ chan' = [chan EXCEPT ![cur] = Tail(@)]
            /\ driver' = driver
       ELSE /\ chan' = Discard({cur})
            /\ driver' = "done"
  /\ UNCHANGED << netVars, client, body, counted, cur, issued, tails, loopVars,
                  bad >>

(***************************************************************************)
(* The request sent its last byte: the next one is issued at once, while   *)
(* the response to this one is still unknown.                              *)
(***************************************************************************)
DriverReissues ==
  /\ driver = "recv" /\ chan[cur] # << >> /\ IsFinished(Head(chan[cur]))
  /\ OutOpen /\ issued < MaxRequests
  /\ relay' = Completed(relay)
  /\ issued' = issued + 1
  /\ client' = [client EXCEPT ![issued + 1] = "sending"]
  /\ body' = [body EXCEPT ![issued + 1] = "live"]
  /\ chan' = [chan EXCEPT ![cur] = Tail(@), ![issued + 1] = FirstEvents]
  /\ driver' = "await"
  /\ UNCHANGED << netVars, counted, cur, tails, out, loopVars, bad >>

(***************************************************************************)
(* The request sent its last byte, but nobody listens any more.            *)
(***************************************************************************)
DriverUnheard ==
  /\ driver = "recv" /\ chan[cur] # << >> /\ IsFinished(Head(chan[cur]))
  /\ ~OutOpen
  /\ driver' = "done"
  /\ relay' = Completed(relay)
  /\ chan' = Discard({cur})
  /\ UNCHANGED << netVars, client, body, counted, cur, issued, tails, out,
                  loopVars, bad >>

(***************************************************************************)
(* The next request is under way: a task drains what the finished one may  *)
(* still report, and the driver relays the new one.                        *)
(***************************************************************************)
DriverSwitch ==
  /\ driver = "await" /\ client[issued] # "sending"
  /\ driver' = "recv"
  /\ tails' = tails \union {cur}
  /\ cur' = issued
  /\ UNCHANGED << netVars, client, body, counted, chan, issued, relay, out,
                  loopVars, bad >>

(***************************************************************************)
(* The current request failed, or its channel closed before Finished.      *)
(***************************************************************************)
DriverFails ==
  /\ driver = "recv"
  /\ \/ chan[cur] # << >> /\ IsFailed(Head(chan[cur]))
     \/ chan[cur] = << >> /\ SendersGone(cur)
  /\ Forward(Failed)
  /\ driver' = "done"
  /\ chan' = Discard({cur})
  /\ UNCHANGED << netVars, client, body, counted, cur, issued, relay, tails,
                  loopVars, bad >>

-----------------------------------------------------------------------------
(* watch_tail.                                                             *)

(***************************************************************************)
(* A tail forwards a late failure and returns, or ends with the channel.   *)
(* It skips events of other kinds, but none can follow the Finished the    *)
(* driver has read: one would block the tail here, against                 *)
(* ShutdownEndsAll.                                                        *)
(***************************************************************************)
TailForwardsNothing(r) ==
  /\ r \in tails /\ chan[r] # << >> /\ IsFailed(Head(chan[r]))
  /\ tails' = tails \ {r}
  /\ chan' = Discard({r})
  /\ UNCHANGED << netVars, client, body, counted, driver, cur, issued, relay,
                  out, loopVars, bad >>

TailForwards(r) ==
  /\ r \in tails /\ chan[r] # << >> /\ IsFailed(Head(chan[r]))
  /\ Forward(Failed)
  /\ tails' = tails \ {r}
  /\ chan' = Discard({r})
  /\ UNCHANGED << netVars, client, body, counted, driver, cur, issued, relay,
                  loopVars, bad >>

TailEnds(r) ==
  /\ r \in tails /\ chan[r] = << >> /\ SendersGone(r)
  /\ tails' = tails \ {r}
  /\ UNCHANGED << netVars, client, body, counted, chan, driver, cur, issued,
                  relay, out, loopVars, bad >>

-----------------------------------------------------------------------------
(* The test loop's end.                                                    *)

LoopTakes(loadAfter, handleAfter) ==
  /\ handle = "held"
  /\ load' = loadAfter
  /\ handle' = handleAfter
  /\ out' = << >>
  /\ UNCHANGED << netVars, client, body, counted, chan, taskVars, bad >>

(***************************************************************************)
(* LoadedConnection::update, on every tick of the interval timer.          *)
(***************************************************************************)
Update == LoopTakes(Drain(load, out, OutSendersGone), "held")

(***************************************************************************)
(* LoadedConnection::stop, at the end of a test.                           *)
(***************************************************************************)
Stop == LoopTakes(StopLoad(load, out), "stopped")

(***************************************************************************)
(* The handle is dropped: the test bailed out, or had ended already.       *)
(***************************************************************************)
Abandon == LoopTakes(load, "dropped")

-----------------------------------------------------------------------------
Network == Connect \/ ConnectFails \/ Shutdown \/ ConnectionLost
             \/ ConnectionShutdown \/ \E r \in Request : ResetStream(r)

Body == \E r \in Request : PollFrame(r) \/ PollClosed(r) \/ BodyDropped(r)

Client ==
  \E r \in Request :
    HandOver(r) \/ Accepted(r) \/ Rejected(r) \/ ResponseLost(r)

Driver == DriverStart \/ DriverShutdown \/ DriverForwards \/ DriverReissues
            \/ DriverUnheard \/ DriverSwitch \/ DriverFails

Watch ==
  \E r \in Request : TailForwards(r) \/ TailEnds(r)

Loop == Update \/ Stop \/ Abandon

Next == Network \/ Body \/ Client \/ Driver \/ Watch \/ Loop

Spec == Init /\ [][Next]_vars

(***************************************************************************)
(* The tasks of this process run, the OS settles a connection attempt, and *)
(* hyper resolves what is left on a dead stream.  Nothing is assumed of    *)
(* the peer: it may never read a byte nor answer.                          *)
(***************************************************************************)
Fairness ==
  /\ WF_vars(Connect \/ ConnectFails)
  /\ WF_vars(ConnectionShutdown)
  /\ WF_vars(Driver)
  /\ WF_vars(Update)
  /\ \A r \in Request :
       /\ WF_vars(HandOver(r)) /\ WF_vars(ResponseLost(r))
       /\ WF_vars(BodyDropped(r))
       /\ WF_vars(TailForwards(r) \/ TailEnds(r))

FairSpec == Spec /\ Fairness

(***************************************************************************)
(* The peer reads what it is sent and answers every request.               *)
(***************************************************************************)
PeerFairness ==
  \A r \in Request :
    WF_vars(PollFrame(r) \/ PollClosed(r)) /\ WF_vars(Accepted(r) \/ Rejected(r))

-----------------------------------------------------------------------------
TypeOK ==
  /\ protocol \in {"h1", "h2"} /\ conn \in {"none", "up", "draining", "closed"}
  /\ lost \subseteq Request /\ bad \subseteq Request /\ tails \subseteq Request
  /\ shutdown \in BOOLEAN
  /\ client \in [Request -> {"none", "sending", "waiting", "done"}]
  /\ body \in [Request -> {"none", "live", "gone"}]
  /\ counted \in [Request -> 0..Bound]
  /\ chan \in [Request -> Seq(Event)]
  /\ driver \in {"start", "recv", "await", "done"}
  /\ cur \in Request /\ issued \in Request
  /\ relay \in Relay
  /\ out \in Seq(Event)
  /\ handle \in {"none", "held", "stopped", "dropped"}
  /\ load \in LoadRecord

(***************************************************************************)
(* While the driver runs, `base` is exactly what the completed requests    *)
(* were asked to send: none of their bytes is lost between the periodic    *)
(* counts, and none is counted twice (CumulativeRelay, whose totals feed   *)
(* the goodput of every interval).                                         *)
(***************************************************************************)
RelayExact == driver # "done" => relay.base = Bound * (issued - 1)

(***************************************************************************)
(* The loop never believes in bytes hyper has not taken: its newest total  *)
(* is at most what the relay has seen, and that is at most what the bodies *)
(* of the completed and the current request have produced.                 *)
(***************************************************************************)
LoopNotAhead ==
  /\ load.total <= RelayTotal(relay)
  /\ driver # "done" =>
       RelayTotal(relay) <= Bound * (cur - 1) + counted[cur]

(***************************************************************************)
(* The cumulative counter a load feeds to CounterSeries never runs         *)
(* backwards, at a request boundary or elsewhere, so no window's goodput   *)
(* is negative (the purpose CumulativeRelay's comment states).             *)
(***************************************************************************)
CounterMonotone == [][load'.total >= load.total]_load

(***************************************************************************)
(* A load is declared failed only if one of its requests went wrong or the *)
(* program is shutting down; in particular stopping a healthy load never   *)
(* makes it a failed one.                                                  *)
(***************************************************************************)
FailureIsGenuine == load.failed => bad # {} \/ shutdown

(***************************************************************************)
(* What a load promises to the test loop (LoadContract): an upload's       *)
(* counter is monotone, it never completes, its failure is final, and      *)
(* nothing changes once the loop has let go of it.                         *)
(***************************************************************************)
Contract == INSTANCE LoadContract WITH
  CanFinish <- FALSE,
  phase <- IF load.failed THEN "failed"
           ELSE IF load.finished THEN "finished" ELSE "running",
  total <- load.total,
  handle <- IF handle \in {"stopped", "dropped"} THEN "gone" ELSE handle

ImplementsContract == Contract!Spec

(***************************************************************************)
(* A request that goes wrong while the load is held is noticed: the loop   *)
(* sees the load failed, or lets go of it.  It holds for a rejection that  *)
(* arrives after the driver moved on, which is what watch_tail is for, and *)
(* for a body that dies without a word.  (The last request of the model    *)
(* has no successor, so its tail is never watched.)                        *)
(***************************************************************************)
FailureIsNoticed ==
  \A r \in Request \ {MaxRequests} :
    (r \in bad /\ handle = "held") ~> (load.failed \/ handle # "held")

(***************************************************************************)
(* Every task of the connection has ended.                                 *)
(***************************************************************************)
Quiet ==
  /\ driver = "done" /\ tails = {}
  /\ \A r \in Request : body[r] # "live" /\ client[r] \in {"none", "done"}

(***************************************************************************)
(* After the token is cancelled the driver ends, whatever the peer does,   *)
(* and over HTTP/1.1 so does every other task, as the connection closes.   *)
(* Over HTTP/2 a stream in flight is not cut off: its body and client, and *)
(* the tail that waits for them, end if the peer reads and answers.        *)
(***************************************************************************)
ShutdownEndsAll ==
  /\ shutdown ~> [](driver = "done" /\ (protocol = "h1" => Quiet))
  /\ PeerFairness => (shutdown ~> []Quiet)

(***************************************************************************)
(* Letting go of the load ends its tasks without any shutdown, as long as  *)
(* the peer keeps reading and answering: the closed channel truncates the  *)
(* request in flight and no further one is issued.                         *)
(***************************************************************************)
LettingGoEndsAll ==
  PeerFairness => (handle \in {"stopped", "dropped"} ~> []Quiet)

(***************************************************************************)
(* "Failed ... will produce no further bytes.  Consumers must treat this   *)
(* as terminal" (counting_body.rs:28-34): once the loop knows the load     *)
(* failed, its counter stands still.                                       *)
(***************************************************************************)
FailedIsTerminal == [][load.failed => load'.total = load.total]_load

(***************************************************************************)
(* "Returning silently is correct: the consumer tells teardown apart from  *)
(* a failure via LoadedConnection::stop" (nq_load_generator/mod.rs:243):   *)
(* a load none of whose requests went wrong is never declared failed, also *)
(* when the program is shutting down.                                      *)
(***************************************************************************)
TeardownIsNotFailure == load.failed => bad # {}
=============================================================================
