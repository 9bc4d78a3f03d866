----------------------------- MODULE LoadState ------------------------------
(***************************************************************************)
(* What a LoadedConnection knows of its transfer, and how draining the     *)
(* event channel changes it (LoadState in nq_load_generator/mod.rs).       *)
(* `total` is the newest sample of the byte counter series.                *)
(***************************************************************************)
EXTENDS BodyEvents

LoadRecord ==
  [total : Nat, finished : BOOLEAN, failed : BOOLEAN, stopping : BOOLEAN]

FreshLoad ==
  [total |-> 0, finished |-> FALSE, failed |-> FALSE, stopping |-> FALSE]

IsOngoing(load) == ~load.finished /\ ~load.failed

HasFinished(queue) == \E i \in DOMAIN queue : IsFinished(queue[i])
HasFailed(queue) == \E i \in DOMAIN queue : IsFailed(queue[i])

(***************************************************************************)
(* The newest byte count of a queue, or `default` when it holds none.      *)
(***************************************************************************)
NewestTotal(default, queue) ==
  LET counts == {i \in DOMAIN queue : IsByteCount(queue[i])}
  IN  IF counts = {} THEN default
      ELSE queue[CHOOSE i \in counts : \A j \in counts : j <= i].total

(***************************************************************************)
(* apply, once for each buffered event in order.                           *)
(***************************************************************************)
ApplyAll(load, queue) ==
  [load EXCEPT !.total = NewestTotal(@, queue),
               !.finished = @ \/ HasFinished(queue),
               !.failed = @ \/ HasFailed(queue)]

(***************************************************************************)
(* on_disconnected: a channel that closed before Finished is a failure,    *)
(* unless the load is being stopped.                                       *)
(***************************************************************************)
OnDisconnectedAlways(load) ==
  [load EXCEPT !.failed = @ \/ ~load.finished]

OnDisconnectedUnfinished(load) ==
  [load EXCEPT !.failed = @ \/ ~load.stopping]

OnDisconnectedNever(load) == load

OnDisconnected(load) ==
  [load EXCEPT !.failed = @ \/ (~load.finished /\ ~load.stopping)]

(***************************************************************************)
(* drain: every buffered event is applied before a disconnection counts.   *)
(***************************************************************************)
Drain(load, queue, disconnected) ==
  IF disconnected THEN OnDisconnected(ApplyAll(load, queue))
                  ELSE ApplyAll(load, queue)

(***************************************************************************)
(* stop: `stopping` is set and the receiver closed before the final drain, *)
(* which then finds the channel disconnected.                              *)
(***************************************************************************)
StopLoad(load, queue) == Drain([load EXCEPT !.stopping = TRUE], queue, TRUE)
=============================================================================
