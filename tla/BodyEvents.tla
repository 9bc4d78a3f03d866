----------------------------- MODULE BodyEvents -----------------------------
(***************************************************************************)
(* The events a transfer reports about its body, and which of them a       *)
(* CountingBody sends when it is polled (nq_core/body/counting_body.rs).   *)
(* A timestamp is left out: within one channel events are queued in the    *)
(* order their timestamps were taken.                                      *)
(***************************************************************************)
EXTENDS Naturals, Sequences

EventKind == {"ByteCount", "Finished", "Failed"}

Event == [kind : EventKind, total : Nat]

ByteCount(n) == [kind |-> "ByteCount", total |-> n]
Finished == [kind |-> "Finished", total |-> 0]
Failed == [kind |-> "Failed", total |-> 0]

IsByteCount(e) == e.kind = "ByteCount"
IsFinished(e) == e.kind = "Finished"
IsFailed(e) == e.kind = "Failed"

(***************************************************************************)
(* CountingBody::new announces the body with a count of zero.              *)
(***************************************************************************)
FirstEvents == << ByteCount(0) >>

(***************************************************************************)
(* The bytes of a data frame are added to the body's total.                *)
(***************************************************************************)
CountedTwice(total, n) == total + 2 * n

Counted(total, n) == total + n

(***************************************************************************)
(* A frame was produced and `total` now counts it: a periodic count when   *)
(* `due` (update_every has passed), then the final count and Finished when *)
(* the wrapped body is at its end and neither was sent before.             *)
(***************************************************************************)
FrameEventsNoFinalCount(total, due, eos, sent) ==
  (IF due THEN << ByteCount(total) >> ELSE << >>)
    \o (IF eos /\ ~sent THEN << Finished >> ELSE << >>)

FrameEvents(total, due, eos, sent) ==
  (IF due THEN << ByteCount(total) >> ELSE << >>)
    \o (IF eos /\ ~sent THEN << ByteCount(total), Finished >> ELSE << >>)

(***************************************************************************)
(* The wrapped body returned None: the final count and Finished, once.     *)
(***************************************************************************)
EndEventsSilent(total, sent) ==
  IF sent THEN << >> ELSE << ByteCount(total) >>

EndEvents(total, sent) ==
  IF sent THEN << >> ELSE << ByteCount(total), Finished >>

(***************************************************************************)
(* The wrapped body returned an error: Failed, once, never after Finished. *)
(***************************************************************************)
ErrorEvents(sent) == IF sent THEN << >> ELSE << Failed >>
=============================================================================
