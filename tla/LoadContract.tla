---------------------------- MODULE LoadContract ----------------------------
(***************************************************************************)
(* What one load-generating connection promises to the event loop that     *)
(* holds it, whatever tasks are behind it.  `total` is the newest sample   *)
(* of its cumulative byte counter, `phase` what the loop believes of the   *)
(* transfer and `handle` whether the loop has its handle, still, or no     *)
(* longer (it was stopped or dropped).                                     *)
(*                                                                         *)
(* The loop may rely on this: the counter never runs backwards, so the     *)
(* goodput of a window is never negative; the outcome of a transfer is     *)
(* decided once; and nothing changes after the handle was stopped.         *)
(***************************************************************************)
EXTENDS Naturals

CONSTANT CanFinish  \* whether a transfer of this kind ever completes

VARIABLES phase, total, handle

vars == << phase, total, handle >>

Phase == {"running", "failed"} \union IF CanFinish THEN {"finished"} ELSE {}

Init == phase = "running" /\ total = 0 /\ handle = "none"

(***************************************************************************)
(* The connection is established and handed to the loop.                   *)
(***************************************************************************)
Offer ==
  /\ handle = "none"
  /\ handle' = "held"
  /\ UNCHANGED << phase, total >>

(***************************************************************************)
(* The loop looks at the transfer: the counter may have grown, and an      *)
(* undecided transfer may have been decided.                               *)
(***************************************************************************)
Observe ==
  /\ handle = "held"
  /\ total' >= total
  /\ phase' \in IF phase = "running" THEN Phase ELSE {phase}
  /\ handle' \in {"held", "gone"}

Next == Offer \/ Observe

Spec == Init /\ [][Next]_vars
=============================================================================
