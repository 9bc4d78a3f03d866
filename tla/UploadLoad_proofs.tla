-------------------------- MODULE UploadLoad_proofs --------------------------
(***************************************************************************)
(* The safety properties of an upload load, proved for every bound, chunk  *)
(* size and number of requests: the relay is exact, the loop's counter     *)
(* never runs backwards nor ahead of the bodies, failures are genuine, and *)
(* the load implements LoadContract.                                       *)
(***************************************************************************)
EXTENDS UploadLoad, SequenceTheorems, WellFoundedInduction, TLAPS

(***************************************************************************)
(* The events the driver has yet to relay from the newest request, of      *)
(* which it has relayed `last` and the body has counted n: the counts lie  *)
(* between the two and do not decrease, and Finished follows the full one. *)
(***************************************************************************)
ChanFits(q, last, n) ==
  /\ last <= n
  /\ \A i \in 1..Len(q) :
       IsByteCount(q[i]) => last <= q[i].total /\ q[i].total <= n
  /\ \A i, j \in 1..Len(q) :
       i < j /\ IsByteCount(q[i]) /\ IsByteCount(q[j])
         => q[i].total <= q[j].total
  /\ \A i \in 1..Len(q) :
       IsFinished(q[i]) => IF i = 1 THEN last = Bound
                           ELSE q[i - 1] = ByteCount(Bound)

(***************************************************************************)
(* Where the driver is among the requests, and who drains which channel.   *)
(***************************************************************************)
Positions ==
  /\ driver # "done" => issued = IF driver = "await" THEN cur + 1 ELSE cur
  /\ tails \subseteq 1..(cur - 1)
  /\ driver = "start" \/ client[1] = "sending" => handle = "none"

(***************************************************************************)
(* The relay's account of the requests issued so far.                      *)
(***************************************************************************)
Counting ==
  driver # "done" =>
    /\ relay.base = Bound * (issued - 1)
    /\ ChanFits(chan[issued], relay.last, counted[issued])
    /\ driver = "await" => relay.last = 0 /\ counted[cur] = Bound

(***************************************************************************)
(* What is on its way to the loop lies between what the loop knows and     *)
(* what the relay has seen.                                                *)
(***************************************************************************)
LoopTotals ==
  /\ load.total <= RelayTotal(relay)
  /\ \A i \in 1..Len(out) :
       IsByteCount(out[i])
         => load.total <= out[i].total /\ out[i].total <= RelayTotal(relay)

(***************************************************************************)
(* Something went wrong, or the program is shutting down.                  *)
(***************************************************************************)
Blamed == bad # {} \/ shutdown

(***************************************************************************)
(* Every way to a failed load has something to blame: a Failed event on    *)
(* any channel, a driver that left a listening loop, and a body that ended *)
(* without Finished.                                                       *)
(***************************************************************************)
FailuresBlamed ==
  /\ \A r \in Request : HasFailed(chan[r]) => Blamed
  /\ HasFailed(out) \/ load.failed => Blamed
  /\ driver = "done" /\ handle = "held" => Blamed
  /\ driver # "done" /\ body[issued] = "gone"
       => HasFinished(chan[issued]) \/ Blamed

(***************************************************************************)
(* An upload load is never told that it completed.                         *)
(***************************************************************************)
NeverFinishes == ~HasFinished(out) /\ ~load.finished

IInv ==
  /\ TypeOK /\ Positions /\ Counting /\ LoopTotals /\ FailuresBlamed
  /\ NeverFinishes

-----------------------------------------------------------------------------
(* The events.                                                             *)

(***************************************************************************)
(* Each constructor yields an event that its own predicate recognises.     *)
(***************************************************************************)
LEMMA EventTypes ==
  /\ \A n \in Nat : ByteCount(n) \in Event /\ IsByteCount(ByteCount(n))
                      /\ ByteCount(n).total = n
  /\ Finished \in Event /\ IsFinished(Finished)
  /\ Failed \in Event /\ IsFailed(Failed)
BY DEF Event, EventKind, ByteCount, Finished, Failed, IsByteCount, IsFinished,
       IsFailed

(***************************************************************************)
(* A count, a Finished and a Failed are three different things.            *)
(***************************************************************************)
LEMMA EventKinds ==
  /\ \A n \in Nat : ~IsFinished(ByteCount(n)) /\ ~IsFailed(ByteCount(n))
  /\ ~IsByteCount(Finished) /\ ~IsFailed(Finished)
  /\ ~IsByteCount(Failed) /\ ~IsFinished(Failed)
  /\ \A e \in Event : IsByteCount(e) => ~IsFinished(e) /\ ~IsFailed(e)
  /\ \A e \in Event : IsFinished(e) => ~IsByteCount(e) /\ ~IsFailed(e)
BY DEF Event, ByteCount, Finished, Failed, IsByteCount, IsFinished, IsFailed

(***************************************************************************)
(* What indexing a queue of events yields.                                 *)
(***************************************************************************)
LEMMA EventSequence ==
  ASSUME NEW q \in Seq(Event)
  PROVE  /\ Len(q) \in Nat /\ DOMAIN q = 1..Len(q)
         /\ \A i \in 1..Len(q) : q[i] \in Event /\ q[i].total \in Nat
<1>1. \A i \in 1..Len(q) : q[i] \in Event
  BY ElementOfSeq
<1>2. \A e \in Event : e.total \in Nat
  BY DEF Event
<1> QED
  BY <1>1, <1>2, LenProperties

(***************************************************************************)
(* A body that went on to count more, or announced its count.              *)
(***************************************************************************)
LEMMA FitsMore ==
  ASSUME NEW q \in Seq(Event), NEW last \in Nat, NEW n \in Nat, NEW m \in Nat,
         ChanFits(q, last, n), n <= m
  PROVE  ChanFits(q, last, m)
<1>1. \A i \in 1..Len(q) : q[i].total \in Nat
  BY EventSequence
<1> QED
  BY <1>1 DEF ChanFits

(***************************************************************************)
(* A body that reports the total it has reached keeps its channel in       *)
(* order.                                                                  *)
(***************************************************************************)
LEMMA FitsCount ==
  ASSUME NEW q \in Seq(Event), NEW last \in Nat, NEW n \in Nat,
         ChanFits(q, last, n)
  PROVE  ChanFits(Append(q, ByteCount(n)), last, n)
<1> DEFINE a == Append(q, ByteCount(n))
<1>1. /\ Len(a) = Len(q) + 1 /\ a[Len(q) + 1] = ByteCount(n)
      /\ \A i \in 1..Len(q) : a[i] = q[i]
      /\ Len(q) \in Nat
  BY EventTypes, AppendProperties, LenProperties
<1>2. \A i \in 1..Len(a) : i \in 1..Len(q) \/ i = Len(q) + 1
  BY <1>1
<1>3. \A i \in 1..Len(q) : q[i].total \in Nat
  BY EventSequence
<1> HIDE DEF a
<1>4. \A i \in 1..Len(a) :
        IsByteCount(a[i]) => last <= a[i].total /\ a[i].total <= n
  BY <1>1, <1>2, EventTypes DEF ChanFits
<1>5. \A i, j \in 1..Len(a) :
        i < j /\ IsByteCount(a[i]) /\ IsByteCount(a[j])
          => a[i].total <= a[j].total
  <2> SUFFICES ASSUME NEW i \in 1..Len(a), NEW j \in 1..Len(a), i < j,
                      IsByteCount(a[i]), IsByteCount(a[j])
               PROVE  a[i].total <= a[j].total
    OBVIOUS
  <2>1. i \in 1..Len(q)
    BY <1>1, <1>2
  <2> QED
    BY <1>1, <1>2, <2>1, EventTypes DEF ChanFits
<1>6. \A i \in 1..Len(a) :
        IsFinished(a[i]) => IF i = 1 THEN last = Bound
                            ELSE a[i - 1] = ByteCount(Bound)
  <2> SUFFICES ASSUME NEW i \in 1..Len(a), IsFinished(a[i])
               PROVE  IF i = 1 THEN last = Bound ELSE a[i - 1] = ByteCount(Bound)
    OBVIOUS
  <2>1. i \in 1..Len(q)
    BY <1>1, <1>2, EventKinds
  <2>2. i = 1 \/ i - 1 \in 1..Len(q)
    BY <1>1, <2>1
  <2> QED
    BY <1>1, <2>1, <2>2 DEF ChanFits
<1> QED
  BY <1>4, <1>5, <1>6 DEF ChanFits, a

(***************************************************************************)
(* Finished right after the full count, and Failed anywhere.               *)
(***************************************************************************)
LEMMA FitsEnd ==
  ASSUME NEW q \in Seq(Event), NEW last \in Nat, NEW n \in Nat,
         ChanFits(q, last, n), NEW e \in {Finished, Failed},
         e = Finished => q # << >> /\ q[Len(q)] = ByteCount(Bound)
  PROVE  ChanFits(Append(q, e), last, n)
<1> DEFINE a == Append(q, e)
<1>1. /\ Len(a) = Len(q) + 1 /\ a[Len(q) + 1] = e
      /\ \A i \in 1..Len(q) : a[i] = q[i]
      /\ Len(q) \in Nat /\ (q # << >> => Len(q) > 0)
  BY EventTypes, AppendProperties, LenProperties, EmptySeq
<1>2. \A i \in 1..Len(a) : i \in 1..Len(q) \/ i = Len(q) + 1
  BY <1>1
<1>3. ~IsByteCount(e) /\ (IsFinished(e) => e = Finished)
  BY EventKinds
<1> HIDE DEF a
<1>4. \A i \in 1..Len(a) :
        IsByteCount(a[i]) => last <= a[i].total /\ a[i].total <= n
  BY <1>1, <1>2, <1>3 DEF ChanFits
<1>5. \A i, j \in 1..Len(a) :
        i < j /\ IsByteCount(a[i]) /\ IsByteCount(a[j])
          => a[i].total <= a[j].total
  BY <1>1, <1>2, <1>3 DEF ChanFits
<1>6. \A i \in 1..Len(a) :
        IsFinished(a[i]) => IF i = 1 THEN last = Bound
                            ELSE a[i - 1] = ByteCount(Bound)
  <2> SUFFICES ASSUME NEW i \in 1..Len(a), IsFinished(a[i])
               PROVE  IF i = 1 THEN last = Bound ELSE a[i - 1] = ByteCount(Bound)
    OBVIOUS
  <2>1. CASE i \in 1..Len(q)
    <3>1. i = 1 \/ i - 1 \in 1..Len(q)
      BY <1>1, <2>1
    <3> QED
      BY <1>1, <2>1, <3>1 DEF ChanFits
  <2>2. CASE i = Len(q) + 1
    <3>1. Len(q) > 0 /\ q[Len(q)] = ByteCount(Bound)
      BY <1>1, <1>3, <2>2
    <3>2. i # 1 /\ i - 1 = Len(q) /\ Len(q) \in 1..Len(q)
      BY <1>1, <2>2, <3>1
    <3> QED
      BY <1>1, <3>1, <3>2
  <2> QED
    BY <1>2, <2>1, <2>2
<1> QED
  BY <1>4, <1>5, <1>6 DEF ChanFits, a

(***************************************************************************)
(* Relaying the count at the head.                                         *)
(***************************************************************************)
LEMMA FitsTail ==
  ASSUME NEW q \in Seq(Event), NEW last \in Nat, NEW n \in Nat,
         ChanFits(q, last, n), q # << >>, IsByteCount(Head(q))
  PROVE  /\ last <= Head(q).total /\ Head(q).total <= n
         /\ ChanFits(Tail(q), Head(q).total, n)
<1> DEFINE h == Head(q)
           t == Tail(q)
<1>1. /\ h = q[1] /\ Len(q) \in Nat /\ Len(q) > 0 /\ Len(t) = Len(q) - 1
      /\ \A i \in 1..Len(t) : t[i] = q[i + 1]
  BY HeadTailProperties, LenProperties, EmptySeq
<1>2. \A i \in 1..Len(t) : i + 1 \in 1..Len(q) /\ i + 1 > 1
  BY <1>1
<1> HIDE DEF h, t
<1>3. 1 \in 1..Len(q) /\ IsByteCount(q[1])
  BY <1>1 DEF h
<1>4. last <= h.total /\ h.total <= n
  BY <1>1, <1>3 DEF ChanFits
<1>5. \A i \in 1..Len(t) :
        IsByteCount(t[i]) => h.total <= t[i].total /\ t[i].total <= n
  BY <1>1, <1>2, <1>3 DEF ChanFits
<1>6. \A i, j \in 1..Len(t) :
        i < j /\ IsByteCount(t[i]) /\ IsByteCount(t[j])
          => t[i].total <= t[j].total
  BY <1>1, <1>2 DEF ChanFits
<1>7. \A i \in 1..Len(t) :
        IsFinished(t[i]) => IF i = 1 THEN h.total = Bound
                            ELSE t[i - 1] = ByteCount(Bound)
  <2> SUFFICES ASSUME NEW i \in 1..Len(t), IsFinished(t[i])
               PROVE  IF i = 1 THEN h.total = Bound
                      ELSE t[i - 1] = ByteCount(Bound)
    OBVIOUS
  <2>1. i + 1 \in 1..Len(q) /\ i + 1 # 1 /\ IsFinished(q[i + 1])
    BY <1>1, <1>2
  <2>2. q[(i + 1) - 1] = ByteCount(Bound)
    BY <2>1 DEF ChanFits
  <2>3. CASE i = 1
    BY <1>1, <2>2, <2>3, EventTypes, BoundAssumption
  <2>4. CASE i # 1
    <3>1. i - 1 \in 1..Len(t) /\ (i - 1) + 1 = (i + 1) - 1
      BY <1>1, <2>4
    <3> QED
      BY <1>1, <2>2, <2>4, <3>1
  <2> QED
    BY <2>3, <2>4
<1>8. h.total <= n
  BY <1>4
<1> QED
  BY <1>4, <1>5, <1>6, <1>7 DEF ChanFits, h, t

(***************************************************************************)
(* What a queue holds, after an event was appended, taken or more of them  *)
(* queued.                                                                 *)
(***************************************************************************)
LEMMA HoldsAppend ==
  ASSUME NEW q \in Seq(Event), NEW e \in Event
  PROVE  /\ HasFailed(Append(q, e)) <=> HasFailed(q) \/ IsFailed(e)
         /\ HasFinished(Append(q, e)) <=> HasFinished(q) \/ IsFinished(e)
<1>1. /\ DOMAIN Append(q, e) = (DOMAIN q) \union {Len(q) + 1}
      /\ \A i \in DOMAIN q : Append(q, e)[i] = q[i]
      /\ Append(q, e)[Len(q) + 1] = e
  <2>1. /\ Append(q, e) \in Seq(Event) /\ Len(Append(q, e)) = Len(q) + 1
        /\ \A i \in 1..Len(q) : Append(q, e)[i] = q[i]
        /\ Append(q, e)[Len(q) + 1] = e
    BY AppendProperties
  <2>2. /\ Len(q) \in Nat /\ DOMAIN q = 1..Len(q)
        /\ DOMAIN Append(q, e) = 1..(Len(q) + 1)
    BY <2>1, LenProperties
  <2> QED
    BY <2>1, <2>2
<1> QED
  BY <1>1 DEF HasFailed, HasFinished

(***************************************************************************)
(* Taking the head off a queue takes at most its own failure or end with   *)
(* it.                                                                     *)
(***************************************************************************)
LEMMA HoldsTail ==
  ASSUME NEW q \in Seq(Event), q # << >>
  PROVE  /\ HasFailed(Tail(q)) => HasFailed(q)
         /\ HasFinished(q) <=> IsFinished(Head(q)) \/ HasFinished(Tail(q))
<1>1. /\ Head(q) = q[1] /\ Len(q) \in Nat /\ Len(q) > 0
      /\ Len(Tail(q)) = Len(q) - 1
      /\ \A i \in 1..Len(Tail(q)) : Tail(q)[i] = q[i + 1]
      /\ DOMAIN q = 1..Len(q) /\ DOMAIN Tail(q) = 1..Len(Tail(q))
  BY HeadTailProperties, LenProperties, EmptySeq
<1>2. /\ \A i \in DOMAIN Tail(q) : i + 1 \in DOMAIN q
      /\ \A i \in DOMAIN q : i = 1 \/ (i - 1 \in DOMAIN Tail(q)
                                         /\ q[i] = Tail(q)[i - 1])
      /\ 1 \in DOMAIN q
  BY <1>1
<1> QED
  BY <1>1, <1>2 DEF HasFailed, HasFinished

(***************************************************************************)
(* An empty queue holds neither a failure nor an end.                      *)
(***************************************************************************)
LEMMA HoldsNothing == ~HasFailed(<< >>) /\ ~HasFinished(<< >>)
BY EmptySeq DEF HasFailed, HasFinished

(***************************************************************************)
(* A frame adds the body's new total, or nothing, or that and Finished.    *)
(***************************************************************************)
LEMMA FrameAppends ==
  ASSUME NEW q \in Seq(Event), NEW total \in Nat, NEW due \in BOOLEAN,
         NEW eos \in BOOLEAN
  PROVE  /\ FrameEvents(total, due, eos, FALSE) \in Seq(Event)
         /\ \E b \in {q, Append(q, ByteCount(total))} :
              /\ b \in Seq(Event)
              /\ q \o FrameEvents(total, due, eos, FALSE)
                   = IF eos THEN Append(Append(b, ByteCount(total)), Finished)
                            ELSE b
<1>1. ByteCount(total) \in Event /\ Finished \in Event
  BY EventTypes
<1>2. FrameEvents(total, due, eos, FALSE) \in Seq(Event)
  BY <1>1 DEF FrameEvents
<1>3. PICK b \in {q, Append(q, ByteCount(total))} :
        b = IF due THEN Append(q, ByteCount(total)) ELSE q
  OBVIOUS
<1>4. q \o FrameEvents(total, due, eos, FALSE)
        = IF eos THEN Append(Append(b, ByteCount(total)), Finished) ELSE b
  BY <1>1, <1>3 DEF FrameEvents
<1> QED
  BY <1>1, <1>2, <1>4, AppendProperties

(***************************************************************************)
(* A frame never reports a failure, and reports the end only at the end of *)
(* the stream.                                                             *)
(***************************************************************************)
LEMMA FrameHolds ==
  ASSUME NEW q \in Seq(Event), NEW total \in Nat, NEW due \in BOOLEAN,
         NEW eos \in BOOLEAN
  PROVE  /\ HasFailed(q \o FrameEvents(total, due, eos, FALSE)) => HasFailed(q)
         /\ HasFinished(q) \/ eos
              => HasFinished(q \o FrameEvents(total, due, eos, FALSE))
<1>1. ByteCount(total) \in Event /\ Finished \in Event
  BY EventTypes
<1>2. PICK b \in {q, Append(q, ByteCount(total))} :
        /\ b \in Seq(Event)
        /\ q \o FrameEvents(total, due, eos, FALSE)
             = IF eos THEN Append(Append(b, ByteCount(total)), Finished) ELSE b
  BY FrameAppends
<1> DEFINE c == Append(b, ByteCount(total))
<1>3. (HasFailed(b) => HasFailed(q)) /\ (HasFinished(q) => HasFinished(b))
  BY <1>1, HoldsAppend, EventKinds
<1>4. c \in Seq(Event) /\ (HasFailed(c) => HasFailed(q))
  BY <1>1, <1>3, HoldsAppend, EventKinds, AppendProperties
<1>5. /\ HasFinished(Append(c, Finished))
      /\ HasFailed(Append(c, Finished)) => HasFailed(q)
  BY <1>1, <1>4, HoldsAppend, EventKinds, EventTypes
<1> HIDE DEF c
<1> QED
  BY <1>2, <1>3, <1>5 DEF c

(***************************************************************************)
(* The events of a frame keep the channel in order, if the total they      *)
(* carry is that of the body.                                              *)
(***************************************************************************)
LEMMA FitsFrame ==
  ASSUME NEW q \in Seq(Event), NEW total \in Nat, NEW due \in BOOLEAN,
         NEW eos \in BOOLEAN
  PROVE  \A last, n \in Nat :
           ChanFits(q, last, n) /\ n <= total /\ (eos => total = Bound)
             => ChanFits(q \o FrameEvents(total, due, eos, FALSE), last, total)
<1>1. ByteCount(total) \in Event
  BY EventTypes
<1>2. PICK b \in {q, Append(q, ByteCount(total))} :
        /\ b \in Seq(Event)
        /\ q \o FrameEvents(total, due, eos, FALSE)
             = IF eos THEN Append(Append(b, ByteCount(total)), Finished) ELSE b
  BY FrameAppends
<1> SUFFICES ASSUME NEW last \in Nat, NEW n \in Nat,
                    ChanFits(q, last, n), n <= total, eos => total = Bound
             PROVE  ChanFits(q \o FrameEvents(total, due, eos, FALSE), last,
                             total)
  OBVIOUS
<1> DEFINE c == Append(b, ByteCount(total))
<1>3. ChanFits(q, last, total)
  BY FitsMore
<1>4. ChanFits(b, last, total)
  BY <1>3, FitsCount
<1>5. ChanFits(c, last, total)
  BY <1>2, <1>4, FitsCount
<1>6. c \in Seq(Event) /\ c # << >> /\ c[Len(c)] = ByteCount(total)
  BY <1>1, <1>2, AppendProperties
<1>7. eos => ChanFits(Append(c, Finished), last, total)
  BY <1>5, <1>6, FitsEnd
<1> HIDE DEF c
<1> QED
  BY <1>2, <1>4, <1>7 DEF c

(***************************************************************************)
(* Every non-empty set of naturals has a least element.                    *)
(***************************************************************************)
LEMMA LeastOf ==
  ASSUME NEW T, T \subseteq Nat, T # {}
  PROVE  \E x \in T : \A y \in T : x <= y
<1>1. IsWellFoundedOn(OpToRel(<, Nat), Nat)
  BY NatLessThanWellFounded
<1>2. PICK x \in T : \A y \in T : ~(<<y, x>> \in OpToRel(<, Nat))
  BY <1>1, WFMin
<1>3. \A y \in T : ~(y < x)
  BY <1>2 DEF OpToRel
<1> QED
  BY <1>3

(***************************************************************************)
(* The newest count of a queue lies between whatever bounds all of them    *)
(* and the default lie between.                                            *)
(***************************************************************************)
LEMMA NewestBetween ==
  ASSUME NEW q \in Seq(Event), NEW d \in Nat, NEW m \in Nat, d <= m,
         \A i \in 1..Len(q) :
           IsByteCount(q[i]) => d <= q[i].total /\ q[i].total <= m
  PROVE  /\ NewestTotal(d, q) \in Nat
         /\ d <= NewestTotal(d, q) /\ NewestTotal(d, q) <= m
<1> DEFINE counts == {i \in DOMAIN q : IsByteCount(q[i])}
           newest == CHOOSE i \in counts : \A j \in counts : j <= i
<1>1. /\ Len(q) \in Nat /\ DOMAIN q = 1..Len(q)
      /\ \A i \in 1..Len(q) : q[i].total \in Nat
  BY EventSequence
<1>2. CASE counts = {}
  BY <1>2 DEF NewestTotal
<1>3. CASE counts # {}
  <2> DEFINE T == {Len(q) - i : i \in counts}
  <2>1. counts \subseteq 1..Len(q)
    BY <1>1
  <2> HIDE DEF counts
  <2>2. T \subseteq Nat /\ T # {}
    <3>1. \A i \in counts : Len(q) - i \in Nat
      BY <1>1, <2>1
    <3>2. T \subseteq Nat
      BY <3>1
    <3>3. PICK i \in counts : TRUE
      BY <1>3
    <3>4. Len(q) - i \in T
      BY <3>3
    <3> QED
      BY <3>2, <3>4
  <2>3. PICK x \in T : \A y \in T : x <= y
    BY <2>2, LeastOf
  <2>4. PICK i \in counts : x = Len(q) - i
    BY <2>3
  <2>5. \A j \in counts : j <= i
    <3> SUFFICES ASSUME NEW j \in counts PROVE j <= i
      OBVIOUS
    <3>1. Len(q) - j \in T
      OBVIOUS
    <3>2. Len(q) - i <= Len(q) - j
      BY <2>3, <2>4, <3>1
    <3> QED
      BY <1>1, <2>1, <3>2
  <2>6. newest \in counts
    BY <2>5
  <2>7. NewestTotal(d, q) = q[newest].total
    BY <1>3 DEF NewestTotal, counts
  <2>8. newest \in 1..Len(q) /\ IsByteCount(q[newest])
    BY <2>1, <2>6 DEF counts
  <2> HIDE DEF newest
  <2> QED
    BY <1>1, <2>7, <2>8
<1> QED
  BY <1>2, <1>3

-----------------------------------------------------------------------------
(* The initial states.                                                     *)

(***************************************************************************)
(* The zero count a new body starts with fits any channel.                 *)
(***************************************************************************)
LEMMA FirstEventsFit ==
  /\ FirstEvents \in Seq(Event) /\ ~HasFailed(FirstEvents)
  /\ \A n \in Nat : ChanFits(FirstEvents, 0, n)
<1>1. << >> \in Seq(Event) /\ ByteCount(0) \in Event
  BY EventTypes, EmptySeq
<1>2. FirstEvents = Append(<< >>, ByteCount(0))
  BY DEF FirstEvents
<1>3. FirstEvents \in Seq(Event) /\ ~HasFailed(FirstEvents)
  BY <1>1, <1>2, AppendProperties, HoldsAppend, HoldsNothing, EventKinds
<1>4. ChanFits(<< >>, 0, 0)
  BY EmptySeq DEF ChanFits
<1>5. ChanFits(FirstEvents, 0, 0)
  BY <1>1, <1>2, <1>4, FitsCount
<1> QED
  BY <1>3, <1>5, FitsMore

(***************************************************************************)
(* The first request is being sent and nothing was counted, so the         *)
(* invariant holds.                                                        *)
(***************************************************************************)
LEMMA InitInvariant == Init => IInv
<1> SUFFICES ASSUME Init PROVE IInv
  OBVIOUS
<1> USE BoundAssumption, MaxRequestsAssumption
<1>1. /\ 1 \in Request
      /\ \A r \in Request : chan[r] \in Seq(Event) /\ ~HasFailed(chan[r])
      /\ chan[1] = FirstEvents /\ counted[1] = 0 /\ body[1] = "live"
      /\ out = << >> /\ out \in Seq(Event) /\ Len(out) = 0
  BY FirstEventsFit, HoldsNothing, EmptySeq DEF Init, Request
<1>2. TypeOK
  <2>1. /\ client \in [Request -> {"none", "sending", "waiting", "done"}]
        /\ body \in [Request -> {"none", "live", "gone"}]
        /\ counted \in [Request -> 0..Bound]
        /\ chan \in [Request -> Seq(Event)]
    BY <1>1 DEF Init
  <2>2. relay \in Relay /\ load \in LoadRecord
    BY DEF Init, Relay, LoadRecord, FreshLoad
  <2> QED
    BY <1>1, <2>1, <2>2 DEF Init, TypeOK
<1>3. Positions
  BY DEF Init, Positions
<1>4. Counting
  BY <1>1, FirstEventsFit DEF Init, Counting
<1>5. LoopTotals
  BY <1>1 DEF Init, LoopTotals, RelayTotal, FreshLoad
<1>6. FailuresBlamed
  BY <1>1, HoldsNothing DEF Init, FailuresBlamed, FreshLoad
<1>7. NeverFinishes
  BY <1>1, HoldsNothing DEF Init, NeverFinishes, FreshLoad
<1> QED
  BY <1>2, <1>3, <1>4, <1>5, <1>6, <1>7 DEF IInv

-----------------------------------------------------------------------------
(* The network, and what happens to a task without an event.               *)

(***************************************************************************)
(* Steps that leave bodies, driver and loop alone keep the invariant as    *)
(* long as a cause of failure is not forgotten.                            *)
(***************************************************************************)
LEMMA QuietKeeps ==
  ASSUME IInv,
         UNCHANGED << counted, chan, driver, cur, issued, relay, tails, out,
                      handle, load >>,
         conn' \in {"none", "up", "draining", "closed"},
         protocol' \in {"h1", "h2"}, lost' \subseteq Request,
         shutdown' \in BOOLEAN, bad' \subseteq Request,
         client' \in [Request -> {"none", "sending", "waiting", "done"}],
         body' \in [Request -> {"none", "live", "gone"}],
         client'[1] = "sending" => client[1] = "sending",
         Blamed => Blamed',
         driver # "done" /\ body'[issued] = "gone"
           => body[issued] = "gone" \/ Blamed'
  PROVE  IInv'
<1>1. TypeOK'
  BY DEF IInv, TypeOK
<1>2. Positions' /\ Counting' /\ LoopTotals' /\ NeverFinishes'
  BY DEF IInv, Positions, Counting, LoopTotals, NeverFinishes, ChanFits,
         RelayTotal
<1>3. FailuresBlamed'
  BY DEF IInv, FailuresBlamed
<1> QED
  BY <1>1, <1>2, <1>3 DEF IInv

(***************************************************************************)
(* The load always has a first request.                                    *)
(***************************************************************************)
LEMMA FirstRequest == 1 \in Request
BY MaxRequestsAssumption DEF Request

(***************************************************************************)
(* Connecting, losing the connection, a cancellation, a reset and the      *)
(* progress of a response touch no event.                                  *)
(***************************************************************************)
LEMMA NetworkKeeps ==
  ASSUME IInv,
         \/ Connect \/ Shutdown \/ ConnectionLost \/ ConnectionShutdown
         \/ \E r \in Request : ResetStream(r) \/ HandOver(r) \/ Accepted(r)
  PROVE  IInv'
<1>1. UNCHANGED << body, counted, chan, driver, cur, issued, relay, tails, out,
                   handle, load, bad >>
  BY DEF Connect, Shutdown, ConnectionLost, ConnectionShutdown, ResetStream,
         HandOver, Accepted, netVars, taskVars, loopVars
<1>2. /\ conn \in {"none", "up", "draining", "closed"}
      /\ protocol \in {"h1", "h2"} /\ lost \subseteq Request
      /\ shutdown \in BOOLEAN /\ bad \subseteq Request
      /\ client \in [Request -> {"none", "sending", "waiting", "done"}]
      /\ body \in [Request -> {"none", "live", "gone"}]
  BY DEF IInv, TypeOK
<1>3. /\ conn' \in {"none", "up", "draining", "closed"}
      /\ protocol' \in {"h1", "h2"} /\ lost' \subseteq Request
      /\ shutdown' \in BOOLEAN /\ (shutdown => shutdown')
      /\ client' \in [Request -> {"none", "sending", "waiting", "done"}]
      /\ client'[1] = "sending" => client[1] = "sending"
  BY <1>2, FirstRequest
     DEF Connect, Shutdown, ConnectionLost, ConnectionShutdown, ResetStream,
         HandOver, Accepted, Queued, netVars
<1>4. Blamed => Blamed'
  BY <1>1, <1>3 DEF Blamed
<1> QED
  BY <1>1, <1>2, <1>3, <1>4, QuietKeeps

(***************************************************************************)
(* The driver holds the receiver of the request it issued last.            *)
(***************************************************************************)
LEMMA NewestIsHeard ==
  ASSUME IInv, driver # "done"
  PROVE  ReceiverOpen(issued) /\ issued \in Request /\ cur \in Nat
<1>1. issued \in Request /\ cur \in Request /\ Request \subseteq Nat
  BY DEF IInv, TypeOK, Request
<1>2. issued = cur \/ issued = cur + 1
  BY DEF IInv, Positions
<1> QED
  BY <1>1, <1>2 DEF ReceiverOpen

(***************************************************************************)
(* A body that finds its receiver gone, or is dropped, ends without an     *)
(* event.                                                                  *)
(***************************************************************************)
LEMMA BodyEndsKeeps ==
  ASSUME IInv, NEW r \in Request, PollClosed(r) \/ BodyDropped(r)
  PROVE  IInv'
<1>1. /\ conn \in {"none", "up", "draining", "closed"}
      /\ protocol \in {"h1", "h2"} /\ lost \subseteq Request
      /\ shutdown \in BOOLEAN /\ bad \subseteq Request
      /\ client \in [Request -> {"none", "sending", "waiting", "done"}]
      /\ body \in [Request -> {"none", "live", "gone"}]
  BY DEF IInv, TypeOK
<1>2. /\ UNCHANGED << protocol, conn, lost, shutdown, client, counted, chan,
                      driver, cur, issued, relay, tails, out, handle, load >>
      /\ body' = [body EXCEPT ![r] = "gone"]
      /\ PollClosed(r) => bad' = bad /\ ~ReceiverOpen(r)
      /\ BodyDropped(r) => bad' = IF shutdown THEN bad ELSE bad \union {r}
  BY DEF PollClosed, BodyDropped, Blame, netVars, taskVars, loopVars
<1>3. bad' \subseteq Request /\ body' \in [Request -> {"none", "live", "gone"}]
  BY <1>1, <1>2
<1>4. Blamed => Blamed'
  BY <1>2 DEF Blamed
<1>5. BodyDropped(r) => Blamed'
  BY <1>2 DEF Blamed
<1>6. driver # "done" /\ body'[issued] = "gone"
        => body[issued] = "gone" \/ Blamed'
  BY <1>1, <1>2, <1>5, NewestIsHeard
<1> QED
  BY <1>1, <1>2, <1>3, <1>4, <1>6, QuietKeeps

(***************************************************************************)
(* Dropping the events of some requests.                                   *)
(***************************************************************************)
LEMMA DiscardKeeps ==
  ASSUME IInv, NEW requests
  PROVE  /\ Discard(requests) \in [Request -> Seq(Event)]
         /\ \A r \in Request :
              /\ HasFailed(Discard(requests)[r]) => HasFailed(chan[r])
              /\ r \notin requests => Discard(requests)[r] = chan[r]
<1>1. chan \in [Request -> Seq(Event)]
  BY DEF IInv, TypeOK
<1> QED
  BY <1>1, EmptySeq, HoldsNothing DEF Discard

(***************************************************************************)
(* A connection that cannot be set up ends client and driver before any    *)
(* load exists.                                                            *)
(***************************************************************************)
LEMMA ConnectFailsKeeps ==
  ASSUME IInv, ConnectFails
  PROVE  IInv'
<1>1. /\ conn' = "closed" /\ driver' = "done" /\ client[1] = "sending"
      /\ client' = [client EXCEPT ![1] = "done"]
      /\ body' = [body EXCEPT ![1] = "gone"]
      /\ chan' = Discard({1})
      /\ UNCHANGED << protocol, lost, shutdown, counted, cur, issued, relay,
                      tails, out, handle, load, bad >>
  BY DEF ConnectFails, loopVars
<1>2. TypeOK'
  <2>1. /\ client' \in [Request -> {"none", "sending", "waiting", "done"}]
        /\ body' \in [Request -> {"none", "live", "gone"}]
        /\ chan' \in [Request -> Seq(Event)]
    BY <1>1, FirstRequest, DiscardKeeps DEF IInv, TypeOK
  <2> QED
    BY <1>1, <2>1 DEF IInv, TypeOK
<1>3. Positions' /\ Counting'
  BY <1>1 DEF IInv, Positions, Counting
<1>4. LoopTotals' /\ NeverFinishes'
  BY <1>1 DEF IInv, LoopTotals, NeverFinishes, RelayTotal
<1>5. FailuresBlamed'
  BY <1>1, DiscardKeeps DEF IInv, Positions, FailuresBlamed, Blamed
<1> QED
  BY <1>2, <1>3, <1>4, <1>5 DEF IInv

-----------------------------------------------------------------------------
(* What is sent on the channel of a request.                               *)

(***************************************************************************)
(* Sending leaves the other requests' channels alone; what is sent is lost *)
(* only if nobody receives.                                                *)
(***************************************************************************)
LEMMA SendKeeps ==
  ASSUME IInv, NEW r \in Request, NEW events \in Seq(Event), Send(r, events)
  PROVE  /\ chan' \in [Request -> Seq(Event)]
         /\ ReceiverOpen(r) => chan'[r] = chan[r] \o events
         /\ ~ReceiverOpen(r) => chan'[r] = << >>
         /\ \A s \in Request : s # r => chan'[s] = chan[s]
<1>1. chan \in [Request -> Seq(Event)]
  BY DEF IInv, TypeOK
<1>2. chan[r] \o events \in Seq(Event) /\ << >> \in Seq(Event)
  BY <1>1, ConcatProperties, EmptySeq
<1> QED
  BY <1>1, <1>2 DEF Send

(***************************************************************************)
(* A frame never carries a body beyond its bound.                          *)
(***************************************************************************)
LEMMA FrameTypes ==
  ASSUME NEW n \in 0..Bound
  PROVE  /\ FrameSize(Bound - n) \in Nat
         /\ Counted(n, FrameSize(Bound - n)) \in 0..Bound
         /\ n <= Counted(n, FrameSize(Bound - n))
         /\ FrameSize(Bound - n) >= Bound - n
              => Counted(n, FrameSize(Bound - n)) = Bound
BY BoundAssumption, ChunkAssumption DEF FrameSize, Counted

(***************************************************************************)
(* Polling a frame counts its bytes before it reports them, so the channel *)
(* never runs ahead of the body.                                           *)
(***************************************************************************)
LEMMA PollFrameKeeps ==
  ASSUME IInv, NEW r \in Request, PollFrame(r)
  PROVE  IInv'
<1> DEFINE size == FrameSize(Bound - counted[r])
           total == Counted(counted[r], size)
           eos == size >= Bound - counted[r]
<1>1. PICK due \in BOOLEAN : Send(r, FrameEvents(total, due, eos, FALSE))
  BY DEF PollFrame
<1>2. /\ counted' = [counted EXCEPT ![r] = total]
      /\ body' = [body EXCEPT ![r] = IF eos THEN "gone" ELSE @]
      /\ ReceiverOpen(r)
      /\ UNCHANGED << protocol, conn, lost, shutdown, client, driver, cur,
                      issued, relay, tails, out, handle, load, bad >>
  BY DEF PollFrame, netVars, taskVars, loopVars
<1>3. /\ counted \in [Request -> 0..Bound] /\ counted[r] \in 0..Bound
      /\ body \in [Request -> {"none", "live", "gone"}]
      /\ chan \in [Request -> Seq(Event)] /\ chan[r] \in Seq(Event)
      /\ relay.last \in Nat
  BY DEF IInv, TypeOK, Relay
<1>4. /\ size \in Nat /\ total \in 0..Bound /\ counted[r] <= total
      /\ eos => total = Bound
  BY <1>3, FrameTypes
<1>5. total \in Nat /\ counted[r] \in Nat /\ eos \in BOOLEAN
  BY <1>3, <1>4, BoundAssumption
<1> HIDE DEF size, total, eos
<1>6. /\ chan' \in [Request -> Seq(Event)]
      /\ chan'[r] = chan[r] \o FrameEvents(total, due, eos, FALSE)
      /\ \A s \in Request : s # r => chan'[s] = chan[s]
  <2>1. FrameEvents(total, due, eos, FALSE) \in Seq(Event)
    BY <1>3, <1>5, FrameAppends
  <2> QED
    BY <1>1, <1>2, <2>1, SendKeeps
<1>7. TypeOK'
  <2>1. /\ counted' \in [Request -> 0..Bound]
        /\ body' \in [Request -> {"none", "live", "gone"}]
    BY <1>2, <1>3, <1>4
  <2> QED
    BY <1>2, <1>6, <2>1 DEF IInv, TypeOK
<1>8. Positions' /\ LoopTotals' /\ NeverFinishes'
  BY <1>2 DEF IInv, Positions, LoopTotals, NeverFinishes, RelayTotal
<1>9. Counting'
  <2> SUFFICES ASSUME driver # "done"
               PROVE  /\ ChanFits(chan'[issued], relay.last, counted'[issued])
                      /\ driver = "await" => counted'[cur] = Bound
    BY <1>2 DEF IInv, Counting
  <2>1. /\ ChanFits(chan[issued], relay.last, counted[issued])
        /\ driver = "await" => counted[cur] = Bound
    BY DEF IInv, Counting
  <2>2. issued \in Request /\ cur \in Request
    BY DEF IInv, TypeOK
  <2>3. driver = "await" => counted'[cur] = Bound
    <3>1. CASE cur = r
      BY <1>2, <1>3, <1>4, <2>1, <3>1, BoundAssumption
    <3>2. CASE cur # r
      BY <1>2, <1>3, <2>1, <2>2, <3>2
    <3> QED
      BY <3>1, <3>2
  <2>4. CASE issued = r
    <3>1. ChanFits(chan[r] \o FrameEvents(total, due, eos, FALSE), relay.last,
                   total)
      BY <1>3, <1>4, <1>5, <2>1, <2>4, FitsFrame
    <3>2. counted'[issued] = total
      BY <1>2, <1>3, <2>4
    <3> QED
      BY <1>6, <2>3, <2>4, <3>1, <3>2
  <2>5. CASE issued # r
    <3>1. counted'[issued] = counted[issued] /\ chan'[issued] = chan[issued]
      BY <1>2, <1>3, <1>6, <2>2, <2>5
    <3> QED
      BY <2>1, <2>3, <3>1
  <2> QED
    BY <2>4, <2>5
<1>10. FailuresBlamed'
  <2>1. \A s \in Request : HasFailed(chan'[s]) => HasFailed(chan[s])
    BY <1>3, <1>5, <1>6, FrameHolds
  <2>2. ASSUME driver # "done", body'[issued] = "gone"
        PROVE  HasFinished(chan'[issued]) \/ Blamed
    <3>1. issued \in Request
      BY DEF IInv, TypeOK
    <3>2. CASE issued = r
      <4>1. body[issued] = "gone" \/ eos
        BY <1>2, <1>3, <2>2, <3>2
      <4>2. HasFinished(chan[r]) \/ eos \/ Blamed
        BY <2>2, <3>2, <4>1 DEF IInv, FailuresBlamed
      <4> QED
        BY <1>3, <1>5, <1>6, <3>2, <4>2, FrameHolds
    <3>3. CASE issued # r
      <4>1. body[issued] = "gone" /\ chan'[issued] = chan[issued]
        BY <1>2, <1>3, <1>6, <2>2, <3>1, <3>3
      <4> QED
        BY <2>2, <4>1 DEF IInv, FailuresBlamed
    <3> QED
      BY <3>2, <3>3
  <2> QED
    BY <1>2, <2>1, <2>2 DEF IInv, FailuresBlamed, Blamed
<1> QED
  BY <1>7, <1>8, <1>9, <1>10 DEF IInv

(***************************************************************************)
(* Reporting a failure appends one event and hides none.                   *)
(***************************************************************************)
LEMMA FailedAppends ==
  ASSUME NEW q \in Seq(Event)
  PROVE  /\ << Failed >> \in Seq(Event)
         /\ q \o << Failed >> = Append(q, Failed)
         /\ HasFinished(q) => HasFinished(Append(q, Failed))
<1>1. Failed \in Event
  BY EventTypes
<1>2. << Failed >> \in Seq(Event) /\ q \o << Failed >> = Append(q, Failed)
  BY <1>1
<1> QED
  BY <1>1, <1>2, HoldsAppend

(***************************************************************************)
(* A client that reports a failure has a bad response or a cut connection  *)
(* to blame.                                                               *)
(***************************************************************************)
LEMMA ClientFailsKeeps ==
  ASSUME IInv, NEW r \in Request, ClientFails(r)
  PROVE  IInv'
<1>1. /\ client[r] = "waiting" /\ client' = [client EXCEPT ![r] = "done"]
      /\ Send(r, << Failed >>)
      /\ bad' = IF shutdown THEN bad ELSE bad \union {r}
      /\ UNCHANGED << protocol, conn, lost, shutdown, body, counted, driver,
                      cur, issued, relay, tails, out, handle, load >>
  BY DEF ClientFails, Blame, netVars, taskVars, loopVars
<1>2. /\ client \in [Request -> {"none", "sending", "waiting", "done"}]
      /\ bad \subseteq Request /\ issued \in Request
      /\ chan \in [Request -> Seq(Event)] /\ chan[r] \in Seq(Event)
      /\ counted \in [Request -> 0..Bound] /\ relay.last \in Nat
  BY DEF IInv, TypeOK, Relay
<1>3. /\ chan' \in [Request -> Seq(Event)]
      /\ ReceiverOpen(r) => chan'[r] = Append(chan[r], Failed)
      /\ \A s \in Request : s # r => chan'[s] = chan[s]
  BY <1>1, <1>2, SendKeeps, FailedAppends
<1>4. Blamed'
  BY <1>1 DEF Blamed
<1>5. TypeOK'
  <2>1. /\ client' \in [Request -> {"none", "sending", "waiting", "done"}]
        /\ bad' \subseteq Request
    BY <1>1, <1>2
  <2> QED
    BY <1>1, <1>3, <2>1 DEF IInv, TypeOK
<1>6. Positions'
  BY <1>1, <1>2, FirstRequest DEF IInv, Positions
<1>7. LoopTotals' /\ NeverFinishes'
  BY <1>1 DEF IInv, LoopTotals, NeverFinishes, RelayTotal
<1>8. Counting'
  <2> SUFFICES ASSUME driver # "done"
               PROVE  ChanFits(chan'[issued], relay.last, counted[issued])
    BY <1>1 DEF IInv, Counting
  <2>1. ChanFits(chan[issued], relay.last, counted[issued])
    BY DEF IInv, Counting
  <2>2. CASE issued = r
    <3>1. counted[issued] \in Nat /\ chan'[issued] = Append(chan[issued], Failed)
      BY <1>2, <1>3, <2>2, NewestIsHeard, BoundAssumption
    <3>2. Failed # Finished
      BY DEF Failed, Finished
    <3> QED
      BY <1>2, <2>1, <2>2, <3>1, <3>2, FitsEnd
  <2>3. CASE issued # r
    BY <1>2, <1>3, <2>1, <2>3
  <2> QED
    BY <2>2, <2>3
<1>9. FailuresBlamed'
  BY <1>1, <1>4 DEF IInv, FailuresBlamed
<1> QED
  BY <1>5, <1>6, <1>7, <1>8, <1>9 DEF IInv

-----------------------------------------------------------------------------
(* The driver.                                                             *)

(***************************************************************************)
(* Handing over the load gives the loop a fresh record with nothing        *)
(* counted.                                                                *)
(***************************************************************************)
LEMMA DriverStartKeeps ==
  ASSUME IInv, DriverStart
  PROVE  IInv'
<1>1. /\ driver = "start" /\ driver' = "recv" /\ handle' = "held"
      /\ client[1] # "sending"
      /\ UNCHANGED << protocol, conn, lost, shutdown, client, body, counted,
                      chan, cur, issued, relay, tails, out, load, bad >>
  BY DEF DriverStart, netVars
<1>2. TypeOK'
  BY <1>1 DEF IInv, TypeOK
<1>3. Positions' /\ Counting' /\ LoopTotals' /\ NeverFinishes'
  BY <1>1
     DEF IInv, Positions, Counting, LoopTotals, NeverFinishes, RelayTotal
<1>4. FailuresBlamed'
  BY <1>1 DEF IInv, FailuresBlamed, Blamed
<1> QED
  BY <1>2, <1>3, <1>4 DEF IInv

(***************************************************************************)
(* The updates of the relay yield relays.                                  *)
(***************************************************************************)
LEMMA RelayTypes ==
  ASSUME IInv
  PROVE  /\ relay.base \in Nat /\ relay.last \in Nat
         /\ \A n \in Nat : [relay EXCEPT !.last = n] \in Relay
         /\ \A n \in Nat : [relay EXCEPT !.last = n].base = relay.base
         /\ \A n \in Nat : [relay EXCEPT !.last = n].last = n
         /\ Completed(relay) \in Relay
         /\ Completed(relay).base = RelayTotal(relay)
         /\ Completed(relay).last = 0
         /\ RelayTotal(Completed(relay)) = RelayTotal(relay)
<1>1. relay \in Relay
  BY DEF IInv, TypeOK
<1>2. relay.base \in Nat /\ relay.last \in Nat
  BY <1>1 DEF Relay
<1> QED
  BY <1>1, <1>2 DEF Relay, Completed, RelayTotal

(***************************************************************************)
(* The relay's total only grows, and what it bounds stays bounded.         *)
(***************************************************************************)
LEMMA TotalsStayBounded ==
  ASSUME IInv, relay' \in Relay, RelayTotal(relay) <= RelayTotal(relay'),
         load' = load, out' \in Seq(Event),
         \A i \in 1..Len(out') :
           IsByteCount(out'[i]) => \/ i \in 1..Len(out) /\ out'[i] = out[i]
                                  \/ out'[i].total = RelayTotal(relay')
  PROVE  LoopTotals'
<1>1. /\ load.total \in Nat
      /\ \A i \in 1..Len(out) : out[i].total \in Nat
  BY EventSequence DEF IInv, TypeOK, LoadRecord
<1>2. RelayTotal(relay) \in Nat /\ RelayTotal(relay') \in Nat
  BY RelayTypes DEF RelayTotal, Relay
<1>3. load.total <= RelayTotal(relay')
  BY <1>1, <1>2 DEF IInv, LoopTotals
<1>4. \A i \in 1..Len(out) :
        IsByteCount(out[i])
          => load.total <= out[i].total /\ out[i].total <= RelayTotal(relay')
  BY <1>1, <1>2 DEF IInv, LoopTotals
<1> HIDE DEF RelayTotal
<1>5. \A i \in 1..Len(out') :
        IsByteCount(out'[i])
          => load.total <= out'[i].total /\ out'[i].total <= RelayTotal(relay')
  BY <1>2, <1>3, <1>4
<1> QED
  BY <1>3, <1>5 DEF LoopTotals, RelayTotal

(***************************************************************************)
(* The driver ends without a word to the loop, which is not listening or   *)
(* has been told already, or is shutting down.                             *)
(***************************************************************************)
LEMMA DriverEndsKeeps ==
  ASSUME IInv, driver # "done", driver' = "done", chan' = Discard({cur}),
         relay' \in Relay, RelayTotal(relay) <= RelayTotal(relay'),
         UNCHANGED << protocol, conn, lost, shutdown, client, body, counted,
                      cur, issued, tails, handle, load, bad >>,
         \/ out' = out
         \/ out' = << >>
         \/ out' = Append(out, Failed) /\ Blamed,
         handle = "held" => Blamed
  PROVE  IInv'
<1>1. out \in Seq(Event) /\ Failed \in Event
  BY EventTypes DEF IInv, TypeOK
<1>2. out' \in Seq(Event)
  <2>1. Append(out, Failed) \in Seq(Event) /\ << >> \in Seq(Event)
    BY <1>1, AppendProperties, EmptySeq
  <2> QED
    BY <1>1, <2>1
<1>3. TypeOK'
  BY <1>2, DiscardKeeps DEF IInv, TypeOK
<1>4. Positions' /\ Counting'
  BY DEF IInv, Positions, Counting
<1>5. NeverFinishes' /\ (HasFailed(out') => HasFailed(out) \/ Blamed)
  BY <1>1, HoldsAppend, HoldsNothing, EventKinds DEF IInv, NeverFinishes
<1>6. \A i \in 1..Len(out') :
        IsByteCount(out'[i]) => i \in 1..Len(out) /\ out'[i] = out[i]
  <2>1. CASE out' = Append(out, Failed)
    <3>1. /\ Len(out') = Len(out) + 1 /\ Len(out) \in Nat
          /\ \A i \in 1..Len(out) : out'[i] = out[i]
          /\ out'[Len(out) + 1] = Failed
      BY <1>1, <2>1, AppendProperties, LenProperties
    <3> QED
      BY <3>1, EventKinds
  <2>2. CASE out' = << >>
    BY <2>2, EmptySeq
  <2> QED
    BY <2>1, <2>2
<1>7. LoopTotals'
  BY <1>2, <1>6, TotalsStayBounded
<1>8. FailuresBlamed'
  BY <1>5, DiscardKeeps DEF IInv, FailuresBlamed, Blamed
<1> QED
  BY <1>3, <1>4, <1>5, <1>7, <1>8 DEF IInv

(***************************************************************************)
(* A driver that sees the shutdown may end without a Failed event.         *)
(***************************************************************************)
LEMMA DriverShutdownKeeps ==
  ASSUME IInv, DriverShutdown
  PROVE  IInv'
<1>1. /\ driver # "done" /\ shutdown /\ driver' = "done"
      /\ chan' = Discard({cur})
      /\ UNCHANGED << protocol, conn, lost, shutdown, client, body, counted,
                      cur, issued, relay, tails, out, handle, load, bad >>
  BY DEF DriverShutdown, netVars, loopVars
<1>2. relay \in Relay /\ RelayTotal(relay) <= RelayTotal(relay')
  BY <1>1, RelayTypes DEF IInv, TypeOK, RelayTotal
<1> QED
  BY <1>1, <1>2, DriverEndsKeeps DEF Blamed

(***************************************************************************)
(* A driver whose load was let go ends unheard.                            *)
(***************************************************************************)
LEMMA DriverUnheardKeeps ==
  ASSUME IInv, DriverUnheard
  PROVE  IInv'
<1>1. /\ driver # "done" /\ handle # "held" /\ driver' = "done"
      /\ relay' = Completed(relay) /\ chan' = Discard({cur})
      /\ UNCHANGED << protocol, conn, lost, shutdown, client, body, counted,
                      cur, issued, tails, out, handle, load, bad >>
  BY DEF DriverUnheard, OutOpen, netVars, loopVars
<1>2. relay' \in Relay /\ RelayTotal(relay) <= RelayTotal(relay')
  BY <1>1, RelayTypes DEF RelayTotal
<1> QED
  BY <1>1, <1>2, DriverEndsKeeps

(***************************************************************************)
(* A closed channel without Finished, or a Failed at its head, has         *)
(* something to blame.                                                     *)
(***************************************************************************)
LEMMA DriverFailsKeeps ==
  ASSUME IInv, DriverFails
  PROVE  IInv'
<1>1. /\ driver = "recv" /\ driver' = "done" /\ chan' = Discard({cur})
      /\ out' = IF handle = "held" THEN Append(out, Failed) ELSE << >>
      /\ UNCHANGED << protocol, conn, lost, shutdown, client, body, counted,
                      cur, issued, relay, tails, handle, load, bad >>
  BY DEF DriverFails, Forward, OutOpen, netVars, loopVars
<1>2. cur = issued /\ cur \in Request /\ chan[cur] \in Seq(Event)
  BY <1>1 DEF IInv, TypeOK, Positions
<1>3. Blamed
  <2>1. CASE chan[cur] # << >> /\ IsFailed(Head(chan[cur]))
    <3>1. 1 \in DOMAIN chan[cur] /\ Head(chan[cur]) = chan[cur][1]
      <4>1. Len(chan[cur]) > 0 /\ DOMAIN chan[cur] = 1..Len(chan[cur])
            /\ Len(chan[cur]) \in Nat
        BY <1>2, <2>1, LenProperties, EmptySeq
      <4> QED
        BY <1>2, <2>1, <4>1
    <3>2. HasFailed(chan[cur])
      BY <2>1, <3>1 DEF HasFailed
    <3> QED
      BY <1>2, <3>2 DEF IInv, FailuresBlamed
  <2>2. CASE chan[cur] = << >> /\ SendersGone(cur)
    <3>1. ~HasFinished(chan[issued]) /\ body[issued] = "gone"
      BY <1>2, <2>2, HoldsNothing DEF SendersGone
    <3> QED
      BY <1>1, <3>1 DEF IInv, FailuresBlamed
  <2> QED
    BY <2>1, <2>2 DEF DriverFails
<1>4. relay \in Relay /\ RelayTotal(relay) <= RelayTotal(relay')
  BY <1>1, RelayTypes DEF IInv, TypeOK, RelayTotal
<1> QED
  BY <1>1, <1>3, <1>4, DriverEndsKeeps

(***************************************************************************)
(* The driver at the head of the newest request's events.                  *)
(***************************************************************************)
LEMMA HeadFacts ==
  ASSUME IInv, driver = "recv", chan[cur] # << >>
  PROVE  /\ cur = issued /\ cur \in Request
         /\ chan[cur] \in Seq(Event) /\ counted[cur] \in Nat
         /\ Head(chan[cur]).total \in Nat
         /\ Tail(chan[cur]) \in Seq(Event)
         /\ ChanFits(chan[cur], relay.last, counted[cur])
<1>1. cur = issued /\ cur \in Request /\ chan[cur] \in Seq(Event)
  BY DEF IInv, TypeOK, Positions
<1>2. counted[cur] \in Nat
  BY <1>1, BoundAssumption DEF IInv, TypeOK
<1>3. Head(chan[cur]) \in Event /\ Tail(chan[cur]) \in Seq(Event)
  BY <1>1, HeadTailProperties
<1>4. ChanFits(chan[cur], relay.last, counted[cur])
  BY <1>1 DEF IInv, Counting
<1> QED
  BY <1>1, <1>2, <1>3, <1>4 DEF Event

(***************************************************************************)
(* A forwarded count is rebased on what earlier requests sent, so the loop *)
(* sees the total of all requests.                                         *)
(***************************************************************************)
LEMMA DriverForwardsKeeps ==
  ASSUME IInv, DriverForwards
  PROVE  IInv'
<1> DEFINE t == Head(chan[cur]).total
           e == Rebased(relay, Head(chan[cur]))
<1>1. /\ driver = "recv" /\ chan[cur] # << >> /\ IsByteCount(Head(chan[cur]))
      /\ relay' = [relay EXCEPT !.last = t]
      /\ out' = IF handle = "held" THEN Append(out, e) ELSE << >>
      /\ UNCHANGED << protocol, conn, lost, shutdown, client, body, counted,
                      cur, issued, tails, handle, load, bad >>
  BY DEF DriverForwards, Forward, OutOpen, netVars, loopVars
<1>2. /\ cur = issued /\ cur \in Request /\ chan[cur] \in Seq(Event)
      /\ counted[cur] \in Nat /\ t \in Nat /\ Tail(chan[cur]) \in Seq(Event)
      /\ ChanFits(chan[cur], relay.last, counted[cur])
  BY <1>1, HeadFacts
<1>3. /\ relay.last <= t /\ t <= counted[cur]
      /\ ChanFits(Tail(chan[cur]), t, counted[cur])
  BY <1>1, <1>2, RelayTypes, FitsTail
<1> HIDE DEF t
<1>4. /\ relay' \in Relay /\ relay'.last = t /\ relay'.base = relay.base
      /\ RelayTotal(relay') = relay.base + t
      /\ RelayTotal(relay) <= RelayTotal(relay')
  BY <1>1, <1>2, <1>3, RelayTypes DEF RelayTotal
<1>5. e = ByteCount(RelayTotal(relay')) /\ RelayTotal(relay') \in Nat
  BY <1>2, <1>4, RelayTypes DEF Rebased, t
<1>6. e \in Event /\ e.total = RelayTotal(relay')
      /\ ~IsFailed(e) /\ ~IsFinished(e)
  BY <1>5, EventTypes, EventKinds
<1>7. CASE handle # "held"
  <2>1. driver' = "done" /\ chan' = Discard({cur}) /\ out' = << >>
    BY <1>1, <1>7 DEF DriverForwards, OutOpen
  <2> QED
    BY <1>1, <1>4, <1>7, <2>1, DriverEndsKeeps
<1>8. CASE handle = "held"
  <2> HIDE DEF e
  <2>1. /\ chan' = [chan EXCEPT ![cur] = Tail(@)] /\ driver' = driver
        /\ out' = Append(out, e)
    BY <1>1, <1>8 DEF DriverForwards, OutOpen
  <2>2. out \in Seq(Event) /\ chan \in [Request -> Seq(Event)]
    BY DEF IInv, TypeOK
  <2>3. /\ out' \in Seq(Event) /\ Len(out') = Len(out) + 1 /\ Len(out) \in Nat
        /\ \A i \in 1..Len(out) : out'[i] = out[i]
        /\ out'[Len(out) + 1] = e
    BY <1>6, <2>1, <2>2, AppendProperties, LenProperties
  <2>4. /\ chan' \in [Request -> Seq(Event)] /\ chan'[cur] = Tail(chan[cur])
        /\ \A r \in Request : r # cur => chan'[r] = chan[r]
    BY <1>2, <2>1, <2>2
  <2>5. TypeOK'
    BY <1>1, <1>4, <2>1, <2>3, <2>4 DEF IInv, TypeOK
  <2>6. Positions'
    BY <1>1, <2>1 DEF IInv, Positions
  <2>7. Counting'
    BY <1>1, <1>2, <1>3, <1>4, <2>1, <2>4 DEF IInv, Counting
  <2>8. LoopTotals'
    <3>1. \A i \in 1..Len(out') :
            \/ i \in 1..Len(out) /\ out'[i] = out[i]
            \/ out'[i].total = RelayTotal(relay')
      BY <1>6, <2>3
    <3> QED
      BY <1>1, <1>4, <2>3, <3>1, TotalsStayBounded
  <2>9. NeverFinishes' /\ (HasFailed(out') => HasFailed(out))
    BY <1>1, <1>6, <2>1, <2>2, HoldsAppend DEF IInv, NeverFinishes
  <2>10. FailuresBlamed'
    <3>1. /\ HasFailed(chan'[cur]) => HasFailed(chan[cur])
          /\ HasFinished(chan[cur]) => HasFinished(chan'[cur])
      <4>1. Head(chan[cur]) \in Event
        BY <1>1, <1>2, HeadTailProperties
      <4> QED
        BY <1>1, <1>2, <2>4, <4>1, HoldsTail, EventKinds
    <3>2. \A r \in Request : HasFailed(chan'[r]) => HasFailed(chan[r])
      BY <2>4, <3>1
    <3> QED
      BY <1>1, <1>2, <2>1, <2>9, <3>1, <3>2 DEF IInv, FailuresBlamed, Blamed
  <2> QED
    BY <2>5, <2>6, <2>7, <2>8, <2>9, <2>10 DEF IInv
<1> QED
  BY <1>7, <1>8

(***************************************************************************)
(* Finished comes when every byte of the request has been relayed.         *)
(***************************************************************************)
LEMMA FinishedIsFull ==
  ASSUME IInv, driver = "recv", chan[cur] # << >>, IsFinished(Head(chan[cur]))
  PROVE  relay.last = Bound /\ counted[cur] = Bound
<1>1. /\ cur \in Request /\ chan[cur] \in Seq(Event)
      /\ ChanFits(chan[cur], relay.last, counted[cur])
  BY HeadFacts
<1>2. 1 \in 1..Len(chan[cur]) /\ Head(chan[cur]) = chan[cur][1]
  <2>1. Len(chan[cur]) \in Nat /\ Len(chan[cur]) > 0
    BY <1>1, LenProperties, EmptySeq
  <2> QED
    BY <1>1, <2>1
<1>3. relay.last = Bound
  BY <1>1, <1>2 DEF ChanFits
<1>4. relay.last <= counted[cur] /\ counted[cur] \in 0..Bound
  BY <1>1 DEF ChanFits, IInv, TypeOK
<1> QED
  BY <1>3, <1>4, BoundAssumption

(***************************************************************************)
(* At the end of a request the base takes in the whole request, and the    *)
(* next one starts from zero.                                              *)
(***************************************************************************)
LEMMA DriverReissuesKeeps ==
  ASSUME IInv, DriverReissues
  PROVE  IInv'
<1>1. /\ driver = "recv" /\ chan[cur] # << >> /\ IsFinished(Head(chan[cur]))
      /\ issued < MaxRequests /\ handle = "held"
      /\ relay' = Completed(relay) /\ issued' = issued + 1
      /\ client' = [client EXCEPT ![issued + 1] = "sending"]
      /\ body' = [body EXCEPT ![issued + 1] = "live"]
      /\ chan' = [chan EXCEPT ![cur] = Tail(@), ![issued + 1] = FirstEvents]
      /\ driver' = "await"
      /\ UNCHANGED << protocol, conn, lost, shutdown, counted, cur, tails, out,
                      handle, load, bad >>
  BY DEF DriverReissues, OutOpen, netVars, loopVars
<1>2. /\ cur = issued /\ cur \in Request /\ chan[cur] \in Seq(Event)
      /\ Tail(chan[cur]) \in Seq(Event)
  BY <1>1, HeadFacts
<1>3. relay.last = Bound /\ counted[cur] = Bound
  BY <1>1, FinishedIsFull
<1>4. /\ issued \in Nat /\ issued + 1 \in Request /\ issued + 1 # cur
      /\ issued + 1 # 1
  BY <1>1, <1>2, MaxRequestsAssumption DEF Request
<1>5. /\ client \in [Request -> {"none", "sending", "waiting", "done"}]
      /\ body \in [Request -> {"none", "live", "gone"}]
      /\ chan \in [Request -> Seq(Event)]
      /\ counted \in [Request -> 0..Bound]
  BY DEF IInv, TypeOK
<1>6. /\ client' \in [Request -> {"none", "sending", "waiting", "done"}]
      /\ body' \in [Request -> {"none", "live", "gone"}]
      /\ chan' \in [Request -> Seq(Event)]
      /\ chan'[issued'] = FirstEvents /\ body'[issued'] = "live"
      /\ client'[1] = client[1]
      /\ \A r \in Request : r # issued' =>
           chan'[r] = IF r = cur THEN Tail(chan[r]) ELSE chan[r]
  BY <1>1, <1>2, <1>4, <1>5, FirstEventsFit, FirstRequest
<1>7. TypeOK'
  BY <1>1, <1>4, <1>6, RelayTypes DEF IInv, TypeOK
<1>8. Positions'
  BY <1>1, <1>2, <1>6 DEF IInv, Positions
<1>9. Counting'
  <2>1. relay'.base = relay.base + Bound /\ relay'.last = 0
    BY <1>1, <1>3, RelayTypes DEF RelayTotal
  <2>2. relay'.base = Bound * (issued' - 1)
    <3>1. relay.base = Bound * (issued - 1)
      BY <1>1 DEF IInv, Counting
    <3>2. Bound * (issued - 1) + Bound = Bound * issued
      BY <1>4, BoundAssumption
    <3> QED
      BY <1>1, <1>4, <2>1, <3>1, <3>2
  <2>3. counted[issued'] \in Nat
    BY <1>1, <1>4, <1>5, BoundAssumption
  <2>4. ChanFits(chan'[issued'], 0, counted[issued'])
    BY <1>6, <2>3, FirstEventsFit
  <2> QED
    BY <1>1, <1>3, <2>1, <2>2, <2>4 DEF Counting
<1>10. LoopTotals' /\ NeverFinishes'
  BY <1>1, RelayTypes DEF IInv, LoopTotals, NeverFinishes
<1>11. FailuresBlamed'
  <2>1. HasFailed(Tail(chan[cur])) => HasFailed(chan[cur])
    BY <1>1, <1>2, HoldsTail
  <2>2. \A r \in Request : HasFailed(chan'[r]) => Blamed
    BY <1>1, <1>6, <2>1, FirstEventsFit DEF IInv, FailuresBlamed
  <2> QED
    BY <1>1, <1>6, <2>2 DEF IInv, FailuresBlamed, Blamed
<1> QED
  BY <1>7, <1>8, <1>9, <1>10, <1>11 DEF IInv

(***************************************************************************)
(* Once the next request was accepted, the driver listens to it and leaves *)
(* the previous one to a tail.                                             *)
(***************************************************************************)
LEMMA DriverSwitchKeeps ==
  ASSUME IInv, DriverSwitch
  PROVE  IInv'
<1>1. /\ driver = "await" /\ driver' = "recv"
      /\ tails' = tails \union {cur} /\ cur' = issued
      /\ UNCHANGED << protocol, conn, lost, shutdown, client, body, counted,
                      chan, issued, relay, out, handle, load, bad >>
  BY DEF DriverSwitch, netVars, loopVars
<1>2. /\ cur \in Request /\ issued \in Request /\ tails \subseteq Request
      /\ issued = cur + 1 /\ tails \subseteq 1..(cur - 1)
  BY <1>1 DEF IInv, TypeOK, Positions
<1>3. cur \in Nat /\ cur > 0
  BY <1>2 DEF Request
<1>4. TypeOK'
  <2>1. cur' \in Request /\ tails' \subseteq Request
    BY <1>1, <1>2
  <2> QED
    BY <1>1, <2>1 DEF IInv, TypeOK
<1>5. Positions'
  <2>1. tails' \subseteq 1..(cur' - 1)
    BY <1>1, <1>2, <1>3
  <2> QED
    BY <1>1, <2>1 DEF IInv, Positions
<1>6. Counting' /\ LoopTotals' /\ NeverFinishes'
  BY <1>1 DEF IInv, Counting, LoopTotals, NeverFinishes, RelayTotal
<1>7. FailuresBlamed'
  BY <1>1 DEF IInv, FailuresBlamed, Blamed
<1> QED
  BY <1>4, <1>5, <1>6, <1>7 DEF IInv

-----------------------------------------------------------------------------
(* watch_tail.                                                             *)

(***************************************************************************)
(* A tail watches a request before the newest one, and may take from its   *)
(* channel or give it up; if it says anything, it is that it failed.       *)
(***************************************************************************)
LEMMA TailStepKeeps ==
  ASSUME IInv, NEW r \in Request, r \in tails, tails' \subseteq tails,
         UNCHANGED << protocol, conn, lost, shutdown, client, body, counted,
                      driver, cur, issued, relay, handle, load, bad >>,
         chan' \in [Request -> Seq(Event)],
         \A s \in Request : /\ s # r => chan'[s] = chan[s]
                            /\ HasFailed(chan'[s]) => HasFailed(chan[s]),
         \/ out' = out
         \/ out' = << >>
         \/ out' = Append(out, Failed) /\ Blamed
  PROVE  IInv'
<1>1. out \in Seq(Event) /\ Failed \in Event
  BY EventTypes DEF IInv, TypeOK
<1>2. out' \in Seq(Event)
  <2>1. Append(out, Failed) \in Seq(Event) /\ << >> \in Seq(Event)
    BY <1>1, AppendProperties, EmptySeq
  <2> QED
    BY <1>1, <2>1
<1>3. TypeOK'
  <2>1. tails' \subseteq Request
    BY DEF IInv, TypeOK
  <2> QED
    BY <1>2, <2>1 DEF IInv, TypeOK
<1>4. driver # "done" => chan'[issued] = chan[issued]
  <2>1. issued \in Request /\ cur \in Request /\ Request \subseteq Nat
    BY DEF IInv, TypeOK, Request
  <2>2. ASSUME driver # "done" PROVE r # issued
    <3>1. r \in 1..(cur - 1) /\ (issued = cur \/ issued = cur + 1)
      BY <2>2 DEF IInv, Positions
    <3> QED
      BY <2>1, <3>1
  <2> QED
    BY <2>1, <2>2
<1>5. Positions' /\ Counting'
  BY <1>4 DEF IInv, Positions, Counting
<1>6. NeverFinishes' /\ (HasFailed(out') => HasFailed(out) \/ Blamed)
  BY <1>1, HoldsAppend, HoldsNothing, EventKinds DEF IInv, NeverFinishes
<1>7. \A i \in 1..Len(out') :
        IsByteCount(out'[i]) => i \in 1..Len(out) /\ out'[i] = out[i]
  <2>1. CASE out' = Append(out, Failed)
    <3>1. /\ Len(out') = Len(out) + 1 /\ Len(out) \in Nat
          /\ \A i \in 1..Len(out) : out'[i] = out[i]
          /\ out'[Len(out) + 1] = Failed
      BY <1>1, <2>1, AppendProperties, LenProperties
    <3> QED
      BY <3>1, EventKinds
  <2>2. CASE out' = << >>
    BY <2>2, EmptySeq
  <2> QED
    BY <2>1, <2>2
<1>8. LoopTotals'
  <2>1. relay' \in Relay /\ RelayTotal(relay) <= RelayTotal(relay')
    BY RelayTypes DEF IInv, TypeOK, RelayTotal
  <2> QED
    BY <1>2, <1>7, <2>1, TotalsStayBounded
<1>9. FailuresBlamed'
  BY <1>4, <1>6 DEF IInv, FailuresBlamed, Blamed
<1> QED
  BY <1>3, <1>5, <1>6, <1>8, <1>9 DEF IInv

(***************************************************************************)
(* A tail forwards a late failure and ends; it never forwards bytes, which *)
(* would be counted twice.                                                 *)
(***************************************************************************)
LEMMA WatchKeeps ==
  ASSUME IInv, NEW r \in Request, TailForwards(r) \/ TailEnds(r)
  PROVE  IInv'
<1>1. /\ r \in tails /\ tails' \subseteq tails
      /\ UNCHANGED << protocol, conn, lost, shutdown, client, body, counted,
                      driver, cur, issued, relay, handle, load, bad >>
  BY DEF TailForwards, TailEnds, netVars, taskVars, loopVars
<1>2. chan \in [Request -> Seq(Event)] /\ chan[r] \in Seq(Event)
  BY DEF IInv, TypeOK
<1>3. CASE TailForwards(r)
  <2>1. /\ chan' = Discard({r}) /\ chan[r] # << >> /\ IsFailed(Head(chan[r]))
        /\ out' = Append(out, Failed) \/ out' = << >>
    BY <1>3 DEF TailForwards, Forward
  <2>2. HasFailed(chan[r])
    <3>1. 1 \in DOMAIN chan[r] /\ Head(chan[r]) = chan[r][1]
      <4>1. Len(chan[r]) > 0 /\ DOMAIN chan[r] = 1..Len(chan[r])
            /\ Len(chan[r]) \in Nat
        BY <1>2, <2>1, LenProperties, EmptySeq
      <4> QED
        BY <1>2, <2>1, <4>1
    <3> QED
      BY <2>1, <3>1 DEF HasFailed
  <2>3. Blamed
    BY <2>2 DEF IInv, FailuresBlamed
  <2> QED
    BY <1>1, <2>1, <2>3, DiscardKeeps, TailStepKeeps
<1>4. CASE TailEnds(r)
  BY <1>1, <1>2, <1>4, TailStepKeeps DEF TailEnds
<1> QED
  BY <1>3, <1>4

-----------------------------------------------------------------------------
(* The test loop.                                                          *)

(***************************************************************************)
(* What the loop takes from the channel: a total that only grows, and a    *)
(* failure only if there was a Failed event or a driver that is gone.      *)
(***************************************************************************)
LEMMA TakenFacts ==
  ASSUME IInv, handle = "held", Update \/ Stop \/ Abandon
  PROVE  /\ load' \in LoadRecord
         /\ load.total <= load'.total /\ load'.total <= RelayTotal(relay)
         /\ ~load'.finished
         /\ load.failed => load'.failed
         /\ load'.failed => Blamed
<1>1. /\ load \in LoadRecord /\ out \in Seq(Event)
      /\ ~load.finished /\ ~HasFinished(out)
      /\ HasFailed(out) \/ load.failed => Blamed
      /\ driver = "done" => Blamed
  BY DEF IInv, TypeOK, NeverFinishes, FailuresBlamed
<1>2. /\ load.total \in Nat /\ RelayTotal(relay) \in Nat
      /\ load.total <= RelayTotal(relay)
  BY <1>1, RelayTypes DEF IInv, LoopTotals, LoadRecord, RelayTotal
<1>3. /\ NewestTotal(load.total, out) \in Nat
      /\ load.total <= NewestTotal(load.total, out)
      /\ NewestTotal(load.total, out) <= RelayTotal(relay)
  BY <1>1, <1>2, NewestBetween DEF IInv, LoopTotals
<1>4. CASE Update
  <2>1. load' = Drain(load, out, OutSendersGone)
    BY <1>4 DEF Update, LoopTakes
  <2> QED
    BY <1>1, <1>3, <2>1
       DEF Drain, ApplyAll, OnDisconnected, OutSendersGone, LoadRecord
<1>5. CASE Stop
  <2>1. load' = StopLoad(load, out)
    BY <1>5 DEF Stop, LoopTakes
  <2> QED
    BY <1>1, <1>3, <2>1
       DEF StopLoad, Drain, ApplyAll, OnDisconnected, LoadRecord
<1>6. CASE Abandon
  BY <1>1, <1>2, <1>6 DEF Abandon, LoopTakes
<1> QED
  BY <1>4, <1>5, <1>6

(***************************************************************************)
(* The loop taking events, stopping or abandoning a load keeps the         *)
(* invariant.                                                              *)
(***************************************************************************)
LEMMA LoopKeeps ==
  ASSUME IInv, Update \/ Stop \/ Abandon
  PROVE  IInv'
<1>1. /\ handle = "held" /\ handle' \in {"held", "stopped", "dropped"}
      /\ out' = << >>
      /\ UNCHANGED << protocol, conn, lost, shutdown, client, body, counted,
                      chan, driver, cur, issued, relay, tails, bad >>
  BY DEF Update, Stop, Abandon, LoopTakes, netVars, taskVars
<1>2. /\ load' \in LoadRecord
      /\ load.total <= load'.total /\ load'.total <= RelayTotal(relay)
      /\ ~load'.finished
      /\ load'.failed => Blamed
  BY <1>1, TakenFacts
<1>3. out' \in Seq(Event) /\ Len(out') = 0
  BY <1>1, EmptySeq
<1>4. TypeOK'
  BY <1>1, <1>2, <1>3 DEF IInv, TypeOK
<1>5. Positions'
  <2>1. driver = "start" \/ client[1] = "sending" => FALSE
    BY <1>1 DEF IInv, Positions
  <2> QED
    BY <1>1, <2>1 DEF IInv, Positions
<1>6. Counting' /\ NeverFinishes'
  BY <1>1, <1>2, HoldsNothing DEF IInv, Counting, NeverFinishes
<1>7. LoopTotals'
  BY <1>1, <1>2, <1>3 DEF LoopTotals, RelayTotal
<1>8. FailuresBlamed'
  BY <1>1, <1>2, HoldsNothing DEF IInv, FailuresBlamed, Blamed
<1> QED
  BY <1>4, <1>5, <1>6, <1>7, <1>8 DEF IInv

-----------------------------------------------------------------------------
(* The theorems.                                                           *)

(***************************************************************************)
(* Every step of an upload load keeps the invariant.                       *)
(***************************************************************************)
LEMMA NextInvariant == IInv /\ [Next]_vars => IInv'
<1> SUFFICES ASSUME IInv, [Next]_vars PROVE IInv'
  OBVIOUS
<1>1. CASE Network
  BY <1>1, NetworkKeeps, ConnectFailsKeeps DEF Network
<1>2. CASE Body
  BY <1>2, PollFrameKeeps, BodyEndsKeeps DEF Body
<1>3. CASE Client
  BY <1>3, NetworkKeeps, ClientFailsKeeps DEF Client, Rejected, ResponseLost
<1>4. CASE Driver
  BY <1>4, DriverStartKeeps, DriverShutdownKeeps, DriverForwardsKeeps,
     DriverReissuesKeeps, DriverUnheardKeeps, DriverSwitchKeeps,
     DriverFailsKeeps
     DEF Driver
<1>5. CASE Watch
  BY <1>5, WatchKeeps DEF Watch
<1>6. CASE Loop
  BY <1>6, LoopKeeps DEF Loop
<1>7. CASE UNCHANGED vars
  <2>1. /\ UNCHANGED << protocol, conn, lost, shutdown, client, body, counted,
                        chan, driver, cur, issued, relay, tails >>
        /\ UNCHANGED << out, handle, load, bad >>
    BY <1>7 DEF vars
  <2>2. TypeOK'
    BY <2>1 DEF IInv, TypeOK
  <2>3. Positions' /\ Counting' /\ LoopTotals' /\ NeverFinishes'
    BY <2>1
       DEF IInv, Positions, Counting, LoopTotals, NeverFinishes, RelayTotal
  <2>4. FailuresBlamed'
    BY <2>1 DEF IInv, FailuresBlamed, Blamed
  <2> QED
    BY <2>2, <2>3, <2>4 DEF IInv
<1> QED
  BY <1>1, <1>2, <1>3, <1>4, <1>5, <1>6, <1>7 DEF Next

(***************************************************************************)
(* The invariant holds in every state of every run.                        *)
(***************************************************************************)
LEMMA Invariance == Spec => []IInv
<1> QED
  BY InitInvariant, NextInvariant, PTL DEF Spec

(***************************************************************************)
(* Every variable keeps its type; in particular no body counts more than   *)
(* its bound.                                                              *)
(***************************************************************************)
THEOREM TypeCorrect == Spec => []TypeOK
<1>1. IInv => TypeOK
  BY DEF IInv
<1> QED
  BY <1>1, Invariance, PTL

(***************************************************************************)
(* The relay's base is exact at every request boundary.                    *)
(***************************************************************************)
THEOREM RelayIsExact == Spec => []RelayExact
<1>1. IInv => RelayExact
  BY DEF IInv, Counting, RelayExact
<1> QED
  BY <1>1, Invariance, PTL

(***************************************************************************)
(* The loop never believes in more bytes than the bodies produced.         *)
(***************************************************************************)
THEOREM LoopIsNotAhead == Spec => []LoopNotAhead
<1>1. ASSUME IInv PROVE LoopNotAhead
  <2>1. load.total <= RelayTotal(relay)
    BY <1>1 DEF IInv, LoopTotals
  <2>2. ASSUME driver # "done"
        PROVE  RelayTotal(relay) <= Bound * (cur - 1) + counted[cur]
    <3>1. /\ relay.base = Bound * (issued - 1)
          /\ relay.last <= counted[issued]
          /\ driver = "await" => relay.last = 0 /\ counted[cur] = Bound
      BY <1>1, <2>2 DEF IInv, Counting, ChanFits
    <3>2. /\ cur \in Nat /\ cur \in Request /\ issued \in Request
          /\ counted[cur] \in Nat
      BY <1>1, BoundAssumption DEF IInv, TypeOK, Request
    <3>3. CASE driver = "await"
      <4>1. issued = cur + 1
        BY <1>1, <3>3 DEF IInv, Positions
      <4>2. relay.base = Bound * cur
        BY <3>1, <3>2, <4>1
      <4>3. Bound * (cur - 1) + Bound = Bound * cur
        BY <3>2, BoundAssumption
      <4> QED
        BY <3>1, <3>2, <3>3, <4>2, <4>3, BoundAssumption DEF RelayTotal
    <3>4. CASE driver # "await"
      <4>1. issued = cur
        BY <1>1, <2>2, <3>4 DEF IInv, Positions
      <4>2. relay.base \in Nat /\ relay.last \in Nat
        BY <1>1, RelayTypes
      <4> QED
        BY <3>1, <3>2, <4>1, <4>2 DEF RelayTotal
    <3> QED
      BY <3>3, <3>4
  <2> QED
    BY <2>1, <2>2 DEF LoopNotAhead
<1> QED
  BY <1>1, Invariance, PTL

(***************************************************************************)
(* A load fails only for a reason.                                         *)
(***************************************************************************)
THEOREM FailuresAreGenuine == Spec => []FailureIsGenuine
<1>1. IInv => FailureIsGenuine
  BY DEF IInv, FailuresBlamed, Blamed, FailureIsGenuine
<1> QED
  BY <1>1, Invariance, PTL

(***************************************************************************)
(* Only the loop's own steps, and the handover, change what it knows.      *)
(***************************************************************************)
LEMMA LoadStep ==
  ASSUME [Next]_vars
  PROVE  \/ UNCHANGED << handle, load >>
         \/ handle = "held" /\ (Update \/ Stop \/ Abandon)
         \/ DriverStart
<1>1. CASE Network \/ Body \/ Client \/ Watch
  BY <1>1
     DEF Network, Connect, ConnectFails, Shutdown, ConnectionLost,
         ConnectionShutdown, ResetStream, Body, PollFrame, PollClosed,
         BodyDropped, Client, HandOver, Accepted, Rejected, ResponseLost,
         ClientFails, Watch, TailForwards, TailEnds, loopVars
<1>2. CASE Driver
  BY <1>2
     DEF Driver, DriverShutdown, DriverForwards, DriverReissues, DriverUnheard,
         DriverSwitch, DriverFails, loopVars
<1>3. CASE Loop
  BY <1>3 DEF Loop, Update, Stop, Abandon, LoopTakes
<1>4. CASE UNCHANGED vars
  BY <1>4 DEF vars
<1> QED
  BY <1>1, <1>2, <1>3, <1>4 DEF Next

(***************************************************************************)
(* The counter of an upload load never runs backwards.                     *)
(***************************************************************************)
THEOREM CounterIsMonotone == Spec => CounterMonotone
<1>1. ASSUME IInv, [Next]_vars PROVE load' = load \/ load'.total >= load.total
  <2>1. load' \in LoadRecord /\ load \in LoadRecord
    BY <1>1, NextInvariant DEF IInv, TypeOK
  <2>2. CASE handle = "held" /\ (Update \/ Stop \/ Abandon)
    BY <1>1, <2>1, <2>2, TakenFacts DEF LoadRecord
  <2>3. CASE DriverStart
    BY <2>3 DEF DriverStart
  <2> QED
    BY <1>1, <2>2, <2>3, LoadStep
<1>2. IInv /\ [Next]_vars => [load'.total >= load.total]_load
  BY <1>1
<1> QED
  BY <1>2, Invariance, PTL DEF Spec, CounterMonotone

(***************************************************************************)
(* An upload load implements LoadContract.                                 *)
(***************************************************************************)
THEOREM UploadRefinesContract == Spec => ImplementsContract
<1>1. Init => Contract!Init
  BY DEF Init, FreshLoad, Contract!Init
<1>2. ASSUME IInv, [Next]_vars
      PROVE  Contract!Next \/ UNCHANGED Contract!vars
  <2> USE DEF Contract!Next, Contract!Offer, Contract!Observe, Contract!Phase,
              Contract!vars
  <2>1. CASE UNCHANGED << handle, load >>
    BY <2>1
  <2>2. CASE DriverStart
    <3>1. handle = "none" /\ handle' = "held" /\ load' = load
      BY <1>2, <2>2 DEF DriverStart, IInv, Positions
    <3> QED
      BY <3>1
  <2>3. CASE handle = "held" /\ (Update \/ Stop \/ Abandon)
    <3>1. /\ load.total <= load'.total
          /\ ~load'.finished /\ (load.failed => load'.failed)
          /\ ~load.finished
          /\ load.total \in Nat /\ load'.total \in Nat
      BY <1>2, <2>3, TakenFacts
         DEF IInv, NeverFinishes, TypeOK, LoadRecord
    <3>2. handle' \in {"held", "stopped", "dropped"}
      BY <2>3 DEF Update, Stop, Abandon, LoopTakes
    <3>3. load'.total >= load.total
      BY <3>1
    <3> QED
      BY <2>3, <3>1, <3>2, <3>3
  <2> QED
    BY <1>2, <2>1, <2>2, <2>3, LoadStep
<1>3. IInv /\ [Next]_vars => [Contract!Next]_(Contract!vars)
  BY <1>2
<1> QED
  BY <1>1, <1>3, Invariance, PTL DEF Spec, ImplementsContract, Contract!Spec
=============================================================================
