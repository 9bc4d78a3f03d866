---------------------- MODULE DownloadTransfer_proofs ----------------------
(***************************************************************************)
(* Proofs about DownloadTransfer: for a body of any size, cut into frames  *)
(* in any way, nobody is told that a truncated body is complete, nothing   *)
(* is reported as failed without a cause, and a download load implements   *)
(* LoadContract.                                                           *)
(***************************************************************************)
EXTENDS DownloadTransfer, SequenceTheorems, WellFoundedInduction, TLAPS

(***************************************************************************)
(* What the consumer knows of the count.                                   *)
(***************************************************************************)
Known == IF consumer = "load" THEN load.total ELSE waiter.total

(***************************************************************************)
(* The events on their way to a consumer that knows of `known` bytes, from *)
(* a body that has counted n: the counts ascend from the one to the other, *)
(* and Finished follows the count of the whole body.                       *)
(***************************************************************************)
Ascending(q, known, n) ==
  /\ \A i \in 1..Len(q) :
       IsByteCount(q[i]) => known <= q[i].total /\ q[i].total <= n
  /\ \A i, j \in 1..Len(q) :
       i < j /\ IsByteCount(q[i]) /\ IsByteCount(q[j])
         => q[i].total <= q[j].total

EndsInFull(q, known) ==
  \A i \in 1..Len(q) :
    IsFinished(q[i]) => IF i = 1 THEN known = Size
                        ELSE q[i - 1] = ByteCount(Size)

InTransit(q, known, n) ==
  known <= n /\ Ascending(q, known, n) /\ EndsInFull(q, known)

(***************************************************************************)
(* Before the response there is nothing, nothing reaches a consumer that   *)
(* has let go, and a waiter keeps no load.                                 *)
(***************************************************************************)
Stages ==
  /\ body = "requested" =>
       handle = "none" /\ counted = 0 /\ ~sent /\ waiter.result = "waiting"
  /\ handle = "none" => load = FreshLoad /\ waiter.total = 0 /\ body # "live"
  /\ handle # "held" => chan = << >>
  /\ consumer = "waiter" => load = FreshLoad
  /\ handle = "held" => waiter.result = "waiting"

(***************************************************************************)
(* A body's last word is its only one: Finished was sent at its end, and   *)
(* once it was heard no failure can follow.                                *)
(***************************************************************************)
LastWord ==
  /\ HasFinished(chan) \/ load.finished => sent
  /\ load.finished => ~HasFailed(chan)

(***************************************************************************)
(* Something went wrong, or the program is shutting down.                  *)
(***************************************************************************)
Blamed == broken \/ shutdown

(***************************************************************************)
(* Whatever a consumer may take for a failure has something to blame: a    *)
(* Failed event, and a body that is over without Finished.                 *)
(***************************************************************************)
FailuresBlamed ==
  /\ HasFailed(chan) \/ load.failed \/ waiter.result = "err" => Blamed
  /\ handle = "held" /\ (sent \/ body = "gone")
       => HasFinished(chan) \/ load.finished \/ Blamed

IInv ==
  /\ TypeOK /\ Stages /\ InTransit(chan, Known, counted) /\ LastWord
  /\ FailuresBlamed /\ CompleteMeansAll

-----------------------------------------------------------------------------
(* The events of a body.                                                   *)

LEMMA EventFacts ==
  /\ \A n \in Nat : /\ ByteCount(n) \in Event /\ ByteCount(n).total = n
                    /\ IsByteCount(ByteCount(n)) /\ ~IsFinished(ByteCount(n))
                    /\ ~IsFailed(ByteCount(n))
  /\ Finished \in Event /\ IsFinished(Finished)
  /\ ~IsByteCount(Finished) /\ ~IsFailed(Finished)
  /\ Failed \in Event /\ IsFailed(Failed)
  /\ ~IsByteCount(Failed) /\ ~IsFinished(Failed)
BY DEF Event, EventKind, ByteCount, Finished, Failed, IsByteCount, IsFinished,
       IsFailed

(***************************************************************************)
(* What a body that has counted n may send in one go.                      *)
(***************************************************************************)
Burst(e, n) ==
  /\ e \in Seq(Event)
  /\ \A i \in 1..Len(e) : IsByteCount(e[i]) => e[i] = ByteCount(n)
  /\ \A i \in 1..Len(e) :
       IsFinished(e[i]) => n = Size /\ i > 1 /\ e[i - 1] = ByteCount(n)

(***************************************************************************)
(* The four shapes of a burst: nothing, a count, a count and Finished with *)
(* or without the periodic count before them.                              *)
(***************************************************************************)
LEMMA CountBursts ==
  ASSUME NEW n \in Nat
  PROVE  /\ Burst(<< >>, n) /\ Burst(<< ByteCount(n) >>, n)
         /\ n = Size => Burst(<< ByteCount(n), Finished >>, n)
         /\ n = Size => Burst(<< ByteCount(n), ByteCount(n), Finished >>, n)
<1>1. ByteCount(n) \in Event /\ Finished \in Event
  BY EventFacts
<1>2. ~IsFinished(ByteCount(n)) /\ ~IsByteCount(Finished)
  BY EventFacts
<1>3. Burst(<< >>, n) /\ Burst(<< ByteCount(n) >>, n)
  BY <1>1, <1>2 DEF Burst
<1>4. n = Size => Burst(<< ByteCount(n), Finished >>, n)
  BY <1>1, <1>2 DEF Burst
<1>5. n = Size => Burst(<< ByteCount(n), ByteCount(n), Finished >>, n)
  BY <1>1, <1>2 DEF Burst
<1> QED
  BY <1>3, <1>4, <1>5

(***************************************************************************)
(* What each of them holds, and a lone Failed.                             *)
(***************************************************************************)
LEMMA HoldsNothing == ~HasFailed(<< >>) /\ ~HasFinished(<< >>)
BY DEF HasFailed, HasFinished

LEMMA BurstHolds ==
  ASSUME NEW n \in Nat
  PROVE  /\ ~HasFailed(<< >>) /\ ~HasFinished(<< >>)
         /\ ~HasFailed(<< ByteCount(n) >>) /\ ~HasFinished(<< ByteCount(n) >>)
         /\ ~HasFailed(<< ByteCount(n), Finished >>)
         /\ HasFinished(<< ByteCount(n), Finished >>)
         /\ ~HasFailed(<< ByteCount(n), ByteCount(n), Finished >>)
         /\ HasFinished(<< ByteCount(n), ByteCount(n), Finished >>)
         /\ HasFailed(<< Failed >>) /\ ~HasFinished(<< Failed >>)
<1>1. /\ ~IsFinished(ByteCount(n)) /\ ~IsFailed(ByteCount(n))
      /\ IsFinished(Finished) /\ ~IsFailed(Finished)
      /\ IsFailed(Failed) /\ ~IsFinished(Failed)
  BY EventFacts
<1>2. /\ ~HasFailed(<< >>) /\ ~HasFinished(<< >>)
  BY HoldsNothing
<1>3. /\ ~HasFailed(<< ByteCount(n) >>) /\ ~HasFinished(<< ByteCount(n) >>)
      /\ HasFailed(<< Failed >>) /\ ~HasFinished(<< Failed >>)
  BY <1>1 DEF HasFailed, HasFinished
<1>4. /\ ~HasFailed(<< ByteCount(n), Finished >>)
      /\ HasFinished(<< ByteCount(n), Finished >>)
  BY <1>1 DEF HasFailed, HasFinished
<1>5. /\ ~HasFailed(<< ByteCount(n), ByteCount(n), Finished >>)
      /\ HasFinished(<< ByteCount(n), ByteCount(n), Finished >>)
  BY <1>1 DEF HasFailed, HasFinished
<1> QED
  BY <1>2, <1>3, <1>4, <1>5

(***************************************************************************)
(* A frame, which is known to be the last one only if it completes the     *)
(* body, sends a burst without a failure that ends in Finished if it is.   *)
(***************************************************************************)
LEMMA FrameBurst ==
  ASSUME NEW n \in Nat, NEW due \in BOOLEAN, NEW eos \in BOOLEAN,
         eos => n = Size
  PROVE  /\ Burst(FrameEvents(n, due, eos, FALSE), n)
         /\ ~HasFailed(FrameEvents(n, due, eos, FALSE))
         /\ HasFinished(FrameEvents(n, due, eos, FALSE)) <=> eos
<1> DEFINE c == ByteCount(n)
<1>1. c \in Event /\ Finished \in Event
  BY EventFacts
<1>2. << >> \in Seq(Event) /\ << c >> \in Seq(Event)
      /\ << c, Finished >> \in Seq(Event)
  BY <1>1
<1>3. FrameEvents(n, due, eos, FALSE)
        = (IF due THEN << c >> ELSE << >>)
             \o (IF eos THEN << c, Finished >> ELSE << >>)
  BY DEF FrameEvents
<1> HIDE DEF c
<1>4. CASE ~due /\ ~eos
  <2>1. << >> \o << >> = << >>
    BY <1>2, ConcatEmptySeq
  <2> QED
    BY <1>3, <1>4, <2>1, CountBursts, BurstHolds
<1>5. CASE due /\ ~eos
  <2>1. << c >> \o << >> = << c >>
    BY <1>2, ConcatEmptySeq
  <2> QED
    BY <1>3, <1>5, <2>1, CountBursts, BurstHolds DEF c
<1>6. CASE ~due /\ eos
  <2>1. << >> \o << c, Finished >> = << c, Finished >>
    BY <1>2, ConcatEmptySeq
  <2> QED
    BY <1>3, <1>6, <2>1, CountBursts, BurstHolds DEF c
<1>7. CASE due /\ eos
  <2> DEFINE s == << c >> \o << c, Finished >>
             t == << c, c, Finished >>
  <2>1. /\ s \in Seq(Event) /\ Len(s) = 3
        /\ \A i \in 1..3 : s[i] = IF i <= 1 THEN << c >>[i]
                                  ELSE << c, Finished >>[i - 1]
    <3>1. Len(<< c >>) = 1 /\ Len(<< c, Finished >>) = 2
      OBVIOUS
    <3> QED
      BY <1>2, <3>1, ConcatProperties
  <2>2. t \in Seq(Event) /\ Len(t) = 3
    BY <1>1
  <2>3. s[1] = c /\ s[2] = c /\ s[3] = Finished
    BY <2>1
  <2>4. \A i \in 1..3 : s[i] = t[i]
    <3>1. t[1] = c /\ t[2] = c /\ t[3] = Finished
      OBVIOUS
    <3> HIDE DEF s, t
    <3>2. \A i \in 1..3 : i = 1 \/ i = 2 \/ i = 3
      OBVIOUS
    <3> QED
      BY <2>3, <3>1, <3>2
  <2>5. s = t
    <3> HIDE DEF s, t
    <3> QED
      BY <2>1, <2>2, <2>4, SeqEqual
  <2> QED
    BY <1>3, <1>7, <2>5, CountBursts, BurstHolds DEF c
<1> QED
  BY <1>4, <1>5, <1>6, <1>7

LEMMA FailedBurst ==
  ASSUME NEW n \in Nat
  PROVE  Burst(<< Failed >>, n)
<1>1. Failed \in Event /\ ~IsFinished(Failed) /\ ~IsByteCount(Failed)
  BY EventFacts
<1> QED
  BY <1>1 DEF Burst

-----------------------------------------------------------------------------
(* The channel.                                                            *)

LEMMA EventSequence ==
  ASSUME NEW q \in Seq(Event)
  PROVE  /\ Len(q) \in Nat /\ DOMAIN q = 1..Len(q)
         /\ \A i \in 1..Len(q) : q[i] \in Event /\ q[i].total \in Nat
<1>1. \A i \in 1..Len(q) : q[i] \in Event
  BY ElementOfSeq
<1>2. \A e \in Event : e.total \in Nat
  BY DEF Event
<1> QED
  BY <1>1, <1>2, LenProperties

(***************************************************************************)
(* A burst behind what is in transit.                                      *)
(***************************************************************************)
LEMMA BurstInTransit ==
  ASSUME NEW q \in Seq(Event), NEW known \in Nat, NEW n \in Nat,
         InTransit(q, known, n),
         NEW m \in Nat, n <= m, NEW e, Burst(e, m)
  PROVE  q \o e \in Seq(Event) /\ InTransit(q \o e, known, m)
<1> DEFINE c == q \o e
<1>1. /\ Len(q) \in Nat /\ Len(e) \in Nat /\ e \in Seq(Event)
      /\ \A i \in 1..Len(q) : q[i].total \in Nat
  BY EventSequence DEF Burst
<1>2. /\ c \in Seq(Event) /\ Len(c) = Len(q) + Len(e)
      /\ \A i \in 1..Len(q) : c[i] = q[i]
      /\ \A i \in 1..Len(e) : c[Len(q) + i] = e[i]
  <2>1. /\ c \in Seq(Event) /\ Len(c) = Len(q) + Len(e)
        /\ \A i \in 1..(Len(q) + Len(e)) :
             c[i] = IF i <= Len(q) THEN q[i] ELSE e[i - Len(q)]
    BY <1>1, ConcatProperties
  <2>2. \A i \in 1..Len(q) : i \in 1..(Len(q) + Len(e)) /\ i <= Len(q)
    BY <1>1
  <2>3. \A i \in 1..Len(e) : /\ Len(q) + i \in 1..(Len(q) + Len(e))
                             /\ ~(Len(q) + i <= Len(q))
                             /\ (Len(q) + i) - Len(q) = i
    BY <1>1
  <2> QED
    BY <2>1, <2>2, <2>3
<1>3. \A i \in 1..Len(c) :
        i \in 1..Len(q) \/ \E k \in 1..Len(e) : i = Len(q) + k
  <2> SUFFICES ASSUME NEW i \in 1..Len(c), i \notin 1..Len(q)
               PROVE  \E k \in 1..Len(e) : i = Len(q) + k
    OBVIOUS
  <2>1. i - Len(q) \in 1..Len(e) /\ i = Len(q) + (i - Len(q))
    BY <1>1, <1>2
  <2> QED
    BY <2>1
<1>4. ByteCount(m).total = m
  BY EventFacts
<1> HIDE DEF c
<1>5. \A i \in 1..Len(e) : IsByteCount(e[i]) => e[i].total = m
  BY <1>4 DEF Burst
<1>6. \A i \in 1..Len(c) :
        IsByteCount(c[i]) => known <= c[i].total /\ c[i].total <= m
  <2> SUFFICES ASSUME NEW i \in 1..Len(c), IsByteCount(c[i])
               PROVE  known <= c[i].total /\ c[i].total <= m
    OBVIOUS
  <2>1. CASE i \in 1..Len(q)
    BY <1>1, <1>2, <2>1 DEF InTransit, Ascending
  <2>2. ASSUME NEW k \in 1..Len(e), i = Len(q) + k
        PROVE  known <= c[i].total /\ c[i].total <= m
    BY <1>2, <1>5, <2>2 DEF InTransit
  <2> QED
    BY <1>3, <2>1, <2>2
<1>7. \A i, j \in 1..Len(c) :
        i < j /\ IsByteCount(c[i]) /\ IsByteCount(c[j])
          => c[i].total <= c[j].total
  <2> SUFFICES ASSUME NEW i \in 1..Len(c), NEW j \in 1..Len(c), i < j,
                      IsByteCount(c[i]), IsByteCount(c[j])
               PROVE  c[i].total <= c[j].total
    OBVIOUS
  <2>1. CASE j \in 1..Len(q)
    <3>1. i \in 1..Len(q)
      BY <1>1, <1>2, <2>1
    <3> QED
      BY <1>2, <2>1, <3>1 DEF InTransit, Ascending
  <2>2. ASSUME NEW k \in 1..Len(e), j = Len(q) + k
        PROVE  c[i].total <= c[j].total
    BY <1>2, <1>5, <1>6, <2>2
  <2> QED
    BY <1>3, <2>1, <2>2
<1>8. \A i \in 1..Len(c) :
        IsFinished(c[i]) => IF i = 1 THEN known = Size
                            ELSE c[i - 1] = ByteCount(Size)
  <2> SUFFICES ASSUME NEW i \in 1..Len(c), IsFinished(c[i])
               PROVE  IF i = 1 THEN known = Size ELSE c[i - 1] = ByteCount(Size)
    OBVIOUS
  <2>1. CASE i \in 1..Len(q)
    <3>1. i = 1 \/ i - 1 \in 1..Len(q)
      BY <1>1, <2>1
    <3> QED
      BY <1>2, <2>1, <3>1 DEF InTransit, EndsInFull
  <2>2. ASSUME NEW k \in 1..Len(e), i = Len(q) + k
        PROVE  IF i = 1 THEN known = Size ELSE c[i - 1] = ByteCount(Size)
    <3>1. m = Size /\ k > 1 /\ e[k - 1] = ByteCount(m)
      BY <1>2, <2>2 DEF Burst
    <3>2. k - 1 \in 1..Len(e) /\ i # 1 /\ i - 1 = Len(q) + (k - 1)
      BY <1>1, <2>2, <3>1
    <3> QED
      BY <1>2, <3>1, <3>2
  <2> QED
    BY <1>3, <2>1, <2>2
<1>9. known <= m
  BY DEF InTransit
<1> QED
  BY <1>2, <1>6, <1>7, <1>8, <1>9 DEF InTransit, Ascending, EndsInFull, c

(***************************************************************************)
(* Two queues hold together what each of them holds.                       *)
(***************************************************************************)
LEMMA HoldsBoth ==
  ASSUME NEW q \in Seq(Event), NEW e \in Seq(Event)
  PROVE  /\ HasFailed(q \o e) <=> HasFailed(q) \/ HasFailed(e)
         /\ HasFinished(q \o e) <=> HasFinished(q) \/ HasFinished(e)
<1> DEFINE c == q \o e
<1>1. /\ Len(q) \in Nat /\ Len(e) \in Nat /\ Len(c) = Len(q) + Len(e)
      /\ \A i \in 1..(Len(q) + Len(e)) :
           c[i] = IF i <= Len(q) THEN q[i] ELSE e[i - Len(q)]
      /\ DOMAIN q = 1..Len(q) /\ DOMAIN e = 1..Len(e) /\ DOMAIN c = 1..Len(c)
  BY ConcatProperties, LenProperties
<1> HIDE DEF c
<1>2. \A i \in DOMAIN q : i \in DOMAIN c /\ c[i] = q[i]
  BY <1>1
<1>3. \A i \in DOMAIN e : Len(q) + i \in DOMAIN c /\ c[Len(q) + i] = e[i]
  <2> SUFFICES ASSUME NEW i \in DOMAIN e
               PROVE  Len(q) + i \in DOMAIN c /\ c[Len(q) + i] = e[i]
    OBVIOUS
  <2>1. /\ Len(q) + i \in 1..(Len(q) + Len(e)) /\ ~(Len(q) + i <= Len(q))
        /\ (Len(q) + i) - Len(q) = i
    BY <1>1
  <2> QED
    BY <1>1, <2>1
<1>4. \A i \in DOMAIN c :
        (i \in DOMAIN q /\ c[i] = q[i])
          \/ (i - Len(q) \in DOMAIN e /\ c[i] = e[i - Len(q)])
  BY <1>1
<1>5. HasFailed(c) <=> HasFailed(q) \/ HasFailed(e)
  BY <1>2, <1>3, <1>4 DEF HasFailed
<1>6. HasFinished(c) <=> HasFinished(q) \/ HasFinished(e)
  BY <1>2, <1>3, <1>4 DEF HasFinished
<1> QED
  BY <1>5, <1>6 DEF c

(***************************************************************************)
(* The waiter takes the event at the head: a count becomes what it knows,  *)
(* and Finished finds it knowing of the whole body.                        *)
(***************************************************************************)
LEMMA HeadTaken ==
  ASSUME NEW q \in Seq(Event), NEW known \in Nat, NEW n \in Nat,
         InTransit(q, known, n), q # << >>
  PROVE  /\ Head(q) \in Event /\ Tail(q) \in Seq(Event)
         /\ IsFinished(Head(q)) => known = Size
         /\ IsByteCount(Head(q)) =>
              /\ Head(q).total \in Nat /\ known <= Head(q).total
              /\ InTransit(Tail(q), Head(q).total, n)
<1> DEFINE h == Head(q)
           t == Tail(q)
<1>1. /\ h = q[1] /\ h \in Event /\ t \in Seq(Event)
      /\ Len(q) \in Nat /\ Len(q) > 0 /\ Len(t) = Len(q) - 1
      /\ \A i \in 1..Len(t) : t[i] = q[i + 1]
      /\ \A i \in 1..Len(q) : q[i].total \in Nat
  BY HeadTailProperties, EventSequence, EmptySeq
<1>2. 1 \in 1..Len(q) /\ \A i \in 1..Len(t) : i + 1 \in 1..Len(q) /\ i + 1 > 1
  BY <1>1
<1> HIDE DEF h, t
<1>3. IsFinished(h) => known = Size
  BY <1>1, <1>2 DEF InTransit, EndsInFull
<1>4. ASSUME IsByteCount(h)
      PROVE  h.total \in Nat /\ known <= h.total /\ InTransit(t, h.total, n)
  <2>1. h.total \in Nat /\ known <= h.total /\ h.total <= n
    BY <1>1, <1>2, <1>4 DEF InTransit, Ascending
  <2>2. Ascending(t, h.total, n)
    <3>1. \A i \in 1..Len(t) :
            IsByteCount(t[i]) => h.total <= t[i].total /\ t[i].total <= n
      BY <1>1, <1>2, <1>4 DEF InTransit, Ascending
    <3>2. \A i, j \in 1..Len(t) :
            i < j /\ IsByteCount(t[i]) /\ IsByteCount(t[j])
              => t[i].total <= t[j].total
      <4> SUFFICES ASSUME NEW i \in 1..Len(t), NEW j \in 1..Len(t), i < j,
                          IsByteCount(t[i]), IsByteCount(t[j])
                   PROVE  t[i].total <= t[j].total
        OBVIOUS
      <4>1. /\ i + 1 \in 1..Len(q) /\ j + 1 \in 1..Len(q) /\ i + 1 < j + 1
            /\ t[i] = q[i + 1] /\ t[j] = q[j + 1]
        BY <1>1, <1>2
      <4> QED
        BY <4>1 DEF InTransit, Ascending
    <3> QED
      BY <3>1, <3>2 DEF Ascending
  <2>3. EndsInFull(t, h.total)
    <3> SUFFICES ASSUME NEW i \in 1..Len(t), IsFinished(t[i])
                 PROVE  IF i = 1 THEN h.total = Size
                        ELSE t[i - 1] = ByteCount(Size)
      BY DEF EndsInFull
    <3>1. i + 1 \in 1..Len(q) /\ i + 1 # 1 /\ IsFinished(q[i + 1])
      BY <1>1, <1>2
    <3>2. q[(i + 1) - 1] = ByteCount(Size)
      BY <3>1 DEF InTransit, EndsInFull
    <3>3. CASE i = 1
      BY <1>1, <3>2, <3>3, EventFacts, SizeAssumption
    <3>4. CASE i # 1
      <4>1. i - 1 \in 1..Len(t) /\ (i - 1) + 1 = (i + 1) - 1
        BY <1>1, <3>4
      <4> QED
        BY <1>1, <3>2, <3>4, <4>1
    <3> QED
      BY <3>3, <3>4
  <2> QED
    BY <2>1, <2>2, <2>3 DEF InTransit
<1> QED
  BY <1>1, <1>3, <1>4 DEF h, t

(***************************************************************************)
(* A queue holds what its head is and what its tail holds.                 *)
(***************************************************************************)
LEMMA HoldsHead ==
  ASSUME NEW q \in Seq(Event), q # << >>
  PROVE  /\ HasFailed(q) <=> IsFailed(Head(q)) \/ HasFailed(Tail(q))
         /\ HasFinished(q) <=> IsFinished(Head(q)) \/ HasFinished(Tail(q))
<1> DEFINE h == Head(q)
           t == Tail(q)
<1>1. /\ h = q[1] /\ Len(q) \in Nat /\ Len(q) > 0 /\ Len(t) = Len(q) - 1
      /\ \A i \in 1..Len(t) : t[i] = q[i + 1]
      /\ DOMAIN q = 1..Len(q) /\ DOMAIN t = 1..Len(t)
  BY HeadTailProperties, LenProperties, EmptySeq
<1> HIDE DEF h, t
<1>2. /\ 1 \in DOMAIN q
      /\ \A i \in DOMAIN t : i + 1 \in DOMAIN q /\ t[i] = q[i + 1]
      /\ \A i \in DOMAIN q : i = 1 \/ (i - 1 \in DOMAIN t /\ q[i] = t[i - 1])
  BY <1>1
<1>3. HasFailed(q) <=> IsFailed(h) \/ HasFailed(t)
  BY <1>1, <1>2 DEF HasFailed
<1>4. HasFinished(q) <=> IsFinished(h) \/ HasFinished(t)
  BY <1>1, <1>2 DEF HasFinished
<1> QED
  BY <1>3, <1>4 DEF h, t

(***************************************************************************)
(* Every non-empty set of positions of a queue has a last one.             *)
(***************************************************************************)
LEMMA LastOf ==
  ASSUME NEW n \in Nat, NEW T, T \subseteq 1..n, T # {}
  PROVE  \E i \in T : \A j \in T : j <= i
<1> DEFINE left == {n - i : i \in T}
<1>1. left \subseteq Nat
  <2>1. \A i \in T : n - i \in Nat
    OBVIOUS
  <2> QED
    BY <2>1
<1>2. left # {}
  <2>1. PICK i \in T : TRUE
    OBVIOUS
  <2>2. n - i \in left
    BY <2>1
  <2> QED
    BY <2>2
<1>3. PICK x \in left : \A y \in left : ~(<< y, x >> \in OpToRel(<, Nat))
  <2> HIDE DEF left
  <2> QED
    BY <1>1, <1>2, NatLessThanWellFounded, WFMin
<1>4. \A y \in left : ~(y < x)
  BY <1>1, <1>3 DEF OpToRel
<1>5. PICK i \in T : x = n - i
  BY <1>3
<1>6. \A j \in T : j <= i
  <2> SUFFICES ASSUME NEW j \in T PROVE j <= i
    OBVIOUS
  <2>1. n - j \in left
    OBVIOUS
  <2>2. ~(n - j < n - i)
    BY <1>4, <1>5, <2>1
  <2> QED
    BY <2>2
<1> QED
  BY <1>6

(***************************************************************************)
(* The loop takes all events at once: the newest count is no older than    *)
(* what it knew, and that of the whole body if Finished is among them.     *)
(***************************************************************************)
LEMMA AllTaken ==
  ASSUME NEW q \in Seq(Event), NEW known \in Nat, NEW n \in Nat,
         InTransit(q, known, n)
  PROVE  /\ NewestTotal(known, q) \in Nat
         /\ known <= NewestTotal(known, q) /\ NewestTotal(known, q) <= n
         /\ HasFinished(q) /\ n <= Size => NewestTotal(known, q) = Size
<1> DEFINE counts == {i \in DOMAIN q : IsByteCount(q[i])}
           newest == CHOOSE i \in counts : \A j \in counts : j <= i
<1>1. /\ Len(q) \in Nat /\ DOMAIN q = 1..Len(q)
      /\ \A i \in 1..Len(q) : q[i].total \in Nat
  BY EventSequence
<1>2. known <= n
  BY DEF InTransit
<1>3. CASE counts = {}
  <2>1. NewestTotal(known, q) = known
    BY <1>3 DEF NewestTotal
  <2>2. ASSUME HasFinished(q), n <= Size PROVE known = Size
    <3>1. PICK i \in 1..Len(q) : IsFinished(q[i])
      BY <1>1, <2>2 DEF HasFinished
    <3>2. i = 1 \/ (i - 1 \in 1..Len(q) /\ i # 1)
      BY <1>1
    <3>3. i # 1 => IsByteCount(q[i - 1])
      BY <3>1, EventFacts, SizeAssumption DEF InTransit, EndsInFull
    <3>4. i = 1
      BY <1>1, <1>3, <3>2, <3>3
    <3> QED
      BY <3>1, <3>4 DEF InTransit, EndsInFull
  <2> QED
    BY <1>2, <2>1, <2>2
<1>4. CASE counts # {}
  <2>1. counts \subseteq 1..Len(q)
    BY <1>1
  <2>2. \E i \in counts : \A j \in counts : j <= i
    <3> HIDE DEF counts
    <3> QED
      BY <1>1, <1>4, <2>1, LastOf
  <2>3. newest \in counts /\ \A j \in counts : j <= newest
    BY <2>2
  <2>4. NewestTotal(known, q) = q[newest].total
    BY <1>4 DEF NewestTotal
  <2>5. newest \in 1..Len(q) /\ IsByteCount(q[newest])
    BY <1>1, <2>3
  <2> HIDE DEF newest
  <2>6. /\ q[newest].total \in Nat
        /\ known <= q[newest].total /\ q[newest].total <= n
    BY <1>1, <2>5 DEF InTransit, Ascending
  <2>7. ASSUME HasFinished(q), n <= Size PROVE q[newest].total = Size
    <3>1. PICK i \in 1..Len(q) : IsFinished(q[i])
      BY <1>1, <2>7 DEF HasFinished
    <3>2. CASE i = 1
      <4>1. known = Size
        BY <3>1, <3>2 DEF InTransit, EndsInFull
      <4> QED
        BY <2>6, <2>7, <4>1, SizeAssumption
    <3>3. CASE i # 1
      <4>1. i - 1 \in 1..Len(q) /\ q[i - 1] = ByteCount(Size)
        BY <1>1, <3>1, <3>3 DEF InTransit, EndsInFull
      <4>2. IsByteCount(q[i - 1]) /\ q[i - 1].total = Size
        BY <4>1, EventFacts, SizeAssumption
      <4>3. i - 1 <= newest
        BY <1>1, <2>3, <4>1, <4>2
      <4>4. Size <= q[newest].total
        <5>1. CASE i - 1 = newest
          BY <4>2, <5>1, <2>6
        <5>2. CASE i - 1 < newest
          BY <2>5, <4>1, <4>2, <5>2 DEF InTransit, Ascending
        <5> QED
          BY <4>1, <4>3, <2>5, <1>1, <5>1, <5>2
      <4> QED
        BY <2>6, <2>7, <4>4, SizeAssumption
    <3> QED
      BY <3>2, <3>3
  <2> QED
    BY <2>4, <2>6, <2>7
<1> QED
  BY <1>3, <1>4

-----------------------------------------------------------------------------
(* The invariant.                                                          *)

(***************************************************************************)
(* What the type invariant says of the parts the lemmas above speak of.    *)
(***************************************************************************)
LEMMA Types ==
  ASSUME TypeOK
  PROVE  /\ chan \in Seq(Event) /\ counted \in Nat /\ counted <= Size
         /\ Known \in Nat /\ load.total \in Nat /\ waiter.total \in Nat
BY SizeAssumption DEF TypeOK, Known, LoadRecord, WaiterRecord

LEMMA InitInvariant == Init => IInv
<1> SUFFICES ASSUME Init PROVE IInv
  OBVIOUS
<1>1. << >> \in Seq(Event) /\ Len(<< >>) = 0
  BY EmptySeq
<1>2. TypeOK
  <2>1. load \in LoadRecord /\ waiter \in WaiterRecord
    BY DEF Init, FreshLoad, LoadRecord, WaiterRecord
  <2>2. counted \in 0..Size
    BY SizeAssumption DEF Init
  <2> QED
    BY <1>1, <2>1, <2>2 DEF Init, TypeOK
<1>3. Stages /\ CompleteMeansAll
  BY DEF Init, Stages, CompleteMeansAll, FreshLoad
<1>4. InTransit(chan, Known, counted)
  BY <1>1 DEF Init, InTransit, Ascending, EndsInFull, Known, FreshLoad
<1>5. LastWord /\ FailuresBlamed
  BY HoldsNothing DEF Init, LastWord, FailuresBlamed, FreshLoad
<1> QED
  BY <1>2, <1>3, <1>4, <1>5 DEF IInv

(***************************************************************************)
(* A shutdown only adds to what may be blamed.                             *)
(***************************************************************************)
LEMMA ShutdownKeeps ==
  ASSUME IInv, Shutdown
  PROVE  IInv'
<1>1. /\ shutdown' = TRUE
      /\ UNCHANGED << protocol, consumer, body, counted, sent, chan, handle,
                      load, waiter, broken >>
  BY DEF choice, Shutdown
<1> QED
  BY <1>1
     DEF IInv, TypeOK, Stages, Known, LastWord, FailuresBlamed, Blamed,
         CompleteMeansAll

(***************************************************************************)
(* The response announces its body with a count of zero.                   *)
(***************************************************************************)
LEMMA RespondKeeps ==
  ASSUME IInv, Respond
  PROVE  IInv'
<1>1. /\ body = "requested" /\ body' = "live" /\ handle' = "held"
      /\ chan' = << ByteCount(0) >>
      /\ UNCHANGED << protocol, consumer, counted, sent, shutdown, load,
                      waiter, broken >>
  BY DEF choice, Respond, FirstEvents
<1>2. /\ handle = "none" /\ counted = 0 /\ ~sent /\ load = FreshLoad
      /\ waiter.total = 0 /\ chan = << >>
  BY <1>1 DEF IInv, Stages
<1>3. /\ chan' \in Seq(Event)
      /\ InTransit(chan', 0, 0)
  <2>1. InTransit(<< >>, 0, 0) /\ << >> \in Seq(Event)
    BY EmptySeq DEF InTransit, Ascending, EndsInFull
  <2>2. Burst(<< ByteCount(0) >>, 0) /\ << ByteCount(0) >> \in Seq(Event)
    BY CountBursts DEF Burst
  <2>3. << >> \o << ByteCount(0) >> = << ByteCount(0) >>
    BY <2>2, ConcatEmptySeq
  <2>4. << >> \o << ByteCount(0) >> \in Seq(Event)
        /\ InTransit(<< >> \o << ByteCount(0) >>, 0, 0)
    <3>1. 0 \in Nat /\ 0 <= 0
      OBVIOUS
    <3> QED
      BY <2>1, <2>2, <3>1, BurstInTransit
  <2> QED
    BY <1>1, <2>3, <2>4
<1>4. ~HasFailed(chan') /\ ~HasFinished(chan')
  BY <1>1, BurstHolds
<1>5. TypeOK'
  BY <1>1, <1>3 DEF IInv, TypeOK
<1>6. InTransit(chan', Known', counted')
  BY <1>1, <1>2, <1>3 DEF Known, FreshLoad
<1>7. Stages' /\ CompleteMeansAll'
  BY <1>1, <1>2 DEF IInv, Stages, CompleteMeansAll, FreshLoad
<1>8. LastWord' /\ FailuresBlamed'
  BY <1>1, <1>2, <1>4 DEF IInv, LastWord, FailuresBlamed, Blamed, FreshLoad
<1> QED
  BY <1>5, <1>6, <1>7, <1>8 DEF IInv

LEMMA RefuseKeeps ==
  ASSUME IInv, Refuse
  PROVE  IInv'
<1>1. /\ body = "requested" /\ body' = "gone"
      /\ waiter' = [waiter EXCEPT !.result = "err"]
      /\ broken' = (broken \/ ~shutdown)
      /\ UNCHANGED << protocol, consumer, counted, sent, chan, shutdown,
                      handle, load >>
  BY DEF choice, Refuse, Blame
<1>2. /\ handle = "none" /\ ~sent /\ waiter \in WaiterRecord
      /\ broken \in BOOLEAN /\ shutdown \in BOOLEAN
  BY <1>1 DEF IInv, Stages, TypeOK
<1>3. /\ waiter' \in WaiterRecord /\ waiter'.total = waiter.total
      /\ waiter'.result = "err"
  BY <1>1, <1>2 DEF WaiterRecord
<1>4. broken' \in BOOLEAN /\ Blamed'
  BY <1>1, <1>2 DEF Blamed
<1>5. TypeOK'
  BY <1>1, <1>3, <1>4 DEF IInv, TypeOK
<1>6. InTransit(chan', Known', counted')
  BY <1>1, <1>3 DEF IInv, Known
<1>7. Stages' /\ CompleteMeansAll' /\ LastWord'
  BY <1>1, <1>2, <1>3 DEF IInv, Stages, CompleteMeansAll, LastWord
<1>8. FailuresBlamed'
  BY <1>4 DEF FailuresBlamed
<1> QED
  BY <1>5, <1>6, <1>7, <1>8 DEF IInv

-----------------------------------------------------------------------------
(* The body.                                                               *)

(***************************************************************************)
(* A burst of the body, to a consumer that holds the transfer: what the    *)
(* consumer knows stays, and the rest of the invariant follows from what   *)
(* the burst says of the end.                                              *)
(***************************************************************************)
LEMMA BurstKeeps ==
  ASSUME IInv, body = "live", handle = "held",
         NEW e, chan' = chan \o e, Burst(e, counted'),
         counted' \in 0..Size, counted <= counted',
         body' \in {"live", "gone"}, sent' \in BOOLEAN, sent => sent',
         broken' \in BOOLEAN, broken => broken',
         UNCHANGED << protocol, consumer, shutdown, handle, load, waiter >>,
         HasFinished(e) => sent',
         HasFailed(e) => ~sent /\ Blamed',
         sent' \/ body' = "gone" => sent \/ HasFinished(e) \/ Blamed'
  PROVE  IInv'
<1>1. /\ chan \in Seq(Event) /\ e \in Seq(Event)
      /\ counted \in Nat /\ counted' \in Nat /\ Known \in Nat
      /\ InTransit(chan, Known, counted)
  BY Types, SizeAssumption DEF IInv, Burst
<1>2. chan' \in Seq(Event) /\ InTransit(chan', Known, counted')
  BY <1>1, BurstInTransit
<1>3. /\ HasFailed(chan') <=> HasFailed(chan) \/ HasFailed(e)
      /\ HasFinished(chan') <=> HasFinished(chan) \/ HasFinished(e)
  BY <1>1, HoldsBoth
<1>4. Blamed => Blamed'
  BY DEF Blamed
<1>5. TypeOK'
  BY <1>2 DEF IInv, TypeOK
<1>6. InTransit(chan', Known', counted')
  BY <1>2 DEF Known
<1>7. Stages' /\ CompleteMeansAll'
  BY DEF IInv, Stages, CompleteMeansAll
<1>8. LastWord'
  BY <1>3 DEF IInv, LastWord
<1>9. FailuresBlamed'
  <2>1. HasFailed(chan') \/ load'.failed \/ waiter'.result = "err" => Blamed'
    BY <1>3, <1>4 DEF IInv, FailuresBlamed
  <2>2. ASSUME sent' \/ body' = "gone"
        PROVE  HasFinished(chan') \/ load'.finished \/ Blamed'
    BY <1>3, <1>4, <2>2 DEF IInv, FailuresBlamed
  <2> QED
    BY <2>1, <2>2 DEF FailuresBlamed
<1> QED
  BY <1>5, <1>6, <1>7, <1>8, <1>9 DEF IInv

LEMMA FrameKeeps ==
  ASSUME IInv, Frame
  PROVE  IInv'
<1>1. /\ body = "live" /\ handle = "held" /\ sent = FALSE
      /\ counted \in Nat /\ counted <= Size /\ sent \in BOOLEAN
      /\ broken \in BOOLEAN
      /\ UNCHANGED << protocol, consumer, body, shutdown, handle, load, waiter,
                      broken >>
  BY Types DEF choice, Frame, IInv, TypeOK
<1>2. PICK n \in 1..(Size - counted), due \in BOOLEAN, eos \in BOOLEAN :
        /\ eos => counted + n = Size
        /\ counted' = counted + n
        /\ sent' = eos
        /\ chan' = chan \o FrameEvents(counted + n, due, eos, FALSE)
  BY <1>1 DEF Frame, Send, Counted
<1>3. counted' \in 0..Size /\ counted <= counted' /\ counted' \in Nat
  BY <1>1, <1>2, SizeAssumption
<1> DEFINE e == FrameEvents(counted + n, due, eos, FALSE)
<1>4. /\ Burst(e, counted') /\ ~HasFailed(e)
      /\ HasFinished(e) <=> eos
  BY <1>2, <1>3, FrameBurst
<1> HIDE DEF e
<1>5. chan' = chan \o e
  BY <1>2 DEF e
<1> QED
  BY <1>1, <1>2, <1>3, <1>4, <1>5, BurstKeeps

LEMMA EndOfBodyKeeps ==
  ASSUME IInv, EndOfBody
  PROVE  IInv'
<1>1. /\ body = "live" /\ handle = "held" /\ counted = Size
      /\ body' = "gone" /\ sent' = TRUE
      /\ chan' = chan \o EndEvents(counted, sent)
      /\ UNCHANGED << protocol, consumer, counted, shutdown, handle, load,
                      waiter, broken >>
  BY DEF choice, EndOfBody, Send
<1>2. /\ counted' \in 0..Size /\ counted' = Size /\ counted <= counted'
      /\ broken \in BOOLEAN /\ sent \in BOOLEAN
  BY <1>1, SizeAssumption DEF IInv, TypeOK
<1> DEFINE e == EndEvents(counted, sent)
<1>3. /\ Burst(e, counted') /\ ~HasFailed(e)
      /\ sent \/ HasFinished(e)
  BY <1>1, <1>2, CountBursts, BurstHolds, SizeAssumption DEF EndEvents
<1> HIDE DEF e
<1>4. chan' = chan \o e
  BY <1>1 DEF e
<1> QED
  BY <1>1, <1>2, <1>3, <1>4, BurstKeeps

LEMMA BodyErrorKeeps ==
  ASSUME IInv, BodyError
  PROVE  IInv'
<1>1. /\ body = "live" /\ handle = "held"
      /\ body' = "gone" /\ sent' = TRUE
      /\ chan' = chan \o ErrorEvents(sent)
      /\ broken' = (broken \/ ~shutdown)
      /\ UNCHANGED << protocol, consumer, counted, shutdown, handle, load,
                      waiter >>
  BY DEF choice, BodyError, Send, Blame
<1>2. /\ counted' \in 0..Size /\ counted <= counted' /\ counted \in Nat
      /\ broken \in BOOLEAN /\ shutdown \in BOOLEAN
  BY <1>1, Types, SizeAssumption DEF IInv, TypeOK
<1>3. /\ broken' \in BOOLEAN /\ (broken => broken') /\ Blamed'
  BY <1>1, <1>2 DEF Blamed
<1> DEFINE e == ErrorEvents(sent)
<1>4. /\ Burst(e, counted') /\ ~HasFinished(e)
      /\ HasFailed(e) => ~sent
  BY <1>1, <1>2, FailedBurst, CountBursts, BurstHolds DEF ErrorEvents
<1> HIDE DEF e
<1>5. chan' = chan \o e
  BY <1>1 DEF e
<1> QED
  BY <1>1, <1>2, <1>3, <1>4, <1>5, BurstKeeps

(***************************************************************************)
(* The body is dropped because nobody listens, or because of a shutdown.   *)
(***************************************************************************)
LEMMA BodyDroppedKeeps ==
  ASSUME IInv, PollClosed \/ ConsumerShutdown
  PROVE  IInv'
<1>1. /\ body = "live" /\ body' = "gone"
      /\ handle # "held" \/ shutdown
      /\ UNCHANGED << protocol, consumer, counted, sent, chan, shutdown,
                      handle, load, waiter, broken >>
  BY DEF choice, PollClosed, ConsumerShutdown
<1>2. TypeOK' /\ Stages' /\ LastWord' /\ CompleteMeansAll'
  BY <1>1 DEF IInv, TypeOK, Stages, LastWord, CompleteMeansAll
<1>3. InTransit(chan', Known', counted')
  BY <1>1 DEF IInv, Known
<1>4. FailuresBlamed'
  BY <1>1 DEF IInv, FailuresBlamed, Blamed
<1> QED
  BY <1>2, <1>3, <1>4 DEF IInv

-----------------------------------------------------------------------------
(* The consumers.                                                          *)

(***************************************************************************)
(* What the loop takes: a count that only grows, the whole of it if the    *)
(* transfer completed, a failure only if there is something to blame, and  *)
(* no outcome after the first.                                             *)
(***************************************************************************)
LEMMA TakenFacts ==
  ASSUME IInv, Update \/ Stop \/ Abandon
  PROVE  /\ load' \in LoadRecord
         /\ load.total <= load'.total /\ load'.total <= counted
         /\ load'.finished => load'.total = Size /\ sent
         /\ HasFinished(chan) => load'.finished \/ handle' = "dropped"
         /\ load.finished => load'.finished /\ (load'.failed => load.failed)
         /\ load.failed => load'.failed
         /\ load'.failed => Blamed
<1>1. consumer = "load" /\ handle = "held"
  BY DEF Update, Stop, Abandon, LoopTakes
<1>2. /\ chan \in Seq(Event) /\ load \in LoadRecord /\ load.total \in Nat
      /\ counted \in Nat /\ counted <= Size
      /\ InTransit(chan, load.total, counted)
  BY <1>1, Types DEF IInv, TypeOK, Known
<1>3. /\ load.finished => load.total = Size /\ sent /\ ~HasFailed(chan)
      /\ HasFinished(chan) => sent
      /\ HasFailed(chan) \/ load.failed => Blamed
      /\ body = "gone" => HasFinished(chan) \/ load.finished \/ Blamed
  BY <1>1 DEF IInv, CompleteMeansAll, LastWord, FailuresBlamed
<1> DEFINE newest == NewestTotal(load.total, chan)
<1>4. /\ newest \in Nat /\ load.total <= newest /\ newest <= counted
      /\ HasFinished(chan) => newest = Size
  BY <1>2, AllTaken
<1>5. load.finished => newest = Size
  BY <1>2, <1>3, <1>4, SizeAssumption
<1> HIDE DEF newest
<1>6. CASE Update
  <2>1. load' = Drain(load, chan, body = "gone")
    BY <1>6 DEF Update, LoopTakes
  <2>2. /\ load' \in LoadRecord /\ load'.total = newest
        /\ load'.finished <=> load.finished \/ HasFinished(chan)
        /\ load'.failed => load.failed \/ HasFailed(chan)
             \/ (body = "gone" /\ ~load.finished /\ ~HasFinished(chan))
        /\ load.failed => load'.failed
    BY <1>2, <1>4, <2>1
       DEF Drain, ApplyAll, OnDisconnected, LoadRecord, HasFinished, HasFailed,
           newest
  <2> QED
    BY <1>2, <1>3, <1>4, <1>5, <2>2
<1>7. CASE Stop
  <2>1. load' = StopLoad(load, chan)
    BY <1>7 DEF Stop, LoopTakes
  <2>2. /\ load' \in LoadRecord /\ load'.total = newest
        /\ load'.finished <=> load.finished \/ HasFinished(chan)
        /\ load'.failed => load.failed \/ HasFailed(chan)
        /\ load.failed => load'.failed
    BY <1>2, <1>4, <2>1
       DEF StopLoad, Drain, ApplyAll, OnDisconnected, LoadRecord, HasFinished,
           HasFailed, newest
  <2> QED
    BY <1>2, <1>3, <1>4, <1>5, <2>2
<1>8. CASE Abandon
  <2>1. load' = load /\ handle' = "dropped"
    BY <1>8 DEF Abandon, LoopTakes
  <2> QED
    BY <1>2, <1>3, <2>1 DEF InTransit
<1> QED
  BY <1>6, <1>7, <1>8

LEMMA LoopKeeps ==
  ASSUME IInv, Update \/ Stop \/ Abandon
  PROVE  IInv'
<1>1. /\ consumer = "load" /\ handle = "held"
      /\ handle' \in {"held", "stopped", "dropped"}
      /\ chan' = << >>
      /\ UNCHANGED << protocol, consumer, body, counted, sent, shutdown,
                      waiter, broken >>
  BY DEF choice, Update, Stop, Abandon, LoopTakes
<1>2. /\ load' \in LoadRecord /\ load'.total \in Nat
      /\ load'.total <= counted
      /\ load'.finished => load'.total = Size /\ sent
      /\ HasFinished(chan) => load'.finished \/ handle' = "dropped"
      /\ load.finished => load'.finished
      /\ load'.failed => Blamed
  BY TakenFacts DEF LoadRecord
<1>3. /\ chan' \in Seq(Event) /\ Len(chan') = 0
      /\ ~HasFailed(chan') /\ ~HasFinished(chan')
  BY <1>1, EmptySeq, HoldsNothing
<1>4. TypeOK'
  BY <1>1, <1>2, <1>3 DEF IInv, TypeOK
<1>5. Stages' /\ CompleteMeansAll'
  BY <1>1, <1>2 DEF IInv, Stages, CompleteMeansAll
<1>6. InTransit(chan', Known', counted')
  BY <1>1, <1>2, <1>3 DEF InTransit, Ascending, EndsInFull, Known
<1>7. LastWord'
  BY <1>1, <1>2, <1>3 DEF LastWord
<1>8. FailuresBlamed'
  BY <1>1, <1>2, <1>3 DEF IInv, FailuresBlamed, Blamed
<1> QED
  BY <1>4, <1>5, <1>6, <1>7, <1>8 DEF IInv

(***************************************************************************)
(* The waiter remembers a count, or has its answer.                        *)
(***************************************************************************)
LEMMA WaiterHearsKeeps ==
  ASSUME IInv, WaiterOnEvent
  PROVE  IInv'
<1> DEFINE e == Head(chan)
<1>1. /\ consumer = "waiter" /\ handle = "held" /\ chan # << >>
      /\ waiter' = IF IsByteCount(e) THEN [waiter EXCEPT !.total = e.total]
                   ELSE [waiter EXCEPT !.result =
                           IF IsFinished(e) THEN "ok" ELSE "err"]
      /\ handle' = IF IsByteCount(e) THEN "held" ELSE "dropped"
      /\ chan' = IF IsByteCount(e) THEN Tail(chan) ELSE << >>
      /\ UNCHANGED << protocol, consumer, body, counted, sent, shutdown, load,
                      broken >>
  BY DEF choice, WaiterOnEvent
<1>2. /\ chan \in Seq(Event) /\ counted \in Nat
      /\ waiter \in WaiterRecord /\ waiter.total \in Nat
      /\ Known = waiter.total /\ InTransit(chan, waiter.total, counted)
      /\ waiter.result = "waiting" /\ load \in LoadRecord
  BY <1>1, Types DEF IInv, TypeOK, Known, Stages
<1>3. /\ e \in Event /\ Tail(chan) \in Seq(Event)
      /\ IsFinished(e) => waiter.total = Size
      /\ IsByteCount(e) => /\ e.total \in Nat /\ waiter.total <= e.total
                           /\ InTransit(Tail(chan), e.total, counted)
  BY <1>1, <1>2, HeadTaken
<1>4. /\ HasFailed(chan) <=> IsFailed(e) \/ HasFailed(Tail(chan))
      /\ HasFinished(chan) <=> IsFinished(e) \/ HasFinished(Tail(chan))
  BY <1>1, <1>2, HoldsHead
<1>5. /\ IsByteCount(e) => ~IsFinished(e) /\ ~IsFailed(e)
      /\ IsByteCount(e) \/ IsFinished(e) \/ IsFailed(e)
  BY <1>3 DEF Event, EventKind, IsByteCount, IsFinished, IsFailed
<1> HIDE DEF e
<1>6. CASE IsByteCount(e)
  <2>1. /\ waiter' \in WaiterRecord /\ waiter'.total = e.total
        /\ waiter'.result = "waiting" /\ handle' = "held"
        /\ chan' = Tail(chan)
        /\ HasFailed(chan') <=> HasFailed(chan)
        /\ HasFinished(chan') <=> HasFinished(chan)
    BY <1>1, <1>2, <1>3, <1>4, <1>5, <1>6 DEF WaiterRecord
  <2>2. TypeOK' /\ Stages'
    BY <1>1, <1>3, <2>1 DEF IInv, TypeOK, Stages
  <2>3. InTransit(chan', Known', counted')
    BY <1>1, <1>3, <1>6, <2>1 DEF Known
  <2>4. LastWord' /\ CompleteMeansAll'
    BY <1>1, <2>1 DEF IInv, LastWord, CompleteMeansAll
  <2>5. FailuresBlamed'
    BY <1>1, <1>2, <2>1 DEF IInv, FailuresBlamed, Blamed
  <2> QED
    BY <2>2, <2>3, <2>4, <2>5 DEF IInv
<1>7. CASE ~IsByteCount(e)
  <2>1. /\ waiter' \in WaiterRecord /\ waiter'.total = waiter.total
        /\ waiter'.result = IF IsFinished(e) THEN "ok" ELSE "err"
        /\ handle' = "dropped" /\ chan' = << >>
    BY <1>1, <1>2, <1>7 DEF WaiterRecord
  <2>2. /\ chan' \in Seq(Event) /\ Len(chan') = 0
        /\ ~HasFailed(chan') /\ ~HasFinished(chan')
    BY <2>1, EmptySeq, HoldsNothing
  <2>3. TypeOK' /\ Stages'
    BY <1>1, <2>1, <2>2 DEF IInv, TypeOK, Stages
  <2>4. InTransit(chan', Known', counted')
    BY <1>1, <1>2, <2>1, <2>2 DEF InTransit, Ascending, EndsInFull, Known
  <2>5. LastWord' /\ CompleteMeansAll'
    BY <1>1, <1>3, <2>1, <2>2 DEF IInv, LastWord, CompleteMeansAll
  <2>6. FailuresBlamed'
    BY <1>1, <1>4, <1>5, <1>7, <2>1, <2>2 DEF IInv, FailuresBlamed, Blamed
  <2> QED
    BY <2>3, <2>4, <2>5, <2>6 DEF IInv
<1> QED
  BY <1>6, <1>7

LEMMA WaiterOnCloseKeeps ==
  ASSUME IInv, WaiterOnClose
  PROVE  IInv'
<1>1. /\ consumer = "waiter" /\ handle = "held" /\ chan = << >>
      /\ body = "gone" /\ waiter' = [waiter EXCEPT !.result = "err"]
      /\ handle' = "dropped"
      /\ UNCHANGED << protocol, consumer, body, counted, sent, chan, shutdown,
                      load, broken >>
  BY DEF choice, WaiterOnClose
<1>2. /\ waiter \in WaiterRecord /\ ~load.finished
      /\ ~HasFailed(chan) /\ ~HasFinished(chan)
  <2>1. ~HasFailed(<< >>) /\ ~HasFinished(<< >>) /\ ~FreshLoad.finished
    BY HoldsNothing DEF FreshLoad
  <2> QED
    BY <1>1, <2>1 DEF IInv, TypeOK, Stages
<1>3. /\ waiter' \in WaiterRecord /\ waiter'.total = waiter.total
      /\ waiter'.result = "err"
  BY <1>1, <1>2 DEF WaiterRecord
<1>4. Blamed'
  BY <1>1, <1>2 DEF IInv, FailuresBlamed, Blamed
<1>5. TypeOK' /\ Stages' /\ LastWord' /\ CompleteMeansAll'
  BY <1>1, <1>2, <1>3 DEF IInv, TypeOK, Stages, LastWord, CompleteMeansAll
<1>6. InTransit(chan', Known', counted')
  BY <1>1, <1>3 DEF IInv, Known
<1>7. FailuresBlamed'
  BY <1>4 DEF FailuresBlamed
<1> QED
  BY <1>5, <1>6, <1>7 DEF IInv

-----------------------------------------------------------------------------
(* The theorems.                                                           *)

LEMMA NextInvariant == IInv /\ [Next]_vars => IInv'
<1> SUFFICES ASSUME IInv, [Next]_vars PROVE IInv'
  OBVIOUS
<1>1. CASE Shutdown
  BY <1>1, ShutdownKeeps
<1>2. CASE Peer
  BY <1>2, RespondKeeps, RefuseKeeps, FrameKeeps, EndOfBodyKeeps, BodyErrorKeeps
     DEF Peer
<1>3. CASE PollClosed \/ ConsumerShutdown
  BY <1>3, BodyDroppedKeeps
<1>4. CASE Update \/ Stop \/ Abandon
  BY <1>4, LoopKeeps
<1>5. CASE WaiterOnEvent \/ WaiterOnClose
  BY <1>5, WaiterHearsKeeps, WaiterOnCloseKeeps
<1>6. CASE UNCHANGED vars
  BY <1>6
     DEF vars, IInv, TypeOK, Stages, Known, LastWord, FailuresBlamed, Blamed,
         CompleteMeansAll
<1> QED
  BY <1>1, <1>2, <1>3, <1>4, <1>5, <1>6 DEF Next

LEMMA Invariance == Spec => []IInv
<1>1. IInv /\ [Next]_vars => IInv'
  BY NextInvariant
<1> QED
  BY <1>1, InitInvariant, PTL DEF Spec

(***************************************************************************)
(* Type correctness: in particular a body never counts past its size.      *)
(***************************************************************************)
THEOREM TypeCorrect == Spec => []TypeOK
<1>1. IInv => TypeOK
  BY DEF IInv
<1> QED
  BY <1>1, Invariance, PTL

(***************************************************************************)
(* For any size and any way of cutting the body into frames: a load or a   *)
(* waiter that is told the transfer completed was told of every byte.      *)
(***************************************************************************)
THEOREM CompleteIsAll == Spec => []CompleteMeansAll
<1>1. IInv => CompleteMeansAll
  BY DEF IInv
<1> QED
  BY <1>1, Invariance, PTL

(***************************************************************************)
(* A download is reported as failed only if it went wrong, or after a      *)
(* shutdown.                                                               *)
(***************************************************************************)
THEOREM FailuresAreGenuine == Spec => []FailureIsGenuine
<1>1. IInv => FailureIsGenuine
  BY DEF IInv, FailuresBlamed, Blamed, FailureIsGenuine
<1> QED
  BY <1>1, Invariance, PTL

(***************************************************************************)
(* Only the loop touches a load, and a handle is offered once.             *)
(***************************************************************************)
LEMMA LoadStep ==
  ASSUME IInv, [Next]_vars
  PROVE  \/ UNCHANGED << handle, load >>
         \/ handle = "none" /\ handle' = "held" /\ UNCHANGED load
         \/ handle = "held" /\ handle' \in {"held", "dropped"} /\ UNCHANGED load
         \/ Update \/ Stop \/ Abandon
<1>1. CASE Respond
  BY <1>1 DEF Respond, IInv, Stages
<1>2. CASE WaiterOnEvent \/ WaiterOnClose
  BY <1>2 DEF WaiterOnEvent, WaiterOnClose
<1>3. CASE Shutdown \/ Refuse \/ Frame \/ EndOfBody \/ BodyError \/ PollClosed
             \/ ConsumerShutdown \/ UNCHANGED vars
  BY <1>3 DEF Shutdown, Refuse, Frame, EndOfBody, BodyError, PollClosed,
              ConsumerShutdown, vars
<1> QED
  BY <1>1, <1>2, <1>3 DEF Next, Peer

(***************************************************************************)
(* The loop's view of a download load implements LoadContract: its counter *)
(* never runs backwards, its outcome is decided once, and nothing changes  *)
(* after the loop let go of it.                                            *)
(***************************************************************************)
THEOREM DownloadRefinesContract == Spec => ImplementsContract
<1>1. Init => Contract!Init
  BY DEF Init, FreshLoad, Contract!Init
<1>2. ASSUME IInv, [Next]_vars
      PROVE  Contract!Next \/ UNCHANGED Contract!vars
  <2> USE DEF Contract!Next, Contract!Offer, Contract!Observe, Contract!Phase,
              Contract!vars
  <2>1. CASE UNCHANGED << handle, load >>
    BY <2>1
  <2>2. CASE handle = "none" /\ handle' = "held" /\ UNCHANGED load
    BY <2>2
  <2>3. CASE handle = "held" /\ handle' \in {"held", "dropped"} /\ UNCHANGED load
    <3>1. load'.total >= load.total
      BY <1>2, <2>3, Types DEF IInv
    <3> QED
      BY <2>3, <3>1
  <2>4. CASE Update \/ Stop \/ Abandon
    <3>1. /\ load.finished => load'.finished /\ (load'.failed => load.failed)
          /\ load.failed => load'.failed
          /\ load.total <= load'.total
          /\ load.total \in Nat /\ load'.total \in Nat
      BY <1>2, <2>4, TakenFacts, Types DEF IInv, LoadRecord
    <3>2. handle = "held" /\ handle' \in {"held", "stopped", "dropped"}
      BY <2>4 DEF Update, Stop, Abandon, LoopTakes
    <3>3. load'.total >= load.total
      BY <3>1
    <3> QED
      BY <3>1, <3>2, <3>3
  <2> QED
    BY <1>2, <2>1, <2>2, <2>3, <2>4, LoadStep
<1>3. IInv /\ [Next]_vars => [Contract!Next]_(Contract!vars)
  BY <1>2
<1> QED
  BY <1>1, <1>3, Invariance, PTL DEF Spec, ImplementsContract, Contract!Spec
=============================================================================
