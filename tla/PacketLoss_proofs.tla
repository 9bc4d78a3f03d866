-------------------------- MODULE PacketLoss_proofs --------------------------
(***************************************************************************)
(* Proofs about PacketLoss, for every number of messages and batch size:   *)
(* the count reported is that of the distinct messages that came back, and *)
(* messages are left unsent only by a test that was cut short.             *)
(***************************************************************************)
EXTENDS PacketLoss, FiniteSetTheorems, SequenceTheorems, TLAPS

IsMessage(e) == e.kind = "message"

Event == {Open, PeerFailed} \union {Returned(m) : m \in Message}

Notice == LoadDirection \union {"all sent", "load error"}

Queues ==
  /\ events \in Seq(Event) /\ notices \in Seq(Notice)
  /\ NumPackets <= Len(tracker)

(***************************************************************************)
(* The channel opens once, and until the loop has handled that nothing is  *)
(* sent: so the number of the next message is never set back.              *)
(***************************************************************************)
OpensOnce ==
  /\ sender.at = "none" => sender.next = 0
  /\ channel \in {"new", "opening"} => sender.at = "none"
  /\ \A i \in 1..Len(events) :
       events[i] = Open =>
         sender.at = "none" /\ channel \notin {"new", "opening"}
  /\ \A i, j \in 1..Len(events) :
       events[i] = Open /\ events[j] = Open => i = j

(***************************************************************************)
(* Every message under way, queued or back was sent, and each is in one of *)
(* these places only.                                                      *)
(***************************************************************************)
Numbered ==
  /\ \A m \in flight \union back : m < sender.next
  /\ \A i \in 1..Len(events) :
       IsMessage(events[i]) =>
         /\ events[i].message < sender.next
         /\ events[i].message \notin flight \union back
  /\ \A i, j \in 1..Len(events) :
       IsMessage(events[i]) /\ IsMessage(events[j])
         /\ events[i].message = events[j].message => i = j
  /\ flight \intersect back = {}

(***************************************************************************)
(* That everything was sent is said only by a sender at its end.           *)
(***************************************************************************)
AtTheEnd == sender.at = "ended" /\ AllSent(sender.next)

Truthful ==
  /\ sender.at = "settling" => AllSent(sender.next)
  /\ \A i \in 1..Len(notices) : notices[i] = "all sent" => AtTheEnd
  /\ why = "all sent" => AtTheEnd
  /\ pc \in {"ending", "done"} =>
       why \in {"peer failed", "all sent", "load error", "shutdown"}

(***************************************************************************)
(* TypeOK without the queues, which Queues describes as sequences.         *)
(***************************************************************************)
Fields ==
  /\ pc \in {"setup", "running", "ending", "done", "error"}
  /\ why \in {"none", "setup", "peer failed", "all sent", "load error",
              "shutdown"}
  /\ shutdown \in BOOLEAN
  /\ channel \in {"new", "opening", "open", "closed"} /\ failures \in 0..2
  /\ loads \in [LoadDirection ->
                  {"opening", "up", "refused", "held", "stopped"}]
  /\ sender \in [at : {"none", "sending", "pausing", "settling", "ended"},
                 next : 0..NumPackets, stop : 0..NumPackets]
  /\ flight \subseteq Message /\ back \subseteq Message
  /\ tracker \in Seq(BOOLEAN)

IInv ==
  Fields /\ Queues /\ OpensOnce /\ Numbered /\ Truthful /\ CountIsDistinct

-----------------------------------------------------------------------------
(* Sequences and counts.                                                   *)

(***************************************************************************)
(* What appending to a queue leaves in it.                                 *)
(***************************************************************************)
LEMMA Appending ==
  ASSUME NEW S, NEW q \in Seq(S), NEW e \in S, NEW r, r = Append(q, e)
  PROVE  /\ r \in Seq(S) /\ Len(r) = Len(q) + 1
         /\ \A i \in 1..Len(q) : r[i] = q[i]
         /\ r[Len(q) + 1] = e
         /\ \A i \in 1..Len(r) : i \in 1..Len(q) \/ i = Len(q) + 1
OBVIOUS

(***************************************************************************)
(* What taking the first of a queue leaves in it.                          *)
(***************************************************************************)
LEMMA Removing ==
  ASSUME NEW S, NEW q \in Seq(S), q # << >>
  PROVE  /\ Tail(q) \in Seq(S) /\ Len(Tail(q)) = Len(q) - 1
         /\ Len(q) >= 1 /\ Head(q) = q[1] /\ Head(q) \in S
         /\ \A i \in 1..Len(Tail(q)) : Tail(q)[i] = q[i + 1]
OBVIOUS

(***************************************************************************)
(* The elements of a queue of events are those of its indices.             *)
(***************************************************************************)
LEMMA Elements ==
  ASSUME NEW S, NEW q \in Seq(S)
  PROVE  ToSet(q) \subseteq S
BY DEF ToSet

(***************************************************************************)
(* The three kinds of events are told apart.                               *)
(***************************************************************************)
LEMMA EventKinds ==
  /\ ~IsMessage(Open) /\ ~IsMessage(PeerFailed) /\ Open # PeerFailed
  /\ \A m \in Message : /\ IsMessage(Returned(m)) /\ Returned(m).message = m
                        /\ Returned(m) # Open /\ Returned(m) \in Event
  /\ Open \in Event /\ PeerFailed \in Event
  /\ \A e \in Event : IsMessage(e) => e.message \in Message
  /\ \A e \in Event :
       e \in {Open, PeerFailed} \union [kind : {"message"}, message : Message]
<1>1. /\ Open.kind = "open" /\ PeerFailed.kind = "failed"
      /\ \A m : Returned(m).kind = "message" /\ Returned(m).message = m
  BY DEF Open, PeerFailed, Returned
<1>2. \A m \in Message :
        Returned(m) \in [kind : {"message"}, message : Message]
  BY DEF Returned
<1>3. ~IsMessage(Open) /\ ~IsMessage(PeerFailed) /\ Open # PeerFailed
  BY <1>1 DEF IsMessage
<1>4. \A m \in Message : IsMessage(Returned(m)) /\ Returned(m) # Open
  BY <1>1 DEF IsMessage
<1> QED
  BY <1>1, <1>2, <1>3, <1>4 DEF Event

(***************************************************************************)
(* What joining two sequences leaves of each.                              *)
(***************************************************************************)
LEMMA Joining ==
  ASSUME NEW V, NEW p \in Seq(V), NEW q \in Seq(V)
  PROVE  /\ p \o q \in Seq(V) /\ Len(p \o q) = Len(p) + Len(q)
         /\ \A i \in 1..Len(p) : (p \o q)[i] = p[i]
         /\ \A i \in 1..Len(q) : (p \o q)[Len(p) + i] = q[i]
<1>1. p \o q \in Seq(V)
  OBVIOUS
<1>2. Len(p \o q) = Len(p) + Len(q)
  OBVIOUS
<1>3. \A i \in 1..Len(p) : (p \o q)[i] = p[i]
  OBVIOUS
<1>4. \A i \in 1..Len(q) : (p \o q)[Len(p) + i] = q[i]
  OBVIOUS
<1> QED
  BY <1>1, <1>2, <1>3, <1>4

(***************************************************************************)
(* Inserting an element moves those behind it by one.                      *)
(***************************************************************************)
LEMMA Inserting ==
  ASSUME NEW V, NEW e \in V, NEW s \in Seq(V), NEW m \in Nat, m <= Len(s),
         NEW t, t = InsertAt(s, m + 1, e)
  PROVE  /\ t \in Seq(V) /\ Len(t) = Len(s) + 1 /\ t[m + 1] = e
         /\ \A i \in 1..m : t[i] = s[i]
         /\ \A i \in (m + 2)..(Len(s) + 1) : t[i] = s[i - 1]
<1>1. t = (SubSeq(s, 1, m) \o << e >>) \o SubSeq(s, m + 1, Len(s))
  <2>1. (m + 1) - 1 = m
    OBVIOUS
  <2> QED
    BY <2>1, Zenon DEF InsertAt
<1>2. PICK front, rest :
        /\ front = SubSeq(s, 1, m) /\ rest = SubSeq(s, m + 1, Len(s))
        /\ t = (front \o << e >>) \o rest
  BY <1>1, Zenon
<1>3. front \in Seq(V) /\ Len(front) = m /\ \A i \in 1..m : front[i] = s[i]
  BY <1>2
<1>4. /\ rest \in Seq(V) /\ Len(rest) = Len(s) - m
      /\ \A i \in 1..(Len(s) - m) : rest[i] = s[m + i]
  BY <1>2
<1>5. PICK upto :
        /\ upto \in Seq(V) /\ Len(upto) = m + 1 /\ upto[m + 1] = e
        /\ \A i \in 1..m : upto[i] = s[i]
        /\ t = upto \o rest
  <2>1. t = (front \o << e >>) \o rest
    BY <1>2
  <2>2. /\ front \o << e >> \in Seq(V) /\ Len(front \o << e >>) = m + 1
        /\ (front \o << e >>)[m + 1] = e
        /\ \A i \in 1..m : (front \o << e >>)[i] = s[i]
    BY <1>3
  <2> QED
    BY <2>1, <2>2, Zenon
<1>6. /\ t \in Seq(V) /\ Len(t) = Len(upto) + Len(rest)
      /\ \A i \in 1..Len(upto) : t[i] = upto[i]
      /\ \A i \in 1..Len(rest) : t[Len(upto) + i] = rest[i]
  <2>1. /\ upto \o rest \in Seq(V)
        /\ Len(upto \o rest) = Len(upto) + Len(rest)
        /\ \A i \in 1..Len(upto) : (upto \o rest)[i] = upto[i]
        /\ \A i \in 1..Len(rest) : (upto \o rest)[Len(upto) + i] = rest[i]
    <3>1. upto \in Seq(V) /\ rest \in Seq(V)
      BY <1>4, <1>5
    <3> QED
      BY <3>1, Joining
  <2>2. t = upto \o rest
    BY <1>5
  <2> QED
    BY <2>1, <2>2, Zenon
<1>7. Len(s) \in Nat
  OBVIOUS
<1>8. ASSUME NEW i \in (m + 2)..(Len(s) + 1)
      PROVE  t[i] = s[i - 1]
  <2> DEFINE k == i - (m + 1)
  <2>1. /\ k \in 1..(Len(s) - m) /\ k \in 1..Len(rest)
        /\ i = Len(upto) + k /\ m + k = i - 1
    BY <1>4, <1>5, <1>7
  <2> HIDE DEF k
  <2> QED
    BY <1>4, <1>6, <2>1, Zenon
<1>9. Len(t) = Len(s) + 1 /\ \A i \in 1..(m + 1) : t[i] = upto[i]
  BY <1>4, <1>5, <1>6, <1>7
<1>10. t[m + 1] = e /\ \A i \in 1..m : t[i] = s[i]
  BY <1>5, <1>9
<1> QED
  BY <1>6, <1>8, <1>9, <1>10

(***************************************************************************)
(* Inserting TRUE moves the flags behind it and adds one to their count.   *)
(***************************************************************************)
LEMMA TrackingAddsOne ==
  ASSUME NEW s \in Seq(BOOLEAN), NEW m \in Nat, m <= Len(s)
  PROVE  /\ Tracked(s, m) \in Seq(BOOLEAN)
         /\ Len(Tracked(s, m)) = Len(s) + 1
         /\ Trues(Tracked(s, m)) = Trues(s) + 1
<1> DEFINE t == Tracked(s, m)
           n == Len(s)
<1>1. /\ t \in Seq(BOOLEAN) /\ Len(t) = n + 1 /\ t[m + 1] = TRUE
      /\ \A i \in 1..m : t[i] = s[i]
      /\ \A i \in (m + 2)..(n + 1) : t[i] = s[i - 1]
  <2>1. PICK flags, yes, u :
          /\ flags = BOOLEAN /\ yes = TRUE /\ u = t
          /\ yes \in flags /\ s \in Seq(flags) /\ u = InsertAt(s, m + 1, yes)
    BY Zenon DEF Tracked
  <2>2. /\ u \in Seq(flags) /\ Len(u) = Len(s) + 1 /\ u[m + 1] = yes
        /\ \A i \in 1..m : u[i] = s[i]
        /\ \A i \in (m + 2)..(Len(s) + 1) : u[i] = s[i - 1]
    <3>1. /\ yes \in flags /\ s \in Seq(flags) /\ m \in Nat /\ m <= Len(s)
          /\ u = InsertAt(s, m + 1, yes)
      BY <2>1
    <3>2. u \in Seq(flags) /\ Len(u) = Len(s) + 1 /\ u[m + 1] = yes
      BY <3>1, Inserting
    <3>3. \A i \in 1..m : u[i] = s[i]
      BY <3>1, Inserting
    <3>4. \A i \in (m + 2)..(Len(s) + 1) : u[i] = s[i - 1]
      BY <3>1, Inserting
    <3> QED
      BY <3>2, <3>3, <3>4
  <2> QED
    BY <2>1, <2>2, Zenon DEF n
<1>2. n \in Nat /\ DOMAIN s = 1..n /\ DOMAIN t = 1..(n + 1)
  <2>1. Len(t) = n + 1 /\ t \in Seq(BOOLEAN)
    BY <1>1
  <2> QED
    BY <2>1
<1> HIDE DEF t, n
<1> DEFINE S == {i \in 1..n : s[i]}
           T == {i \in 1..(n + 1) : t[i]} \ {m + 1}
           Moved(i) == IF i <= m THEN i ELSE i + 1
           f == [i \in S |-> Moved(i)]
<1>3. IsFiniteSet(S) /\ IsFiniteSet(T)
  <2>1. IsFiniteSet(1..n) /\ IsFiniteSet(1..(n + 1))
    BY <1>2, FS_Interval
  <2>2. S \in SUBSET (1..n) /\ T \in SUBSET (1..(n + 1))
    OBVIOUS
  <2> HIDE DEF S, T
  <2> QED
    BY <2>1, <2>2, FS_Subset
<1>4. f \in Bijection(S, T)
  <2>1. ASSUME NEW i \in S PROVE Moved(i) \in T
    <3>1. i \in 1..n /\ s[i]
      OBVIOUS
    <3>2. CASE i <= m
      <4>1. i \in 1..m /\ i \in 1..(n + 1) /\ i # m + 1 /\ Moved(i) = i
        BY <3>1, <3>2, <1>2
      <4>2. t[i] = s[i]
        BY <4>1, <1>1, Zenon
      <4> QED
        BY <3>1, <4>1, <4>2, Zenon
    <3>3. CASE ~(i <= m)
      <4>1. /\ i + 1 \in (m + 2)..(n + 1) /\ i + 1 \in 1..(n + 1)
            /\ i + 1 # m + 1 /\ Moved(i) = i + 1 /\ (i + 1) - 1 = i
        BY <3>1, <3>3, <1>2
      <4>2. t[i + 1] = s[i]
        BY <4>1, <1>1, Zenon
      <4> QED
        BY <3>1, <4>1, <4>2, Zenon
    <3> QED
      BY <3>2, <3>3
  <2>2. \A i, j \in S : Moved(i) = Moved(j) => i = j
    BY <1>2
  <2>3. ASSUME NEW k \in T PROVE \E i \in S : Moved(i) = k
    <3>1. k \in 1..(n + 1) /\ k # m + 1 /\ t[k]
      OBVIOUS
    <3>2. CASE k <= m
      <4>1. k \in 1..m /\ k \in 1..n /\ Moved(k) = k
        <5>1. m <= n
          BY DEF n
        <5> QED
          BY <5>1, <3>1, <3>2, <1>2
      <4>2. t[k] = s[k]
        BY <4>1, <1>1, Zenon
      <4> QED
        BY <3>1, <4>1, <4>2, Zenon
    <3>3. CASE ~(k <= m)
      <4>1. k \in (m + 2)..(n + 1) /\ k - 1 \in 1..n /\ Moved(k - 1) = k
        BY <3>1, <3>3, <1>2
      <4>2. t[k] = s[k - 1]
        BY <4>1, <1>1, Zenon
      <4> QED
        BY <3>1, <4>1, <4>2, Zenon
    <3> QED
      BY <3>2, <3>3
  <2> HIDE DEF Moved, S, T
  <2> QED
    BY <2>1, <2>2, <2>3 DEF Bijection, Injection, Surjection, IsInjective
<1>5. Cardinality(T) = Cardinality(S)
  <2>1. ExistsBijection(S, T)
    BY <1>4 DEF ExistsBijection
  <2> QED
    BY <1>3, <2>1, FS_Bijection
<1>6. {i \in DOMAIN t : t[i]} = T \union {m + 1}
  <2>1. m + 1 \in 1..(n + 1)
    BY <1>2 DEF n
  <2> QED
    BY <1>1, <1>2, <2>1, Zenon
<1>7. {i \in DOMAIN s : s[i]} = S
  BY <1>2, Zenon
<1>8. Trues(s) = Cardinality(S) /\ Trues(t) = Cardinality(T \union {m + 1})
  BY <1>6, <1>7, Zenon DEF Trues
<1>9. m + 1 \notin T
  OBVIOUS
<1> HIDE DEF T, S
<1>10. Cardinality(T \union {m + 1}) = Cardinality(T) + 1
  BY <1>3, <1>9, FS_AddElement
<1>11. Trues(t) = Trues(s) + 1
  BY <1>5, <1>8, <1>10
<1> QED
  BY <1>1, <1>11, Zenon DEF t, n

-----------------------------------------------------------------------------
(* The steps.                                                              *)

(***************************************************************************)
(* The types of the queues' elements follow from those of the queues.      *)
(***************************************************************************)
LEMMA TypesFollow == Fields /\ Queues => TypeOK
<1> SUFFICES ASSUME Fields, Queues PROVE TypeOK
  OBVIOUS
<1>1. ToSet(events) \subseteq Event /\ ToSet(notices) \subseteq Notice
  BY Elements DEF Queues
<1>2. \A e \in ToSet(events) :
        e \in {Open, PeerFailed} \union [kind : {"message"}, message : Message]
  BY <1>1, EventKinds
<1> QED
  BY <1>1, <1>2 DEF Fields, TypeOK, Notice

(***************************************************************************)
(* Nothing is sent, queued or back at first, and every flag is FALSE.      *)
(***************************************************************************)
LEMMA InitHolds == Init => IInv
<1> SUFFICES ASSUME Init PROVE IInv
  OBVIOUS
<1> USE NumPacketsAssumption
<1>1. tracker \in Seq(BOOLEAN) /\ Len(tracker) = NumPackets
  BY DEF Init
<1>2. Fields /\ Queues
  <2>1. loads \in [LoadDirection ->
                    {"opening", "up", "refused", "held", "stopped"}]
    BY DEF Init
  <2>2. Fields
    <3>1. sender \in [at : {"none", "sending", "pausing", "settling", "ended"},
                      next : 0..NumPackets, stop : 0..NumPackets]
      BY DEF Init
    <3>2. flight \subseteq Message /\ back \subseteq Message
      BY DEF Init
    <3>3. failures \in 0..2
      BY DEF Init
    <3> QED
      BY <1>1, <2>1, <3>1, <3>2, <3>3, Zenon DEF Init, Fields
  <2>3. << >> \in Seq(Event) /\ << >> \in Seq(Notice)
    OBVIOUS
  <2>4. Queues
    BY <1>1, <2>3 DEF Init, Queues
  <2> QED
    BY <2>2, <2>4
<1>3. OpensOnce /\ Numbered /\ Truthful
  BY DEF Init, OpensOnce, Numbered, Truthful
<1>4. CountIsDistinct
  <2>1. {i \in DOMAIN tracker : tracker[i]} = {}
    BY DEF Init
  <2> QED
    BY <2>1, FS_EmptySet DEF Init, CountIsDistinct, Trues
<1> QED
  BY <1>2, <1>3, <1>4 DEF IInv

(***************************************************************************)
(* The data channel opens while nothing is sent yet, and once.             *)
(***************************************************************************)
LEMMA ChannelOpensKeeps ==
  ASSUME IInv, ChannelOpens
  PROVE  IInv'
<1> USE DEF IInv, ChannelOpens
<1>1. /\ events' \in Seq(Event) /\ Len(events') = Len(events) + 1
      /\ \A i \in 1..Len(events) : events'[i] = events[i]
      /\ events'[Len(events) + 1] = Open
      /\ \A i \in 1..Len(events') :
           i \in 1..Len(events) \/ i = Len(events) + 1
  <2>1. events \in Seq(Event) /\ Open \in Event
    BY EventKinds DEF Queues
  <2>2. events' = Append(events, Open)
    OBVIOUS
  <2> QED
    BY <2>1, <2>2, Appending, Zenon
<1>2. Len(events) \in Nat
  BY DEF Queues
<1>4. Fields' /\ Queues'
  <2>1. Fields'
    BY DEF Fields
  <2>2. Queues'
    BY <1>1 DEF Queues
  <2> QED
    BY <2>1, <2>2
<1>5. OpensOnce'
  <2>1. \A i \in 1..Len(events) : events'[i] # Open
    BY <1>1 DEF OpensOnce
  <2> QED
    BY <1>1, <1>2, <2>1 DEF OpensOnce
<1>6. Numbered'
  BY <1>1, <1>2, EventKinds DEF Numbered
<1>7. Truthful' /\ CountIsDistinct'
  BY DEF Truthful, AtTheEnd, CountIsDistinct
<1> QED
  BY <1>4, <1>5, <1>6, <1>7

(***************************************************************************)
(* A peer's failure joins the queue and changes nothing in it.             *)
(***************************************************************************)
LEMMA PeerFailsKeeps ==
  ASSUME IInv, PeerFails
  PROVE  IInv'
<1> USE DEF IInv, PeerFails
<1>1. /\ events' \in Seq(Event) /\ Len(events') = Len(events) + 1
      /\ \A i \in 1..Len(events) : events'[i] = events[i]
      /\ events'[Len(events) + 1] = PeerFailed
      /\ \A i \in 1..Len(events') :
           i \in 1..Len(events) \/ i = Len(events) + 1
  <2>1. events \in Seq(Event) /\ PeerFailed \in Event
    BY EventKinds DEF Queues
  <2>2. events' = Append(events, PeerFailed)
    OBVIOUS
  <2> QED
    BY <2>1, <2>2, Appending, Zenon
<1>2. Len(events) \in Nat
  BY DEF Queues
<1>4. Fields' /\ Queues'
  <2>1. Fields'
    <3>1. failures' \in 0..2
      <4>1. failures \in 0..2
        BY DEF Fields
      <4>2. failures > 0 /\ failures' = failures - 1
        OBVIOUS
      <4> HIDE DEF IInv, PeerFails
      <4> QED
        BY <4>1, <4>2
    <3> QED
      BY <3>1 DEF Fields
  <2>2. Queues'
    BY <1>1 DEF Queues
  <2> QED
    BY <2>1, <2>2
<1>5. OpensOnce'
  BY <1>1, <1>2, EventKinds DEF OpensOnce
<1>6. Numbered'
  BY <1>1, <1>2, EventKinds DEF Numbered
<1>7. Truthful' /\ CountIsDistinct'
  BY DEF Truthful, AtTheEnd, CountIsDistinct
<1> QED
  BY <1>4, <1>5, <1>6, <1>7

(***************************************************************************)
(* A message that returns leaves the network for the queue.                *)
(***************************************************************************)
LEMMA MessageReturnsKeeps ==
  ASSUME IInv, NEW m \in Message, MessageReturns(m)
  PROVE  IInv'
<1> USE DEF IInv, MessageReturns, worldVars
<1>1. /\ events' \in Seq(Event) /\ Len(events') = Len(events) + 1
      /\ \A i \in 1..Len(events) : events'[i] = events[i]
      /\ events'[Len(events) + 1] = Returned(m)
      /\ \A i \in 1..Len(events') :
           i \in 1..Len(events) \/ i = Len(events) + 1
  <2>1. events \in Seq(Event) /\ Returned(m) \in Event
    BY EventKinds DEF Queues
  <2>2. events' = Append(events, Returned(m))
    OBVIOUS
  <2> QED
    BY <2>1, <2>2, Appending, Zenon
<1>2. Len(events) \in Nat
  BY DEF Queues
<1>4. Fields' /\ Queues'
  <2>1. Fields'
    BY DEF Fields
  <2>2. Queues'
    BY <1>1 DEF Queues
  <2> QED
    BY <2>1, <2>2
<1>5. OpensOnce'
  BY <1>1, <1>2, EventKinds DEF OpensOnce
<1>6. Numbered'
  <2>1. m < sender.next /\ m \notin back /\ flight' = flight \ {m}
    BY DEF Numbered
  <2>2. \A i \in 1..Len(events) :
          IsMessage(events[i]) => events[i].message # m
    BY DEF Numbered
  <2>3. IsMessage(Returned(m)) /\ Returned(m).message = m
    BY EventKinds
  <2>4. (flight \intersect back = {})'
        /\ \A k \in flight' \union back' : k < sender'.next
    BY DEF Numbered
  <2>5. \A i \in 1..Len(events') :
          IsMessage(events'[i]) =>
            /\ events'[i].message < sender'.next
            /\ events'[i].message \notin flight' \union back'
    BY <1>1, <1>2, <2>1, <2>2, <2>3 DEF Numbered
  <2>6. \A i, j \in 1..Len(events') :
          IsMessage(events'[i]) /\ IsMessage(events'[j])
            /\ events'[i].message = events'[j].message => i = j
    BY <1>1, <1>2, <2>2, <2>3 DEF Numbered
  <2> QED
    BY <2>4, <2>5, <2>6 DEF Numbered, IsMessage
<1>7. Truthful' /\ CountIsDistinct'
  BY DEF Truthful, AtTheEnd, CountIsDistinct
<1> QED
  BY <1>4, <1>5, <1>6, <1>7

(***************************************************************************)
(* A connection that settles tells the loop, but not that all is sent.     *)
(***************************************************************************)
LEMMA LoadSettlesKeeps ==
  ASSUME IInv, NEW d \in LoadDirection, NEW how \in {"up", "refused"},
         LoadSettles(d, how)
  PROVE  IInv'
<1>1. PICK n : /\ n \in Notice /\ n # "all sent"
               /\ notices' = Append(notices, n)
  <2>1. d \in Notice /\ d # "all sent"
    BY DEF Notice, LoadDirection
  <2>2. "load error" \in Notice /\ "load error" # "all sent"
    BY DEF Notice
  <2> QED
    BY <2>1, <2>2 DEF LoadSettles
<1>2. /\ notices' \in Seq(Notice) /\ Len(notices') = Len(notices) + 1
      /\ \A i \in 1..Len(notices) : notices'[i] = notices[i]
      /\ notices'[Len(notices) + 1] = n
      /\ \A i \in 1..Len(notices') :
           i \in 1..Len(notices) \/ i = Len(notices) + 1
  <2>1. notices \in Seq(Notice)
    BY DEF IInv, Queues
  <2>2. n \in Notice
    BY <1>1
  <2>3. notices' = Append(notices, n)
    BY <1>1
  <2> QED
    BY <2>1, <2>2, <2>3, Appending
<1>3. UNCHANGED << pc, why, shutdown, channel, failures, events, sender, flight,
                   tracker, back >>
  BY DEF LoadSettles
<1>4. Fields'
  <2>1. loads' \in [LoadDirection ->
                      {"opening", "up", "refused", "held", "stopped"}]
    BY DEF LoadSettles, IInv, Fields
  <2> QED
    BY <1>3, <2>1 DEF IInv, Fields
<1>5. Queues'
  BY <1>2, <1>3 DEF IInv, Queues
<1>6. OpensOnce' /\ Numbered' /\ CountIsDistinct'
  BY <1>3 DEF IInv, OpensOnce, Numbered, CountIsDistinct
<1>7. Truthful'
  BY <1>1, <1>2, <1>3 DEF IInv, Truthful, AtTheEnd
<1> QED
  BY <1>4, <1>5, <1>6, <1>7 DEF IInv

(***************************************************************************)
(* A cancellation and a lost message leave both queues as they are.        *)
(***************************************************************************)
LEMMA ShutdownKeeps ==
  ASSUME IInv, Shutdown
  PROVE  IInv'
<1> USE DEF IInv, Shutdown
<1>1. Fields'
  BY DEF Fields
<1>2. Queues' /\ OpensOnce' /\ Numbered'
  BY DEF Queues, OpensOnce, Numbered
<1>3. Truthful' /\ CountIsDistinct'
  BY DEF Truthful, AtTheEnd, CountIsDistinct
<1> QED
  BY <1>1, <1>2, <1>3

(***************************************************************************)
(* A message that is lost only leaves the network.                         *)
(***************************************************************************)
LEMMA MessageLostKeeps ==
  ASSUME IInv, NEW m \in Message, MessageLost(m)
  PROVE  IInv'
<1> USE DEF IInv, MessageLost, worldVars
<1>1. Fields'
  BY DEF Fields
<1>2. Queues' /\ OpensOnce'
  BY DEF Queues, OpensOnce
<1>3. Numbered'
  BY DEF Numbered
<1>4. Truthful' /\ CountIsDistinct'
  BY DEF Truthful, AtTheEnd, CountIsDistinct
<1> QED
  BY <1>1, <1>2, <1>3, <1>4

-----------------------------------------------------------------------------
(* The sender.                                                             *)

SenderType ==
  [at : {"none", "sending", "pausing", "settling", "ended"},
   next : 0..NumPackets, stop : 0..NumPackets]

(***************************************************************************)
(* A batch ends at the end of the messages at the latest.                  *)
(***************************************************************************)
LEMMA BatchBound ==
  ASSUME NEW n \in 0..NumPackets
  PROVE  BatchEnd(n) \in 0..NumPackets
BY NumPacketsAssumption, BatchSizeAssumption DEF BatchEnd

(***************************************************************************)
(* A step of the sender alone that neither sends nor restarts.             *)
(***************************************************************************)
LEMMA SenderMoves ==
  ASSUME IInv, sender' \in SenderType,
         sender.at \notin {"none", "ended"}, sender'.at # "none",
         sender'.next = sender.next,
         sender'.at = "settling" => AllSent(sender.next),
         UNCHANGED << pc, why, worldVars, events, notices, flight, tracker,
                      back >>
  PROVE  IInv'
<1> USE DEF IInv, worldVars
<1>1. Fields'
  BY DEF Fields, SenderType
<1>2. Queues' /\ Numbered' /\ CountIsDistinct'
  BY DEF Queues, Numbered, CountIsDistinct
<1>3. OpensOnce'
  BY DEF OpensOnce
<1>4. Truthful'
  BY DEF Truthful, AtTheEnd
<1> QED
  BY <1>1, <1>2, <1>3, <1>4

(***************************************************************************)
(* The next message is a fresh one: every number used so far is smaller.   *)
(***************************************************************************)
LEMMA SendMessageKeeps ==
  ASSUME IInv, SendMessage
  PROVE  IInv'
<1> DEFINE n == sender.next
<1>1. /\ sender \in SenderType /\ sender.at = "sending" /\ n < sender.stop
      /\ n \in 0..NumPackets /\ sender.stop \in 0..NumPackets
  BY DEF IInv, Fields, SenderType, SendMessage
<1>2. /\ sender' \in SenderType /\ sender'.at = "sending"
      /\ sender'.next = n + 1
  BY <1>1, NumPacketsAssumption DEF SendMessage, SenderType
<1>3. n \in Message /\ flight' \subseteq flight \union {n}
  BY <1>1, NumPacketsAssumption DEF SendMessage, Message
<1>4. UNCHANGED << pc, why, shutdown, channel, failures, loads, events, notices,
                   tracker, back >>
  BY DEF SendMessage, worldVars
<1>5. Fields'
  BY <1>2, <1>3, <1>4 DEF IInv, Fields, SenderType
<1>6. Queues' /\ CountIsDistinct'
  BY <1>4 DEF IInv, Queues, CountIsDistinct
<1>7. OpensOnce'
  BY <1>1, <1>2, <1>4 DEF IInv, OpensOnce
<1>8. Numbered'
  <2> HIDE DEF n
  <2>1. /\ \A m \in flight \union back : m \in Int /\ m < n
        /\ \A i \in 1..Len(events) :
             IsMessage(events[i]) =>
               /\ events[i].message \in Int /\ events[i].message < n
               /\ events[i].message \notin flight \union back
        /\ \A i, j \in 1..Len(events) :
             IsMessage(events[i]) /\ IsMessage(events[j])
               /\ events[i].message = events[j].message => i = j
        /\ flight \intersect back = {}
    <3>1. \A i \in 1..Len(events) :
            IsMessage(events[i]) => events[i].message \in Message
      <4>1. \A i \in 1..Len(events) : events[i] \in Event
        BY DEF IInv, Queues
      <4> QED
        BY <4>1, EventKinds
    <3>2. flight \union back \subseteq Message
      BY DEF IInv, Fields
    <3>3. Message \subseteq Int
      BY NumPacketsAssumption DEF Message
    <3> QED
      BY <3>1, <3>2, <3>3 DEF IInv, Numbered, n
  <2>2. n \in Int /\ n \notin back /\ sender'.next = n + 1
    BY <1>1, <1>2, <2>1
  <2>3. \A m \in flight' \union back' : m < sender'.next
    BY <1>3, <1>4, <2>1, <2>2
  <2>4. \A i \in 1..Len(events') :
          IsMessage(events'[i]) =>
            /\ events'[i].message < sender'.next
            /\ events'[i].message \notin flight' \union back'
    BY <1>3, <1>4, <2>1, <2>2
  <2>5. (flight \intersect back = {})'
    BY <1>3, <1>4, <2>1, <2>2
  <2> QED
    BY <1>4, <2>1, <2>3, <2>4, <2>5 DEF Numbered, IsMessage
<1>9. Truthful'
  BY <1>1, <1>2, <1>4 DEF IInv, Truthful, AtTheEnd
<1> QED
  BY <1>5, <1>6, <1>7, <1>8, <1>9 DEF IInv

(***************************************************************************)
(* The sender settles only with everything sent.                           *)
(***************************************************************************)
LEMMA EndBatchKeeps ==
  ASSUME IInv, EndBatch
  PROVE  IInv'
<1>1. sender \in SenderType /\ sender.at = "sending"
  BY DEF IInv, Fields, SenderType, EndBatch
<1>2. AfterBatch(sender.next) \in {"settling", "pausing"}
  BY DEF AfterBatch
<1>3. /\ sender' \in SenderType /\ sender'.next = sender.next
      /\ sender'.at = AfterBatch(sender.next)
  BY <1>1, <1>2 DEF EndBatch, SenderType
<1>4. sender'.at = "settling" => AllSent(sender.next)
  BY <1>3 DEF AfterBatch
<1> QED
  BY <1>1, <1>2, <1>3, <1>4, SenderMoves DEF EndBatch

(***************************************************************************)
(* The next batch starts where the last one ended.                         *)
(***************************************************************************)
LEMMA PauseOverKeeps ==
  ASSUME IInv, PauseOver
  PROVE  IInv'
<1>1. /\ sender \in SenderType /\ sender.at = "pausing"
      /\ sender.next \in 0..NumPackets
  BY DEF IInv, Fields, SenderType, PauseOver
<1>2. BatchEnd(sender.next) \in 0..NumPackets
  BY <1>1, BatchBound
<1>3. /\ sender' \in SenderType /\ sender'.next = sender.next
      /\ sender'.at \in {"ended", "sending"}
  BY <1>1, <1>2 DEF PauseOver, NextBatch, SenderType
<1> QED
  BY <1>1, <1>3, SenderMoves DEF PauseOver

(***************************************************************************)
(* The sender ends with everything sent, and only then says so.            *)
(***************************************************************************)
LEMMA SettledKeeps ==
  ASSUME IInv, Settled
  PROVE  IInv'
<1>1. /\ sender \in SenderType /\ sender.at = "settling"
      /\ AllSent(sender.next)
  BY DEF IInv, Fields, SenderType, Settled, Truthful
<1>2. /\ sender' \in SenderType /\ sender'.next = sender.next
      /\ sender'.at = "ended"
  BY <1>1 DEF Settled, SenderType
<1>3. AtTheEnd'
  BY <1>1, <1>2 DEF AtTheEnd, AllSent
<1>4. UNCHANGED << pc, why, shutdown, channel, failures, loads, events, flight,
                   tracker, back >>
  BY DEF Settled, worldVars
<1>5. notices' \in Seq(Notice)
  <2>1. notices \in Seq(Notice) /\ "all sent" \in Notice
    BY DEF IInv, Queues, Notice
  <2>2. notices' = notices \/ notices' = Append(notices, "all sent")
    BY DEF Settled
  <2>3. Append(notices, "all sent") \in Seq(Notice)
    BY <2>1, Appending
  <2> QED
    BY <2>1, <2>2, <2>3, Zenon
<1>6. Fields'
  BY <1>2, <1>4 DEF IInv, Fields, SenderType
<1>7. Queues' /\ CountIsDistinct'
  BY <1>4, <1>5 DEF IInv, Queues, CountIsDistinct
<1>8. OpensOnce' /\ Numbered'
  BY <1>1, <1>2, <1>4 DEF IInv, OpensOnce, Numbered
<1>9. Truthful'
  BY <1>2, <1>3, <1>4 DEF IInv, Truthful
<1> QED
  BY <1>6, <1>7, <1>8, <1>9 DEF IInv

-----------------------------------------------------------------------------
(* The loop.                                                               *)

(***************************************************************************)
(* Of a queue, the first leaves and the others move up.                    *)
(***************************************************************************)
LEMMA FirstLeaves ==
  ASSUME IInv, events # << >>, events' = Tail(events)
  PROVE  /\ events' \in Seq(Event) /\ Len(events) \in Nat
         /\ Len(events') = Len(events) - 1 /\ Len(events) >= 1
         /\ Head(events) = events[1] /\ Head(events) \in Event
         /\ \A i \in 1..Len(events') :
              events'[i] = events[i + 1] /\ i + 1 \in 1..Len(events)
<1>1. events \in Seq(Event)
  BY DEF IInv, Queues
<1> DEFINE q == events
           r == events'
<1>2. r = Tail(q) /\ q # << >> /\ q \in Seq(Event)
  BY <1>1
<1> HIDE DEF q, r
<1>3. /\ r \in Seq(Event) /\ Len(r) = Len(q) - 1 /\ Len(q) >= 1
      /\ Head(q) = q[1] /\ Head(q) \in Event
      /\ \A i \in 1..Len(r) : r[i] = q[i + 1]
  BY <1>2, Removing
<1>4. Len(q) \in Nat
  BY <1>2
<1>5. \A i \in 1..Len(r) : i + 1 \in 1..Len(q)
  BY <1>3, <1>4
<1> QED
  BY <1>3, <1>4, <1>5 DEF q, r

(***************************************************************************)
(* The same of the queue of notices.                                       *)
(***************************************************************************)
LEMMA NoticeLeaves ==
  ASSUME IInv, notices # << >>, notices' = Tail(notices)
  PROVE  /\ notices' \in Seq(Notice) /\ Len(notices) \in Nat
         /\ Len(notices') = Len(notices) - 1 /\ Len(notices) >= 1
         /\ Head(notices) = notices[1] /\ Head(notices) \in Notice
         /\ \A i \in 1..Len(notices') :
              notices'[i] = notices[i + 1] /\ i + 1 \in 1..Len(notices)
<1>1. notices \in Seq(Notice)
  BY DEF IInv, Queues
<1> DEFINE q == notices
           r == notices'
<1>2. r = Tail(q) /\ q # << >> /\ q \in Seq(Notice)
  BY <1>1
<1> HIDE DEF q, r
<1>3. /\ r \in Seq(Notice) /\ Len(r) = Len(q) - 1 /\ Len(q) >= 1
      /\ Head(q) = q[1] /\ Head(q) \in Notice
      /\ \A i \in 1..Len(r) : r[i] = q[i + 1]
  BY <1>2, Removing
<1>4. Len(q) \in Nat
  BY <1>2
<1>5. \A i \in 1..Len(r) : i + 1 \in 1..Len(q)
  BY <1>3, <1>4
<1> QED
  BY <1>3, <1>4, <1>5 DEF q, r

(***************************************************************************)
(* Setting up: nothing is sent or queued but by what came before.          *)
(***************************************************************************)
LEMMA SetupKeeps ==
  ASSUME IInv, Setup
  PROVE  IInv'
<1>1. /\ UNCHANGED << shutdown, failures, events, notices, loads, sender,
                      flight, tracker, back >>
      /\ \/ UNCHANGED << pc, why >> /\ channel = "new" /\ channel' = "opening"
         \/ pc' = "running" /\ UNCHANGED << why, channel >>
         \/ pc' = "error" /\ why' = "setup" /\ channel' = "closed"
  BY DEF Setup, Establish, SetupDone, SetupFails, worldVars
<1>2. Fields'
  BY <1>1 DEF IInv, Fields
<1>3. Queues' /\ Numbered' /\ CountIsDistinct'
  BY <1>1 DEF IInv, Queues, Numbered, CountIsDistinct
<1>4. OpensOnce'
  BY <1>1 DEF IInv, OpensOnce
<1>5. Truthful'
  BY <1>1 DEF IInv, Truthful, AtTheEnd
<1> QED
  BY <1>2, <1>3, <1>4, <1>5 DEF IInv

(***************************************************************************)
(* The sender starts from the first message, having sent none.             *)
(***************************************************************************)
LEMMA OnOpenKeeps ==
  ASSUME IInv, OnOpen
  PROVE  IInv'
<1>1. /\ events' \in Seq(Event) /\ Len(events) \in Nat
      /\ Len(events') = Len(events) - 1 /\ Len(events) >= 1
      /\ Head(events) = events[1]
      /\ \A i \in 1..Len(events') :
           events'[i] = events[i + 1] /\ i + 1 \in 1..Len(events)
  BY FirstLeaves DEF OnOpen
<1>2. UNCHANGED << pc, why, shutdown, channel, failures, loads, notices, flight,
                   tracker, back >>
  BY DEF OnOpen, worldVars
<1>3. /\ events[1] = Open /\ 1 \in 1..Len(events)
      /\ sender.at = "none" /\ sender.next = 0
      /\ channel \notin {"new", "opening"}
  BY <1>1 DEF OnOpen, IInv, OpensOnce
<1>4. /\ sender' \in SenderType /\ sender'.at = "sending" /\ sender'.next = 0
  <2>1. BatchEnd(0) \in 0..NumPackets /\ 0 \in 0..NumPackets
    BY BatchBound, NumPacketsAssumption
  <2> QED
    BY <2>1 DEF OnOpen, NextBatch, SenderType
<1>5. Fields'
  BY <1>2, <1>4 DEF IInv, Fields, SenderType
<1>6. Queues' /\ CountIsDistinct'
  BY <1>1, <1>2 DEF IInv, Queues, CountIsDistinct
<1>7. OpensOnce'
  <2>1. \A i \in 1..Len(events') : events'[i] # Open
    BY <1>1, <1>3 DEF IInv, OpensOnce
  <2> QED
    BY <1>2, <1>3, <1>4, <2>1 DEF OpensOnce
<1>8. Numbered'
  BY <1>1, <1>2, <1>3, <1>4 DEF IInv, Numbered
<1>9. Truthful'
  BY <1>2, <1>3, <1>4 DEF IInv, Truthful, AtTheEnd
<1> QED
  BY <1>5, <1>6, <1>7, <1>8, <1>9 DEF IInv

(***************************************************************************)
(* A returned message is a new one, so that its flag adds one to the count *)
(* wherever it is inserted.                                                *)
(***************************************************************************)
LEMMA OnMessageKeeps ==
  ASSUME IInv, OnMessage
  PROVE  IInv'
<1> DEFINE m == Head(events).message
<1>1. /\ events' \in Seq(Event) /\ Len(events) \in Nat
      /\ Len(events') = Len(events) - 1 /\ Len(events) >= 1
      /\ Head(events) = events[1] /\ Head(events) \in Event
      /\ \A i \in 1..Len(events') :
           events'[i] = events[i + 1] /\ i + 1 \in 1..Len(events)
  BY FirstLeaves DEF OnMessage
<1>2. UNCHANGED << pc, why, shutdown, channel, failures, loads, notices, sender,
                   flight >>
  BY DEF OnMessage, worldVars
<1>3. IsMessage(events[1]) /\ events[1].message = m /\ m \in Message
  <2>1. IsMessage(Head(events))
    BY DEF OnMessage, IsMessage
  <2> QED
    BY <1>1, <2>1, EventKinds
<1>4. back' = back \union {m} /\ tracker' = Tracked(tracker, m)
  BY DEF OnMessage
<1> HIDE DEF m
<1>5. m < sender.next /\ m \notin flight /\ m \notin back
  <2>1. 1 \in 1..Len(events)
    BY <1>1
  <2> QED
    BY <1>3, <2>1 DEF IInv, Numbered
<1>6. /\ tracker' \in Seq(BOOLEAN) /\ Len(tracker') = Len(tracker) + 1
      /\ Trues(tracker') = Trues(tracker) + 1
  <2>1. m \in Nat /\ m <= Len(tracker) /\ tracker \in Seq(BOOLEAN)
    <3>1. tracker \in Seq(BOOLEAN) /\ NumPackets <= Len(tracker)
      BY DEF IInv, Fields, Queues
    <3>2. Len(tracker) \in Nat
      BY <3>1
    <3>3. m \in Nat /\ m < NumPackets
      BY <1>3, NumPacketsAssumption DEF Message
    <3>4. m <= Len(tracker)
      <4>1. \A a, b, c \in Int : a < b /\ b <= c => a <= c
        OBVIOUS
      <4> QED
        BY <3>1, <3>2, <3>3, <4>1, NumPacketsAssumption
    <3> QED
      BY <3>1, <3>3, <3>4
  <2> QED
    BY <1>4, <2>1, TrackingAddsOne, Zenon
<1>7. Fields'
  <2>1. flight' \subseteq Message /\ back' \subseteq Message
    BY <1>2, <1>3, <1>4 DEF IInv, Fields
  <2> QED
    BY <1>2, <1>6, <2>1, Zenon DEF IInv, Fields
<1>8. Queues'
  <2>1. NumPackets <= Len(tracker')
    <3>1. NumPackets <= Len(tracker)
      BY DEF IInv, Queues
    <3>2. Len(tracker) \in Nat
      <4>1. tracker \in Seq(BOOLEAN)
        BY DEF IInv, Fields
      <4> QED
        BY <4>1
    <3> QED
      BY <1>6, <3>1, <3>2, NumPacketsAssumption
  <2>2. notices' \in Seq(Notice)
    BY <1>2 DEF IInv, Queues
  <2> QED
    BY <1>1, <2>1, <2>2 DEF Queues
<1>9. OpensOnce'
  BY <1>1, <1>2 DEF IInv, OpensOnce
<1>10. Numbered'
  <2>1. \A k \in flight' \union back' : k < sender'.next
    BY <1>2, <1>4, <1>5 DEF IInv, Numbered
  <2>2. \A i \in 1..Len(events') :
          IsMessage(events'[i]) => events'[i].message # m
    <3>1. 1 \in 1..Len(events) /\ \A i \in 1..Len(events') : i + 1 # 1
      BY <1>1
    <3> QED
      BY <1>1, <1>3, <3>1 DEF IInv, Numbered
  <2>3. \A i \in 1..Len(events') :
          IsMessage(events'[i]) =>
            /\ events'[i].message < sender'.next
            /\ events'[i].message \notin flight' \union back'
    BY <1>1, <1>2, <1>4, <2>2 DEF IInv, Numbered
  <2>4. \A i, j \in 1..Len(events') :
          IsMessage(events'[i]) /\ IsMessage(events'[j])
            /\ events'[i].message = events'[j].message => i = j
    <3>1. ASSUME NEW i \in 1..Len(events'), NEW j \in 1..Len(events'),
                 IsMessage(events'[i]), IsMessage(events'[j]),
                 events'[i].message = events'[j].message
          PROVE  i = j
      <4>1. i + 1 = j + 1
        BY <1>1, <3>1 DEF IInv, Numbered
      <4> QED
        BY <4>1
    <3> QED
      BY <3>1
  <2>5. (flight \intersect back = {})'
    BY <1>2, <1>4, <1>5 DEF IInv, Numbered
  <2> QED
    BY <2>1, <2>3, <2>4, <2>5 DEF Numbered, IsMessage
<1>11. Truthful'
  BY <1>2 DEF IInv, Truthful, AtTheEnd
<1>12. CountIsDistinct'
  <2>1. IsFiniteSet(back)
    <3>1. IsFiniteSet(Message)
      BY FS_Interval, NumPacketsAssumption DEF Message
    <3>2. back \subseteq Message
      BY DEF IInv, Fields
    <3> QED
      BY <3>1, <3>2, FS_Subset
  <2>2. Cardinality(back \union {m}) = Cardinality(back) + 1
    BY <1>5, <2>1, FS_AddElement
  <2> QED
    BY <1>4, <1>6, <2>2 DEF IInv, CountIsDistinct
<1> QED
  BY <1>7, <1>8, <1>9, <1>10, <1>11, <1>12 DEF IInv

(***************************************************************************)
(* The loop ends at a failed peer, at a notice, or at a cancellation; a    *)
(* notice that everything was sent is a true one.                          *)
(***************************************************************************)
LEMMA OnPeerFailedKeeps ==
  ASSUME IInv, OnPeerFailed
  PROVE  IInv'
<1>1. /\ events' \in Seq(Event) /\ Len(events) \in Nat
      /\ Len(events') = Len(events) - 1 /\ Len(events) >= 1
      /\ \A i \in 1..Len(events') :
           events'[i] = events[i + 1] /\ i + 1 \in 1..Len(events)
  BY FirstLeaves DEF OnPeerFailed
<1>2. /\ UNCHANGED << shutdown, channel, failures, loads, notices, sender,
                      flight, tracker, back >>
      /\ pc' = "ending" /\ why' = "peer failed"
  BY DEF OnPeerFailed, LoopEnds, worldVars
<1>3. Fields'
  BY <1>2 DEF IInv, Fields
<1>4. Queues' /\ CountIsDistinct'
  BY <1>1, <1>2 DEF IInv, Queues, CountIsDistinct
<1>5. OpensOnce'
  <2>1. sender.at = "none" => sender.next = 0
    BY DEF IInv, OpensOnce
  <2>2. channel \in {"new", "opening"} => sender.at = "none"
    BY DEF IInv, OpensOnce
  <2>3. \A i \in 1..Len(events') :
          events'[i] = Open =>
            sender.at = "none" /\ channel \notin {"new", "opening"}
    BY <1>1 DEF IInv, OpensOnce
  <2>4. ASSUME NEW i \in 1..Len(events'), NEW j \in 1..Len(events'),
               events'[i] = Open, events'[j] = Open
        PROVE  i = j
    <3>1. i + 1 = j + 1
      BY <1>1, <2>4 DEF IInv, OpensOnce
    <3> QED
      BY <3>1
  <2> QED
    BY <1>2, <2>1, <2>2, <2>3, <2>4 DEF OpensOnce
<1>6. Numbered'
  <2>1. \A k \in flight \union back : k < sender.next
    BY DEF IInv, Numbered
  <2>2. \A i \in 1..Len(events') :
          IsMessage(events'[i]) =>
            /\ events'[i].message < sender.next
            /\ events'[i].message \notin flight \union back
    BY <1>1 DEF IInv, Numbered
  <2>3. ASSUME NEW i \in 1..Len(events'), NEW j \in 1..Len(events'),
               IsMessage(events'[i]), IsMessage(events'[j]),
               events'[i].message = events'[j].message
        PROVE  i = j
    <3>1. i + 1 = j + 1
      BY <1>1, <2>3 DEF IInv, Numbered
    <3> QED
      BY <3>1
  <2>4. flight \intersect back = {}
    BY DEF IInv, Numbered
  <2> QED
    BY <1>2, <2>1, <2>2, <2>3, <2>4 DEF Numbered, IsMessage
<1>7. Truthful'
  BY <1>2 DEF IInv, Truthful, AtTheEnd
<1> QED
  BY <1>3, <1>4, <1>5, <1>6, <1>7 DEF IInv

(***************************************************************************)
(* Holding a load that came up changes nothing else.                       *)
(***************************************************************************)
LEMMA OnLoadKeeps ==
  ASSUME IInv, OnLoad
  PROVE  IInv'
<1>1. /\ notices' \in Seq(Notice) /\ Len(notices) \in Nat
      /\ Len(notices') = Len(notices) - 1 /\ Len(notices) >= 1
      /\ \A i \in 1..Len(notices') :
           notices'[i] = notices[i + 1] /\ i + 1 \in 1..Len(notices)
  BY NoticeLeaves DEF OnLoad
<1>2. UNCHANGED << pc, why, shutdown, channel, failures, events, sender, flight,
                   tracker, back >>
  BY DEF OnLoad
<1>3. Fields'
  <2>1. loads' \in [LoadDirection ->
                      {"opening", "up", "refused", "held", "stopped"}]
    BY DEF OnLoad, IInv, Fields
  <2> QED
    BY <1>2, <2>1 DEF IInv, Fields
<1>4. Queues'
  BY <1>1, <1>2 DEF IInv, Queues
<1>5. OpensOnce' /\ Numbered' /\ CountIsDistinct'
  BY <1>2 DEF IInv, OpensOnce, Numbered, CountIsDistinct
<1>6. Truthful'
  BY <1>1, <1>2 DEF IInv, Truthful, AtTheEnd
<1> QED
  BY <1>3, <1>4, <1>5, <1>6 DEF IInv

(***************************************************************************)
(* The loop's reason to end is what the notice says.                       *)
(***************************************************************************)
LEMMA OnNoticeOfEndKeeps ==
  ASSUME IInv, OnNoticeOfEnd
  PROVE  IInv'
<1>1. /\ notices' \in Seq(Notice) /\ Len(notices) \in Nat
      /\ Len(notices') = Len(notices) - 1 /\ Len(notices) >= 1
      /\ Head(notices) = notices[1]
      /\ \A i \in 1..Len(notices') :
           notices'[i] = notices[i + 1] /\ i + 1 \in 1..Len(notices)
  BY NoticeLeaves DEF OnNoticeOfEnd
<1>2. /\ UNCHANGED << shutdown, channel, failures, loads, events, sender,
                      flight, tracker, back >>
      /\ pc' = "ending" /\ why' = notices[1]
      /\ notices[1] \in {"all sent", "load error"}
  BY <1>1 DEF OnNoticeOfEnd, LoopEnds, worldVars
<1>3. Fields'
  BY <1>2 DEF IInv, Fields
<1>4. Queues' /\ CountIsDistinct'
  BY <1>1, <1>2 DEF IInv, Queues, CountIsDistinct
<1>5. OpensOnce' /\ Numbered'
  BY <1>2 DEF IInv, OpensOnce, Numbered
<1>6. Truthful'
  <2>1. 1 \in 1..Len(notices)
    BY <1>1
  <2> QED
    BY <1>1, <1>2, <2>1 DEF IInv, Truthful, AtTheEnd
<1> QED
  BY <1>3, <1>4, <1>5, <1>6 DEF IInv

(***************************************************************************)
(* A cancellation is a reason of its own.                                  *)
(***************************************************************************)
LEMMA OnShutdownKeeps ==
  ASSUME IInv, OnShutdown
  PROVE  IInv'
<1>1. /\ UNCHANGED << shutdown, channel, failures, loads, events, notices,
                      sender, flight, tracker, back >>
      /\ pc' = "ending" /\ why' = "shutdown"
  BY DEF OnShutdown, LoopEnds, worldVars
<1>2. Fields'
  BY <1>1 DEF IInv, Fields
<1>3. Queues' /\ OpensOnce' /\ Numbered' /\ CountIsDistinct'
  BY <1>1 DEF IInv, Queues, OpensOnce, Numbered, CountIsDistinct
<1>4. Truthful'
  BY <1>1 DEF IInv, Truthful, AtTheEnd
<1> QED
  BY <1>2, <1>3, <1>4 DEF IInv

(***************************************************************************)
(* What is dropped at the end takes its obligations with it.               *)
(***************************************************************************)
LEMMA FinishKeeps ==
  ASSUME IInv, Finish
  PROVE  IInv'
<1>1. /\ UNCHANGED << why, shutdown, failures, sender, tracker, back >>
      /\ pc = "ending" /\ pc' = "done" /\ channel' = "closed" /\ flight' = {}
      /\ events' = << >> /\ notices' = << >>
  BY DEF Finish
<1>2. Fields'
  <2>1. loads' \in [LoadDirection ->
                      {"opening", "up", "refused", "held", "stopped"}]
    BY DEF Finish, IInv, Fields
  <2> QED
    BY <1>1, <2>1 DEF IInv, Fields
<1>3. Queues' /\ CountIsDistinct'
  <2>1. << >> \in Seq(Event) /\ << >> \in Seq(Notice)
    OBVIOUS
  <2> QED
    BY <1>1, <2>1 DEF IInv, Queues, CountIsDistinct
<1>4. OpensOnce' /\ Numbered'
  BY <1>1 DEF IInv, OpensOnce, Numbered
<1>5. Truthful'
  <2>1. \A i \in 1..Len(notices') : FALSE
    BY <1>1
  <2>2. /\ sender.at = "settling" => AllSent(sender.next)
        /\ why = "all sent" => AtTheEnd
        /\ why \in {"peer failed", "all sent", "load error", "shutdown"}
    BY <1>1 DEF IInv, Truthful
  <2>3. AtTheEnd' = AtTheEnd
    BY <1>1 DEF AtTheEnd
  <2>4. why' = why /\ sender' = sender
    BY <1>1
  <2> QED
    BY <2>1, <2>2, <2>3, <2>4, Zenon DEF Truthful
<1> QED
  BY <1>2, <1>3, <1>4, <1>5 DEF IInv

-----------------------------------------------------------------------------
(***************************************************************************)
(* The invariant holds throughout: numbers are used once and in order, a   *)
(* message is in one place, and the notices tell the truth.                *)
(***************************************************************************)
THEOREM InvariantHolds == Spec => []IInv
<1>1. IInv /\ [Next]_vars => IInv'
  <2> SUFFICES ASSUME IInv, [Next]_vars PROVE IInv'
    OBVIOUS
  <2>1. CASE World
    <3>1. CASE ChannelOpens
      BY <3>1, ChannelOpensKeeps
    <3>2. CASE PeerFails
      BY <3>2, PeerFailsKeeps
    <3>3. CASE Shutdown
      BY <3>3, ShutdownKeeps
    <3>4. ASSUME NEW m \in Message, MessageReturns(m) \/ MessageLost(m)
          PROVE  IInv'
      BY <3>4, MessageReturnsKeeps, MessageLostKeeps
    <3>5. ASSUME NEW d \in LoadDirection,
                 LoadSettles(d, "up") \/ LoadSettles(d, "refused")
          PROVE  IInv'
      BY <3>5, LoadSettlesKeeps
    <3> QED
      BY <2>1, <3>1, <3>2, <3>3, <3>4, <3>5 DEF World
  <2>2. CASE Sender
    BY <2>2, SendMessageKeeps, EndBatchKeeps, PauseOverKeeps, SettledKeeps
       DEF Sender
  <2>3. CASE Setup
    BY <2>3, SetupKeeps
  <2>4. CASE Loop
    BY <2>4, OnOpenKeeps, OnMessageKeeps, OnPeerFailedKeeps, OnLoadKeeps,
       OnNoticeOfEndKeeps, OnShutdownKeeps DEF Loop
  <2>5. CASE Finish
    BY <2>5, FinishKeeps
  <2>6. CASE UNCHANGED vars
    <3>1. UNCHANGED << pc, why, shutdown, channel, failures, events, notices,
                       loads, sender, flight, tracker, back >>
      BY <2>6 DEF vars
    <3>2. Fields'
      BY <3>1 DEF IInv, Fields
    <3>3. Queues' /\ OpensOnce' /\ Numbered' /\ CountIsDistinct'
      BY <3>1 DEF IInv, Queues, OpensOnce, Numbered, CountIsDistinct
    <3>4. Truthful'
      BY <3>1 DEF IInv, Truthful, AtTheEnd
    <3> QED
      BY <3>2, <3>3, <3>4 DEF IInv
  <2> QED
    BY <2>1, <2>2, <2>3, <2>4, <2>5, <2>6 DEF Next
<1> QED
  BY InitHolds, <1>1, PTL DEF Spec

(***************************************************************************)
(* Every variable keeps its type; in particular the numbers of the         *)
(* messages stay below NumPackets (run_test, send_messages).               *)
(***************************************************************************)
THEOREM TypeCorrect == Spec => []TypeOK
<1>1. IInv => TypeOK
  BY TypesFollow DEF IInv
<1> QED
  BY InvariantHolds, <1>1, PTL

(***************************************************************************)
(* What the test reports as received is the number of distinct messages    *)
(* that came back, however many there are and in whatever order they do    *)
(* (run_test, the count after the loop).                                   *)
(***************************************************************************)
THEOREM CountsDistinct == Spec => []CountIsDistinct
<1>1. IInv => CountIsDistinct
  BY DEF IInv
<1> QED
  BY InvariantHolds, <1>1, PTL

(***************************************************************************)
(* A test that ends by itself has handed over every message but at most    *)
(* one, whatever the batch size is (run_test, send_messages).              *)
(***************************************************************************)
THEOREM CutShort == Spec => []UnsentMeansCutShort
<1>1. IInv => UnsentMeansCutShort
  <2> SUFFICES ASSUME IInv, pc \in {"ending", "done"},
                      sender.next + 1 < NumPackets
               PROVE  why \in {"peer failed", "load error", "shutdown"}
    BY DEF UnsentMeansCutShort
  <2>1. sender.next \in Nat
    <3>1. sender \in SenderType
      BY DEF IInv, Fields, SenderType
    <3>2. sender.next \in 0..NumPackets
      BY <3>1 DEF SenderType
    <3> QED
      BY <3>2
  <2>2. ~AllSent(sender.next)
    BY <2>1, NumPacketsAssumption DEF AllSent
  <2> QED
    BY <2>2 DEF IInv, Truthful, AtTheEnd
<1> QED
  BY InvariantHolds, <1>1, PTL
=============================================================================
