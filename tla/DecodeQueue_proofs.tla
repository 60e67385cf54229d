------------------------- MODULE DecodeQueue_proofs -------------------------
(***************************************************************************)
(* Proofs about DecodeQueue for every value of its constants.              *)
(***************************************************************************)
EXTENDS DecodeQueue, TLAPS, SequenceTheorems

\* Taking the packet at the head of a queue of packets.
LEMMA PacketHeadTail ==
    ASSUME NEW q \in Seq(Packet), q # <<>>
    PROVE  /\ Head(q) \in Packet
           /\ Tail(q) \in Seq(Packet)
           /\ Len(Tail(q)) = Len(q) - 1
           /\ \A i \in 1 .. Len(Tail(q)) : Tail(q)[i] = q[i+1]
           /\ Len(q) \in Nat \ {0}
           /\ Head(q) = q[1]
  BY HeadTailProperties, EmptySeq, LenProperties

\* Appending to a queue of packets.
LEMMA PacketAppend ==
    ASSUME NEW q \in Seq(Packet), NEW p \in Packet
    PROVE  /\ Append(q, p) \in Seq(Packet)
           /\ Append(q, p) # <<>>
           /\ Len(Append(q, p)) = Len(q) + 1
           /\ \A i \in 1 .. Len(q) : Append(q, p)[i] = q[i]
           /\ Append(q, p)[Len(q) + 1] = p
  BY AppendProperties

\* The packet in hand, and a sequence of one packet.
LEMMA PacketInHand ==
    ASSUME NEW q \in Seq(Packet), q # <<>>
    PROVE  q[1] \in Packet
  BY ElementOfSeq, EmptySeq, LenProperties

LEMMA OnePacket ==
    ASSUME NEW p \in Packet
    PROVE  <<p>> \in Seq(Packet) /\ Len(<<p>>) = 1
  OBVIOUS

LEMMA Stamped ==
    ASSUME NEW p \in Packet, NEW n \in Nat, NEW t \in p.ts .. n
    PROVE  [p EXCEPT !.ts = t] \in Packet /\ [p EXCEPT !.ts = t].id = p.id
  BY DEF Packet

\* Every variable keeps its type; the steps of mediacodec.cpp only ever take a
\* packet from a queue that holds one, which is why FeedsWhatItChecked's first
\* part (at "feed" there is a packet) is part of the induction.
TypeInv == TypeOK /\ (decPc = "feed" => dataQueue # <<>>)

LEMMA TypeInvInductive == Spec => []TypeInv
<1> USE DecodeQueueAssumption
<1>1. Init => TypeInv
  <2> SUFFICES ASSUME Init PROVE TypeOK
    BY DEF Init, TypeInv
  <2>1. <<>> \in Seq(Packet) /\ Len(<<>>) = 0 /\ <<>> \in Seq(Nat)
    OBVIOUS
  <2>2. droppingMode \in BOOLEAN
    BY Zenon DEF Init
  <2> QED
    BY <2>1, <2>2 DEF Init, TypeOK
<1>2. TypeInv /\ [Next]_vars => TypeInv'
  <2> SUFFICES ASSUME TypeInv, [Next]_vars PROVE TypeInv'
    OBVIOUS
  <2> USE DEF TypeInv, TypeOK
  <2>1. CASE EnqueueGate
    <3>1. netPkt' \in Seq(Packet) /\ Len(netPkt') <= 1
      <4>1. PICK key \in BOOLEAN :
              \/ netPkt' = netPkt
              \/ netPkt' = <<[id |-> offered + 1, key |-> key, ts |-> now]>>
        BY <2>1, Zenon DEF EnqueueGate
      <4> DEFINE s == <<[id |-> offered + 1, key |-> key, ts |-> now]>>
                 p == [id |-> offered + 1, key |-> key, ts |-> now]
      <4>2. p \in Packet
        BY DEF Packet
      <4>3. s \in Seq(Packet) /\ Len(s) <= 1
        BY <4>2, OnePacket
      <4>4. netPkt' = netPkt \/ netPkt' = s
        BY <4>1
      <4> HIDE DEF s
      <4> QED
        BY <4>3, <4>4, Zenon
    <3>2. offered' \in Nat /\ refused' \subseteq Nat
      <4>1. offered' = offered + 1
        BY <2>1, Zenon DEF EnqueueGate
      <4>2. refused' \in {refused, refused \cup {offered + 1}}
        BY <2>1, Zenon DEF EnqueueGate
      <4> QED
        BY <4>1, <4>2
    <3> QED
      BY <2>1, <3>1, <3>2 DEF EnqueueGate, threadVars, inputVars, outputVars
  <2>2. CASE EnqueuePush
    <3>1. netPkt[1] \in Packet
      BY <2>2, PacketInHand DEF EnqueuePush
    <3>2. PICK t \in netPkt[1].ts .. now :
              dataQueue' = Append(dataQueue, [netPkt[1] EXCEPT !.ts = t])
      BY <2>2 DEF EnqueuePush
    <3>3. [netPkt[1] EXCEPT !.ts = t] \in Packet
      BY <3>1, <3>2, Stamped
    <3>4. dataQueue' \in Seq(Packet) /\ dataQueue' # <<>>
      BY <3>2, <3>3, PacketAppend
    <3>5. netPkt' \in Seq(Packet) /\ Len(netPkt') <= 1
      BY <2>2 DEF EnqueuePush
    <3> QED
      BY <2>2, <3>4, <3>5 DEF EnqueuePush, inputVars, outputVars
  <2>3. CASE SkipToKey
    BY <2>3, PacketHeadTail
       DEF SkipToKey, PopUnfed, Packet, netVars, inputVars, outputVars
  <2>4. CASE ShouldDropFrame
    <3>1. Head(dataQueue) \in Packet /\ Tail(dataQueue) \in Seq(Packet)
      BY <2>4, PacketHeadTail DEF ShouldDropFrame
    <3>2. droppingMode' \in BOOLEAN
      BY <2>4 DEF ShouldDropFrame, ModeAfter, TooOld
    <3>4. /\ dataQueue' \in Seq(Packet)
          /\ lost' \subseteq Nat
          /\ decPc' \in {"loop", "feed"}
          /\ decPc' = "feed" => dataQueue' # <<>>
      BY <2>4, <3>1 DEF ShouldDropFrame, PopUnfed, Packet, AfterDrop
    <3> QED
      BY <2>4, <3>2, <3>4
         DEF ShouldDropFrame, netVars, inputVars, outputVars
  <2>5. CASE FeedCodec
    <3>1. /\ Head(dataQueue) \in Packet
          /\ dataQueue' \in Seq(Packet)
      BY <2>5, PacketHeadTail DEF FeedCodec, MoveToCodec
    <3>2. fed' \in Seq(Packet)
      BY <2>5, <3>1, PacketAppend DEF FeedCodec, MoveToCodec
    <3>3. codecIn' \in Seq(Nat)
      BY <2>5, <3>1, AppendProperties DEF FeedCodec, Packet
    <3> QED
      BY <2>5, <3>1, <3>2, <3>3
         DEF FeedCodec, HasInputBuffer, netVars, outputVars
  <2>6. CASE NoInputBuffer
    BY <2>6 DEF NoInputBuffer, netVars, inputVars, outputVars
  <2>7. CASE NullInputBuffer
    BY <2>7 DEF NullInputBuffer, HasInputBuffer, netVars, outputVars
  <2>8. CASE DrainOutput
    BY <2>8, HeadTailProperties
       DEF DrainOutput, threadVars, netVars, inputVars
  <2>9. CASE NullOutputBuffer
    BY <2>9, HeadTailProperties DEF NullOutputBuffer, netVars, inputVars
  <2>10. CASE DrainDone
    BY <2>10 DEF DrainDone, netVars, inputVars, outputVars
  <2>14. CASE DrainInterrupted
    BY <2>14 DEF DrainInterrupted, netVars, inputVars, outputVars
  <2>11. CASE CodecDecode
    BY <2>11, HeadTailProperties DEF CodecDecode, threadVars, netVars
  <2>12. CASE Tick
    BY <2>12 DEF Tick, threadVars, netVars, inputVars, outputVars
  <2>13. CASE UNCHANGED vars
    BY <2>13 DEF vars, threadVars, netVars, inputVars, outputVars
  <2> QED
    BY <2>1, <2>2, <2>3, <2>4, <2>5, <2>6, <2>7, <2>8, <2>9, <2>10, <2>11,
       <2>12, <2>13, <2>14 DEF Next, DecodeThread
<1> QED
  BY <1>1, <1>2, PTL DEF Spec

\* Every variable always holds a value of its type.
THEOREM TypeCorrect == Spec => []TypeOK
  BY TypeInvInductive, PTL DEF TypeInv

(***************************************************************************)
(* The ids in a queue, and how the five ways a packet moves keep the       *)
(* account of PacketsAccountedFor. Accounted states it of any fed packets  *)
(* f, queue q, packet in hand h, number offered n, ids refused r, ids      *)
(* lost l.                                                                 *)
(***************************************************************************)
Accounted(f, q, h, n, r, l) ==
    /\ Ordered(f) /\ Ordered(q)
    /\ Older(f, q) /\ Older(f, h) /\ Older(q, h)
    /\ \A i \in l : /\ \A j \in DOMAIN q : i < q[j].id
                    /\ \A j \in DOMAIN h : i < h[j].id
    /\ 1 .. n = IdsOf(f) \cup IdsOf(q) \cup IdsOf(h) \cup r \cup l
    /\ r \cap (l \cup IdsOf(f) \cup IdsOf(q) \cup IdsOf(h)) = {}
    /\ l \cap IdsOf(f) = {}

LEMMA IdsAppend ==
    ASSUME NEW q \in Seq(Packet), NEW p \in Packet
    PROVE  IdsOf(Append(q, p)) = IdsOf(q) \cup {p.id}
<1>1. DOMAIN Append(q, p) = 1 .. Len(q) + 1 /\ DOMAIN q = 1 .. Len(q)
  BY PacketAppend, LenProperties
<1>2. ASSUME NEW i \in DOMAIN Append(q, p)
      PROVE  Append(q, p)[i].id \in IdsOf(q) \cup {p.id}
  BY <1>1, <1>2, PacketAppend, LenProperties DEF IdsOf
<1>3. ASSUME NEW i \in DOMAIN q PROVE q[i].id \in IdsOf(Append(q, p))
  BY <1>1, <1>3, PacketAppend, LenProperties DEF IdsOf
<1>4. p.id \in IdsOf(Append(q, p))
  BY <1>1, PacketAppend, LenProperties DEF IdsOf
<1> QED
  BY <1>2, <1>3, <1>4 DEF IdsOf

LEMMA IdsHeadTail ==
    ASSUME NEW q \in Seq(Packet), q # <<>>
    PROVE  IdsOf(q) = {Head(q).id} \cup IdsOf(Tail(q))
<1>1. DOMAIN Tail(q) = 1 .. Len(q) - 1 /\ DOMAIN q = 1 .. Len(q)
  BY PacketHeadTail, LenProperties
<1>2. ASSUME NEW i \in DOMAIN q
      PROVE  q[i].id \in {Head(q).id} \cup IdsOf(Tail(q))
  <2>1. CASE i = 1
    BY <2>1, PacketHeadTail
  <2>2. CASE i # 1
    <3>1. i - 1 \in DOMAIN Tail(q) /\ Tail(q)[i-1] = q[i]
      BY <1>1, <2>2, PacketHeadTail
    <3> QED
      BY <3>1 DEF IdsOf
  <2> QED
    BY <2>1, <2>2
<1>3. ASSUME NEW i \in DOMAIN Tail(q) PROVE Tail(q)[i].id \in IdsOf(q)
  <2>1. i + 1 \in DOMAIN q /\ Tail(q)[i] = q[i+1]
    BY <1>1, PacketHeadTail
  <2> QED
    BY <2>1 DEF IdsOf
<1>4. Head(q).id \in IdsOf(q)
  BY <1>1, PacketHeadTail DEF IdsOf
<1> QED
  BY <1>2, <1>3, <1>4 DEF IdsOf

LEMMA IdsEmptyOne ==
    /\ IdsOf(<<>>) = {}
    /\ \A p : IdsOf(<<p>>) = {p.id} /\ DOMAIN <<p>> = {1} /\ <<p>>[1] = p
    /\ DOMAIN <<>> = {}
  BY DEF IdsOf

\* The packets of a queue in terms of membership: who is in, who is older.
LEMMA IdsMember ==
    ASSUME NEW q \in Seq(Packet)
    PROVE  /\ \A i \in DOMAIN q : q[i].id \in IdsOf(q) /\ q[i] \in Packet
           /\ \A x \in IdsOf(q) : \E i \in DOMAIN q : x = q[i].id
           /\ IdsOf(q) \subseteq Nat
<1>1. \A i \in DOMAIN q : q[i] \in Packet
  BY ElementOfSeq, LenProperties
<1> QED
  BY <1>1 DEF IdsOf, Packet

\* Older in terms of the ids alone.
LEMMA OlderIds ==
    ASSUME NEW s \in Seq(Packet), NEW t \in Seq(Packet)
    PROVE  Older(s, t) <=> \A x \in IdsOf(s), y \in IdsOf(t) : x < y
  BY DEF Older, IdsOf

LEMMA OrderedAppend ==
    ASSUME NEW q \in Seq(Packet), NEW p \in Packet, Ordered(q),
           \A x \in IdsOf(q) : x < p.id
    PROVE  Ordered(Append(q, p))
<1>1. DOMAIN Append(q, p) = 1 .. Len(q) + 1 /\ DOMAIN q = 1 .. Len(q)
      /\ Len(q) \in Nat
  BY PacketAppend, LenProperties
<1> SUFFICES ASSUME NEW i \in 1 .. Len(q) + 1, NEW j \in 1 .. Len(q) + 1, i < j
             PROVE  Append(q, p)[i].id < Append(q, p)[j].id
  BY <1>1 DEF Ordered
<1>2. i \in DOMAIN q /\ Append(q, p)[i] = q[i]
  BY <1>1, PacketAppend
<1>3. CASE j \in DOMAIN q
  BY <1>1, <1>2, <1>3, PacketAppend DEF Ordered
<1>4. CASE j = Len(q) + 1
  BY <1>2, <1>4, PacketAppend, IdsMember
<1> QED
  BY <1>1, <1>3, <1>4

LEMMA OrderedTail ==
    ASSUME NEW q \in Seq(Packet), q # <<>>, Ordered(q)
    PROVE  /\ Ordered(Tail(q))
           /\ \A x \in IdsOf(Tail(q)) : Head(q).id < x
<1>1. /\ DOMAIN Tail(q) = 1 .. Len(q) - 1 /\ DOMAIN q = 1 .. Len(q)
      /\ Tail(q) \in Seq(Packet) /\ Len(q) \in Nat \ {0}
  BY PacketHeadTail, LenProperties
<1>2. ASSUME NEW i \in DOMAIN Tail(q)
      PROVE  /\ i + 1 \in DOMAIN q /\ Tail(q)[i] = q[i+1]
             /\ 1 \in DOMAIN q /\ 1 < i + 1 /\ i \in Nat
  BY <1>1, <1>2, PacketHeadTail
<1>3. ASSUME NEW i \in DOMAIN Tail(q), NEW j \in DOMAIN Tail(q), i < j
      PROVE  Tail(q)[i].id < Tail(q)[j].id
  BY <1>2, <1>3 DEF Ordered
<1>4. ASSUME NEW i \in DOMAIN Tail(q) PROVE Head(q).id < Tail(q)[i].id
  BY <1>2, PacketHeadTail DEF Ordered
<1> QED
  BY <1>3, <1>4 DEF Ordered, IdsOf

\* A packet is turned away at the gate.
LEMMA AccountRefuse ==
    ASSUME NEW f \in Seq(Packet), NEW q \in Seq(Packet), NEW n \in Nat,
           NEW r, NEW l, Accounted(f, q, <<>>, n, r, l)
    PROVE  Accounted(f, q, <<>>, n + 1, r \cup {n + 1}, l)
<1>1. 1 .. n + 1 = (1 .. n) \cup {n + 1} /\ n + 1 \notin 1 .. n
  OBVIOUS
<1> QED
  BY <1>1, IdsEmptyOne DEF Accounted

\* A packet passes the gate.
LEMMA AccountAdmit ==
    ASSUME NEW f \in Seq(Packet), NEW q \in Seq(Packet), NEW n \in Nat,
           NEW r, NEW l, NEW p \in Packet, p.id = n + 1,
           Accounted(f, q, <<>>, n, r, l)
    PROVE  Accounted(f, q, <<p>>, n + 1, r, l)
<1>1. 1 .. n + 1 = (1 .. n) \cup {n + 1} /\ \A x \in 1 .. n : x < n + 1
  OBVIOUS
<1>2. \A x \in IdsOf(f) \cup IdsOf(q) \cup r \cup l : x \in 1 .. n
  BY DEF Accounted
<1>3. <<p>> \in Seq(Packet) /\ IdsOf(<<p>>) = {n + 1}
  BY OnePacket, IdsEmptyOne
<1>4. Older(f, <<p>>) /\ Older(q, <<p>>)
  BY <1>1, <1>2, <1>3, OlderIds
<1>5. \A i \in l, j \in DOMAIN <<p>> : i < <<p>>[j].id
  BY <1>1, <1>2, IdsEmptyOne
<1>6. IdsOf(<<p>>) \cap r = {}
  BY <1>1, <1>2, <1>3
<1>7. 1 .. n + 1 = IdsOf(f) \cup IdsOf(q) \cup IdsOf(<<p>>) \cup r \cup l
  BY <1>1, <1>3, IdsEmptyOne DEF Accounted
<1> QED
  BY <1>4, <1>5, <1>6, <1>7, IdsEmptyOne DEF Accounted

LEMMA OneInHand ==
    ASSUME NEW h \in Seq(Packet), h # <<>>, Len(h) <= 1
    PROVE  /\ h[1] \in Packet
           /\ DOMAIN h = {1}
           /\ IdsOf(h) = {h[1].id}
<1>1. Len(h) = 1
  <2>1. Len(h) \in Nat \ {0}
    BY PacketHeadTail
  <2>2. \A k \in Nat \ {0} : k <= 1 => k = 1
    OBVIOUS
  <2> QED
    BY <2>1, <2>2, Zenon
<1>2. DOMAIN h = {1}
  BY <1>1, LenProperties
<1> QED
  BY <1>2, PacketInHand DEF IdsOf

\* The packet in hand is pushed, with the timestamp it has by then.
LEMMA AccountPush ==
    ASSUME NEW f \in Seq(Packet), NEW q \in Seq(Packet), NEW n \in Nat,
           NEW r, NEW l, NEW h \in Seq(Packet), h # <<>>, Len(h) <= 1,
           NEW p \in Packet, p.id = h[1].id, Accounted(f, q, h, n, r, l)
    PROVE  Accounted(f, Append(q, p), <<>>, n, r, l)
<1>1. h[1] \in Packet /\ IdsOf(h) = {p.id} /\ DOMAIN h = {1}
  BY OneInHand
<1>2. IdsOf(Append(q, p)) = IdsOf(q) \cup {p.id} /\ Append(q, p) \in Seq(Packet)
  BY IdsAppend, PacketAppend
<1>3. \A x \in IdsOf(q) \cup IdsOf(f) : x < p.id
  BY <1>1, OlderIds DEF Accounted
<1>4. Ordered(Append(q, p))
  BY <1>3, OrderedAppend DEF Accounted
<1>5. Older(f, Append(q, p))
  BY <1>2, <1>3, OlderIds DEF Accounted
<1>6. \A i \in l, y \in IdsOf(Append(q, p)) : i < y
  <2>1. \A i \in l, y \in IdsOf(q) : i < y
    BY DEF Accounted, IdsOf
  <2>2. \A i \in l : i < p.id
    BY <1>1 DEF Accounted
  <2> QED
    BY <1>2, <2>1, <2>2
<1>7. \A i \in l, j \in DOMAIN Append(q, p) : i < Append(q, p)[j].id
  BY <1>2, <1>6, IdsMember
<1>8. Older(f, <<>>) /\ Older(Append(q, p), <<>>)
  BY IdsEmptyOne DEF Older
<1> QED
  BY <1>1, <1>2, <1>4, <1>5, <1>7, <1>8, IdsEmptyOne DEF Accounted

\* What holds of the head of the queue and of the rest of it.
LEMMA HeadAndRest ==
    ASSUME NEW f \in Seq(Packet), NEW q \in Seq(Packet), NEW n \in Nat,
           NEW r, NEW l, NEW h \in Seq(Packet), q # <<>>,
           Accounted(f, q, h, n, r, l)
    PROVE  /\ Head(q) \in Packet /\ Tail(q) \in Seq(Packet)
           /\ IdsOf(q) = {Head(q).id} \cup IdsOf(Tail(q))
           /\ Ordered(Tail(q))
           /\ \A x \in IdsOf(Tail(q)) \cup IdsOf(h) : Head(q).id < x
           /\ \A x \in IdsOf(f) \cup l :
                 x < Head(q).id /\ \A y \in IdsOf(Tail(q)) \cup IdsOf(h) : x < y
<1>1. /\ Head(q) \in Packet /\ Tail(q) \in Seq(Packet)
      /\ IdsOf(q) = {Head(q).id} \cup IdsOf(Tail(q))
  BY PacketHeadTail, IdsHeadTail
<1>2. /\ Ordered(Tail(q))
      /\ \A x \in IdsOf(Tail(q)) : Head(q).id < x
  BY OrderedTail DEF Accounted
<1>3. \A x \in IdsOf(h) : Head(q).id < x
  BY <1>1, OlderIds DEF Accounted
<1>4. \A x \in IdsOf(f), y \in IdsOf(q) \cup IdsOf(h) : x < y
  BY OlderIds DEF Accounted
<1>5. \A x \in l, y \in IdsOf(q) \cup IdsOf(h) : x < y
  BY DEF Accounted, IdsOf
<1> QED
  BY <1>1, <1>2, <1>3, <1>4, <1>5

\* The head of the queue is popped and not fed.
LEMMA AccountLose ==
    ASSUME NEW f \in Seq(Packet), NEW q \in Seq(Packet), NEW n \in Nat,
           NEW r, NEW l, NEW h \in Seq(Packet), q # <<>>,
           Accounted(f, q, h, n, r, l)
    PROVE  Accounted(f, Tail(q), h, n, r, l \cup {Head(q).id})
<1> DEFINE x == Head(q).id
           t == Tail(q)
<1>1. /\ t \in Seq(Packet) /\ IdsOf(q) = {x} \cup IdsOf(t) /\ Ordered(t)
      /\ \A y \in IdsOf(t) \cup IdsOf(h) : x < y
      /\ \A z \in IdsOf(f) \cup l : z < x /\ \A y \in IdsOf(t) \cup IdsOf(h) : z < y
      /\ x \in Nat
  BY HeadAndRest DEF Packet
<1> HIDE DEF x, t
<1>2. Older(f, t) /\ Older(t, h)
  <2>1. \A y \in IdsOf(t), z \in IdsOf(h) : y < z
    BY <1>1, OlderIds DEF Accounted
  <2> QED
    BY <1>1, <2>1, OlderIds
<1>3. \A i \in l \cup {x} : /\ \A j \in DOMAIN t : i < t[j].id
                            /\ \A j \in DOMAIN h : i < h[j].id
  BY <1>1, IdsMember
<1>4. x \notin IdsOf(f) /\ x \notin r
  BY <1>1 DEF Accounted
<1>5. 1 .. n = IdsOf(f) \cup IdsOf(t) \cup IdsOf(h) \cup r \cup (l \cup {x})
  BY <1>1 DEF Accounted
<1>6. r \cap ((l \cup {x}) \cup IdsOf(f) \cup IdsOf(t) \cup IdsOf(h)) = {}
  BY <1>1, <1>4 DEF Accounted
<1>7. Accounted(f, t, h, n, r, l \cup {x})
  BY <1>1, <1>2, <1>3, <1>4, <1>5, <1>6 DEF Accounted
<1> QED
  BY <1>7 DEF x, t

\* The head of the queue is fed to the codec.
LEMMA AccountFeed ==
    ASSUME NEW f \in Seq(Packet), NEW q \in Seq(Packet), NEW n \in Nat,
           NEW r, NEW l, NEW h \in Seq(Packet), q # <<>>,
           Accounted(f, q, h, n, r, l)
    PROVE  Accounted(Append(f, Head(q)), Tail(q), h, n, r, l)
<1> DEFINE p == Head(q)
           t == Tail(q)
           g == Append(f, Head(q))
<1>1. /\ p \in Packet
      /\ t \in Seq(Packet) /\ IdsOf(q) = {p.id} \cup IdsOf(t) /\ Ordered(t)
      /\ \A y \in IdsOf(t) \cup IdsOf(h) : p.id < y
      /\ \A z \in IdsOf(f) \cup l :
            z < p.id /\ \A y \in IdsOf(t) \cup IdsOf(h) : z < y
  BY HeadAndRest
<1>2. g \in Seq(Packet) /\ IdsOf(g) = IdsOf(f) \cup {p.id}
  BY <1>1, PacketAppend, IdsAppend
<1>3. Ordered(g)
  BY <1>1, OrderedAppend DEF Accounted
<1> HIDE DEF p, t, g
<1>4. Older(g, t) /\ Older(g, h) /\ Older(t, h)
  <2>1. \A y \in IdsOf(t), z \in IdsOf(h) : y < z
    BY <1>1, OlderIds DEF Accounted
  <2> QED
    BY <1>1, <1>2, <2>1, OlderIds
<1>5. \A i \in l : /\ \A j \in DOMAIN t : i < t[j].id
                   /\ \A j \in DOMAIN h : i < h[j].id
  BY <1>1, IdsMember
<1>6. l \cap IdsOf(g) = {}
  <2>1. p.id \notin l
    BY <1>1 DEF Packet
  <2> QED
    BY <1>2, <2>1 DEF Accounted
<1>7. 1 .. n = IdsOf(g) \cup IdsOf(t) \cup IdsOf(h) \cup r \cup l
  BY <1>1, <1>2 DEF Accounted
<1>8. r \cap (l \cup IdsOf(g) \cup IdsOf(t) \cup IdsOf(h)) = {}
  BY <1>1, <1>2 DEF Accounted
<1>9. Accounted(g, t, h, n, r, l)
  BY <1>1, <1>3, <1>4, <1>5, <1>6, <1>7, <1>8 DEF Accounted
<1> QED
  BY <1>9 DEF p, t, g

(***************************************************************************)
(* The inductive invariant. GapsOnlyAtTheGate is not inductive alone: that *)
(* nothing the decode thread popped lies before a packet it feeds rests on *)
(* dropping mode outlasting the loss (BrokenUntilKey), on the packet at    *)
(* "feed" being the one that was checked, and on the account of where each *)
(* packet went.                                                            *)
(***************************************************************************)
IInv ==
    /\ TypeInv
    /\ PacketsAccountedFor
    /\ GapsOnlyAtTheGate
    /\ BrokenUntilKey
    /\ FeedsWhatItChecked

LEMMA AccountIs ==
    /\ PacketsAccountedFor
          <=> Accounted(fed, dataQueue, netPkt, offered, refused, lost)
    /\ PacketsAccountedFor'
          <=> Accounted(fed', dataQueue', netPkt', offered', refused', lost')
  BY DEF PacketsAccountedFor, Accounted, Ordered, Older, IdsOf

\* The account is kept by every step.
LEMMA AccountKept ==
    ASSUME TypeInv, TypeInv', PacketsAccountedFor, Next
    PROVE  PacketsAccountedFor'
<1> USE DEF TypeInv, TypeOK
<1>0. Accounted(fed, dataQueue, netPkt, offered, refused, lost)
  BY AccountIs
<1>1. CASE EnqueueGate
  <2>1. netPkt = <<>> /\ offered' = offered + 1
        /\ UNCHANGED <<fed, dataQueue, lost>>
    BY <1>1 DEF EnqueueGate, threadVars, inputVars
  <2>2. Accounted(fed, dataQueue, <<>>, offered, refused, lost)
    BY <1>0, <2>1
  <2>3. PICK key \in BOOLEAN :
           \/ netPkt' = netPkt /\ refused' = refused \cup {offered + 1}
           \/ /\ netPkt' = <<[id |-> offered + 1, key |-> key, ts |-> now]>>
              /\ refused' = refused
    BY <1>1, Zenon DEF EnqueueGate
  <2>4. CASE netPkt' = netPkt /\ refused' = refused \cup {offered + 1}
    <3>1. Accounted(fed, dataQueue, <<>>, offered + 1,
                    refused \cup {offered + 1}, lost)
      BY <2>2, AccountRefuse
    <3>2. Accounted(fed', dataQueue', netPkt', offered', refused', lost')
      BY <2>1, <2>4, <3>1, Zenon
    <3> QED
      BY <3>2, AccountIs
  <2>5. CASE /\ netPkt' = <<[id |-> offered + 1, key |-> key, ts |-> now]>>
             /\ refused' = refused
    <3> DEFINE p == [id |-> offered + 1, key |-> key, ts |-> now]
    <3>1. p \in Packet /\ p.id = offered + 1
      BY DEF Packet
    <3>2. netPkt' = <<p>> /\ refused' = refused
      BY <2>5
    <3> HIDE DEF p
    <3>3. Accounted(fed, dataQueue, <<p>>, offered + 1, refused, lost)
      BY <2>2, <3>1, AccountAdmit
    <3>4. Accounted(fed', dataQueue', netPkt', offered', refused', lost')
      BY <2>1, <3>2, <3>3, Zenon
    <3> QED
      BY <3>4, AccountIs
  <2> QED
    BY <2>3, <2>4, <2>5
<1>2. CASE EnqueuePush
  <2>1. PICK t \in netPkt[1].ts .. now :
            dataQueue' = Append(dataQueue, [netPkt[1] EXCEPT !.ts = t])
    BY <1>2 DEF EnqueuePush
  <2> DEFINE p == [netPkt[1] EXCEPT !.ts = t]
  <2>2. netPkt # <<>> /\ netPkt' = <<>>
        /\ UNCHANGED <<fed, offered, refused, lost>>
    BY <1>2 DEF EnqueuePush, inputVars
  <2>3. netPkt[1] \in Packet
    BY <2>2, PacketInHand
  <2>4. now \in Nat
    OBVIOUS
  <2>5. p \in Packet /\ p.id = netPkt[1].id
    BY <2>1, <2>3, <2>4, Stamped
  <2>6. dataQueue' = Append(dataQueue, p)
    BY <2>1
  <2> HIDE DEF p
  <2>7. Accounted(fed, Append(dataQueue, p), <<>>, offered, refused, lost)
    BY <1>0, <2>2, <2>5, AccountPush
  <2>8. Accounted(fed', dataQueue', netPkt', offered', refused', lost')
    BY <2>2, <2>6, <2>7, Zenon
  <2> QED
    BY <2>8, AccountIs
<1>3. ASSUME PopUnfed, dataQueue # <<>>, UNCHANGED <<fed, netPkt, offered, refused>>
      PROVE  PacketsAccountedFor'
  <2>1. Accounted(fed, Tail(dataQueue), netPkt, offered, refused,
                  lost \cup {Head(dataQueue).id})
    BY <1>0, <1>3, AccountLose
  <2>2. Accounted(fed', dataQueue', netPkt', offered', refused', lost')
    BY <1>3, <2>1, Zenon DEF PopUnfed
  <2> QED
    BY <2>2, AccountIs
<1>4. ASSUME UNCHANGED <<fed, dataQueue, netPkt, offered, refused, lost>>
      PROVE  PacketsAccountedFor'
  <2>1. Accounted(fed', dataQueue', netPkt', offered', refused', lost')
    BY <1>0, <1>4, Zenon
  <2> QED
    BY <2>1, AccountIs
<1>5. CASE SkipToKey
  BY <1>3, <1>5 DEF SkipToKey, netVars, inputVars
<1>6. CASE ShouldDropFrame
  <2>1. UNCHANGED <<fed, netPkt, offered, refused>> /\ dataQueue # <<>>
    BY <1>6 DEF ShouldDropFrame, netVars, inputVars
  <2>2. PopUnfed \/ UNCHANGED <<dataQueue, lost>>
    BY <1>6, Zenon DEF ShouldDropFrame
  <2> QED
    BY <1>3, <1>4, <2>1, <2>2, Zenon
<1>7. CASE FeedCodec
  <2>1. /\ dataQueue # <<>>
        /\ fed' = Append(fed, Head(dataQueue))
        /\ dataQueue' = Tail(dataQueue)
        /\ UNCHANGED <<netPkt, offered, refused, lost>>
    BY <1>7 DEF FeedCodec, MoveToCodec, netVars
  <2>2. Accounted(Append(fed, Head(dataQueue)), Tail(dataQueue), netPkt,
                  offered, refused, lost)
    BY <1>0, <2>1, AccountFeed
  <2>3. Accounted(fed', dataQueue', netPkt', offered', refused', lost')
    BY <2>1, <2>2, Zenon
  <2> QED
    BY <2>3, AccountIs
<1>8. CASE \/ NoInputBuffer \/ NullInputBuffer
           \/ DrainOutput \/ NullOutputBuffer \/ DrainDone \/ DrainInterrupted
           \/ CodecDecode \/ Tick
  BY <1>4, <1>8 DEF NoInputBuffer, NullInputBuffer, DrainOutput,
       NullOutputBuffer, DrainDone, DrainInterrupted, CodecDecode,
       Tick, threadVars, netVars, inputVars, outputVars
<1> QED
  BY <1>1, <1>2, <1>5, <1>6, <1>7, <1>8 DEF Next, DecodeThread

\* What the account says about feeding: everything lost so far is older than
\* the packet fed, and the packets between it and the last one fed were lost
\* or refused.
LEMMA Feeding ==
    ASSUME TypeInv, PacketsAccountedFor, FeedCodec
    PROVE  /\ dataQueue # <<>> /\ Head(dataQueue) \in Packet
           /\ fed' = Append(fed, Head(dataQueue))
           /\ lost' = lost /\ refused' = refused
           /\ \A i \in lost : i < Head(dataQueue).id
           /\ \A j \in DOMAIN fed : \A i \in fed[j].id + 1 .. Head(dataQueue).id - 1 :
                 i \in lost \cup refused
                    \/ \E k \in DOMAIN fed : k > j /\ fed[k].id = i
<1> USE DEF TypeInv, TypeOK
<1>1. /\ dataQueue # <<>>
      /\ fed' = Append(fed, Head(dataQueue))
      /\ lost' = lost /\ refused' = refused
  BY DEF FeedCodec, MoveToCodec, netVars
<1>2. Accounted(fed, dataQueue, netPkt, offered, refused, lost)
  BY AccountIs
<1> DEFINE p == Head(dataQueue)
           t == Tail(dataQueue)
<1>3. /\ p \in Packet
      /\ IdsOf(dataQueue) = {p.id} \cup IdsOf(t)
      /\ t \in Seq(Packet)
      /\ \A x \in IdsOf(t) \cup IdsOf(netPkt) : p.id < x
      /\ \A x \in IdsOf(fed) \cup lost : x < p.id
  BY <1>1, <1>2, HeadAndRest
<1> HIDE DEF p, t
<1>4. p.id \in Nat /\ IdsOf(t) \subseteq Nat /\ IdsOf(netPkt) \subseteq Nat
      /\ IdsOf(fed) \subseteq Nat
  BY <1>3, IdsMember DEF Packet
<1>5. p.id \in 1 .. offered
  BY <1>2, <1>3 DEF Accounted
<1>6. ASSUME NEW j \in DOMAIN fed, NEW i \in fed[j].id + 1 .. p.id - 1,
             i \notin lost \cup refused
      PROVE  \E k \in DOMAIN fed : k > j /\ fed[k].id = i
  <2>1. fed[j].id \in Nat /\ j \in Nat
    <3>1. fed \in Seq(Packet)
      OBVIOUS
    <3>2. fed[j] \in Packet
      BY <3>1, IdsMember
    <3>3. j \in Nat
      BY <3>1, LenProperties
    <3> QED
      BY <3>2, <3>3 DEF Packet
  <2>2. i \in Nat /\ fed[j].id < i /\ i < p.id /\ i \in 1 .. offered
    BY <1>4, <1>5, <1>6, <2>1
  <2>3. i \in IdsOf(fed)
    <3>1. i # p.id /\ i \notin IdsOf(t) /\ i \notin IdsOf(netPkt)
      BY <1>3, <1>4, <2>2
    <3>2. i \in IdsOf(fed) \cup IdsOf(dataQueue) \cup IdsOf(netPkt)
                \cup refused \cup lost
      BY <1>2, <2>2, Zenon DEF Accounted
    <3> QED
      BY <1>3, <1>6, <3>1, <3>2, Zenon
  <2>4. PICK k \in DOMAIN fed : fed[k].id = i
    BY <2>3, IdsMember
  <2>5. k \in Nat
    BY LenProperties
  <2>6. ~(k < j)
    BY <1>2, <2>1, <2>2, <2>4 DEF Accounted, Ordered
  <2>7. k # j
    BY <2>1, <2>2, <2>4
  <2> QED
    BY <2>1, <2>4, <2>5, <2>6, <2>7
<1> QED
  BY <1>1, <1>3, <1>6 DEF p

\* Feeding leaves nothing broken: a key packet starts a new group, and any other
\* packet is only fed when nothing is missing.
LEMMA FeedNotBroken ==
    ASSUME TypeInv, PacketsAccountedFor, FeedsWhatItChecked, FeedCodec
    PROVE  ~Broken'
<1> USE DEF TypeInv, TypeOK
<1> DEFINE p == Head(dataQueue)
<1>1. /\ p \in Packet
      /\ fed' = Append(fed, p)
      /\ lost' = lost
      /\ \A i \in lost : i < p.id
  BY Feeding
<1> HIDE DEF p
<1>2. /\ DOMAIN fed = 1 .. Len(fed) /\ DOMAIN fed' = 1 .. Len(fed) + 1
      /\ \A j \in DOMAIN fed : fed'[j] = fed[j]
      /\ fed'[Len(fed) + 1] = p
      /\ Len(fed) \in Nat
  BY <1>1, PacketAppend, LenProperties
<1>3. SUFFICES ASSUME NEW i \in lost
               PROVE  \E j \in DOMAIN fed' : fed'[j].key /\ ~(fed'[j].id < i)
  BY <1>1 DEF Broken
<1>4. CASE p.key
  <2>1. Len(fed) + 1 \in DOMAIN fed' /\ fed'[Len(fed) + 1] = p
    BY <1>2
  <2>2. ~(p.id < i)
    BY <1>1, <1>3 DEF Packet
  <2> QED
    BY <1>4, <2>1, <2>2
<1>5. CASE ~p.key
  <2>1. ~Broken
    BY <1>5 DEF FeedsWhatItChecked, FeedCodec, p
  <2>2. PICK j \in DOMAIN fed : fed[j].key /\ ~(fed[j].id < i)
    BY <2>1 DEF Broken
  <2>3. j \in DOMAIN fed' /\ fed'[j] = fed[j]
    BY <1>2
  <2> QED
    BY <2>2, <2>3
<1> QED
  BY <1>4, <1>5

LEMMA BrokenUnchanged ==
    ASSUME UNCHANGED <<fed, lost>>
    PROVE  Broken' <=> Broken
  BY DEF Broken

Gaps(f, r) ==
    \A j \in 2 .. Len(f) :
        \/ f[j].key
        \/ \A i \in f[j-1].id + 1 .. f[j].id - 1 : i \in r

\* One more packet is fed: only the gap before it is new.
LEMMA GapsAppend ==
    ASSUME NEW f \in Seq(Packet), NEW p \in Packet, NEW r, Gaps(f, r),
           \/ p.key
           \/ f = <<>>
           \/ \A i \in f[Len(f)].id + 1 .. p.id - 1 : i \in r
    PROVE  Gaps(Append(f, p), r)
<1> DEFINE n == Len(f)
           g == Append(f, p)
<1>1. /\ n \in Nat /\ Len(g) = n + 1 /\ g[n+1] = p
      /\ \A i \in 1 .. n : g[i] = f[i]
      /\ f = <<>> => n = 0
  BY PacketAppend, LenProperties, EmptySeq
<1>2. SUFFICES ASSUME NEW j \in 2 .. n + 1
               PROVE  g[j].key \/ \A i \in g[j-1].id + 1 .. g[j].id - 1 : i \in r
  BY <1>1 DEF Gaps
<1>3. CASE j \in 2 .. n
  <2>1. g[j] = f[j] /\ g[j-1] = f[j-1]
    BY <1>1, <1>3
  <2> QED
    BY <1>3, <2>1 DEF Gaps
<1>4. CASE j = n + 1
  <2>1. g[j] = p /\ g[j-1] = f[n] /\ f # <<>>
    BY <1>1, <1>2, <1>4
  <2> QED
    BY <2>1
<1> QED
  BY <1>1, <1>2, <1>3, <1>4

\* The last packet fed has the greatest id.
LEMMA LastIsGreatest ==
    ASSUME NEW f \in Seq(Packet), Ordered(f), f # <<>>
    PROVE  /\ Len(f) \in DOMAIN f
           /\ \A k \in DOMAIN f : ~(k > Len(f))
           /\ \A k \in DOMAIN f : f[k].id <= f[Len(f)].id
<1>1. Len(f) \in Nat \ {0} /\ DOMAIN f = 1 .. Len(f)
  BY PacketHeadTail, LenProperties
<1>2. \A k \in DOMAIN f : f[k].id \in Nat
  BY IdsMember DEF Packet
<1>3. ASSUME NEW k \in DOMAIN f PROVE f[k].id <= f[Len(f)].id
  <2>1. CASE k = Len(f)
    BY <1>2, <2>1
  <2>2. CASE k < Len(f)
    <3>1. f[k].id < f[Len(f)].id /\ Len(f) \in DOMAIN f
      BY <1>1, <2>2 DEF Ordered
    <3> QED
      BY <1>2, <3>1
  <2> QED
    BY <1>1, <2>1, <2>2
<1> QED
  BY <1>1, <1>3

LEMMA GapsKept ==
    ASSUME IInv, Next, TypeInv'
    PROVE  GapsOnlyAtTheGate'
<1> USE DEF IInv
<1>1. CASE FeedCodec
  <2> DEFINE p == Head(dataQueue)
  <2>1. /\ p \in Packet
        /\ fed' = Append(fed, p)
        /\ refused' = refused
        /\ \A j \in DOMAIN fed : \A i \in fed[j].id + 1 .. p.id - 1 :
              i \in lost \cup refused
                 \/ \E k \in DOMAIN fed : k > j /\ fed[k].id = i
    BY <1>1, Feeding
  <2>2. p.key \/ ~Broken
    BY <1>1 DEF FeedsWhatItChecked, FeedCodec
  <2> HIDE DEF p
  <2>3. fed \in Seq(Packet) /\ Ordered(fed) /\ Gaps(fed, refused)
    BY DEF TypeInv, TypeOK, PacketsAccountedFor, GapsOnlyAtTheGate, Gaps
  <2>4. ASSUME ~p.key, fed # <<>>,
               NEW i \in fed[Len(fed)].id + 1 .. p.id - 1
        PROVE  i \in refused
    <3>1. /\ Len(fed) \in DOMAIN fed
          /\ \A k \in DOMAIN fed : ~(k > Len(fed))
          /\ \A k \in DOMAIN fed : fed[k].id <= fed[Len(fed)].id
      BY <2>3, <2>4, LastIsGreatest
    <3>2. i \in lost \cup refused
      BY <2>1, <3>1
    <3>3. ASSUME i \in lost PROVE FALSE
      <4>1. PICK k \in DOMAIN fed : fed[k].key /\ ~(fed[k].id < i)
        BY <2>2, <2>4, <3>3 DEF Broken
      <4>2. fed[k].id \in Nat /\ fed[Len(fed)].id \in Nat /\ p.id \in Nat
        BY <2>1, <2>3, <3>1, IdsMember DEF Packet
      <4> QED
        BY <3>1, <4>1, <4>2
    <3> QED
      BY <3>2, <3>3
  <2>5. Gaps(Append(fed, p), refused)
    BY <2>1, <2>3, <2>4, GapsAppend
  <2>6. Gaps(fed', refused')
    BY <2>1, <2>5, Zenon
  <2> QED
    BY <2>6 DEF Gaps, GapsOnlyAtTheGate
<1>2. ASSUME fed' = fed, refused \subseteq refused' PROVE GapsOnlyAtTheGate'
  BY <1>2 DEF GapsOnlyAtTheGate
<1>3. CASE EnqueueGate
  <2>1. refused \subseteq refused'
    BY <1>3, Zenon DEF EnqueueGate
  <2> QED
    BY <1>2, <1>3, <2>1 DEF EnqueueGate, inputVars
<1>4. ASSUME Next, ~FeedCodec, ~EnqueueGate PROVE fed' = fed /\ refused' = refused
  BY <1>4 DEF Next, DecodeThread, EnqueuePush, SkipToKey, ShouldDropFrame,
       NoInputBuffer, NullInputBuffer, DrainOutput, NullOutputBuffer,
       DrainDone, DrainInterrupted, CodecDecode, Tick, netVars, inputVars
<1> QED
  BY <1>1, <1>2, <1>3, <1>4

LEMMA HeadOfAppend ==
    ASSUME NEW q \in Seq(Packet), NEW p \in Packet, q # <<>>
    PROVE  Append(q, p) # <<>> /\ Head(Append(q, p)) = Head(q)
  BY PacketAppend, PacketHeadTail

LEMMA BrokenUntilKeyKept ==
    ASSUME IInv, Next, TypeInv'
    PROVE  BrokenUntilKey'
<1> USE DEF IInv, TypeInv, TypeOK
<1>1. CASE FeedCodec
  BY <1>1, FeedNotBroken DEF BrokenUntilKey
<1>2. CASE EnqueuePush
  <2>1. Broken' <=> Broken
    BY <1>2, BrokenUnchanged DEF EnqueuePush, inputVars
  <2>2. droppingMode' = droppingMode
    BY <1>2 DEF EnqueuePush
  <2>3. ASSUME dataQueue # <<>>
        PROVE  dataQueue' # <<>> /\ Head(dataQueue') = Head(dataQueue)
    <3>1. PICK t \in netPkt[1].ts .. now :
              dataQueue' = Append(dataQueue, [netPkt[1] EXCEPT !.ts = t])
      BY <1>2 DEF EnqueuePush
    <3>2. netPkt[1] \in Packet /\ now \in Nat
      BY <1>2, PacketInHand DEF EnqueuePush
    <3>3. [netPkt[1] EXCEPT !.ts = t] \in Packet
      BY <3>2, Stamped
    <3> QED
      BY <2>3, <3>1, <3>3, HeadOfAppend
  <2> QED
    BY <2>1, <2>2, <2>3, Zenon DEF BrokenUntilKey
<1>3. CASE SkipToKey
  BY <1>3 DEF SkipToKey, BrokenUntilKey
<1>4. CASE ShouldDropFrame
  <2>1. CASE TooOld(Head(dataQueue))
    BY <1>4, <2>1 DEF ShouldDropFrame, ModeAfter, BrokenUntilKey
  <2>2. CASE ~TooOld(Head(dataQueue))
    <3>1. UNCHANGED <<dataQueue, lost, fed>> /\ dataQueue # <<>>
          /\ ~(droppingMode /\ ~Head(dataQueue).key)
      BY <1>4, <2>2 DEF ShouldDropFrame, Skippable, inputVars
    <3>2. Broken' <=> Broken
      BY <3>1, BrokenUnchanged
    <3>3. Broken => dataQueue # <<>> /\ Head(dataQueue).key
      BY <3>1 DEF BrokenUntilKey
    <3> QED
      BY <3>1, <3>2, <3>3, Zenon DEF BrokenUntilKey
  <2> QED
    BY <2>1, <2>2
<1>5. CASE \/ EnqueueGate \/ NoInputBuffer \/ NullInputBuffer
           \/ DrainOutput \/ NullOutputBuffer \/ DrainDone \/ DrainInterrupted
           \/ CodecDecode \/ Tick
  <2>1. UNCHANGED <<fed, lost, droppingMode, dataQueue>>
    BY <1>5 DEF EnqueueGate, NoInputBuffer, NullInputBuffer, DrainOutput,
       NullOutputBuffer, DrainDone, DrainInterrupted, CodecDecode,
       Tick, threadVars, netVars, inputVars, outputVars
  <2>2. Broken' <=> Broken
    BY <2>1, BrokenUnchanged
  <2> QED
    BY <2>1, <2>2, Zenon DEF BrokenUntilKey
<1> QED
  BY <1>1, <1>2, <1>3, <1>4, <1>5 DEF Next, DecodeThread

LEMMA FeedsWhatItCheckedKept ==
    ASSUME IInv, Next, TypeInv'
    PROVE  FeedsWhatItChecked'
<1> USE DEF IInv, TypeInv, TypeOK
<1>1. CASE \/ FeedCodec \/ NoInputBuffer \/ NullInputBuffer
           \/ NullOutputBuffer \/ DrainDone \/ DrainInterrupted
  BY <1>1 DEF FeedsWhatItChecked, FeedCodec, NoInputBuffer, NullInputBuffer,
       NullOutputBuffer, DrainDone, DrainInterrupted
<1>2. CASE \/ SkipToKey \/ DrainOutput
  BY <1>2 DEF FeedsWhatItChecked, SkipToKey, DrainOutput, threadVars
<1>3. CASE EnqueuePush
  <2>1. Broken' <=> Broken
    BY <1>3, BrokenUnchanged DEF EnqueuePush, inputVars
  <2>2. droppingMode' = droppingMode /\ decPc' = decPc
    BY <1>3 DEF EnqueuePush
  <2>3. ASSUME dataQueue # <<>>
        PROVE  dataQueue' # <<>> /\ Head(dataQueue') = Head(dataQueue)
    <3>1. PICK t \in netPkt[1].ts .. now :
              dataQueue' = Append(dataQueue, [netPkt[1] EXCEPT !.ts = t])
      BY <1>3 DEF EnqueuePush
    <3>2. netPkt[1] \in Packet /\ now \in Nat
      BY <1>3, PacketInHand DEF EnqueuePush
    <3>3. [netPkt[1] EXCEPT !.ts = t] \in Packet
      BY <3>2, Stamped
    <3> QED
      BY <2>3, <3>1, <3>3, HeadOfAppend
  <2> QED
    BY <2>1, <2>2, <2>3, Zenon DEF FeedsWhatItChecked
<1>4. CASE ShouldDropFrame
  <2>1. CASE TooOld(Head(dataQueue)) /\ ~Head(dataQueue).key
    BY <1>4, <2>1 DEF ShouldDropFrame, AfterDrop, FeedsWhatItChecked
  <2>2. CASE ~(TooOld(Head(dataQueue)) /\ ~Head(dataQueue).key)
    <3>1. UNCHANGED <<dataQueue, lost, fed>> /\ dataQueue # <<>>
          /\ ~(droppingMode /\ ~Head(dataQueue).key)
          /\ droppingMode' = TooOld(Head(dataQueue))
      BY <1>4, <2>2 DEF ShouldDropFrame, Skippable, ModeAfter, inputVars
    <3>2. Broken' <=> Broken
      BY <3>1, BrokenUnchanged
    <3>3. Head(dataQueue).key \/ (~TooOld(Head(dataQueue)) /\ ~Broken)
      BY <2>2, <3>1 DEF BrokenUntilKey
    <3> QED
      BY <3>1, <3>2, <3>3, Zenon DEF FeedsWhatItChecked
  <2> QED
    BY <2>1, <2>2
<1>5. CASE EnqueueGate \/ CodecDecode \/ Tick
  <2>1. UNCHANGED <<fed, lost, droppingMode, dataQueue, decPc>>
    BY <1>5 DEF EnqueueGate, CodecDecode, Tick, threadVars, inputVars
  <2>2. Broken' <=> Broken
    BY <2>1, BrokenUnchanged
  <2> QED
    BY <2>1, <2>2, Zenon DEF FeedsWhatItChecked
<1> QED
  BY <1>1, <1>2, <1>3, <1>4, <1>5 DEF Next, DecodeThread

LEMMA InitIInv == Init => IInv
<1> SUFFICES ASSUME Init PROVE IInv
  OBVIOUS
<1>1. TypeInv
  <2>1. <<>> \in Seq(Packet) /\ Len(<<>>) = 0 /\ <<>> \in Seq(Nat)
    OBVIOUS
  <2>2. droppingMode \in BOOLEAN
    BY Zenon DEF Init
  <2> QED
    BY <2>1, <2>2, DecodeQueueAssumption DEF Init, TypeInv, TypeOK
<1>2. PacketsAccountedFor
  BY IdsEmptyOne DEF Init, PacketsAccountedFor, Ordered, Older
<1>3. GapsOnlyAtTheGate /\ ~Broken
  BY DEF Init, GapsOnlyAtTheGate, Broken
<1>4. FeedsWhatItChecked
  BY DEF Init, FeedsWhatItChecked
<1> QED
  BY <1>1, <1>2, <1>3, <1>4 DEF IInv, BrokenUntilKey

LEMMA IInvInductive == Spec => []IInv
<1>1. IInv /\ TypeInv' /\ [Next]_vars => IInv'
  <2> SUFFICES ASSUME IInv, TypeInv', [Next]_vars PROVE IInv'
    OBVIOUS
  <2>1. CASE Next
    BY <2>1, AccountKept, GapsKept, BrokenUntilKeyKept, FeedsWhatItCheckedKept
       DEF IInv
  <2>2. CASE UNCHANGED vars
    BY <2>2 DEF IInv, vars, threadVars, netVars, inputVars, outputVars,
       PacketsAccountedFor, GapsOnlyAtTheGate, BrokenUntilKey,
       FeedsWhatItChecked, Broken, Ordered, Older, IdsOf
  <2> QED
    BY <2>1, <2>2
<1> QED
  BY <1>1, InitIInv, TypeInvInductive, PTL DEF Spec

\* Each packet offered to mediaCodec_enqueuePacket is in exactly one place, and
\* the codec is fed in arrival order.
THEOREM AccountedAlways == Spec => []PacketsAccountedFor
  BY IInvInductive, PTL DEF IInv

\* The decode thread never feeds a packet after dropping one it refers to.
THEOREM GapsOnlyAtTheGateAlways == Spec => []GapsOnlyAtTheGate
  BY IInvInductive, PTL DEF IInv

\* After a loss the queue stays in dropping mode until a key packet is next.
THEOREM BrokenUntilKeyAlways == Spec => []BrokenUntilKey
  BY IInvInductive, PTL DEF IInv

\* The packet fed is one that shouldDropFrame passed.
THEOREM FeedsWhatItCheckedAlways == Spec => []FeedsWhatItChecked
  BY IInvInductive, PTL DEF IInv

(***************************************************************************)
(* Refinement of GopQueue.                                                 *)
(***************************************************************************)
Item == [id : Nat, key : BOOLEAN]
ItemOf(p) == [id |-> p.id, key |-> p.key]

LEMMA UntimedSeq ==
    ASSUME NEW s \in Seq(Packet)
    PROVE  /\ Untimed(s) \in Seq(Item)
           /\ Len(Untimed(s)) = Len(s)
           /\ \A i \in 1 .. Len(s) : Untimed(s)[i] = ItemOf(s[i])
<1>1. Len(s) \in Nat /\ DOMAIN s = 1 .. Len(s)
  BY LenProperties
<1>2. \A i \in 1 .. Len(s) : ItemOf(s[i]) \in Item
  BY <1>1, IdsMember DEF ItemOf, Item, Packet
<1>3. Untimed(s) = [i \in 1 .. Len(s) |-> ItemOf(s[i])]
  BY <1>1 DEF Untimed, ItemOf
<1>4. Untimed(s) \in Seq(Item)
  BY <1>1, <1>2, <1>3, IsASeq
<1>5. DOMAIN Untimed(s) = 1 .. Len(s)
  BY <1>3
<1>6. Len(Untimed(s)) = Len(s)
  BY <1>1, <1>4, <1>5, LenProperties
<1> QED
  BY <1>3, <1>4, <1>6

LEMMA UntimedSame ==
    ASSUME NEW s \in Seq(Packet), NEW t \in Seq(Packet), Len(s) = Len(t),
           \A i \in 1 .. Len(s) : ItemOf(s[i]) = ItemOf(t[i])
    PROVE  Untimed(s) = Untimed(t)
  BY UntimedSeq, SeqEqual

LEMMA UntimedAppend ==
    ASSUME NEW s \in Seq(Packet), NEW p \in Packet
    PROVE  Untimed(Append(s, p)) = Append(Untimed(s), ItemOf(p))
<1> DEFINE u == Untimed(Append(s, p))
           v == Append(Untimed(s), ItemOf(p))
<1>1. /\ Append(s, p) \in Seq(Packet) /\ Len(Append(s, p)) = Len(s) + 1
      /\ \A i \in 1 .. Len(s) : Append(s, p)[i] = s[i]
      /\ Append(s, p)[Len(s) + 1] = p /\ Len(s) \in Nat
  BY PacketAppend, LenProperties
<1>2. /\ u \in Seq(Item) /\ Len(u) = Len(s) + 1
      /\ \A i \in 1 .. Len(s) + 1 : u[i] = ItemOf(Append(s, p)[i])
  BY <1>1, UntimedSeq
<1>3. ItemOf(p) \in Item
  BY DEF ItemOf, Item, Packet
<1>4. /\ Untimed(s) \in Seq(Item) /\ Len(Untimed(s)) = Len(s)
      /\ \A i \in 1 .. Len(s) : Untimed(s)[i] = ItemOf(s[i])
  BY UntimedSeq
<1>5. /\ v \in Seq(Item) /\ Len(v) = Len(s) + 1
      /\ \A i \in 1 .. Len(s) : v[i] = ItemOf(s[i])
      /\ v[Len(s) + 1] = ItemOf(p)
  BY <1>3, <1>4, AppendProperties
<1> HIDE DEF u, v
<1>6. \A i \in 1 .. Len(u) : u[i] = v[i]
  <2> SUFFICES ASSUME NEW i \in 1 .. Len(s) + 1 PROVE u[i] = v[i]
    BY <1>2
  <2>1. CASE i \in 1 .. Len(s)
    BY <1>1, <1>2, <1>5, <2>1
  <2>2. CASE i = Len(s) + 1
    BY <1>1, <1>2, <1>5, <2>2
  <2> QED
    BY <1>1, <2>1, <2>2
<1>7. u = v
  BY <1>2, <1>5, <1>6, SeqEqual
<1> QED
  BY <1>7 DEF u, v

LEMMA UntimedHeadTail ==
    ASSUME NEW s \in Seq(Packet), s # <<>>
    PROVE  /\ Untimed(s) # <<>>
           /\ Head(Untimed(s)) = ItemOf(Head(s))
           /\ Tail(Untimed(s)) = Untimed(Tail(s))
<1>1. /\ Untimed(s) \in Seq(Item) /\ Len(Untimed(s)) = Len(s)
      /\ \A i \in 1 .. Len(s) : Untimed(s)[i] = ItemOf(s[i])
  BY UntimedSeq
<1>2. /\ Tail(s) \in Seq(Packet) /\ Len(Tail(s)) = Len(s) - 1
      /\ \A i \in 1 .. Len(Tail(s)) : Tail(s)[i] = s[i+1]
      /\ Len(s) \in Nat \ {0} /\ Head(s) = s[1]
  BY PacketHeadTail
<1>3. Untimed(s) # <<>>
  BY <1>1, <1>2, EmptySeq
<1>4. /\ Tail(Untimed(s)) \in Seq(Item) /\ Len(Tail(Untimed(s))) = Len(s) - 1
      /\ \A i \in 1 .. Len(Tail(Untimed(s))) :
            Tail(Untimed(s))[i] = Untimed(s)[i+1]
  BY <1>1, <1>3, HeadTailProperties
<1>5. /\ Untimed(Tail(s)) \in Seq(Item) /\ Len(Untimed(Tail(s))) = Len(s) - 1
      /\ \A i \in 1 .. Len(s) - 1 : Untimed(Tail(s))[i] = ItemOf(Tail(s)[i])
  BY <1>2, UntimedSeq
<1>6. \A i \in 1 .. Len(s) - 1 : Tail(Untimed(s))[i] = Untimed(Tail(s))[i]
  BY <1>1, <1>2, <1>4, <1>5
<1>7. Tail(Untimed(s)) = Untimed(Tail(s))
  BY <1>4, <1>5, <1>6, SeqEqual
<1>8. Head(Untimed(s)) = Untimed(s)[1] /\ Untimed(s)[1] = ItemOf(s[1])
  BY <1>1, <1>2, <1>3
<1> QED
  BY <1>2, <1>3, <1>7, <1>8

\* The packets the queue holds, with the one in hand behind them.
LEMMA HeldHeadTail ==
    ASSUME NEW q \in Seq(Packet), NEW h \in Seq(Packet), q # <<>>
    PROVE  /\ q \o h \in Seq(Packet) /\ q \o h # <<>>
           /\ Head(q \o h) = Head(q)
           /\ Tail(q \o h) = Tail(q) \o h
           /\ Untimed(q \o h) # <<>>
           /\ Head(Untimed(q \o h)) = ItemOf(Head(q))
           /\ Tail(Untimed(q \o h)) = Untimed(Tail(q) \o h)
<1>1. /\ q \o h \in Seq(Packet) /\ Len(q \o h) = Len(q) + Len(h)
      /\ \A i \in 1 .. Len(q) + Len(h) :
            (q \o h)[i] = IF i <= Len(q) THEN q[i] ELSE h[i - Len(q)]
  BY ConcatProperties
<1>2. /\ Tail(q) \in Seq(Packet) /\ Len(Tail(q)) = Len(q) - 1
      /\ \A i \in 1 .. Len(Tail(q)) : Tail(q)[i] = q[i+1]
      /\ Len(q) \in Nat \ {0} /\ Head(q) = q[1]
  BY PacketHeadTail
<1>3. Len(h) \in Nat
  BY LenProperties
<1>4. q \o h # <<>>
  BY <1>1, <1>2, <1>3, EmptySeq
<1>5. /\ Tail(q \o h) \in Seq(Packet) /\ Len(Tail(q \o h)) = Len(q) + Len(h) - 1
      /\ \A i \in 1 .. Len(q) + Len(h) - 1 : Tail(q \o h)[i] = (q \o h)[i+1]
      /\ Head(q \o h) = (q \o h)[1]
  BY <1>1, <1>4, PacketHeadTail
<1>6. /\ Tail(q) \o h \in Seq(Packet)
      /\ Len(Tail(q) \o h) = Len(q) - 1 + Len(h)
      /\ \A i \in 1 .. Len(q) - 1 + Len(h) :
            (Tail(q) \o h)[i]
               = IF i <= Len(q) - 1 THEN Tail(q)[i] ELSE h[i - (Len(q) - 1)]
  BY <1>2, ConcatProperties
<1>7. Head(q \o h) = Head(q)
  BY <1>1, <1>2, <1>3, <1>5
<1>8. ASSUME NEW i \in 1 .. Len(q) + Len(h) - 1
      PROVE  Tail(q \o h)[i] = (Tail(q) \o h)[i]
  <2>1. Tail(q \o h)[i] = IF i + 1 <= Len(q) THEN q[i+1] ELSE h[i + 1 - Len(q)]
    BY <1>1, <1>2, <1>3, <1>5
  <2>2. (Tail(q) \o h)[i] = IF i + 1 <= Len(q) THEN q[i+1] ELSE h[i + 1 - Len(q)]
    BY <1>2, <1>3, <1>6
  <2> QED
    BY <2>1, <2>2
<1>9. Tail(q \o h) = Tail(q) \o h
  BY <1>2, <1>3, <1>5, <1>6, <1>8, SeqEqual
<1> QED
  BY <1>1, <1>4, <1>7, <1>9, UntimedHeadTail

Held == Untimed(dataQueue \o netPkt)

\* Popping a packet that is not fed is a Lose of the abstract queue.
LEMMA PopIsLose ==
    ASSUME IInv, PopUnfed, dataQueue # <<>>, ~Head(dataQueue).key,
           UNCHANGED <<fed, netPkt, offered>>
    PROVE  Gop!Lose
<1>1. dataQueue \in Seq(Packet) /\ netPkt \in Seq(Packet)
  BY DEF IInv, TypeInv, TypeOK
<1>2. /\ Held # <<>> /\ Head(Held) = ItemOf(Head(dataQueue))
      /\ Tail(Held) = Untimed(Tail(dataQueue) \o netPkt)
  BY <1>1, HeldHeadTail DEF Held
<1>3. Held' = Tail(Held)
  BY <1>2 DEF PopUnfed, Held
<1>4. Broken'
  <2>1. Accounted(fed, dataQueue, netPkt, offered, refused, lost)
    BY AccountIs DEF IInv
  <2>2. \A x \in IdsOf(fed) : x < Head(dataQueue).id
    BY <1>1, <2>1, HeadAndRest DEF IInv, TypeInv, TypeOK
  <2>3. \A j \in DOMAIN fed : fed[j].id < Head(dataQueue).id
    BY <2>2 DEF IdsOf
  <2> QED
    BY <2>3 DEF Broken, PopUnfed
<1>5. ~Head(Held).key
  BY <1>2 DEF ItemOf
<1>6. Untimed(fed)' = Untimed(fed)
  BY DEF Untimed
<1> QED
  BY <1>2, <1>3, <1>4, <1>5, <1>6 DEF Gop!Lose, Held

\* Feeding the codec is a Deliver.
LEMMA FeedIsDeliver ==
    ASSUME IInv, FeedCodec
    PROVE  Gop!Deliver
<1>1. dataQueue \in Seq(Packet) /\ netPkt \in Seq(Packet) /\ fed \in Seq(Packet)
  BY DEF IInv, TypeInv, TypeOK
<1>2. /\ dataQueue # <<>> /\ Head(dataQueue) \in Packet
      /\ fed' = Append(fed, Head(dataQueue))
      /\ dataQueue' = Tail(dataQueue) /\ netPkt' = netPkt /\ offered' = offered
  BY Feeding DEF IInv, FeedCodec, MoveToCodec, netVars
<1>3. /\ Held # <<>> /\ Head(Held) = ItemOf(Head(dataQueue))
      /\ Tail(Held) = Untimed(Tail(dataQueue) \o netPkt)
  BY <1>1, <1>2, HeldHeadTail DEF Held
<1>4. Held' = Tail(Held)
  BY <1>2, <1>3 DEF Held
<1>5. Untimed(fed)' = Append(Untimed(fed), Head(Held))
  <2>1. Untimed(fed') = Append(Untimed(fed), ItemOf(Head(dataQueue)))
    BY <1>1, <1>2, UntimedAppend
  <2>2. Untimed(fed)' = Untimed(fed')
    BY DEF Untimed
  <2> QED
    BY <1>3, <2>1, <2>2
<1>6. ~Broken'
  BY FeedNotBroken DEF IInv
<1>7. Head(Held).key \/ ~Broken
  BY <1>3 DEF IInv, FeedsWhatItChecked, FeedCodec, ItemOf
<1>8. Broken' <=> (Broken /\ ~Head(Held).key)
  BY <1>6, <1>7
<1> QED
  BY <1>2, <1>3, <1>4, <1>5, <1>7, <1>8 DEF Gop!Deliver, Held

\* The gate refuses or accepts.
LEMMA GateIsRefuseOrAccept ==
    ASSUME IInv, EnqueueGate
    PROVE  Gop!Refuse \/ Gop!Accept
<1>1. dataQueue \in Seq(Packet) /\ offered \in Nat /\ now \in Nat
  BY DEF IInv, TypeInv, TypeOK
<1>2. /\ netPkt = <<>> /\ offered' = offered + 1
      /\ dataQueue' = dataQueue /\ fed' = fed /\ lost' = lost
  BY DEF EnqueueGate, threadVars, inputVars
<1>3. Untimed(fed)' = Untimed(fed) /\ (Broken' <=> Broken)
  BY <1>2, BrokenUnchanged DEF Untimed
<1>4. PICK key \in BOOLEAN :
         \/ netPkt' = netPkt
         \/ netPkt' = <<[id |-> offered + 1, key |-> key, ts |-> now]>>
  BY Zenon DEF EnqueueGate
<1>5. CASE netPkt' = netPkt
  <2>1. Held' = Held
    BY <1>2, <1>5 DEF Held, Untimed
  <2> QED
    BY <1>2, <1>3, <2>1 DEF Gop!Refuse, Held
<1>6. CASE netPkt' = <<[id |-> offered + 1, key |-> key, ts |-> now]>>
  <2> DEFINE p == [id |-> offered + 1, key |-> key, ts |-> now]
  <2>1. /\ p \in Packet /\ ItemOf(p) = [id |-> offered + 1, key |-> key]
        /\ netPkt' = <<p>>
    BY <1>1, <1>6 DEF Packet, ItemOf
  <2> HIDE DEF p
  <2>2. dataQueue \o netPkt = dataQueue
    BY <1>1, <1>2, ConcatEmptySeq
  <2>3. dataQueue \o <<p>> = Append(dataQueue, p)
    BY <1>1, <2>1, AppendIsConcat
  <2>4. Held' = Append(Held, [id |-> offered + 1, key |-> key])
    <3>1. Untimed(Append(dataQueue, p)) = Append(Untimed(dataQueue), ItemOf(p))
      BY <1>1, <2>1, UntimedAppend
    <3>2. Held' = Untimed(dataQueue' \o netPkt')
      BY DEF Held, Untimed
    <3> QED
      BY <1>2, <2>1, <2>2, <2>3, <3>1, <3>2 DEF Held
  <2> QED
    BY <1>2, <1>3, <2>4 DEF Gop!Accept, Held
<1> QED
  BY <1>4, <1>5, <1>6

\* Pushing moves a packet the abstract queue already holds.
LEMMA PushIsStutter ==
    ASSUME IInv, EnqueuePush
    PROVE  UNCHANGED Gop!gopVars
<1>1. /\ dataQueue \in Seq(Packet) /\ netPkt \in Seq(Packet) /\ now \in Nat
      /\ netPkt # <<>> /\ Len(netPkt) <= 1
  BY DEF IInv, TypeInv, TypeOK, EnqueuePush
<1>2. /\ netPkt' = <<>> /\ offered' = offered /\ fed' = fed /\ lost' = lost
  BY DEF EnqueuePush, inputVars
<1>3. PICK t \in netPkt[1].ts .. now :
          dataQueue' = Append(dataQueue, [netPkt[1] EXCEPT !.ts = t])
  BY DEF EnqueuePush
<1> DEFINE h == netPkt[1]
           p == [netPkt[1] EXCEPT !.ts = t]
<1>4. h \in Packet
  BY <1>1, PacketInHand
<1>5. p \in Packet /\ ItemOf(p) = ItemOf(h)
  <2>1. p \in Packet /\ p.id = h.id
    BY <1>1, <1>4, Stamped
  <2>2. p.key = h.key
    BY <1>4 DEF Packet
  <2> QED
    BY <2>1, <2>2 DEF ItemOf
<1>6. netPkt = <<h>>
  <2>1. <<h>> \in Seq(Packet) /\ Len(<<h>>) = 1
    BY <1>4, OnePacket
  <2>2. DOMAIN netPkt = {1}
    BY <1>1, OneInHand
  <2>3. Len(netPkt) = 1
    BY <2>2, <1>1, LenProperties, PacketHeadTail
  <2>4. \A i \in 1 .. 1 : netPkt[i] = <<h>>[i]
    OBVIOUS
  <2> QED
    BY <1>1, <2>1, <2>3, <2>4, SeqEqual
<1> HIDE DEF h, p
<1>7. Held = Append(Untimed(dataQueue), ItemOf(h))
  <2>1. dataQueue \o netPkt = Append(dataQueue, h)
    BY <1>1, <1>4, <1>6, AppendIsConcat
  <2> QED
    BY <1>1, <1>4, <2>1, UntimedAppend DEF Held
<1>8. Held' = Append(Untimed(dataQueue), ItemOf(p))
  <2>1. dataQueue' = Append(dataQueue, p)
    BY <1>3 DEF p
  <2>2. Append(dataQueue, p) \in Seq(Packet)
    BY <1>1, <1>5, PacketAppend
  <2>3. dataQueue' \o netPkt' = Append(dataQueue, p)
    BY <1>2, <2>1, <2>2, ConcatEmptySeq
  <2>4. Held' = Untimed(dataQueue' \o netPkt')
    BY DEF Held, Untimed
  <2> QED
    BY <1>1, <1>5, <2>3, <2>4, UntimedAppend
<1>9. Held' = Held
  BY <1>5, <1>7, <1>8
<1>10. Untimed(fed)' = Untimed(fed) /\ (Broken' <=> Broken)
  BY <1>2, BrokenUnchanged DEF Untimed
<1> QED
  BY <1>2, <1>9, <1>10 DEF Gop!gopVars, Held

LEMMA StepRefines ==
    ASSUME IInv, [Next]_vars
    PROVE  [Gop!Next]_(Gop!gopVars)
<1>1. CASE EnqueueGate
  BY <1>1, GateIsRefuseOrAccept DEF Gop!Next
<1>2. CASE EnqueuePush
  BY <1>2, PushIsStutter
<1>3. CASE SkipToKey
  BY <1>3, PopIsLose DEF Gop!Next, SkipToKey, Skippable, netVars, inputVars
<1>4. ASSUME UNCHANGED <<fed, lost, dataQueue, netPkt, offered>>
      PROVE  UNCHANGED Gop!gopVars
  <2>1. Broken' <=> Broken
    BY <1>4, BrokenUnchanged
  <2>2. Held' = Held /\ Untimed(fed)' = Untimed(fed)
    BY <1>4 DEF Held, Untimed
  <2> QED
    BY <1>4, <2>1, <2>2 DEF Gop!gopVars, Held
<1>5. CASE ShouldDropFrame
  <2>1. /\ UNCHANGED <<fed, netPkt, offered>> /\ dataQueue # <<>>
        /\ \/ UNCHANGED <<dataQueue, lost>>
           \/ PopUnfed /\ ~Head(dataQueue).key
    BY <1>5, Zenon DEF ShouldDropFrame, netVars, inputVars
  <2>2. CASE UNCHANGED <<dataQueue, lost>>
    BY <1>4, <2>1, <2>2
  <2>3. CASE PopUnfed /\ ~Head(dataQueue).key
    BY <2>1, <2>3, PopIsLose DEF Gop!Next
  <2> QED
    BY <2>1, <2>2, <2>3
<1>6. CASE FeedCodec
  BY <1>6, FeedIsDeliver DEF Gop!Next
<1>7. CASE \/ NoInputBuffer \/ NullInputBuffer \/ DrainOutput
           \/ NullOutputBuffer \/ DrainDone \/ DrainInterrupted \/ CodecDecode \/ Tick
           \/ UNCHANGED vars
  <2>1. UNCHANGED <<fed, lost, dataQueue, netPkt, offered>>
    BY <1>7 DEF NoInputBuffer, NullInputBuffer, DrainOutput, NullOutputBuffer,
       DrainDone, DrainInterrupted, CodecDecode, Tick, vars, threadVars, netVars,
       inputVars, outputVars
  <2> QED
    BY <1>4, <2>1
<1> QED
  BY <1>1, <1>2, <1>3, <1>5, <1>6, <1>7 DEF Next, DecodeThread

LEMMA InitRefines == Init => Gop!Init
<1> SUFFICES ASSUME Init PROVE Gop!Init
  OBVIOUS
<1>1. Untimed(<<>>) = <<>>
  <2>1. Untimed(<<>>) \in Seq(Item) /\ Len(Untimed(<<>>)) = 0
    <3>1. <<>> \in Seq(Packet) /\ Len(<<>>) = 0
      OBVIOUS
    <3> QED
      BY <3>1, UntimedSeq
  <2> QED
    BY <2>1, EmptySeq
<1>2. <<>> \o <<>> = <<>>
  BY ConcatEmptySeq, EmptySeq
<1>3. Untimed(dataQueue \o netPkt) = <<>> /\ Untimed(fed) = <<>>
  BY <1>1, <1>2 DEF Init
<1>4. ~Broken
  BY DEF Init, Broken
<1> QED
  BY <1>3, <1>4 DEF Init, Gop!Init

\* mediacodec.cpp's queue implements GopQueue: in order, at most once, no key
\* packet lost, and nothing after a loss but the next key packet.
THEOREM ImplementsGopQueue == Spec => GopContract
<1>1. Init => Gop!Init
  BY InitRefines
<1>2. IInv /\ [Next]_vars => [Gop!Next]_(Gop!gopVars)
  BY StepRefines
<1> QED
  BY <1>1, <1>2, IInvInductive, PTL DEF Spec, GopContract, Gop!Spec
=============================================================================
