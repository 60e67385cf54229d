---------------------------- MODULE DecodeQueue ----------------------------
(***************************************************************************)
(* mediacodec.cpp while a session is running: the network thread calls     *)
(* mediaCodec_enqueuePacket, decodeThread feeds AMediaCodec and takes the  *)
(* pictures out, AMediaCodec (external) decodes in between.                *)
(*                                                                         *)
(* dataQueue is only touched under queueLock, except by the decode         *)
(* thread's empty(), and only the decode thread pops; droppingMode is      *)
(* written by the decode thread only and read by both without the lock.    *)
(* A step below is one critical section with the thread-local code around  *)
(* it; what another thread can do between two critical sections of the     *)
(* code is a step of its own here.                                         *)
(***************************************************************************)
EXTENDS Naturals, Sequences

CONSTANTS
    DropAfter,     \* the age limit, 500000 us in shouldDropFrame
    InBuffers,     \* input buffers of the codec
    OutBuffers,    \* output buffers of the codec
    MaxPackets,    \* bound: packets the network thread offers
    MaxTime,       \* bound: the clock
    MaxLeaks       \* bound: times the codec answers NULL for a buffer

ASSUME DecodeQueueAssumption ==
    /\ DropAfter \in Nat
    /\ InBuffers \in Nat \ {0}
    /\ OutBuffers \in Nat \ {0}
    /\ MaxPackets \in Nat
    /\ MaxTime \in Nat
    /\ MaxLeaks \in Nat

VARIABLES
    now,           \* gettimeofday
    droppingMode,
    dataQueue,
    netPkt,        \* the packet mediaCodec_enqueuePacket has let in: <<>> or <<p>>
    decPc,         \* where decodeThread is: "loop", "feed" or "drain"
    inFree,        \* input buffers dequeueInputBuffer can return
    codecIn,       \* ids of the packets queued to the codec
    codecOut,      \* ids of the pictures dequeueOutputBuffer can return
    inLeaked,      \* input buffers taken from the codec and never given back
    outLeaked,     \* output buffers taken and never released
    \* history
    offered,       \* packets mediaCodec_enqueuePacket was called with
    refused,       \* ids of those it turned away
    lost,          \* ids of those the decode thread popped without feeding
    fed            \* packets given to the codec, oldest first

netVars     == <<netPkt, offered, refused>>
inputVars   == <<inFree, codecIn, inLeaked, fed>>
outputVars  == <<codecOut, outLeaked>>
threadVars  == <<droppingMode, dataQueue, decPc, lost>>
vars == <<now, threadVars, netVars, inputVars, outputVars>>

Packet == [id : Nat, key : BOOLEAN, ts : Nat]

Waiting == {dataQueue[i] : i \in DOMAIN dataQueue}
              \cup {netPkt[i] : i \in DOMAIN netPkt}

IdsOf(s) == {s[i].id : i \in DOMAIN s}

\* A session begins with an empty queue, in the mode the session before left.
Init ==
    /\ now = 0
    /\ droppingMode \in BOOLEAN
    /\ dataQueue = <<>>
    /\ netPkt = <<>>
    /\ decPc = "loop"
    /\ inFree = InBuffers
    /\ codecIn = <<>>
    /\ codecOut = <<>>
    /\ inLeaked = 0
    /\ outLeaked = 0
    /\ offered = 0
    /\ refused = {}
    /\ lost = {}
    /\ fed = <<>>

(***************************************************************************)
(* The network thread                                                      *)
(***************************************************************************)

\* mediaCodec_enqueuePacket up to the lock: droppingMode is read unlocked.
TurnedAway(key) == droppingMode /\ ~key

EnqueueGate ==
    /\ netPkt = <<>>
    /\ offered < MaxPackets
    /\ offered' = offered + 1
    /\ \E key \in BOOLEAN :
          \/ /\ TurnedAway(key)
             /\ refused' = refused \cup {offered + 1}
             /\ UNCHANGED netPkt
          \/ /\ ~TurnedAway(key)
             /\ netPkt' = <<[id |-> offered + 1, key |-> key, ts |-> now]>>
             /\ UNCHANGED refused
    /\ UNCHANGED <<now, threadVars, inputVars, outputVars>>

\* VideoPacket takes its timestamp before the lock, at some time since the gate.
EnqueuePush ==
    /\ netPkt # <<>>
    /\ \E t \in netPkt[1].ts .. now :
          dataQueue' = Append(dataQueue, [netPkt[1] EXCEPT !.ts = t])
    /\ netPkt' = <<>>
    /\ UNCHANGED <<now, droppingMode, decPc, lost, offered,
                   refused, inputVars, outputVars>>

(***************************************************************************)
(* decodeThread                                                            *)
(***************************************************************************)
TooOld(p) == now - p.ts > DropAfter

PopUnfed ==
    /\ dataQueue' = Tail(dataQueue)
    /\ lost' = lost \cup {Head(dataQueue).id}

SkippableAny(p) == TRUE         \* mutant: the test of isKeyFrame is missing
Skippable(p) == ~p.key

\* In dropping mode everything before the next key packet is popped.
SkipToKey ==
    /\ decPc = "loop"
    /\ dataQueue # <<>>
    /\ droppingMode /\ Skippable(Head(dataQueue))
    /\ PopUnfed
    /\ UNCHANGED <<now, droppingMode, decPc, netVars, inputVars,
                   outputVars>>

ModeNeverSet(p) == FALSE        \* mutant: droppingMode = true is missing
ModeAfter(p) == TooOld(p)

FallThrough == "feed"           \* mutant: no continue after a drop
AfterDrop == "loop"

\* shouldDropFrame and what decodeThread does with its three answers.
ShouldDropFrame ==
    /\ decPc = "loop"
    /\ dataQueue # <<>>
    /\ ~(droppingMode /\ Skippable(Head(dataQueue)))
    /\ droppingMode' = ModeAfter(Head(dataQueue))
    /\ \/ /\ ~TooOld(Head(dataQueue))
          /\ decPc' = "feed"
          /\ UNCHANGED <<dataQueue, lost>>
       \/ /\ TooOld(Head(dataQueue)) /\ Head(dataQueue).key
          /\ decPc' = "feed"
          /\ UNCHANGED <<dataQueue, lost>>
       \/ /\ TooOld(Head(dataQueue)) /\ ~Head(dataQueue).key
          /\ PopUnfed
          /\ decPc' = AfterDrop
    /\ UNCHANGED <<now, netVars, inputVars, outputVars>>

IgnoresIndex == TRUE            \* mutant: index >= 0 is not tested
HasInputBuffer == inFree > 0

\* mutant: the packet is copied to the codec and not popped
CopyToCodecOnly ==
    /\ fed' = Append(fed, Head(dataQueue))
    /\ UNCHANGED dataQueue

MoveToCodec ==
    /\ fed' = Append(fed, Head(dataQueue))
    /\ dataQueue' = Tail(dataQueue)

FeedCodec ==
    /\ decPc = "feed"
    /\ HasInputBuffer
    /\ inFree' = inFree - 1
    /\ codecIn' = Append(codecIn, Head(dataQueue).id)
    /\ MoveToCodec
    /\ decPc' = "drain"
    /\ UNCHANGED <<now, droppingMode, lost, inLeaked, netVars,
                   outputVars>>

\* mutant: continue when dequeueInputBuffer has no buffer
NoInputBufferContinue ==
    /\ decPc = "feed"
    /\ ~HasInputBuffer
    /\ decPc' = "loop"
    /\ UNCHANGED <<now, droppingMode, dataQueue, lost, netVars,
                   inputVars, outputVars>>

\* dequeueInputBuffer answers with no buffer: the packet stays in the queue.
NoInputBuffer ==
    /\ decPc = "feed"
    /\ ~HasInputBuffer
    /\ decPc' = "drain"
    /\ UNCHANGED <<now, droppingMode, dataQueue, lost, netVars,
                   inputVars, outputVars>>

\* getInputBuffer answers NULL: the buffer is not given back.
NullInputBuffer ==
    /\ decPc = "feed"
    /\ HasInputBuffer
    /\ inLeaked + outLeaked < MaxLeaks
    /\ inFree' = inFree - 1
    /\ inLeaked' = inLeaked + 1
    /\ decPc' = "loop"
    /\ UNCHANGED <<now, droppingMode, dataQueue, lost, netVars,
                   codecIn, fed, outputVars>>

\* One turn of while (index >= 0): the picture is copied and its buffer released.
DrainOutput ==
    /\ decPc = "drain"
    /\ codecOut # <<>>
    /\ codecOut' = Tail(codecOut)
    /\ UNCHANGED <<now, threadVars, netVars, inputVars, outLeaked>>

NullOutputBuffer ==
    /\ decPc = "drain"
    /\ codecOut # <<>>
    /\ inLeaked + outLeaked < MaxLeaks
    /\ codecOut' = Tail(codecOut)
    /\ outLeaked' = outLeaked + 1
    /\ decPc' = "loop"
    /\ UNCHANGED <<now, droppingMode, dataQueue, lost, netVars,
                   inputVars>>

DrainDone ==
    /\ decPc = "drain"
    /\ codecOut = <<>>
    /\ decPc' = "loop"
    /\ UNCHANGED <<now, droppingMode, dataQueue, lost, netVars,
                   inputVars, outputVars>>

\* dequeueOutputBuffer reports a changed format, or other news below zero: the
\* drain ends here too, with pictures still to be taken.
DrainInterrupted ==
    /\ decPc = "drain"
    /\ codecOut # <<>>
    /\ decPc' = "loop"
    /\ UNCHANGED <<now, droppingMode, dataQueue, lost, netVars,
                   inputVars, outputVars>>

DecodeThread ==
    \/ SkipToKey \/ ShouldDropFrame
    \/ FeedCodec \/ NoInputBuffer \/ NullInputBuffer
    \/ DrainOutput \/ NullOutputBuffer \/ DrainDone \/ DrainInterrupted

(***************************************************************************)
(* AMediaCodec and the clock                                               *)
(***************************************************************************)
CodecDecode ==
    /\ codecIn # <<>>
    /\ Len(codecOut) + outLeaked < OutBuffers
    /\ codecOut' = Append(codecOut, Head(codecIn))
    /\ codecIn' = Tail(codecIn)
    /\ inFree' = inFree + 1
    /\ UNCHANGED <<now, threadVars, netVars, inLeaked, fed, outLeaked>>

Tick ==
    /\ now < MaxTime
    /\ now' = now + 1
    /\ UNCHANGED <<threadVars, netVars, inputVars, outputVars>>

Next == EnqueueGate \/ EnqueuePush \/ DecodeThread \/ CodecDecode \/ Tick

Spec == Init /\ [][Next]_vars

\* Threads and codec are scheduled; the camera need not send, and the clock of
\* the model may stop at its bound. The codec has news of its format once in a
\* while only, so a drain begun again and again takes a picture in the end.
Fairness ==
    /\ WF_vars(EnqueuePush)
    /\ WF_vars(DecodeThread)
    /\ SF_vars(DrainOutput)
    /\ WF_vars(CodecDecode)

FairSpec == Spec /\ Fairness

(***************************************************************************)
(* Properties                                                              *)
(***************************************************************************)
TypeOK ==
    /\ now \in Nat
    /\ droppingMode \in BOOLEAN
    /\ dataQueue \in Seq(Packet)
    /\ netPkt \in Seq(Packet) /\ Len(netPkt) <= 1
    /\ decPc \in {"loop", "feed", "drain"}
    /\ inFree \in Nat
    /\ codecIn \in Seq(Nat)
    /\ codecOut \in Seq(Nat)
    /\ inLeaked \in Nat
    /\ outLeaked \in Nat
    /\ offered \in Nat
    /\ refused \subseteq Nat
    /\ lost \subseteq Nat
    /\ fed \in Seq(Packet)

\* The decode thread has lost a packet since the last key packet it fed.
Broken ==
    \E i \in lost : \A j \in DOMAIN fed : fed[j].key => fed[j].id < i

Ordered(s)  == \A i, j \in DOMAIN s : i < j => s[i].id < s[j].id
Older(s, t) == \A i \in DOMAIN s, j \in DOMAIN t : s[i].id < t[j].id

\* Every packet is in exactly one place, and the codec is fed in arrival order:
\* what was fed or lost is older than what waits in dataQueue, which is older
\* than what the network thread still holds (the pops at 131, 113 and 165 and
\* the push at 218 are under the lock, the decisions before them are not).
PacketsAccountedFor ==
    /\ Ordered(fed) /\ Ordered(dataQueue)
    /\ Older(fed, dataQueue) /\ Older(fed, netPkt) /\ Older(dataQueue, netPkt)
    /\ \A i \in lost : /\ \A j \in DOMAIN dataQueue : i < dataQueue[j].id
                       /\ \A j \in DOMAIN netPkt : i < netPkt[j].id
    /\ 1 .. offered = IdsOf(fed) \cup IdsOf(dataQueue) \cup IdsOf(netPkt)
                         \cup refused \cup lost
    /\ refused \cap (lost \cup IdsOf(fed) \cup IdsOf(dataQueue) \cup IdsOf(netPkt)) = {}
    /\ lost \cap IdsOf(fed) = {}

\* A packet that is not a key packet reaches the codec only if the decode
\* thread has popped none of its predecessors since the last key packet: the
\* only packets missing before it are those the gate of
\* mediaCodec_enqueuePacket turned away (212).
GapsOnlyAtTheGate ==
    \A j \in 2 .. Len(fed) :
        \/ fed[j].key
        \/ \A i \in fed[j-1].id + 1 .. fed[j].id - 1 : i \in refused

\* While the queue is missing a packet of the current group, the decode thread
\* is in dropping mode or a key packet stands at the head of the queue, so the
\* next packet fed is a key packet (127-138 with 108-118).
BrokenUntilKey ==
    Broken => \/ droppingMode
              \/ dataQueue # <<>> /\ Head(dataQueue).key

\* At "feed" the head of the queue is the packet shouldDropFrame passed: never
\* a packet to be skipped, although the lock was released in between (119-157).
FeedsWhatItChecked ==
    decPc = "feed" =>
        /\ dataQueue # <<>>
        /\ Head(dataQueue).key \/ (~droppingMode /\ ~Broken)

\* The queue implements the contract of GopQueue, the timestamp left out.
Untimed(s) == [i \in DOMAIN s |-> [id |-> s[i].id, key |-> s[i].key]]

Gop == INSTANCE GopQueue
          WITH pending   <- Untimed(dataQueue \o netPkt),
               delivered <- Untimed(fed),
               broken    <- Broken

GopContract == Gop!Spec

\* All input or all output buffers have gone with a NULL answer (154, 187).
CodecExhausted == inLeaked = InBuffers \/ outLeaked = OutBuffers

\* What waits is fed or dropped in the end: the queue does not grow for ever. A
\* key packet offered is fed, however late it is: neither the gate nor
\* shouldDropFrame drops it ("key frame do not drop", 98). The exception is a
\* codec that has lost all its buffers of one kind, each with a NULL answer
\* after which it is never given back (154, 187): one buffer left is enough.
BacklogDrains ==
    \A i \in 1 .. MaxPackets :
        /\ (i \in IdsOf(dataQueue))
              ~> (i \notin IdsOf(dataQueue) \/ CodecExhausted)
        /\ (\E p \in Waiting : p.id = i /\ p.key)
              ~> (i \in IdsOf(fed) \/ CodecExhausted)

\* A decoded picture is taken out of the codec and handed to the sender.
PicturesTakenOut == (codecOut # <<>>) ~> (codecOut = <<>>)
=============================================================================
