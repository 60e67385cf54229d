--------------------------- MODULE Sender_proofs ---------------------------
(***************************************************************************)
(* That the sender thread loses track of no frame and shows them in order, *)
(* for any number of frames, sizes and ticks, and that only an             *)
(* announcement during a conversion can take its array away.               *)
(***************************************************************************)
EXTENDS Sender, FiniteSetTheorems, TLAPS

(***************************************************************************)
(* Sequences                                                               *)
(***************************************************************************)
\* Taking the front off a queue.
LEMMA FrontAndRest ==
  ASSUME NEW S, NEW q \in Seq(S), q # <<>>
  PROVE  /\ Len(q) \in Nat \ {0}
         /\ Head(q) \in S /\ Head(q) = q[1]
         /\ Tail(q) \in Seq(S) /\ Len(Tail(q)) = Len(q) - 1
         /\ \A i \in 1 .. Len(q) - 1 : Tail(q)[i] = q[i + 1]
  OBVIOUS

\* Adding an element at the end.
LEMMA AppendAtEnd ==
  ASSUME NEW S, NEW q \in Seq(S), NEW e \in S
  PROVE  /\ Append(q, e) \in Seq(S)
         /\ Append(q, e) # <<>>
         /\ Len(Append(q, e)) = Len(q) + 1
         /\ Head(Append(q, e)) = IF q = <<>> THEN e ELSE Head(q)
         /\ \A i \in 1 .. Len(q) : Append(q, e)[i] = q[i]
         /\ Append(q, e)[Len(q) + 1] = e
  OBVIOUS

\* The frames dropped are finitely many, and a new one adds one.
LEMMA OneMoreDropped ==
  ASSUME NEW D \in SUBSET (1 .. MaxFrames), NEW f, f \notin D
  PROVE  Cardinality(D \cup {f}) = Cardinality(D) + 1 /\ Cardinality(D) \in Nat
<1>1. MaxFrames \in Int
  BY SenderAssumption
<1>2. IsFiniteSet(1 .. MaxFrames)
  BY <1>1, FS_Interval
<1>3. IsFiniteSet(D)
  BY <1>2, FS_Subset
<1> QED
  BY <1>3, FS_AddElement, FS_CardinalityType

(***************************************************************************)
(* The inductive invariant: the frames dropped are older than the queue,   *)
(* so that the one about to be dropped is not yet among them.              *)
(***************************************************************************)
DroppedLeft == \A d \in dropped : d <= Done

\* sizeChanged is under way only when it was called with a size to allocate.
ResizeInv == resizing # "no" => width \in Sizes /\ allocs < MaxSps

IInv == TypeOK /\ ResizeInv /\ FramesAccountedFor /\ ShownOrDropped /\ DroppedLeft

\* What the steps that touch no frame leave alone.
frameVars == <<spc, frames, frameQueue, pkt, shown, dropped, rendered>>

\* Done is a natural number not above frames.
LEMMA DoneIsNat ==
  ASSUME IInv
  PROVE  /\ Done \in Nat /\ Done <= frames /\ frames \in Nat
         /\ MaxFrames \in Nat /\ MaxSps \in Nat /\ MaxTime \in Nat
         /\ Len(frameQueue) \in Nat /\ Len(shown) \in Nat
<1>1. Len(frameQueue) \in Nat /\ Len(shown) \in Nat
  BY DEF IInv, TypeOK
<1>2. MaxFrames \in Nat /\ MaxSps \in Nat /\ MaxTime \in Nat
  BY SenderAssumption
<1>3. frames \in Nat
  BY <1>2 DEF IInv, TypeOK
<1>4. Cardinality(dropped) \in Nat
  <2>1. IsFiniteSet(1 .. MaxFrames)
    BY <1>2, FS_Interval
  <2>2. IsFiniteSet(dropped)
    BY <2>1, FS_Subset DEF IInv, TypeOK
  <2> QED
    BY <2>2, FS_CardinalityType
<1> QED
  BY <1>1, <1>2, <1>3, <1>4 DEF IInv, TypeOK, FramesAccountedFor, Done

\* The frame in hand is the oldest in the queue, and was not dropped.
LEMMA InHand ==
  ASSUME IInv, spc \in {"drop", "start", "convert", "pop"}
  PROVE  /\ frameQueue # <<>> /\ frameQueue \in Seq(Frame)
         /\ Len(frameQueue) \in Nat \ {0}
         /\ pkt = Head(frameQueue) /\ pkt.id = Done + 1
         /\ pkt.id \in 1 .. frames /\ pkt.id \in 1 .. MaxFrames
         /\ pkt.id \notin dropped
<1>1. frameQueue # <<>> /\ pkt = Head(frameQueue) /\ frameQueue \in Seq(Frame)
  BY DEF IInv, FramesAccountedFor, TypeOK
<1>2. Len(frameQueue) \in Nat \ {0} /\ pkt = frameQueue[1]
  BY <1>1, FrontAndRest
<1>3. pkt.id = Done + 1
  BY <1>2 DEF IInv, FramesAccountedFor
<1>4. Len(frameQueue) \in Nat \ {0} /\ frames \in 0 .. MaxFrames /\ frames \in Nat
  BY <1>2, DoneIsNat DEF IInv, TypeOK
<1>5. pkt.id \in 1 .. frames /\ pkt.id \in 1 .. MaxFrames
  BY <1>3, <1>4, DoneIsNat DEF Done
<1>6. pkt.id \notin dropped
  BY <1>3, DoneIsNat DEF IInv, DroppedLeft
<1> QED
  BY <1>1, <1>2, <1>3, <1>5, <1>6

\* Outside the pop, the frames shown before are among those done with.
LEMMA ShownLeft ==
  ASSUME IInv, NEW i \in DOMAIN shown
  PROVE  /\ shown[i] \in Nat /\ shown[i] \notin dropped
         /\ spc # "pop" => shown[i] <= Done
         /\ spc = "pop" => shown[i] <= Done + 1
<1>1. shown[i] \in Nat
  <2>1. shown \in Seq(1 .. MaxFrames) /\ MaxFrames \in Nat
    BY DoneIsNat DEF IInv, TypeOK
  <2> QED
    BY <2>1
<1>2. shown[i] \notin dropped /\ shown[i] <= Done + (IF spc = "pop" THEN 1 ELSE 0)
  BY DEF IInv, ShownOrDropped
<1> QED
  BY <1>1, <1>2, DoneIsNat

\* No frame in hand, and no call to the player under way.
LEMMA NoFrameIsFrame ==
  /\ NoFrame \in Frame
  /\ NoCall \in [array : 0 .. MaxSps, target : 0 .. MaxSps, size : Sizes \cup {0},
                 frame : Frame, freed : BOOLEAN]
<1>1. NoFrame \in Frame /\ 0 \in 0 .. MaxSps
  BY SenderAssumption DEF NoFrame, Frame
<1> QED
  BY <1>1 DEF NoCall, NULL

(***************************************************************************)
(* Initial states                                                          *)
(***************************************************************************)
LEMMA InvInit == Init => IInv
<1> SUFFICES ASSUME Init
             PROVE  IInv
  OBVIOUS
<1>1. NoFrame \in Frame
  BY NoFrameIsFrame
<1>2. TypeOK
  <2>1. {MaxFrames, MaxSps, MaxTime} \subseteq Nat
    BY SenderAssumption
  <2>2. /\ owner \in {"new", "open", "closing", "closed"}
        /\ spc \in {"while", "look", "drop", "start", "convert", "pop", "ended"}
        /\ frameQueue \in Seq(Frame) /\ pkt \in Frame
        /\ {width, arraySize} \subseteq Sizes \cup {0}
    BY <1>1 DEF Init
  <2>3. /\ array = NULL /\ {target, array, allocs, seen} \subseteq 0 .. MaxSps
        /\ clock \in 0 .. MaxTime /\ frames \in 0 .. MaxFrames
        /\ shown \in Seq(1 .. MaxFrames) /\ dropped \subseteq 1 .. MaxFrames
        /\ rendered \in Nat
    BY <2>1 DEF Init, NULL
  <2>4. buffer \in [array : 0 .. MaxSps, target : 0 .. MaxSps, size : Sizes \cup {0},
                    frame : Frame, freed : BOOLEAN]
    BY NoFrameIsFrame, Zenon DEF Init
  <2>5. isRunning \in BOOLEAN /\ resizing \in {"no", "free", "alloc"}
    BY SenderAssumption, Zenon DEF Init
  <2> QED
    BY <2>2, <2>3, <2>4, <2>5, Zenon DEF TypeOK
<1>3. Cardinality(dropped) = 0 /\ Done = 0 /\ dropped = {}
  <2>1. Cardinality({}) = 0
    BY FS_EmptySet
  <2>2. dropped = {}
    BY Zenon DEF Init
  <2>3. Done = 0
    <3>1. frames = 0 /\ frameQueue = <<>>
      BY Zenon DEF Init
    <3> QED
      <4>1. Len(<<>>) = 0
        OBVIOUS
      <4>2. Done = 0 - 0
        BY <3>1, <4>1, Zenon DEF Done
      <4> QED
        BY <4>2
  <2> QED
    BY <2>1, <2>2, <2>3, Zenon
<1>4. FramesAccountedFor /\ ShownOrDropped /\ DroppedLeft /\ ResizeInv
  BY <1>3 DEF Init, FramesAccountedFor, ShownOrDropped, DroppedLeft, ResizeInv
<1> QED
  BY <1>2, <1>4 DEF IInv

(***************************************************************************)
(* Counting: no step loses track of a frame                                *)
(***************************************************************************)
CountInv == FramesAccountedFor /\ ShownOrDropped /\ DroppedLeft

\* A new frame goes to the end of the queue.
LEMMA EnqueueCounts ==
  ASSUME IInv, NEW mode \in Modes, EnqueueFrame(mode)
  PROVE  CountInv'
<1> DEFINE f == [id |-> frames + 1, time |-> clock, size |-> width,
                 sps |-> Announced, mode |-> mode]
<1>1. /\ frameQueue \in Seq(Frame \cup {f}) /\ f \in Frame \cup {f}
      /\ frameQueue' = Append(frameQueue, f) /\ frames' = frames + 1
      /\ UNCHANGED <<spc, pkt, shown, dropped, rendered>>
  BY DEF EnqueueFrame, workVars, IInv, TypeOK
<1>2. /\ frameQueue' # <<>> /\ Len(frameQueue') = Len(frameQueue) + 1
      /\ frameQueue # <<>> => Head(frameQueue') = Head(frameQueue)
      /\ \A i \in 1 .. Len(frameQueue) : frameQueue'[i] = frameQueue[i]
      /\ frameQueue'[Len(frameQueue) + 1] = f
  BY <1>1, AppendAtEnd
<1>3. Done' = Done
  BY <1>1, <1>2, DoneIsNat DEF Done
<1>4. \A i \in 1 .. Len(frameQueue') : frameQueue'[i].id = Done' + i
  BY <1>1, <1>2, <1>3, DoneIsNat DEF IInv, FramesAccountedFor, Done
<1>5. FramesAccountedFor'
  BY <1>1, <1>2, <1>3, <1>4 DEF IInv, FramesAccountedFor
<1>6. ShownOrDropped' /\ DroppedLeft'
  BY <1>1, <1>3 DEF IInv, ShownOrDropped, DroppedLeft
<1> QED
  BY <1>5, <1>6 DEF CountInv

\* Popping the frame in hand leaves the queue behind it.
LEMMA PopFront ==
  ASSUME IInv, spc \in {"drop", "pop"},
         frameQueue' = Tail(frameQueue), frames' = frames
  PROVE  /\ Done' = Done + 1
         /\ \A i \in 1 .. Len(frameQueue') : frameQueue'[i].id = Done' + i
<1>1. /\ Len(frameQueue') = Len(frameQueue) - 1
      /\ \A i \in 1 .. Len(frameQueue) - 1 : frameQueue'[i] = frameQueue[i + 1]
  BY InHand, FrontAndRest
<1>2. Done' = Done + 1
  <2>1. frames \in Nat /\ Len(frameQueue) \in Nat /\ frames' = frames
    BY DoneIsNat
  <2> QED
    <3>1. frames - (Len(frameQueue) - 1) = frames - Len(frameQueue) + 1
      BY <2>1
    <3> QED
      BY <1>1, <2>1, <3>1, Zenon DEF Done
<1>3. ASSUME NEW i \in 1 .. Len(frameQueue')
      PROVE  frameQueue'[i].id = Done' + i
  <2>1. i \in 1 .. Len(frameQueue) - 1 /\ i + 1 \in 1 .. Len(frameQueue)
    BY <1>1, DoneIsNat
  <2>2. frameQueue'[i] = frameQueue[i + 1]
    BY <1>1, <2>1
  <2>3. frameQueue[i + 1].id = Done + (i + 1)
    BY <2>1 DEF IInv, FramesAccountedFor
  <2> QED
    BY <1>2, <2>1, <2>2, <2>3, DoneIsNat
<1> QED
  BY <1>2, <1>3

\* A stale frame moves from the queue to the dropped ones.
LEMMA DropCounts == IInv /\ DropStale => CountInv'
<1> SUFFICES ASSUME IInv, DropStale
             PROVE  CountInv'
  OBVIOUS
<1>1. /\ spc = "drop" /\ spc' = "while"
      /\ frameQueue' = Tail(frameQueue) /\ frames' = frames
      /\ dropped' = dropped \cup {pkt.id}
      /\ UNCHANGED <<shown, rendered>>
  BY DEF DropStale
<1>2. /\ Done' = Done + 1
      /\ \A i \in 1 .. Len(frameQueue') : frameQueue'[i].id = Done' + i
  BY <1>1, PopFront
<1>3. pkt.id = Done + 1 /\ pkt.id \notin dropped
  BY <1>1, InHand
<1>4. Cardinality(dropped') = Cardinality(dropped) + 1 /\ Cardinality(dropped) \in Nat
  BY <1>1, <1>3, OneMoreDropped DEF IInv, TypeOK
<1>5. FramesAccountedFor'
  <2>1. rendered \in Nat /\ rendered + Cardinality(dropped) = Done
    BY DEF IInv, TypeOK, FramesAccountedFor
  <2>2. rendered' + Cardinality(dropped') = Done'
    BY <1>1, <1>2, <1>4, <2>1, DoneIsNat
  <2> QED
    BY <1>1, <1>2, <2>2 DEF FramesAccountedFor
<1>6. ShownOrDropped'
  <2> QED
    BY <1>1, <1>2, <1>3, ShownLeft, DoneIsNat DEF ShownOrDropped
<1>7. DroppedLeft'
  BY <1>1, <1>2, <1>3, DoneIsNat DEF IInv, TypeOK, DroppedLeft
<1> QED
  BY <1>5, <1>6, <1>7 DEF CountInv

\* A frame handed over is the one in hand, newer than those shown before.
LEMMA ShowCounts == IInv /\ ConvertAndShow => CountInv'
<1> SUFFICES ASSUME IInv, ConvertAndShow
             PROVE  CountInv'
  OBVIOUS
<1>1. /\ spc = "convert" /\ spc' = "pop"
      /\ UNCHANGED <<frameQueue, frames, pkt, dropped, rendered>>
  BY DEF ConvertAndShow, queueVars
<1>2. Done' = Done
  BY <1>1 DEF Done
<1>3. FramesAccountedFor' /\ DroppedLeft'
  BY <1>1, <1>2 DEF IInv, FramesAccountedFor, DroppedLeft
<1>6. CASE shown' = shown
  <2>1. ShownOrDropped'
    BY <1>1, <1>2, <1>6, ShownLeft, DoneIsNat DEF ShownOrDropped
  <2> QED
    BY <1>3, <2>1 DEF CountInv
<1>7. CASE shown' = Append(shown, pkt.id)
  <2>1. shown \in Seq(1 .. MaxFrames) /\ pkt.id \in 1 .. MaxFrames
        /\ pkt.id = Done + 1 /\ pkt.id \notin dropped
    BY <1>1, InHand DEF IInv, TypeOK
  <2>2. /\ Len(shown') = Len(shown) + 1
        /\ \A i \in 1 .. Len(shown) : shown'[i] = shown[i]
        /\ shown'[Len(shown) + 1] = pkt.id
        /\ DOMAIN shown = 1 .. Len(shown) /\ DOMAIN shown' = 1 .. Len(shown) + 1
    BY <1>7, <2>1, AppendAtEnd
  <2>3. \A i \in DOMAIN shown' : i \in DOMAIN shown \/ i = Len(shown) + 1
    BY <2>2, DoneIsNat
  <2>4. ASSUME NEW i \in DOMAIN shown'
        PROVE  shown'[i] \notin dropped' /\ shown'[i] <= Done' + 1
    <3>1. CASE i \in DOMAIN shown
      BY <1>1, <1>2, <2>2, <3>1, ShownLeft, DoneIsNat
    <3>2. CASE i = Len(shown) + 1
      BY <1>1, <1>2, <2>1, <2>2, <3>2, DoneIsNat
    <3> QED
      BY <2>3, <3>1, <3>2
  <2>5. ShownOrDropped'
    BY <1>1, <2>4 DEF ShownOrDropped
  <2> QED
    BY <1>3, <2>5 DEF CountInv
<1> QED
  BY <1>6, <1>7, Zenon DEF ConvertAndShow

\* A frame shown or refused is counted and popped.
LEMMA PopCounts == IInv /\ PopShown => CountInv'
<1> SUFFICES ASSUME IInv, PopShown
             PROVE  CountInv'
  OBVIOUS
<1>1. /\ spc = "pop" /\ spc' = "while"
      /\ frameQueue' = Tail(frameQueue) /\ frames' = frames
      /\ rendered' = rendered + 1
      /\ UNCHANGED <<shown, dropped>>
  BY DEF PopShown
<1>2. /\ Done' = Done + 1
      /\ \A i \in 1 .. Len(frameQueue') : frameQueue'[i].id = Done' + i
  BY <1>1, PopFront
<1>3. FramesAccountedFor'
  <2>1. rendered \in Nat /\ rendered + Cardinality(dropped) = Done
    BY DEF IInv, TypeOK, FramesAccountedFor
  <2>2. Cardinality(dropped) \in Nat
    BY OneMoreDropped, InHand, <1>1 DEF IInv, TypeOK
  <2>3. rendered' + Cardinality(dropped') = Done'
    BY <1>1, <1>2, <2>1, <2>2, DoneIsNat
  <2> QED
    BY <1>1, <1>2, <2>3 DEF FramesAccountedFor
<1>4. ShownOrDropped'
  BY <1>1, <1>2, ShownLeft, DoneIsNat DEF ShownOrDropped
<1>5. DroppedLeft'
  BY <1>1, <1>2, DoneIsNat DEF IInv, TypeOK, DroppedLeft
<1> QED
  BY <1>3, <1>4, <1>5 DEF CountInv

\* The remaining steps keep the counts: they touch no frame, or only read one.
LEMMA CountStep == IInv /\ [Next]_vars => CountInv'
<1> SUFFICES ASSUME IInv, [Next]_vars
             PROVE  CountInv'
  OBVIOUS
<1>1. CASE UNCHANGED frameVars
  <2>1. Done' = Done
    BY <1>1 DEF frameVars, Done
  <2> QED
    BY <1>1, <2>1 DEF frameVars, IInv, CountInv, FramesAccountedFor, ShownOrDropped, DroppedLeft
<1>2. ASSUME UNCHANGED <<frames, frameQueue, shown, dropped, rendered>>,
             spc # "pop", spc' # "pop",
             spc' \in {"drop", "start", "convert", "pop"}
                => frameQueue # <<>> /\ pkt' = Head(frameQueue)
      PROVE  CountInv'
  <2>1. Done' = Done
    BY <1>2 DEF Done
  <2> QED
    BY <1>2, <2>1 DEF IInv, CountInv, FramesAccountedFor, ShownOrDropped, DroppedLeft
<1>3. CASE TestRunning
  <2>1. spc' \in {"look", "ended"}
    BY <1>3, Zenon DEF TestRunning
  <2> QED
    BY <1>2, <1>3, <2>1 DEF TestRunning, queueVars
<1>4. CASE LookEmpty
  BY <1>2, <1>4 DEF LookEmpty, queueVars
<1>5. CASE CopyFront
  <2>1. spc' \in {"drop", "start"}
    BY <1>5, Zenon DEF CopyFront
  <2> QED
    BY <1>2, <1>5, <2>1 DEF CopyFront, queueVars
<1>6. CASE StartConversion
  BY <1>2, <1>6 DEF StartConversion, queueVars, IInv, FramesAccountedFor
<1>7. CASE Construct \/ Destruct \/ Join \/ (\E size \in Sizes : OnSPSFrame(size))
           \/ FreeArrays \/ SizeChanged \/ Tick \/ UNCHANGED vars
  <2>1. UNCHANGED frameVars
    BY <1>7, Zenon DEF frameVars, vars, ownerVars, queueVars, sizeVars, workVars,
       Construct, Destruct, Join, OnSPSFrame, FreeArrays, SizeChanged, Tick
  <2> QED
    BY <1>1, <2>1
<1> QED
  BY <1>3, <1>4, <1>5, <1>6, <1>7, EnqueueCounts, DropCounts, ShowCounts, PopCounts,
     Zenon DEF Next, WorkThread

(***************************************************************************)
(* Types                                                                   *)
(***************************************************************************)
OwnerOK == owner \in {"new", "open", "closing", "closed"} /\ isRunning \in BOOLEAN
QueueOK == frameQueue \in Seq(Frame) /\ frames \in 0 .. MaxFrames
SizeOK  == /\ {width, arraySize} \subseteq Sizes \cup {0} /\ resizing \in {"no", "free", "alloc"}
           /\ array # NULL => arraySize \in Sizes
           /\ {array, allocs} \subseteq 0 .. MaxSps
           /\ ResizeInv
WorkOK  == /\ spc \in {"while", "look", "drop", "start", "convert", "pop", "ended"}
           /\ pkt \in Frame /\ {target, seen} \subseteq 0 .. MaxSps
           /\ shown \in Seq(1 .. MaxFrames) /\ dropped \subseteq 1 .. MaxFrames
           /\ rendered \in Nat
           /\ buffer \in [array : 0 .. MaxSps, target : 0 .. MaxSps, size : Sizes \cup {0},
                         frame : Frame, freed : BOOLEAN]

\* The type invariant by the thread that owns the variables.
LEMMA TypeParts ==
  TypeOK /\ ResizeInv <=> OwnerOK /\ QueueOK /\ SizeOK /\ WorkOK /\ clock \in 0 .. MaxTime
BY Zenon DEF TypeOK, OwnerOK, QueueOK, SizeOK, WorkOK

\* The constructor and the destructor.
LEMMA OwnerTypes == IInv /\ [Next]_vars => OwnerOK'
<1> SUFFICES ASSUME IInv, [Next]_vars
             PROVE  OwnerOK'
  OBVIOUS
<1>1. OwnerOK
  BY TypeParts DEF IInv
<1>2. CASE Construct \/ Destruct \/ Join
  BY <1>1, <1>2, Zenon DEF OwnerOK, Construct, Destruct, Join
<1>3. CASE UNCHANGED ownerVars
  BY <1>1, <1>3, Zenon DEF OwnerOK, ownerVars
<1> QED
  BY <1>2, <1>3, Zenon DEF Next, WorkThread, vars, OnSPSFrame, FreeArrays, SizeChanged, EnqueueFrame,
     TestRunning, LookEmpty, CopyFront, DropStale, StartConversion, ConvertAndShow,
     PopShown, Tick

\* The arrays: sizeChanged allocates once per sequence parameter set.
LEMMA SizeTypes == IInv /\ [Next]_vars => SizeOK'
<1> SUFFICES ASSUME IInv, [Next]_vars
             PROVE  SizeOK'
  OBVIOUS
<1>1. SizeOK /\ MaxSps \in Nat
  BY TypeParts, DoneIsNat DEF IInv
<1>2. ASSUME NEW size \in Sizes, OnSPSFrame(size)
      PROVE  SizeOK'
  BY <1>1, <1>2 DEF SizeOK, ResizeInv, OnSPSFrame, NULL
<1>6. CASE FreeArrays
  BY <1>1, <1>6 DEF SizeOK, ResizeInv, FreeArrays, NULL
<1>3. CASE SizeChanged
  <2>1. width \in Sizes /\ allocs < MaxSps /\ allocs \in 0 .. MaxSps
    BY <1>1, <1>3 DEF SizeOK, ResizeInv, SizeChanged
  <2>2. /\ width' = width /\ arraySize' = width /\ allocs' = allocs + 1
        /\ array' = allocs + 1 /\ resizing' = "no"
    BY <1>3, Zenon DEF SizeChanged
  <2>3. resizing' \in {"no", "free", "alloc"} /\ ResizeInv'
    BY <2>2, Zenon DEF ResizeInv
  <2>4. {array', allocs'} \subseteq 0 .. MaxSps
    BY <1>1, <2>1, <2>2
  <2>5. {width', arraySize'} \subseteq Sizes \cup {0} /\ arraySize' \in Sizes
    BY <2>1, <2>2
  <2> QED
    BY <2>3, <2>4, <2>5, Zenon DEF SizeOK
<1>4. CASE Join
  BY <1>1, <1>4 DEF SizeOK, ResizeInv, Join, NULL
<1>5. CASE UNCHANGED sizeVars
  BY <1>1, <1>5 DEF SizeOK, ResizeInv, sizeVars
<1> QED
  BY <1>2, <1>3, <1>4, <1>5, <1>6, Zenon DEF Next, WorkThread, vars, Construct, Destruct,
     EnqueueFrame, TestRunning, LookEmpty, CopyFront, DropStale, StartConversion,
     ConvertAndShow, PopShown, Tick

\* The announcements are at most MaxSps, and none is under way beyond them.
LEMMA CountsInRange ==
  ASSUME IInv
  PROVE  Announced \in 0 .. MaxSps /\ Freed \in 0 .. MaxSps /\ allocs \in Nat
BY DoneIsNat DEF IInv, TypeOK, ResizeInv, Announced, Freed

\* The queue: the bound on the frames decoded keeps their numbers in range.
LEMMA QueueTypes == IInv /\ [Next]_vars => QueueOK'
<1> SUFFICES ASSUME IInv, [Next]_vars
             PROVE  QueueOK'
  OBVIOUS
<1>1. QueueOK /\ frames \in Nat /\ MaxFrames \in Nat
  BY TypeParts, DoneIsNat DEF IInv
<1>2. ASSUME NEW mode \in Modes, EnqueueFrame(mode)
      PROVE  QueueOK'
  <2>1. [id |-> frames + 1, time |-> clock, size |-> width,
         sps |-> Announced, mode |-> mode] \in Frame
    BY <1>1, <1>2, CountsInRange DEF EnqueueFrame, Frame, IInv, TypeOK
  <2> QED
    BY <1>1, <1>2, <2>1, AppendAtEnd DEF EnqueueFrame, QueueOK
<1>3. CASE DropStale \/ PopShown
  <2>1. frameQueue' = Tail(frameQueue) /\ frames' = frames /\ spc \in {"drop", "pop"}
    BY <1>3, Zenon DEF DropStale, PopShown
  <2> QED
    BY <1>1, <2>1, InHand, FrontAndRest DEF QueueOK
<1>4. CASE UNCHANGED queueVars
  BY <1>1, <1>4 DEF QueueOK, queueVars
<1> QED
  BY <1>2, <1>3, <1>4, Zenon DEF Next, WorkThread, vars, Construct, Destruct, Join,
     OnSPSFrame, FreeArrays, SizeChanged, TestRunning, LookEmpty, CopyFront, StartConversion,
     ConvertAndShow, Tick

\* The sender thread's own variables.
LEMMA WorkTypes == IInv /\ [Next]_vars => WorkOK'
<1> SUFFICES ASSUME IInv, [Next]_vars
             PROVE  WorkOK'
  OBVIOUS
<1>1. WorkOK /\ SizeOK
  BY TypeParts DEF IInv
<1>2. CASE TestRunning
  <2>1. spc' \in {"look", "ended"}
    BY <1>2, Zenon DEF TestRunning
  <2> QED
    BY <1>1, <1>2, <2>1 DEF WorkOK, TestRunning
<1>3. CASE LookEmpty
  BY <1>1, <1>3 DEF WorkOK, LookEmpty
<1>4. CASE CopyFront
  <2>1. spc' \in {"drop", "start"}
    BY <1>4, Zenon DEF CopyFront
  <2>2. pkt' \in Frame
    BY <1>4, FrontAndRest DEF CopyFront, IInv, TypeOK
  <2> QED
    BY <1>1, <1>4, <2>1, <2>2 DEF WorkOK, CopyFront
<1>5. CASE DropStale
  BY <1>1, <1>5, InHand, NoFrameIsFrame DEF WorkOK, DropStale
<1>6. CASE StartConversion
  BY <1>1, <1>6, CountsInRange DEF WorkOK, SizeOK, StartConversion
<1>7. CASE ConvertAndShow
  <2>1. CASE UNCHANGED <<shown, buffer>>
    BY <1>1, <1>7, <2>1, DoneIsNat DEF WorkOK, ConvertAndShow, NULL
  <2>2. CASE /\ shown' = Append(shown, pkt.id)
             /\ buffer' = [array |-> array, target |-> target, size |-> arraySize,
                           frame |-> pkt, freed |-> seen # Freed]
    <3>1. shown' \in Seq(1 .. MaxFrames)
      BY <1>1, <1>7, <2>2, InHand, AppendAtEnd DEF WorkOK, ConvertAndShow
    <3>2. buffer' \in [array : 0 .. MaxSps, target : 0 .. MaxSps, size : Sizes \cup {0},
                       frame : Frame, freed : BOOLEAN]
      BY <1>1, <2>2 DEF WorkOK, SizeOK
    <3> QED
      BY <1>1, <1>7, <3>1, <3>2, DoneIsNat DEF WorkOK, ConvertAndShow, NULL
  <2> QED
    BY <1>7, <2>1, <2>2, Zenon DEF ConvertAndShow
<1>8. CASE PopShown
  BY <1>1, <1>8, NoFrameIsFrame DEF WorkOK, PopShown
<1>9. CASE UNCHANGED workVars
  BY <1>1, <1>9, Zenon DEF WorkOK, workVars
<1> QED
  BY <1>2, <1>3, <1>4, <1>5, <1>6, <1>7, <1>8, <1>9, Zenon DEF Next, WorkThread, vars,
     Construct, Destruct, Join, OnSPSFrame, FreeArrays, SizeChanged, EnqueueFrame, Tick

\* The clock.
LEMMA ClockTypes == IInv /\ [Next]_vars => clock' \in 0 .. MaxTime
<1> SUFFICES ASSUME IInv, [Next]_vars
             PROVE  clock' \in 0 .. MaxTime
  OBVIOUS
<1>1. clock \in 0 .. MaxTime /\ MaxTime \in Nat
  BY DoneIsNat DEF IInv, TypeOK
<1>2. CASE Tick
  BY <1>1, <1>2 DEF Tick
<1>3. CASE UNCHANGED clock
  BY <1>1, <1>3
<1> QED
  BY <1>2, <1>3, Zenon DEF Next, WorkThread, vars, Construct, Destruct, Join, OnSPSFrame,
     FreeArrays, SizeChanged, EnqueueFrame, TestRunning, LookEmpty, CopyFront, DropStale,
     StartConversion, ConvertAndShow, PopShown

(***************************************************************************)
(* The theorems                                                            *)
(***************************************************************************)
LEMMA InvStep == IInv /\ [Next]_vars => IInv'
<1> SUFFICES ASSUME IInv, [Next]_vars
             PROVE  IInv'
  OBVIOUS
<1>1. TypeOK' /\ ResizeInv'
  BY OwnerTypes, SizeTypes, QueueTypes, WorkTypes, ClockTypes, Zenon
     DEF TypeOK, OwnerOK, QueueOK, SizeOK, WorkOK
<1>2. CountInv'
  BY CountStep
<1> QED
  BY <1>1, <1>2, Zenon DEF IInv, CountInv

LEMMA InvAlways == Spec => []IInv
BY InvInit, InvStep, PTL DEF Spec

\* Every variable keeps its type: no frame number, array or clock leaves its
\* range (senderThread.cpp, every handler).
THEOREM SenderTypeCorrect == Spec => []TypeOK
<1>1. IInv => TypeOK
  BY DEF IInv
<1> QED
  BY <1>1, InvAlways, PTL

\* Whatever the number of frames, and however the decode thread's pushes fall
\* between the unlocked front() and the pop, each frame leaves the queue once.
THEOREM FramesAccountedForAlways == Spec => []FramesAccountedFor
<1>1. IInv => FramesAccountedFor
  BY DEF IInv
<1> QED
  BY <1>1, InvAlways, PTL

\* No frame is both shown and dropped, and none is shown before it is taken.
THEOREM ShownOrDroppedAlways == Spec => []ShownOrDropped
<1>1. IInv => ShownOrDropped
  BY DEF IInv
<1> QED
  BY <1>1, InvAlways, PTL

(***************************************************************************)
(* Refinement                                                              *)
(***************************************************************************)
\* Every step of the four threads is one of LossyFifo's, or changes nothing there.
LEMMA FifoStep == IInv /\ [Next]_vars => [Fifo!Next]_<<frames, shown>>
<1> SUFFICES ASSUME IInv, [Next]_vars
             PROVE  [Fifo!Next]_<<frames, shown>>
  OBVIOUS
<1>1. ASSUME NEW mode \in Modes, EnqueueFrame(mode)
      PROVE  Fifo!Give
  BY <1>1 DEF EnqueueFrame, workVars, Fifo!Give
<1>2. CASE ConvertAndShow
  <2>1. spc = "convert" /\ frames' = frames
    BY <1>2 DEF ConvertAndShow, queueVars
  <2>2. pkt.id \in 1 .. frames /\ pkt.id = Done + 1
    BY <2>1, InHand
  <2>3. \A i \in DOMAIN shown : shown[i] < pkt.id
    BY <2>1, <2>2, ShownLeft, DoneIsNat
  <2>4. shown' = shown \/ shown' = Append(shown, pkt.id)
    BY <1>2, Zenon DEF ConvertAndShow
  <2> QED
    BY <2>1, <2>2, <2>3, <2>4, Zenon DEF Fifo!Next, Fifo!Show
<1>3. CASE UNCHANGED <<frames, shown>>
  BY <1>3
<1> QED
  BY <1>1, <1>2, <1>3, Zenon DEF Fifo!Next, Next, WorkThread, vars, queueVars, workVars,
     Construct, Destruct, Join, OnSPSFrame, FreeArrays, SizeChanged, TestRunning, LookEmpty,
     CopyFront, DropStale, StartConversion, PopShown, Tick

\* The sender thread implements LossyFifo: frames are shown in the order they
\* were decoded, each at most once, whatever the four threads do in between.
THEOREM ImplementsLossyFifo == Spec => FifoContract
<1>1. Init => Fifo!Init
  BY DEF Init, Fifo!Init
<1> QED
  BY <1>1, FifoStep, InvAlways, PTL DEF Spec, FifoContract, Fifo!Spec

(***************************************************************************)
(* The arrays, which have no lock. As long as the sender is not closed the *)
(* array is that of the last announcement, or NULL between its free and    *)
(* its malloc; a conversion that got one remembers which. The frames       *)
(* decoded under the announcement the arrays were made for have their      *)
(* size, those decoded under the one under way that of mediacodec.cpp.     *)
(***************************************************************************)
SpsSize(f) ==
    /\ f.sps <= Announced
    /\ f.sps = Announced => f.size = width
    /\ f.sps = allocs /\ allocs > 0 => f.size = arraySize

ArrayInv ==
    /\ owner = "closed" => spc = "ended"
    /\ owner # "closed" => array = IF resizing = "alloc" THEN NULL ELSE allocs
    /\ spc = "convert" /\ target # NULL => target = seen /\ seen <= allocs
    /\ allocs > 0 /\ resizing = "no" => arraySize = width
    /\ \A i \in 1 .. Len(frameQueue) : SpsSize(frameQueue[i])
    /\ BufferHoldsFrame

\* What the invariant says of the array converted into.
LEMMA TargetIsArray ==
  ASSUME IInv, ArrayInv, spc = "convert", target # NULL
  PROVE  target = array <=> seen = Freed
<1>1. /\ owner # "closed" /\ target = seen /\ seen <= allocs /\ seen \in Nat
      /\ array = IF resizing = "alloc" THEN NULL ELSE allocs
  BY DoneIsNat DEF ArrayInv, IInv, TypeOK
<1> QED
  BY <1>1, CountsInRange DEF Freed, NULL

\* A step that leaves the arrays and the announcement alone, and converts nothing.
LEMMA ArrayKept ==
  ASSUME ArrayInv, UNCHANGED <<sizeVars, frameQueue>>, owner' = "closed" <=> owner = "closed",
         spc = "ended" => spc' = "ended", spc' # "convert" \/ UNCHANGED <<spc, target, seen>>,
         buffer' \in {buffer, NoCall}
  PROVE  ArrayInv'
<1>1. buffer'.frame # NoFrame => buffer' = buffer
  BY DEF NoCall
<1>2. Announced' = Announced /\ Freed' = Freed
  BY DEF sizeVars, Announced, Freed
<1>3. BufferHoldsFrame'
  BY <1>1, <1>2 DEF ArrayInv, BufferHoldsFrame, sizeVars
<1>4. \A i \in 1 .. Len(frameQueue') : SpsSize(frameQueue[i])'
  BY <1>2 DEF ArrayInv, SpsSize, sizeVars
<1>5. spc' = "convert" /\ target' # NULL => target' = seen' /\ seen' <= allocs'
  BY DEF ArrayInv, sizeVars
<1>6. owner' = "closed" => spc' = "ended"
  BY DEF ArrayInv
<1>7. /\ owner' # "closed" => array' = IF resizing' = "alloc" THEN NULL ELSE allocs'
      /\ allocs' > 0 /\ resizing' = "no" => arraySize' = width'
  BY DEF ArrayInv, sizeVars
<1> QED
  BY <1>3, <1>4, <1>5, <1>6, <1>7 DEF ArrayInv

\* An announcement, in its three steps.
LEMMA AnnounceHolds ==
  ASSUME IInv, ArrayInv,
         (\E size \in Sizes : OnSPSFrame(size)) \/ FreeArrays \/ SizeChanged
  PROVE  ArrayInv'
<1>1. /\ allocs \in Nat /\ resizing \in {"no", "free", "alloc"}
      /\ \A i \in 1 .. Len(frameQueue) : frameQueue[i].sps \in Nat
      /\ array \in Nat /\ target \in Nat /\ seen \in Nat
  <2>1. ASSUME NEW i \in 1 .. Len(frameQueue)
        PROVE  frameQueue[i].sps \in Nat
    <3>1. frameQueue[i] \in Frame
      BY DEF IInv, TypeOK
    <3> QED
      BY <3>1, DoneIsNat DEF Frame
  <2>2. {array, target, seen, allocs} \subseteq Nat
    BY DoneIsNat DEF IInv, TypeOK
  <2> QED
    BY <2>1, <2>2 DEF IInv, TypeOK
<1>2. /\ UNCHANGED <<owner, spc, target, seen, buffer, frameQueue>>
  BY Zenon DEF OnSPSFrame, FreeArrays, SizeChanged, ownerVars, workVars, queueVars
<1>3. \A i \in 1 .. Len(frameQueue') : SpsSize(frameQueue[i])'
  <2> SUFFICES ASSUME NEW i \in 1 .. Len(frameQueue)
               PROVE  SpsSize(frameQueue[i])'
    BY <1>2
  <2>1. SpsSize(frameQueue[i]) /\ frameQueue'[i] = frameQueue[i] /\ frameQueue[i].sps \in Nat
    BY <1>1, <1>2 DEF ArrayInv
  <2>2. CASE \E size \in Sizes : OnSPSFrame(size)
    BY <1>1, <2>1, <2>2 DEF SpsSize, Announced, OnSPSFrame
  <2>3. CASE FreeArrays
    BY <1>1, <2>1, <2>3 DEF SpsSize, Announced, FreeArrays
  <2>4. CASE SizeChanged
    BY <1>1, <2>1, <2>4 DEF SpsSize, Announced, SizeChanged
  <2> QED
    BY <2>2, <2>3, <2>4
<1>4. BufferHoldsFrame'
  <2>1. spc = "convert" /\ target # NULL => (target = array' <=> seen = Freed')
    <3> SUFFICES ASSUME spc = "convert", target # NULL
                 PROVE  target = array' <=> seen = Freed'
      OBVIOUS
    <3>1. /\ owner # "closed" /\ target = seen /\ seen <= allocs
          /\ array = IF resizing = "alloc" THEN NULL ELSE allocs
      BY DEF ArrayInv
    <3>2. CASE \E size \in Sizes : OnSPSFrame(size)
      BY <1>1, <3>1, <3>2 DEF Freed, OnSPSFrame
    <3>3. CASE FreeArrays
      BY <1>1, <3>1, <3>3 DEF Freed, FreeArrays
    <3>4. CASE SizeChanged
      BY <1>1, <3>1, <3>4 DEF Freed, SizeChanged
    <3> QED
      BY <3>2, <3>3, <3>4
  <2> QED
    BY <1>2, <2>1 DEF ArrayInv, BufferHoldsFrame
<1>5. CASE \E size \in Sizes : OnSPSFrame(size)
  BY <1>2, <1>3, <1>4, <1>5 DEF ArrayInv, OnSPSFrame
<1>6. CASE FreeArrays
  BY <1>2, <1>3, <1>4, <1>6 DEF ArrayInv, FreeArrays
<1>7. CASE SizeChanged
  BY <1>1, <1>2, <1>3, <1>4, <1>7 DEF ArrayInv, SizeChanged
<1> QED
  BY <1>5, <1>6, <1>7

\* A new frame has the size announced last.
LEMMA EnqueueHolds ==
  ASSUME IInv, ArrayInv, NEW mode \in Modes, EnqueueFrame(mode)
  PROVE  ArrayInv'
<1> DEFINE f == [id |-> frames + 1, time |-> clock, size |-> width,
                 sps |-> Announced, mode |-> mode]
<1>1. /\ frameQueue \in Seq(Frame \cup {f}) /\ f \in Frame \cup {f}
      /\ frameQueue' = Append(frameQueue, f)
      /\ UNCHANGED <<owner, sizeVars, workVars>>
  BY DEF EnqueueFrame, ownerVars, IInv, TypeOK
<1>2. SpsSize(f)
  BY CountsInRange DEF SpsSize, ArrayInv, Announced
<1> HIDE DEF f
<1>3. /\ Len(frameQueue') = Len(frameQueue) + 1 /\ Len(frameQueue) \in Nat
      /\ \A i \in 1 .. Len(frameQueue) : frameQueue'[i] = frameQueue[i]
      /\ frameQueue'[Len(frameQueue) + 1] = f
  BY <1>1, AppendAtEnd, DoneIsNat
<1>4. \A i \in 1 .. Len(frameQueue') : SpsSize(frameQueue'[i])
  BY <1>2, <1>3 DEF ArrayInv
<1>5. \A i \in 1 .. Len(frameQueue') : SpsSize(frameQueue[i])'
  BY <1>1, <1>4 DEF SpsSize, sizeVars, Announced
<1>6. BufferHoldsFrame'
  BY <1>1 DEF ArrayInv, BufferHoldsFrame, sizeVars, workVars, Freed
<1> QED
  BY <1>1, <1>5, <1>6 DEF ArrayInv, sizeVars, workVars

\* Popping a frame.
LEMMA PopHolds ==
  ASSUME IInv, ArrayInv, DropStale \/ PopShown
  PROVE  ArrayInv'
<1>1. /\ spc \in {"drop", "pop"} /\ spc' = "while" /\ frameQueue' = Tail(frameQueue)
      /\ buffer' \in {buffer, NoCall} /\ UNCHANGED <<owner, sizeVars>>
  BY Zenon DEF DropStale, PopShown, ownerVars
<1>2. /\ Len(frameQueue') = Len(frameQueue) - 1
      /\ \A i \in 1 .. Len(frameQueue) - 1 : frameQueue'[i] = frameQueue[i + 1]
      /\ Len(frameQueue) \in Nat \ {0}
  BY <1>1, InHand, FrontAndRest
<1>3. \A i \in 1 .. Len(frameQueue') : SpsSize(frameQueue'[i])
  BY <1>2 DEF ArrayInv
<1>4. \A i \in 1 .. Len(frameQueue') : SpsSize(frameQueue[i])'
  BY <1>1, <1>3 DEF SpsSize, sizeVars, Announced
<1>5. BufferHoldsFrame'
  <2>1. buffer'.frame # NoFrame => buffer' = buffer
    BY <1>1 DEF NoCall
  <2> QED
    BY <1>1, <2>1 DEF ArrayInv, BufferHoldsFrame
<1> QED
  BY <1>1, <1>4, <1>5 DEF ArrayInv, sizeVars

\* Only a frame that got an array is handed over.
LEMMA ConvertHolds ==
  ASSUME IInv, ArrayInv, ConvertAndShow
  PROVE  ArrayInv'
<1>1. /\ spc = "convert" /\ spc' = "pop" /\ target' = NULL
      /\ UNCHANGED <<owner, sizeVars, frameQueue>>
  BY DEF ConvertAndShow, ownerVars, queueVars
<1>2. CASE buffer' = buffer
  BY <1>1, <1>2, ArrayKept
<1>3. CASE buffer' # buffer
  <2>1. /\ pkt.mode # "none" /\ ~(pkt.mode = "argb" /\ (target = NULL \/ pkt.size = 0))
        /\ pkt.mode = "nv21" => target # NULL
        /\ buffer' = [array |-> array, target |-> target, size |-> arraySize,
                      frame |-> pkt, freed |-> seen # Freed]
    BY <1>3 DEF ConvertAndShow
  <2>2. target # NULL
    <3>1. pkt.mode \in {"argb", "nv21", "none"}
      BY SenderAssumption DEF IInv, TypeOK, Frame
    <3> QED
      BY <2>1, <3>1
  <2>3. target = array <=> seen = Freed
    BY <1>1, <2>2, TargetIsArray
  <2>4. array # NULL /\ array = pkt.sps => arraySize = pkt.size
    <3>1. /\ owner # "closed" /\ SpsSize(pkt)
      BY <1>1, InHand, FrontAndRest DEF ArrayInv
    <3> QED
      BY <3>1, CountsInRange DEF ArrayInv, SpsSize, NULL
  <2>5. BufferHoldsFrame'
    BY <1>1, <2>1, <2>3, <2>4 DEF BufferHoldsFrame
  <2>6. \A i \in 1 .. Len(frameQueue') : SpsSize(frameQueue[i])'
    BY <1>1 DEF ArrayInv, SpsSize, sizeVars, Announced
  <2> QED
    BY <1>1, <2>5, <2>6 DEF ArrayInv, sizeVars
<1> QED
  BY <1>2, <1>3

LEMMA ArrayStep ==
  ASSUME IInv, ArrayInv, [Next]_vars
  PROVE  ArrayInv'
<1>1. CASE StartConversion
  <2>1. /\ spc = "start" /\ spc' = "convert" /\ target' = array /\ seen' = Freed
        /\ UNCHANGED <<owner, sizeVars, frameQueue, buffer>>
    BY <1>1 DEF StartConversion, ownerVars, queueVars
  <2>2. array = IF resizing = "alloc" THEN NULL ELSE allocs
    BY <2>1 DEF ArrayInv
  <2>3. Freed' = Freed /\ Announced' = Announced
    BY <2>1 DEF Freed, Announced, sizeVars
  <2>4. target' # NULL => target' = seen' /\ seen' <= allocs
    BY <2>1, <2>2, CountsInRange DEF Freed
  <2>5. BufferHoldsFrame'
    BY <2>1, <2>3 DEF ArrayInv, BufferHoldsFrame, sizeVars
  <2>6. \A i \in 1 .. Len(frameQueue') : SpsSize(frameQueue[i])'
    BY <2>1, <2>3 DEF ArrayInv, SpsSize, sizeVars
  <2> QED
    BY <2>1, <2>4, <2>5, <2>6 DEF ArrayInv, sizeVars
<1>2. CASE Join
  <2>1. /\ owner = "closing" /\ owner' = "closed" /\ spc = "ended" /\ array' = NULL
        /\ UNCHANGED <<frameQueue, width, resizing, arraySize, allocs, workVars>>
    BY <1>2 DEF Join, queueVars
  <2>2. BufferHoldsFrame'
    BY <2>1 DEF ArrayInv, BufferHoldsFrame, workVars
  <2>3. \A i \in 1 .. Len(frameQueue') : SpsSize(frameQueue[i])'
    BY <2>1 DEF ArrayInv, SpsSize, Announced
  <2> QED
    BY <2>1, <2>2, <2>3 DEF ArrayInv, workVars
<1>3. CASE TestRunning \/ LookEmpty \/ CopyFront
  <2>1. /\ spc # "ended" /\ spc' # "convert" /\ UNCHANGED <<owner, sizeVars, frameQueue, buffer>>
    BY <1>3, Zenon DEF TestRunning, LookEmpty, CopyFront, ownerVars, queueVars
  <2> QED
    BY <2>1, ArrayKept
<1>4. CASE Construct \/ Destruct \/ Tick \/ UNCHANGED vars
  <2>1. /\ owner' = "closed" <=> owner = "closed"
        /\ UNCHANGED <<sizeVars, frameQueue, spc, target, seen, buffer>>
    BY <1>4, Zenon DEF Construct, Destruct, Tick, vars, ownerVars, workVars, queueVars
  <2> QED
    BY <2>1, ArrayKept
<1> QED
  BY <1>1, <1>2, <1>3, <1>4, AnnounceHolds, EnqueueHolds, PopHolds, ConvertHolds
     DEF Next, WorkThread

\* However many sequence parameter sets of however many sizes arrive, and whenever:
\* the player is given the array its frame was converted into unless one of them
\* freed the arrays during that very conversion, and an array made for the set the
\* frame was decoded under comes with the size of the frame.
THEOREM BufferHoldsFrameAlways == Spec => []BufferHoldsFrame
<1>1. Init => ArrayInv
  BY DEF Init, ArrayInv, BufferHoldsFrame, NULL, NoCall
<1>2. IInv /\ ArrayInv /\ [Next]_vars => ArrayInv'
  BY ArrayStep
<1>3. ArrayInv => BufferHoldsFrame
  BY DEF ArrayInv
<1> QED
  BY <1>1, <1>2, <1>3, InvAlways, PTL DEF Spec
=============================================================================
