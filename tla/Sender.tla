------------------------------- MODULE Sender -------------------------------
(***************************************************************************)
(* senderThread.cpp: the queue of decoded frames and the thread that       *)
(* converts each to ARGB or NV21 and hands it to the player.               *)
(*                                                                         *)
(* Four threads meet here. The decode thread calls enqueueFrame; the       *)
(* network thread calls sizeChanged whenever a sequence parameter set      *)
(* arrives; the user's thread runs the constructor and the destructor; the *)
(* sender thread runs workThread. Only the queue has a lock; the arrays    *)
(* the frames are converted into, their sizes and isRunning have none.     *)
(***************************************************************************)
EXTENDS Integers, Sequences, FiniteSets

CONSTANTS
    StaleAge,      \* the 18000 us after which a frame is dropped, in ticks
    Sizes,         \* picture sizes the camera may announce
    Modes,         \* "argb" (drawByUser), "nv21" (nv21notify), "none"
    Garbage,       \* what isRunning can hold before the constructor sets it
    MaxFrames,     \* bound: frames decoded
    MaxSps,        \* bound: sequence parameter sets
    MaxTime        \* bound: ticks of the clock

ASSUME SenderAssumption ==
    /\ {StaleAge, MaxFrames, MaxSps, MaxTime} \subseteq Nat
    /\ Modes \subseteq {"argb", "nv21", "none"}
    /\ Garbage \subseteq BOOLEAN
    /\ 0 \notin Sizes

VARIABLES
    owner,         \* constructor and destructor: "new", "open", "closing", "closed"
    isRunning,
    spc,           \* workThread: "while", "look", "drop", "start",
                   \* "convert", "pop", "ended"
    frameQueue,
    pkt,           \* workThread's copy of the front, while it has one in hand
    target,        \* the array the conversion writes into, until it is over
    width,         \* picture size of mediacodec.cpp, 0 before the first SPS; it
                   \* outlives the session
    resizing,      \* the announcement under way: "no", "free" before sizeChanged has
                   \* freed the arrays, "alloc" before it has made new ones
    array,         \* the arrays: number of the allocation, 0 for NULL
    arraySize,
    allocs,        \* allocations made
    clock,
    \* history
    seen,          \* Freed when the conversion began
    frames,        \* frames decoded
    shown,         \* frames handed to the player, in order
    dropped,       \* frames dropped as stale
    rendered,      \* frames counted by frameRendered
    buffer         \* the call to the player: the array, the one that was converted into,
                   \* the size, the frame, and whether the arrays were freed meanwhile

ownerVars == <<owner, isRunning>>
queueVars == <<frameQueue, frames>>
sizeVars  == <<width, resizing, array, arraySize, allocs>>
workVars  == <<spc, pkt, target, seen, shown, dropped, rendered, buffer>>
vars      == <<ownerVars, queueVars, sizeVars, workVars, clock>>

NULL == 0
NoFrame == [id |-> 0, time |-> 0, size |-> 0, sps |-> 0, mode |-> "none"]
NoCall  == [array |-> NULL, target |-> NULL, size |-> 0, frame |-> NoFrame, freed |-> FALSE]

\* sps, a history: the sequence parameter sets announced when it was decoded.
Frame == [id : 0 .. MaxFrames, time : 0 .. MaxTime, size : Sizes \cup {0},
          sps : 0 .. MaxSps, mode : Modes \cup {"none"}]

\* The sequence parameter sets announced, and the times the arrays were freed for
\* one: the k-th announcement makes the k-th arrays.
Announced == allocs + IF resizing = "no" THEN 0 ELSE 1
Freed     == allocs + IF resizing = "alloc" THEN 1 ELSE 0

\* pthread_create comes first: the new thread runs while isRunning is unset.
Init ==
    /\ owner = "new" /\ isRunning \in Garbage
    /\ spc = "while" /\ frameQueue = <<>> /\ pkt = NoFrame /\ target = NULL
    /\ width \in Sizes \cup {0} /\ resizing = "no"
    /\ array = NULL /\ arraySize = 0 /\ allocs = 0
    /\ clock = 0 /\ seen = 0
    /\ frames = 0 /\ shown = <<>> /\ dropped = {} /\ rendered = 0
    /\ buffer = NoCall

(***************************************************************************)
(* Constructor and destructor                                              *)
(***************************************************************************)
Construct ==
    /\ owner = "new"
    /\ owner' = "open"
    /\ isRunning' = TRUE
    /\ UNCHANGED <<queueVars, sizeVars, workVars, clock>>

\* The decode thread and the network thread are gone when the sender is deleted.
Destruct ==
    /\ owner = "open" /\ resizing = "no"
    /\ owner' = "closing"
    /\ isRunning' = FALSE
    /\ UNCHANGED <<queueVars, sizeVars, workVars, clock>>

Join ==
    /\ owner = "closing" /\ spc = "ended"
    /\ owner' = "closed"
    /\ array' = NULL
    /\ UNCHANGED <<isRunning, queueVars, width, resizing, arraySize, allocs, workVars, clock>>

(***************************************************************************)
(* The network thread: mediaCodec_onSPSFrame and sizeChanged               *)
(***************************************************************************)
OnSPSFrameLate(size) ==         \* mutant: sizeChanged is called before width = w
    /\ owner = "open" /\ resizing = "no"
    /\ allocs < MaxSps
    /\ resizing' = "free"
    /\ UNCHANGED <<ownerVars, queueVars, width, array, arraySize, allocs, workVars, clock>>

OnSPSFrame(size) ==
    /\ owner = "open" /\ resizing = "no"
    /\ allocs < MaxSps
    /\ width' = size
    /\ resizing' = "free"
    /\ UNCHANGED <<ownerVars, queueVars, array, arraySize, allocs, workVars, clock>>

FreeArrays ==
    /\ resizing = "free"
    /\ array' = NULL
    /\ resizing' = "alloc"
    /\ UNCHANGED <<ownerVars, queueVars, width, arraySize, allocs, workVars, clock>>

SizeChangedOnce ==              \* mutant: the sizes are computed the first time only
    /\ resizing = "alloc"
    /\ arraySize' = IF arraySize = 0 THEN width ELSE arraySize
    /\ allocs' = allocs + 1
    /\ array' = allocs + 1
    /\ resizing' = "no"
    /\ UNCHANGED <<ownerVars, queueVars, width, workVars, clock>>

SizeChanged ==
    /\ resizing = "alloc"
    /\ arraySize' = width
    /\ allocs' = allocs + 1
    /\ array' = allocs + 1
    /\ resizing' = "no"
    /\ UNCHANGED <<ownerVars, queueVars, width, workVars, clock>>

(***************************************************************************)
(* The decode thread: a frame comes out of the codec. It may be one before *)
(* the first SPS of the session, since the codec has a default SPS.        *)
(***************************************************************************)
EnqueueFrame(mode) ==
    /\ owner = "open"
    /\ frames < MaxFrames
    /\ frames' = frames + 1
    /\ frameQueue' = Append(frameQueue,
           [id |-> frames + 1, time |-> clock, size |-> width,
            sps |-> Announced, mode |-> mode])
    /\ UNCHANGED <<ownerVars, sizeVars, workVars, clock>>

(***************************************************************************)
(* The sender thread                                                       *)
(***************************************************************************)
AlwaysLoops ==                  \* mutant: isRunning is not looked at
    /\ spc = "while"
    /\ spc' = "look"
    /\ UNCHANGED <<ownerVars, queueVars, sizeVars, clock, pkt, target, seen, shown, dropped, rendered, buffer>>

TestRunning ==
    /\ spc = "while"
    /\ spc' = IF isRunning THEN "look" ELSE "ended"
    /\ UNCHANGED <<ownerVars, queueVars, sizeVars, clock, pkt, target, seen, shown, dropped, rendered, buffer>>

LookEmpty ==
    /\ spc = "look" /\ frameQueue = <<>>
    /\ spc' = "while"
    /\ UNCHANGED <<ownerVars, queueVars, sizeVars, clock, pkt, target, seen, shown, dropped, rendered, buffer>>

\* The front is copied without the lock, while the decode thread may push.
CopyFront ==
    /\ spc = "look" /\ frameQueue # <<>>
    /\ pkt' = Head(frameQueue)
    /\ spc' = IF clock - pkt'.time > StaleAge THEN "drop" ELSE "start"
    /\ UNCHANGED <<ownerVars, queueVars, sizeVars, clock, target, seen, shown, dropped, rendered, buffer>>

DropWithoutPop ==               \* mutant: the pop is forgotten
    /\ spc = "drop"
    /\ dropped' = dropped \cup {pkt.id}
    /\ pkt' = NoFrame
    /\ spc' = "while"
    /\ UNCHANGED <<ownerVars, queueVars, sizeVars, clock, target, seen, shown, rendered, buffer>>

DropStale ==
    /\ spc = "drop"
    /\ frameQueue' = Tail(frameQueue)
    /\ dropped' = dropped \cup {pkt.id}
    /\ pkt' = NoFrame
    /\ spc' = "while"
    /\ UNCHANGED <<ownerVars, frames, sizeVars, clock, target, seen, shown, rendered, buffer>>

StartConversion ==
    /\ spc = "start"
    /\ target' = array
    /\ seen' = Freed
    /\ spc' = "convert"
    /\ UNCHANGED <<ownerVars, queueVars, sizeVars, clock, pkt, shown, dropped, rendered, buffer>>

\* The array and its size are read again for the callback, the picture size is
\* the packet's. libyuv refuses a NULL array and an empty picture, and nothing
\* is handed over then; the memcpy of toNV21 needs an array.
ConvertAndShow ==
    /\ spc = "convert"
    /\ pkt.mode = "nv21" => target # NULL
    /\ IF pkt.mode = "none" \/ (pkt.mode = "argb" /\ (target = NULL \/ pkt.size = 0))
         THEN UNCHANGED <<shown, buffer>>
         ELSE /\ shown' = Append(shown, pkt.id)
              /\ buffer' = [array |-> array, target |-> target, size |-> arraySize,
                            frame |-> pkt, freed |-> seen # Freed]
    /\ target' = NULL /\ seen' = 0
    /\ spc' = "pop"
    /\ UNCHANGED <<ownerVars, queueVars, sizeVars, clock, pkt, dropped, rendered>>

CountWithoutPop ==              \* mutant: the pop is forgotten
    /\ spc = "pop"
    /\ rendered' = rendered + 1
    /\ pkt' = NoFrame /\ buffer' = NoCall
    /\ spc' = "while"
    /\ UNCHANGED <<ownerVars, queueVars, sizeVars, clock, target, seen, shown, dropped>>

PopShown ==
    /\ spc = "pop"
    /\ frameQueue' = Tail(frameQueue)
    /\ rendered' = rendered + 1
    /\ pkt' = NoFrame /\ buffer' = NoCall
    /\ spc' = "while"
    /\ UNCHANGED <<ownerVars, frames, sizeVars, clock, target, seen, shown, dropped>>

Tick ==
    /\ clock < MaxTime
    /\ clock' = clock + 1
    /\ UNCHANGED <<ownerVars, queueVars, sizeVars, workVars>>

WorkThread == TestRunning \/ LookEmpty \/ CopyFront \/ DropStale \/ StartConversion
              \/ ConvertAndShow \/ PopShown

Next ==
    \/ Construct \/ Destruct \/ Join
    \/ (\E size \in Sizes : OnSPSFrame(size)) \/ FreeArrays \/ SizeChanged
    \/ \E mode \in Modes : EnqueueFrame(mode)
    \/ WorkThread
    \/ Tick

Spec == Init /\ [][Next]_vars

\* Every thread that can run gets to run; the user and the camera may stop.
FairSpec == Spec /\ WF_vars(WorkThread) /\ WF_vars(Construct \/ Join)
            /\ WF_vars(FreeArrays \/ SizeChanged)

(***************************************************************************)
(* Properties                                                              *)
(***************************************************************************)
TypeOK ==
    /\ owner \in {"new", "open", "closing", "closed"} /\ isRunning \in BOOLEAN
    /\ spc \in {"while", "look", "drop", "start", "convert", "pop", "ended"}
    /\ frameQueue \in Seq(Frame) /\ pkt \in Frame
    /\ {width, arraySize} \subseteq Sizes \cup {0} /\ resizing \in {"no", "free", "alloc"}
    /\ array # NULL => arraySize \in Sizes
    /\ {target, array, allocs, seen} \subseteq 0 .. MaxSps
    /\ clock \in 0 .. MaxTime
    /\ frames \in 0 .. MaxFrames
    /\ shown \in Seq(1 .. MaxFrames) /\ dropped \subseteq 1 .. MaxFrames
    /\ rendered \in Nat
    /\ buffer \in [array : 0 .. MaxSps, target : 0 .. MaxSps, size : Sizes \cup {0},
                  frame : Frame, freed : BOOLEAN]

\* The frames the sender thread is done with.
Done == frames - Len(frameQueue)

\* The queue holds the newest frames, without a gap, and each older one was
\* either dropped as stale or counted by frameRendered, never both: what is
\* popped is what was copied, although front() is read without the lock and the
\* decode thread pushes in between (174, 179, 201).
FramesAccountedFor ==
    /\ \A i \in 1 .. Len(frameQueue) : frameQueue[i].id = Done + i
    /\ spc \in {"drop", "start", "convert", "pop"} =>
         /\ frameQueue # <<>> /\ pkt = Head(frameQueue)
    /\ rendered + Cardinality(dropped) = Done

\* A frame that was shown is not dropped as well, and only frames that have left
\* the queue, or are just about to (200), were shown.
ShownOrDropped ==
    \A i \in DOMAIN shown :
        /\ shown[i] \notin dropped
        /\ shown[i] <= Done + (IF spc = "pop" THEN 1 ELSE 0)

\* Against LossyFifo: frames are shown in order, each once.
Fifo == INSTANCE LossyFifo WITH given <- frames

FifoContract == Fifo!Spec

\* The array handed to the player is the one the frame was converted into exactly
\* when no sequence parameter set freed the arrays during the conversion, the one
\* thing that can (9-18): the destructor joins the thread first (154). And a frame
\* handed over in the array made for the sequence parameter set it was decoded
\* under comes with its size, however many sets follow and frames still wait.
BufferHoldsFrame ==
    /\ spc = "convert" /\ target # NULL => (target = array <=> seen = Freed)
    /\ buffer.frame # NoFrame =>
         /\ buffer.array = buffer.target <=> ~buffer.freed
         /\ buffer.array # NULL /\ buffer.array = buffer.frame.sps =>
              buffer.size = buffer.frame.size

\* The player is never handed a NULL frame ("exception !!! frame buffer is
\* null", Android_OnFrame in live555.cpp).
NeverNullBuffer == buffer.frame # NoFrame => buffer.array # NULL

\* The destructor returns: the thread it joins sees isRunning (170, 154).
DestructorReturns == (owner = "closing") ~> (owner = "closed")

\* A frame does not stay in the queue while the player is open, unless the thread
\* has read isRunning before the constructor set it (139, 170): then it has ended
\* before its first frame, and every frame stays.
FramesLeave ==
    \A i \in 1 .. MaxFrames :
        (frames >= i) ~> (Done >= i \/ owner \in {"closing", "closed"} \/ (spc = "ended" /\ Done = 0))
=============================================================================
