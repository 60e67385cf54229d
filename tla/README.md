# Verification of RealTimeVideoPlayer

RealTimeVideoPlayer is an Android player for an H.264 camera: native code
receives the stream by UDP (or RTSP through live555), decides which NAL units
are worth decoding, queues them to `AMediaCodec`, converts the decoded pictures
and hands them to Java, which draws them with OpenGL ES. This directory holds
TLA+ models of that program, the TLC runs that check them on small instances and
TLAPS proofs. Paths below are relative to `app/src/main` of the repository.

    tlc -config MCDecodeQueue.cfg MCDecodeQueue.tla     # a run
    tlapm DecodeQueue_proofs.tla                        # the proofs

`PROJECT.json` lists the components, the runs, which definition models which
lines, the hazards and the findings.

## How a picture travels

    camera -> workThread (UDP) or live555's event loop (RTSP)     network thread
           -> decodeFrame: keep or drop the NAL unit              "
           -> mediaCodec_enqueuePacket -> dataQueue               "
           -> decodeThread -> AMediaCodec -> FramePacket          decode thread
           -> enqueueFrame -> frameQueue                          "
           -> senderThread::workThread -> toARGB / toNV21         sender thread
           -> Android_OnFrame -> Player.onFrame -> VideoRender    "
           -> onDrawFrame                                         GL thread

The user's thread opens and closes all of it from the surface callbacks. There
are two locks, one for each queue. Everything else the threads share - run
flags, `droppingMode`, the conversion arrays, the codec pointer, the static
state of `decodeFrame` - is shared without one. That, together with datagrams
that are lost or late and a close that can come at any time, is what makes this
code hard to test and what the models are about.

## Inventory

| Part | Source | State | Operations | Correct when |
|---|---|---|---|---|
| Decode queue | `cpp/mediacodec.cpp` | `dataQueue`, `droppingMode`, codec buffers | `mediaCodec_enqueuePacket` (network), `decodeThread`, `shouldDropFrame` | no packet is lost track of; after a drop nothing is fed before a key packet; key packets are always fed; the backlog drains |
| Frame gate | `decodeFrame` in `cpp/native-lib.cpp` and `cpp/live555.cpp` | `lastPFrameNum`, `isLostFrame`, `frame_num_max` | one call per NAL unit | only decodable pictures pass; none is called lost without cause |
| Sender | `cpp/senderThread.cpp`, `FramePacket.cpp` | `frameQueue`, arrays and sizes, `isRunning` | `enqueueFrame` (decode thread), `sizeChanged` (network), `workThread`, construction, destruction | each frame shown at most once and in order, from an array that holds it; nothing stays queued; the destructor returns |
| UDP session | `cpp/native-lib.cpp`, `mediaCodec_create`/`onFrame`/`destroy`, `MainActivity`, `Player`, `UDPLive` | thread ids, run flags, socket, codec, queue lock | `init`, `deinit`, `workThread`, start of `decodeThread`, surface callbacks | nothing released under a running thread; no thread left after a close; closing returns |
| Codec configuration | `cpp/mediacodec.cpp` 221-330 | SPS and PPS buffers, picture size, output choice | `onSPSFrame`, `onPPSFrame`, `setSurface`, `drawByUser`, `notifyNV21` | the codec is made with the stream's parameter sets |
| RTSP client | `cpp/Rtsp.cpp`, `live555.cpp`, `Live555.java` | `rtsp_client`, `isShutDown`, loop variable, stream state, callback | `start`, `shutDown`, DESCRIBE/SETUP/PLAY continuations, BYE and timer handlers | one stream at a time; closed as often as is known; `shutDown` returns; the sink knows the decoder |
| Hand-over to Java | `Android_OnFrame` in `native-lib.cpp`, `live555.cpp` | one Java array per format | once per frame | the array has the frame's length |
| Renderer | `gles/VideoRender`, `RenderProgram`, `OpenGlUtils` | `mGLRgbBuffer`, `mRunOnDraw`, texture, image size | `onPreviewFrame` (sender thread), `onDrawFrame` (GL thread) | a whole picture of one size is drawn; the newest one gets on the screen |
| Bit stream | `cpp/bs.h` | read/write position | `bs_read_*`, `bs_write_*` | write then read is the identity; no read past the end |
| NAL bytes | `cpp/h264_stream.cpp` 35-310 | none | `find_nal_unit`, `nal_to_rbsp`, `rbsp_to_nal` | inverse of each other; no start code inside a NAL unit |
| H.264 syntax | `cpp/h264_stream.cpp`, `h264_sei.cpp` | parsed structures | `read_*`, `write_*`, `debug_*` | what was sent is what is kept; what is written is what was read |
| Colour layout | `getStride` in `senderThread.cpp` | none | one call per frame | planes inside the picture's bytes |
| Statistics | counters in `native-lib.cpp`, `live555.cpp` | five counters | callbacks, `signalHandler` | logged only |
| Alternate renderer, geometry tables, `udp_test.cpp`, libraries | | | | not part of the player, or external |

## Modules

`MC*.tla` instantiate a module for TLC; its cfg files give the constants. An
operator commented `mutant:` is the mistaken form of the definition that
follows it. No specification uses it: it exists to be put in that definition's
place, which shows that a property notices the mistake.

### DecodeQueue, GopQueue

`DecodeQueue` is the two threads around `dataQueue`. A step is one critical
section with the thread-local code around it, so that what the other thread can
do between two critical sections is a step of its own. `EnqueueGate` is the
unlocked test of `droppingMode` and `EnqueuePush` the locked push with the
timestamp taken in between. `SkipToKey`, `ShouldDropFrame`, `FeedCodec` and the
drain actions are the parts of one turn of `decodeThread`. `decPc` says where the
thread is. The drain ends when the codec has no output, or, `DrainInterrupted`, says
something else than a buffer (a changed format) while a picture waits. The codec
is external: a pool of input and output buffers that may
answer NULL for a buffer, which the code then never gives back (`MaxLeaks`
times). `lost`, `refused`, `fed` and `offered` are history.

`GopQueue` is the contract: packets leave in order, each at most once, only
packets that are not key packets may be lost, and after a loss nothing is
delivered before the next key packet. `GopContract` is the refinement, with
`pending <- dataQueue \o netPkt`.

### FrameGate

`decodeFrame` of both transports, with the camera and the network around it. The
camera sends groups: SPS, IDR, then P pictures that each refer to the one before;
`frame_num` counts pictures modulo its range. The slice header is reduced to the
first bits of `frame_num`, because every NAL unit is parsed with a new
`h264_stream_t` whose SPS is empty. The network may lose a picture or an SPS, or
deliver one NAL unit late; the player may be reopened while the gate's static
variables keep their values. `Network` gives each transport its own faults.

### Sender, LossyFifo

The four threads around `senderThread`. `Construct` is the rest of the
constructor, the new thread having begun; `OnSPSFrame`, `FreeArrays` and
`SizeChanged` are the announcement of a size, the freeing and the reallocation; the actions from `TestRunning` to `PopShown` are
one turn of `workThread`, cut where another thread can come between. Pictures
have sizes and arrays the number of the SPS they were made for, and `buffer` is the
call to the player: the array handed over, the one converted into, the size, the
frame. The array and its size are read in one step for the call, in the code in
two, and the two formats' arrays are one. `LossyFifo` is the contract: shown in order,
each at most once, some never.

### UdpSession

The life of a session: `SurfaceCreated` is `init`; `ShutdownSocket` to `Release`
are the statements of `deinit` and `mediaCodec_destroy` that another thread can
notice, one by one; `StartCommand` to `StopCommand` are `workThread`;
`AnnounceDecode` and `EndDecode` are what the decode thread does with its run
flag, its work being in `DecodeQueue`. Each thread sets its own flag
(`AnnounceWork`, `AnnounceDecode`). `Greet` fails on a socket that was shut
(236), and the thread returns; a receive gives a datagram, nothing from a shut
socket (`ReceiveNothing`), an empty datagram (`ReceiveEmpty`) or an error
(`ReceiveError`) from an open one.

### RtspClient

`obj[i]` is the i-th `Rtsp` object with its client: what answer it waits for,
which subsessions have a sink, whether the timer is set, who closed it how
often, and where its event loop thread is. An object that the static pointer
`rtsp` has forgotten lives on, with its loop. Each continuation
(`continueAfterDESCRIBE`, `continueAfterSETUP`, `continueAfterPLAY`) and handler
(`SourceClosure`, `subsessionByeHandler`, `streamTimerHandler`) is one action,
the calls it makes included, because live555 runs them one after the other in
the loop. The user's thread goes on between them: `start`, `setFrameCallback`,
`stop`, `shutDown` (the flag, then the watch variable, in two steps), `SpinEnds`. What a sink does with a frame has no
action: a sink that exists may deliver at any moment, so the properties speak of
sinks. The uninitialised callback and the write to `isPlaying` behind the close
are nondeterministic or history.

### NalBytes

`rbsp_to_nal` and then `nal_to_rbsp` on the same bytes, one turn of a loop a
step (`EscapeByte`, `UnescapeByte`), with the room left in the buffer and the
way each may end. `find_nal_unit` is an operator over a buffer.

### BitStream, H264Syntax, H264Stream

`BitStream` is `bs.h`: a stream is a sequence of bits and a position.
`H264Syntax` says which elements an SPS, a PPS, a slice header, a message of user
data and an access unit delimiter consist of. The parser is one walk through
such a structure, element by element, the values read so far deciding what
comes next - so that each `read_` function, its `write_` twin and what an
encoder sends are three sides of one definition and their differences stand
where they are. `H264Stream` keeps the `h264_stream_t`: its tables of parameter
sets, the current ones, the last slice header. `Arrives` is `read_nal_unit` on
what an encoder sends; NAL units may be lost or cut and the structure replaced
by a new one. The encoder is external: it may send any field a value its code has
a word for, negative only where the syntax has an `se` (`Legal`). `nal` is the
NAL unit the last call was given, or `None` after a loss or a new structure, so
that every property is about the call just made.

### ColorLayout, Renderer

`ColorLayout` is `getStride`, the planes `toARGB` reads and the bytes `toNV21`
copies. `Renderer` is the sender thread in `Android_OnFrame` and
`onPreviewFrame` (`OnFrame` to `RequestRender`), the GL thread in
`onSurfaceChanged` and `onDrawFrame` (`OnDrawFrame` to `Draw`), and a surface
that comes and goes. The replacement of `mGLRgbBuffer` (143-150) is a step
outside the lock, `Look` and `Add` are the two steps of the queue that are not
under one lock, and a queued Runnable is the size it has captured.

## Runs

| Run | Shows |
|---|---|
| `decode_queue` | every packet is in one place and fed in order (`PacketsAccountedFor`); a gap before a fed packet is the gate's doing (`GapsOnlyAtTheGate`); dropping lasts to a key packet (`BrokenUntilKey`); what is copied is what was checked (`FeedsWhatItChecked`); `DecodeQueue` implements `GopQueue` |
| `decode_queue_live` | nothing waits for ever, and key packets leave by being fed, unless NULL answers have used up the buffers of one kind (`BacklogDrains`) |
| `decode_queue_out` | refuted: that a decoded picture is taken out. The codec is not asked while the queue is empty |
| `frame_gate` | only decodable pictures pass, and none is called lost without cause, under the faults named below |
| `sender` | frames are accounted for, shown once and in order; which array the player is handed, and when it is the one with the picture (`BufferHoldsFrame`), over two announced sizes; the destructor returns; frames leave the queue, except for a thread that read `isRunning` before the constructor set it |
| `sender_null` | refuted: that the player is never handed NULL. A second SPS frees the array |
| `udp_session` | no release under a running thread, no thread left, every codec served, closing returns when both threads are at work |
| `udp_session_hang` | refuted: that the join of the decode thread always returns (`DecodeJoinReturns`). The thread sets its flag after it was cleared |
| `rtsp_client` | one stream at most unless `start` was called twice in haste (`OneStream`); a client is closed once, or twice if the server ended the stream (`ClosedOnce`); a sink has an unset callback only if the answer to SETUP came before `setFrameCallback` (`SinkKnowsDecoder`); `shutDown` returns (`ShutdownReturns`) |
| `nal_bytes` | `NoStartCode`, `RoundTrip`, how much room is enough (`RoomSuffices`), what `find_nal_unit` finds (`Found`) |
| `h264` | when the parser keeps what was sent (`ParsedAsSent`), when the writer gives it back (`WrittenAsRead`), when the result tells of a cut (`ResultTells`); what `decodeFrame` sees of `frame_num` (`FrameNumSeen`) and of the size (`SizeRight`) |
| `renderer` | one Runnable at most (`OneRunnable`), whole pictures (`DrawnWhole`), never an empty rectangle (`FillsScreen`), planes and copies in their buffers (`PlanesApart`), and each picture or a newer one on the screen in the end (`NewestShown`) |

Several of these are equivalences: where the code keeps a promise only under a
condition, the property says under which, so that both directions are checked.

### Bounds

- `DecodeQueue`: four packets. For the safety properties an age limit of one tick,
  a clock up to three, one codec buffer each way, one NULL answer. Four packets are
  a group broken by a drop, a skipped packet, the key packet that ends it and one
  that refers to it; three ticks let packets be fresh, old, and old while a later
  one is fresh. One buffer is the tightest codec. For `BacklogDrains` two buffers each
  way and two NULL answers, so that a queue goes on after it lost a buffer of each
  kind, and one stops after it lost both of one kind, which the property excepts; an
  age limit of no tick and one tick, so that packets are fresh or old. A behaviour is
  one session: it begins with an empty queue and in either dropping mode, since
  nothing resets the mode.
- `FrameGate`: `frame_num` of eight values and groups of twelve pictures, so that
  the number wraps inside a group and a group does not end at a wrap; fifty-two
  NAL units are four groups. At most two pictures in a row are lost and a NAL unit
  is overtaken by at most three, which are fewer than the values of `frame_num`;
  see the limits below. `FrameNumTells` states these limits; TLC evaluates it for
  the run's constants (`WithinLimits`), and `PassesDecodableAlways` assumes nothing else. `starts` and `restarts` are places at the edges of a group
  and inside it.
- `Sender`: three frames, of which one can be in hand while one waits and one
  comes; two SPS and two sizes, so that the arrays are made, and freed and made
  again with another size or the same, at any point of a turn; a clock of one tick
  that makes frames stale; ARGB or no output; `isRunning` of either value at birth.
  NV21 is left out: before the first SPS `toNV21` copies into a NULL array. That the
  player may be handed NULL is a run of its own.
- `UdpSession`: three surfaces and a destroyed activity, so that a session is
  opened after another was closed, and `deinit` is called twice in a row.
- `RtspClient`: two objects of two subsessions: a second start while the first
  object is there, and a start after a stop; one subsession may fail or end while
  the other goes on.
- `NalBytes`: RBSPs of up to six bytes out of 0 to 4 - every kind the escape tells
  apart, and enough for three escapes - and five sizes of buffers around the
  limits. The proofs are for any bytes and lengths.
- `H264Stream`: up to two parameter sets out of 23 and then slices, three NAL
  units in all; two numbers for SPS and one for PPS; 90 elements. The parameter
  sets and slices are chosen so that each condition of the syntax is met with
  both answers; HRD parameters come alone, twice the same and twice different. SPS scaling lists are absent; that of a PPS is one value, since the
  reader has no place for lists and returns early. Values are below 2^31.
  User data have at least the 16 bytes of their UUID (`HasUuid`) and in the stream
  less than 255; the coding of sizes is checked
  for 0 to 520. The proofs are for any fields, any length and any number of NAL
  units; of the constants they assume what the run's have, that the bound of the
  walk is a number (`MaxElementsAssumption`), that slices are of type 1 or 5
  (`SliceTypesAssumption`) and that the tables start at 0 (`IdsAssumption`). `Legal`
  keeps structures shorter than the bound, so that no walk ends early.
- `Renderer`: three pictures out of three sizes - with and without padding, two of
  them with equally many pixels - in four formats, and two losses of the surface. The
  sizes are even (`SizesEven`).

`CHECK_DEADLOCK FALSE` is set everywhere, because every model may stop: the
camera falls silent, the clock or the number of sessions reaches its bound, the
user has closed the player.

### Fairness

Weak fairness of each thread as a whole: the operating system runs every thread
that can run. In `DecodeQueue` also of the codec, which is a running service, and strong
fairness of `DrainOutput`: the codec does not answer with a changed format for
ever instead of the picture it has. In `Sender` of the network thread once it has
announced a size. In `UdpSession` strong fairness of `ReceiveNothing`, since a socket that was shut
down holds finitely many datagrams and the receive returns 0 in the end; none of
`ReceiveEmpty` and `ReceiveError`, which need not happen. In
`RtspClient` of the event loop, which live555's scheduler wakes every 10 ms, and of
the user's thread while it spins. In `Renderer` of the sender thread, the GL
thread and the return of a lost surface. No
fairness for the camera, the network, the user and the clock: each may stop.

## Proofs

The runs show the properties for the bounds above; the theorems show them for
every value of the constants, from the assumption named in each module.

| Module | Theorem | Inductive invariant |
|---|---|---|
| `DecodeQueue_proofs` | `TypeCorrect`, `AccountedAlways`, `GapsOnlyAtTheGateAlways`, `BrokenUntilKeyAlways`, `FeedsWhatItCheckedAlways`, `ImplementsGopQueue` | the five invariants together. `BrokenUntilKey` is what keeps `FeedsWhatItChecked`; the order of ids in `PacketsAccountedFor` is what makes the popped packet older than all that wait, without which a drop could not be told to break the group |
| `UdpSession_proofs` | `TypeCorrect`, `NoThreadLeftAlways`, `ReleasedAfterUseAlways`, `CodecIsServedAlways` | where the user's thread may be while each thread is alive: a live thread has an id to join, and past a join the thread has ended |
| `RtspClient_proofs` | `TypeCorrect`, `OneStreamAlways`, `ClosedOnceAlways`, `SinkKnowsDecoderAlways` | each object is `Sound` - what it waits for agrees with its sinks, its timer and its loop - and `Knows` its decoder, unless its answer came early or its creator has yet to set the callback (`AwaitsCallback`), and the one the user's thread deals with is `Served` |
| `NalBytes_proofs` | `TypeCorrect`, `NoStartCodeAlways`, `RoundTripAlways`, `RoomSufficesAlways`, `FoundAlways` | where each byte of the RBSP has been put in the NAL unit, and what stands between. The count of zeros is told from the last two bytes, which makes both loops meet the same places. `Found` follows from `NoStartCode`: the first place where the NAL unit may seem to end is the start code behind it, or the zero it ends in |
| `Renderer_proofs` | `TypeCorrect`, `OneRunnableAlways`, `FillsScreenAlways`, `DrawnWholeAlways`, `PlanesApartAlways` | who has the lock; that the sender adds to an empty queue only; the picture at hand; and, while all sizes are one, that the buffer is replaced once, before anything is queued (`Whole`), and is half-written only under the sender's lock (`Torn`). `PlanesApart` is arithmetic on strides: a padded size is at least the size, and longer wherever it differs. It assumes even sizes (`EvenSizes`), as 4:2:0 does |
| `FrameGate_proofs` | `NoFalseAlarmAlways`, `PassesDecodableAlways` | as long as the network has disturbed nothing, the gate knows the range of `frame_num` and expects the number of the next picture (`InOrder`). That theorem assumes that the bits read hold `frame_num` (`Unread = 1`), without which it is false. What passes is decodable by `GateInv`: `lastPFrameNum` is the number of the last picture passed (`Expects`), and while nothing is called lost few pictures are missing since then (`Near`: `Gap` is at most what the network holds back), so that the expected number can only be that of the next picture. This theorem assumes the limits `FrameNumTells`; outside them it is false, see below |
| `H264Stream_proofs` | `SizeRightAlways`, `ResultTellsAlways`, `FrameNumSeenAlways`, `SetsKeptAlways`, `SetsGivenBackAlways` | `Shape`: an `h264_stream_t` has its parts and its tables all their entries; `EncoderOk`: what the encoder's tables hold are numbers, not negative unless signed. The state carries little, the proof is about one call; see below |
| `Sender_proofs` | `SenderTypeCorrect`, `FramesAccountedForAlways`, `ShownOrDroppedAlways`, `BufferHoldsFrameAlways`, `ImplementsLossyFifo` | the counting invariants, with `DroppedLeft` (what was dropped is older than the queue, so the frame about to be dropped is new) and `ResizeInv` (an SPS has set a size before arrays are made). `ArrayInv`: the array is that of the last announcement, or NULL between the freeing and the making; a conversion writes into the array that was there when it began (`seen`), and sizes change with arrays. `BufferHoldsFrameAlways` holds for any number of announcements of any sizes: the array handed over is the one converted into exactly if no SPS freed it meanwhile, and the array of the frame's own SPS comes with the frame's size |

A proof first shows facts about sequences as lemmas without variables, then
that each action keeps each part of the invariant, then combines them. A
refinement proof shows that each action is a step of the abstract module or
leaves its variables alone, under the invariant.

`H264Stream_proofs` follows the bits of one call in four parts.

1. Codes. What `bs_write_u`, `bs_write_ue` and `bs_write_se` make of a number is
   read back as that number, wherever it stands in the stream (`ReadWritten`).
   A code of any width is a recursive function over its bits. The library's
   induction theorems cannot be used, so the induction is over a set of numbers
   (`Induction`, which follows from finite sets being well-founded); that the
   recursive function exists at all is `GoesOn`. Walks are treated alike.
2. Walking. If a reader asks for the elements in the order they were sent, it has
   read all of them at the end, with the values sent, and stands behind the last
   bit (`ReadSent`). If the last byte is missing, it ends behind the end of the
   buffer (`ReadCut`), which is what `bs_overrun` sees.
3. Links. Which element a reader asks for next depends on fields it has read
   before: `Links` and `Coh` say of two field assignments that agree on those that
   up to there the structures are the same. They are shown piece by piece for the
   SPS with its VUI and HRD parameters, the PPS with its slice groups, user
   data and the delimiter, so that a walk's partial fields may stand for those sent.
4. Keeping. What a reader has read stays as it is unless an element of the same
   name comes again; the name `frame_num` comes once (`WalkKeeps`). With empty
   tables it is the fourth element and has four bits (`FreshTail`).

`SetsKeptAlways` and `SetsGivenBackAlways` state for parameter sets and
delimiters what `ParsedAsSent` and `WrittenAsRead` promise: where none of the
conditions named there holds, everything sent is kept, and what is kept is written
as it came. In the other direction `SetsKept` has the HRD parameters alone.
`SetsGivenBack` needs `reserved_zero_2bits` of 0, which the writer writes whatever
was read.

Only model-checked: the liveness properties (`BacklogDrains`,
`DestructorReturns`, `FramesLeave`,
`DeinitReturnsOnceRunning`, `ShutdownReturns`, `NewestShown`), since liveness
under fairness and ENABLED are beyond the prover; and of `H264Stream` what
`ParsedAsSent` and `WrittenAsRead` say besides `SetsKept` and `SetsGivenBack`: of
slices, whose reader has a table of parameter sets and four loops more; of user
data; of the numbers `WriteFf` codes; and that outside their conditions nothing is
ever kept or given back, which depends on the values sent. The types of `H264Stream` and `FrameGate` have no property: each value
there that could be out of range makes another property fail.

## What the models say about the code

Each refuted run is a finding of `PROJECT.json`. The rest of what was met:

The queue and its gate. The gate reads `droppingMode` without the lock before it
looks at the packet (`mediacodec.cpp:212`). A packet can be refused while the key
packet it refers to waits in the queue, and a later one be let in, which is then
decoded with its reference missing: hence `GapsOnlyAtTheGate` excepts the gate.

The frame gate. Its limits lie outside the bounds of `frame_gate` and of
`FrameNumTells`:

- a loss of pictures that makes `frame_num` come round to the expected value
  goes unseen: sixteen in a row, or the IDR alone when the length of the group
  is one more than a multiple of sixteen;
- a datagram that is late by as much as the numbers take to come round passes;
- the parser sees the first four bits of `frame_num` only (`native-lib.cpp:118`,
  `FrameNumSeen`) while the range comes from the real SPS: with more bits, the
  pictures after the first of a group are called lost;
- `lastPFrameNum` survives a reopening (`native-lib.cpp:29`): a P picture with the
  expected number is the first thing a new codec gets;
- the RTSP test `frame_num < lastPFrameNum` lets every forward gap pass, and,
  before the first IDR, every P picture. RTSP is therefore checked over a
  transport that loses no picture (the client asks for TCP) and from the start
  of a group.

The sender. The thread is created before the constructor sets `isRunning`
(`senderThread.cpp:139`). When it reads the flag first it may end at once, and no
frame is ever shown; `FramesLeave` states exactly this exception. Every SPS frees
and makes the arrays (`senderThread.cpp:10-22`), without a lock and whether or not the
size has changed: a conversion under way goes on in freed memory, and the player
gets NULL or an array the picture was not converted into. `BufferHoldsFrame` says that
this happens in no other case.

The UDP session. `workThread` sets `isWorkRunning` itself as well
(`native-lib.cpp:241`) and may do so after `deinit` has cleared it (326). It ends
all the same, because `deinit` has shut the socket before (324): the receive
returns nothing and `errno` is looked at.

The RTSP client. A BYE, the timer or a failed PLAY closes the client and leaves
`rtsp_client` set, so that `shutDown` closes it again (`Rtsp.cpp:203`), and
`continueAfterPLAY` writes `isPlaying` of a closed client (207). A second `start`
before PLAY has succeeded forgets the first client, which goes on
(`Live555.java:46`). The callback may be read before it is set
(`live555.cpp:281`).

NAL bytes. `rbsp_to_nal` tests the room once for an escape byte and the byte
behind it (`h264_stream.cpp:215-227`), so that a NAL unit may end one byte past
the size it was told. Its comment (194) promises that 4/3 of the input is
enough; runs of zeros need 3/2. It overwrites the header byte with 0 (211).

H.264 syntax. The parser differs from the standard, and the writer from the
parser, in these places, each a condition of a property: profiles with chroma
fields it does not know; one structure for the HRD parameters of NAL and VCL, which
holds one of them when they differ (`TwoHrds`); the
last part of a PPS, guessed from the current SPS; weights counted by fields that
are not set; the width of `slice_group_change_cycle`; the end bits of every SEI
message, which make `read_nal_unit` return -1; sizes that are multiples of 255;
written parameter sets and slice headers that omit fields or use fields never
read, and the flags of four scaling lists of a 4:4:4 SPS that the writer leaves
out (`FourLists`); the size told to the decoder without cropping, and of pictures
that may be coded as fields half the height (`native-lib.cpp:125`). Three writes and
reads beside their arrays have no model, and the inputs that lead to them are
left out: user data shorter than 16 bytes, of which the reader stores 16
(`h264_sei.cpp:63-71`, `HasUuid`); a PPS with scaling lists given to
`write_scaling_list`, which reads its NULL lists (`h264_stream.cpp:1553`,
`HasLists`); and the flags of twelve scaling lists in an array of eight
(`h264_stream.cpp:502`, `h264_stream.h:62`), twelve fields in the model.

The renderer. A change of the picture size is not handled: the texture is never
allocated again, so that GL refuses a larger picture; a queued Runnable uploads
the new buffer with the old size; a new buffer is blank until it is filled.
`DrawnWhole` and `NewestShown` are therefore about pictures of one size. A change
of the height alone leaves `mImageHeight` stale, harmlessly, since
`maintainAspect` is never set. `mRunOnDraw` is a `LinkedList` that `add` guards with a lock
and `poll` does not (`VideoRender.java:118-127`): the model takes each for atomic. `toNV21` copies more than its array holds whenever
the format pads the picture (`senderThread.cpp:126`); the player uses ARGB.

Not modelled: bytes and lengths of packets in the queue, the truncation of a
packet longer than the codec's buffer, failing `malloc`, a failing
`pthread_create`, the statistics, `pthread_mutex_destroy` called twice, SPS and PPS
buffers and the choice of a surface, the loss of the GL context on a pause (the
activity does not tell the view), scaling lists of an SPS, slice data, values of
2^31 and more (where `bs_read_ue` shifts out of an int), and the parts listed as
`not_modelled` with their reason in `PROJECT.json`. live555, libyuv,
`AMediaCodec`, `GLSurfaceView` and the camera are environments.

## Plan

The order was that of the data's way and of its risks. All components that
carry state of their own are modelled. What is left, in order:

1. `UdpSession` composed with `DecodeQueue`, so that a session may end at any point
   of the decode thread's turn and not only where the queue model stops.
2. Codec configuration: the SPS and PPS buffers and `setSurface`.
3. Scaling lists of an SPS, and the `debug_` functions as a third reader.
4. The links of the slice header, which would prove `ParsedAsSent` for slices.
