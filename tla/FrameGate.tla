----------------------------- MODULE FrameGate -----------------------------
(***************************************************************************)
(* decodeFrame of native-lib.cpp (UDP) and of live555.cpp (RTSP): which of *)
(* the NAL units that arrive are passed on to mediaCodec_onFrame.          *)
(*                                                                         *)
(* The camera (external) sends groups of pictures: a sequence parameter    *)
(* set, a key picture (IDR), then pictures that each refer to the one      *)
(* before (P), one NAL unit per datagram; frame_num counts the pictures of *)
(* a group modulo ParsedMax * Unread. The network loses NAL units and may  *)
(* deliver one of them late. A new h264_stream_t is made for each NAL      *)
(* unit, so a slice header is always parsed with an empty SPS and          *)
(* the first four bits of frame_num, however wide the field is.            *)
(***************************************************************************)
EXTENDS Integers

CONSTANTS
    ParsedMax,     \* values of the bits read for frame_num: 16, since
                   \* log2_max_frame_num_minus4 = 0 gives four bits
    Unread,        \* values of the bits of frame_num left unread: 1 if it has four
    GopLen,        \* pictures in a group
    MaxNals,       \* bound: NAL units the camera sends
    MaxSessions,   \* bound: times the player is opened
    Network        \* for "udp", "rtsp" or both, what the network may do:
                   \*   starts, restarts: positions in the stream where the first
                   \*     session, a later session can begin
                   \*   lossRun: bound on the pictures in a row lost or delayed
                   \*   late: NAL units that may overtake a delayed one
                   \*   loseSps: whether a parameter set can be lost

ASSUME FrameGateAssumption ==
    /\ {MaxNals, MaxSessions} \subseteq Nat
    /\ {ParsedMax, Unread, GopLen} \subseteq Nat \ {0}
    /\ DOMAIN Network \subseteq {"udp", "rtsp"}
    /\ \A v \in DOMAIN Network :
         /\ Network[v].starts \cup Network[v].restarts \subseteq 0 .. MaxNals
         /\ {Network[v].lossRun, Network[v].late} \subseteq Nat
         /\ Network[v].loseSps \in BOOLEAN

None == -1

VARIABLES
    variant,       \* which of the two decodeFrame, never changes
    nal,           \* the next NAL unit the camera sends
    lossRun,       \* pictures in a row just now that did not arrive in their place
    delayed,       \* a NAL unit still on its way, or None
    sessions,      \* sessions begun
    lastPFrameNum,
    isLostFrame,
    frame_num_max,
    \* history
    lastPassed,    \* last picture passed to mediaCodec_onFrame in this session
    disturbed      \* since the last IDR that arrived in order a picture was lost,
                   \* late or out of order, or no SPS had come before that IDR

netVars  == <<variant, nal, lossRun, delayed, sessions>>
gateVars == <<lastPFrameNum, isLostFrame, frame_num_max>>
vars     == <<netVars, gateVars, lastPassed, disturbed>>

(***************************************************************************)
(* The stream: NAL unit n is at position n % (GopLen+1) of its group.      *)
(***************************************************************************)
Position(n) == n % (GopLen + 1)
IsSps(n)    == Position(n) = 0
IsIdr(n)    == Position(n) = 1
IsP(n)      == Position(n) > 1
Picture(n)  == (n \div (GopLen + 1)) * GopLen + Position(n) - 1
FrameNum(n) == (Position(n) - 1) % (ParsedMax * Unread)

\* bs_read_u(b, sps->log2_max_frame_num_minus4 + 4) with the empty SPS.
FrameNumRead(n) == FrameNum(n) \div Unread

Init ==
    /\ variant \in DOMAIN Network
    /\ nal \in Network[variant].starts
    /\ lossRun = 0
    /\ delayed = None
    /\ sessions = 1
    /\ lastPFrameNum = -2
    /\ isLostFrame = FALSE
    /\ frame_num_max = 0
    /\ lastPassed = None
    /\ disturbed = IsP(nal)

(***************************************************************************)
(* decodeFrame                                                             *)
(***************************************************************************)
OnSps(n) ==
    /\ IsSps(n)
    /\ frame_num_max' = ParsedMax * Unread
    /\ UNCHANGED <<lastPFrameNum, isLostFrame, lastPassed>>

OnIdr(n) ==
    /\ IsIdr(n)
    /\ lastPassed' = Picture(n)
    /\ lastPFrameNum' = FrameNumRead(n)
    /\ isLostFrame' = FALSE
    /\ UNCHANGED frame_num_max

\* mutant: the test of the RTSP variant, a smaller number, for both
OutOfSequenceIfSmaller(n) == FrameNumRead(n) < lastPFrameNum

OutOfSequence(n) ==
    IF variant = "udp" THEN FrameNumRead(n) # lastPFrameNum + 1
                       ELSE FrameNumRead(n) < lastPFrameNum

DropP(n) ==
    /\ IsP(n)
    /\ isLostFrame \/ OutOfSequence(n)
    /\ isLostFrame' = TRUE
    /\ UNCHANGED <<lastPFrameNum, frame_num_max, lastPassed>>

NeverWraps(num) == num          \* mutant: the number is not taken round
AfterFrameNum(num) == IF num = frame_num_max - 1 THEN -1 ELSE num

PassP(n) ==
    /\ IsP(n)
    /\ ~isLostFrame /\ ~OutOfSequence(n)
    /\ lastPassed' = Picture(n)
    /\ lastPFrameNum' = AfterFrameNum(FrameNumRead(n))
    /\ UNCHANGED <<isLostFrame, frame_num_max>>

decodeFrame(n) == OnSps(n) \/ OnIdr(n) \/ DropP(n) \/ PassP(n)

(***************************************************************************)
(* The network and the session                                             *)
(***************************************************************************)
Sends == nal < MaxNals /\ nal' = nal + 1

\* An IDR that arrives in order ends what happened before it.
Receive ==
    /\ Sends
    /\ decodeFrame(nal)
    /\ lossRun' = IF IsSps(nal) THEN lossRun ELSE 0
    /\ disturbed' = IF IsIdr(nal) THEN frame_num_max = 0 ELSE disturbed
    /\ UNCHANGED <<variant, delayed, sessions>>

\* A picture does not arrive when it should.
MissPicture ==
    /\ ~IsSps(nal) /\ lossRun < Network[variant].lossRun
    /\ Sends
    /\ lossRun' = lossRun + 1
    /\ disturbed' = TRUE
    /\ UNCHANGED <<variant, sessions, gateVars, lastPassed>>

MissSps ==
    /\ IsSps(nal) /\ Network[variant].loseSps
    /\ Sends
    /\ UNCHANGED <<variant, lossRun, sessions, gateVars, lastPassed, disturbed>>

Lose == (MissPicture \/ MissSps) /\ UNCHANGED delayed

Delay ==
    /\ delayed = None /\ Network[variant].late > 0
    /\ delayed' = nal
    /\ MissPicture \/ MissSps

ReceiveLate ==
    /\ delayed # None /\ nal - delayed <= Network[variant].late
    /\ decodeFrame(delayed)
    /\ delayed' = None
    /\ disturbed' = (disturbed \/ ~IsSps(delayed))
    /\ UNCHANGED <<variant, nal, lossRun, sessions>>

\* The player is closed and opened again: the codec is a new one, the static
\* variables of the gate keep their values.
Reopen ==
    /\ sessions < MaxSessions
    /\ sessions' = sessions + 1
    /\ nal' \in {s \in Network[variant].restarts : s >= nal}
    /\ lossRun' = 0
    /\ delayed' = None
    /\ lastPassed' = None
    /\ disturbed' = (disturbed \/ \E n \in nal .. nal' - 1 : ~IsSps(n))
    /\ UNCHANGED <<variant, gateVars>>

Next == Receive \/ Lose \/ Delay \/ ReceiveLate \/ Reopen

Spec == Init /\ [][Next]_vars

(***************************************************************************)
(* Properties                                                              *)
(***************************************************************************)
\* The limits within which the numbers tell where pictures are missing: losses
\* and delays of datagrams together are fewer than the numbers and than the
\* pictures of a group, and the loss of an IDR does not make the numbers go on as if
\* nothing were missing (if the numbers wrap inside a group, then not within reach of
\* its end). RTSP, whose test tells of no gap, needs a transport without loss.
FrameNumTells ==
    /\ Unread = 1 /\ ParsedMax > 1
    /\ "udp" \in DOMAIN Network =>
          LET w == Network["udp"]
          IN  /\ w.lossRun + w.late < ParsedMax /\ w.lossRun + w.late < GopLen
              /\ \/ GopLen % ParsedMax = 0
                 \/ GopLen % ParsedMax > w.lossRun /\ GopLen % ParsedMax > w.late
    /\ "rtsp" \in DOMAIN Network =>
          Network["rtsp"].lossRun = 0 /\ \A n \in Network["rtsp"].starts : ~IsP(n)

\* Only decodable pictures are passed on: an IDR, or the picture that follows
\* the one passed before ("h264 correct p frame."). Nothing is asked of the
\* first picture of a later session: lastPFrameNum is that of the session before,
\* and a P picture may happen to have the next number.
PassesDecodable ==
    [][\/ lastPassed' \in {lastPassed, None}
       \/ lastPassed' % GopLen = 0
       \/ lastPassed # None /\ lastPassed' = lastPassed + 1
       \/ lastPassed = None /\ sessions > 1]_vars

\* Pictures are called lost ("h264 error p frame, lost this.") only in a group
\* in which the network lost, delayed or reordered one, or whose IDR came
\* before any SPS had told the gate where the numbers wrap: the wrap itself,
\* a new group and a new session are never mistaken for a loss.
NoFalseAlarm == isLostFrame => disturbed
=============================================================================
