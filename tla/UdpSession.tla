----------------------------- MODULE UdpSession -----------------------------
(***************************************************************************)
(* The life of a UDP session: init, workThread and deinit of               *)
(* native-lib.cpp, with mediaCodec_create, the start of the decode thread  *)
(* in mediaCodec_onFrame, and mediaCodec_destroy.                          *)
(*                                                                         *)
(* The user's thread opens the player when the surface is created and      *)
(* closes it when the surface is destroyed and again when the activity is. *)
(* It starts the work thread, which talks to the camera and starts the     *)
(* decode thread with the first frame. Each of the two announces itself as *)
(* running; closing sets the two flags back and joins the threads.         *)
(***************************************************************************)
EXTENDS Naturals

CONSTANTS
    MaxSessions    \* bound: times the surface is created

ASSUME UdpSessionAssumption == MaxSessions \in Nat

VARIABLES
    ui,            \* the user's thread: "idle", or where it is in deinit
    surface,       \* whether there is a surface
    destroyed,     \* whether the activity was destroyed
    sessions,      \* surfaces created
    udpFD,         \* the socket: "none", "open", "shut"
    work_threadID, \* whether there is a work thread to join
    isWorkRunning,
    errno,         \* of the work thread: is it EAGAIN
    wpc,           \* where workThread is
    mediaCodec,    \* whether there is a codec
    queueLock,     \* whether the lock of the queue is initialised
    decode_tid,    \* whether there is a decode thread to join
    isDecodeThreadRunning,
    dpc            \* where decodeThread is

javaVars   == <<surface, destroyed, sessions>>
workVars   == <<isWorkRunning, errno, wpc>>
codecVars  == <<mediaCodec, queueLock>>
decodeVars == <<decode_tid, isDecodeThreadRunning, dpc>>
vars == <<ui, javaVars, udpFD, work_threadID, workVars, codecVars, decodeVars>>

Init ==
    /\ ui = "idle"
    /\ surface = FALSE /\ destroyed = FALSE /\ sessions = 0
    /\ udpFD = "none" /\ work_threadID = FALSE
    /\ isWorkRunning = FALSE /\ errno = "other" /\ wpc = "none"
    /\ mediaCodec = FALSE /\ queueLock = FALSE
    /\ decode_tid = FALSE /\ isDecodeThreadRunning = FALSE /\ dpc = "none"

(***************************************************************************)
(* The user's thread                                                       *)
(***************************************************************************)
\* init: without a socket nothing else is done.
SurfaceCreated ==
    /\ ui = "idle" /\ ~surface /\ ~destroyed /\ sessions < MaxSessions
    /\ surface' = TRUE
    /\ sessions' = sessions + 1
    /\ \/ /\ udpFD' = "open"
          /\ queueLock' = TRUE
          /\ work_threadID' = TRUE
          /\ wpc' = "command"
          /\ errno' = "other"
       \/ /\ udpFD' = "none"
          /\ UNCHANGED <<queueLock, work_threadID, wpc, errno>>
    /\ UNCHANGED <<ui, destroyed, isWorkRunning, mediaCodec, decodeVars>>

SurfaceDestroyed ==
    /\ ui = "idle" /\ surface
    /\ surface' = FALSE
    /\ ui' = "shutdown"
    /\ UNCHANGED <<destroyed, sessions, udpFD, work_threadID, workVars, codecVars, decodeVars>>

OnDestroy ==
    /\ ui = "idle" /\ ~destroyed
    /\ destroyed' = TRUE
    /\ ui' = "shutdown"
    /\ UNCHANGED <<surface, sessions, udpFD, work_threadID, workVars, codecVars, decodeVars>>

KeepSocket ==                   \* mutant: no shutdown
    /\ ui = "shutdown"
    /\ ui' = "stopWork"
    /\ UNCHANGED <<javaVars, udpFD, work_threadID, workVars, codecVars, decodeVars>>

ShutdownSocket ==
    /\ ui = "shutdown"
    /\ udpFD' = IF udpFD = "open" THEN "shut" ELSE udpFD
    /\ ui' = "stopWork"
    /\ UNCHANGED <<javaVars, work_threadID, workVars, codecVars, decodeVars>>

StopWork ==
    /\ ui = "stopWork"
    /\ isWorkRunning' = FALSE
    /\ ui' = "joinWork"
    /\ UNCHANGED <<javaVars, udpFD, work_threadID, errno, wpc, codecVars, decodeVars>>

DetachWork ==                   \* mutant: the work thread is not joined
    /\ ui = "joinWork"
    /\ work_threadID' = FALSE
    /\ ui' = "stopDecode"
    /\ UNCHANGED <<javaVars, udpFD, workVars, codecVars, decodeVars>>

JoinWork ==
    /\ ui = "joinWork"
    /\ work_threadID => wpc = "ended"
    /\ work_threadID' = FALSE
    /\ ui' = "stopDecode"
    /\ UNCHANGED <<javaVars, udpFD, workVars, codecVars, decodeVars>>

StopDecode ==
    /\ ui = "stopDecode"
    /\ isDecodeThreadRunning' = FALSE
    /\ ui' = "joinDecode"
    /\ UNCHANGED <<javaVars, udpFD, work_threadID, workVars, codecVars, decode_tid, dpc>>

DetachDecode ==                 \* mutant: the decode thread is not joined
    /\ ui = "joinDecode"
    /\ decode_tid' = FALSE
    /\ ui' = "release"
    /\ UNCHANGED <<javaVars, udpFD, work_threadID, workVars, codecVars,
                   isDecodeThreadRunning, dpc>>

JoinDecode ==
    /\ ui = "joinDecode"
    /\ decode_tid => dpc = "ended"
    /\ decode_tid' = FALSE
    /\ ui' = "release"
    /\ UNCHANGED <<javaVars, udpFD, work_threadID, workVars, codecVars,
                   isDecodeThreadRunning, dpc>>

KeepCodec ==                    \* mutant: mediaCodec = NULL is missing
    /\ ui = "release"
    /\ queueLock' = FALSE
    /\ udpFD' = "none"
    /\ ui' = "idle"
    /\ UNCHANGED <<javaVars, mediaCodec, work_threadID, workVars, decodeVars>>

KeepNumber ==                   \* mutant: udpFD = -1 is missing
    /\ ui = "release"
    /\ mediaCodec' = FALSE
    /\ queueLock' = FALSE
    /\ ui' = "idle"
    /\ UNCHANGED <<javaVars, udpFD, work_threadID, workVars, decodeVars>>

\* The sender thread is joined here as well, see Sender.
Release ==
    /\ ui = "release"
    /\ mediaCodec' = FALSE
    /\ queueLock' = FALSE
    /\ udpFD' = "none"
    /\ ui' = "idle"
    /\ UNCHANGED <<javaVars, work_threadID, workVars, decodeVars>>

(***************************************************************************)
(* workThread                                                              *)
(***************************************************************************)
\* oneShotTcpCMD: the camera answers, or the receive times out with EAGAIN.
StartCommand ==
    /\ wpc = "command"
    /\ errno' \in {"EAGAIN", "other"}
    /\ wpc' = "greet"
    /\ UNCHANGED <<ui, javaVars, udpFD, work_threadID, isWorkRunning, codecVars, decodeVars>>

\* The first datagram; when it cannot be sent, as on a socket that was shut
\* down, the thread ends.
Greet ==
    /\ wpc = "greet"
    /\ wpc' \in IF udpFD = "open" THEN {"announce", "ended"} ELSE {"ended"}
    /\ UNCHANGED <<ui, javaVars, udpFD, work_threadID, isWorkRunning, errno, codecVars, decodeVars>>

AnnounceWork ==
    /\ wpc = "announce"
    /\ isWorkRunning' = TRUE
    /\ wpc' = "while"
    /\ UNCHANGED <<ui, javaVars, udpFD, work_threadID, errno, codecVars, decodeVars>>

TestWorkRunning ==
    /\ wpc = "while"
    /\ wpc' = IF isWorkRunning THEN "receive" ELSE "bye"
    /\ UNCHANGED <<ui, javaVars, udpFD, work_threadID, isWorkRunning, errno, codecVars, decodeVars>>

ReceiveDatagram ==
    /\ wpc = "receive"
    /\ wpc' = "decode"
    /\ UNCHANGED <<ui, javaVars, udpFD, work_threadID, isWorkRunning, errno, codecVars, decodeVars>>

\* recvfrom on a socket that was shut down returns 0 and leaves errno alone.
ReceiveNothing ==
    /\ wpc = "receive" /\ udpFD = "shut"
    /\ wpc' = IF errno = "EAGAIN" THEN "while" ELSE "bye"
    /\ UNCHANGED <<ui, javaVars, udpFD, work_threadID, isWorkRunning, errno, codecVars, decodeVars>>

\* A datagram without bytes leaves errno alone as well.
ReceiveEmpty ==
    /\ wpc = "receive"
    /\ wpc' = IF errno = "EAGAIN" THEN "while" ELSE "bye"
    /\ UNCHANGED <<ui, javaVars, udpFD, work_threadID, isWorkRunning, errno, codecVars, decodeVars>>

\* The receive blocks, so no error of its own is EAGAIN: the loop is left.
ReceiveError ==
    /\ wpc = "receive"
    /\ errno' = "other"
    /\ wpc' = "bye"
    /\ UNCHANGED <<ui, javaVars, udpFD, work_threadID, isWorkRunning, codecVars, decodeVars>>

\* decodeFrame: a NAL unit that makes no codec, or one more for the codec.
DecodeOnly ==
    /\ wpc = "decode"
    /\ wpc' = "while"
    /\ UNCHANGED <<ui, javaVars, udpFD, work_threadID, isWorkRunning, errno, codecVars, decodeVars>>

\* mediaCodec_onFrame: the first frame makes the codec and its thread.
CreateCodec ==
    /\ wpc = "decode" /\ ~mediaCodec
    /\ mediaCodec' = TRUE
    /\ decode_tid' = TRUE
    /\ dpc' = "announce"
    /\ wpc' = "while"
    /\ UNCHANGED <<ui, javaVars, udpFD, work_threadID, isWorkRunning, errno, queueLock,
                   isDecodeThreadRunning>>

StopCommand ==
    /\ wpc = "bye"
    /\ errno' \in {"EAGAIN", "other"}
    /\ wpc' = "ended"
    /\ UNCHANGED <<ui, javaVars, udpFD, work_threadID, isWorkRunning, codecVars, decodeVars>>

(***************************************************************************)
(* decodeThread, its work left out (see DecodeQueue)                       *)
(***************************************************************************)
AnnounceDecode ==
    /\ dpc = "announce"
    /\ isDecodeThreadRunning' = TRUE
    /\ dpc' = "while"
    /\ UNCHANGED <<ui, javaVars, udpFD, work_threadID, workVars, codecVars, decode_tid>>

EndDecode ==
    /\ dpc = "while" /\ ~isDecodeThreadRunning
    /\ dpc' = "ended"
    /\ UNCHANGED <<ui, javaVars, udpFD, work_threadID, workVars, codecVars,
                   decode_tid, isDecodeThreadRunning>>

Deinit == ShutdownSocket \/ StopWork \/ JoinWork \/ StopDecode \/ JoinDecode \/ Release

\* What the work thread does by itself, without the camera.
WorkAlone == StartCommand \/ Greet \/ AnnounceWork \/ TestWorkRunning
             \/ ReceiveNothing \/ DecodeOnly \/ CreateCodec \/ StopCommand

DecodeThread == AnnounceDecode \/ EndDecode

Next == SurfaceCreated \/ SurfaceDestroyed \/ OnDestroy \/ Deinit
        \/ WorkAlone \/ ReceiveDatagram \/ ReceiveEmpty \/ ReceiveError
        \/ DecodeThread

Spec == Init /\ [][Next]_vars

\* Each thread runs when it can. The camera may stop sending; a socket that is
\* shut down has only so many datagrams left, so the receive returns 0 in the end.
FairSpec == /\ Spec
            /\ WF_vars(Deinit) /\ WF_vars(WorkAlone) /\ WF_vars(DecodeThread)
            /\ SF_vars(ReceiveNothing)

(***************************************************************************)
(* Properties                                                              *)
(***************************************************************************)
\* A thread that was started and has not ended.
WorkAlive   == wpc \notin {"none", "ended"}
DecodeAlive == dpc \notin {"none", "ended"}

\* Types; a socket that was shut down is closed before deinit returns.
TypeOK ==
    /\ ui \in {"idle", "shutdown", "stopWork", "joinWork", "stopDecode", "joinDecode", "release"}
    /\ {surface, destroyed, work_threadID, isWorkRunning} \subseteq BOOLEAN
    /\ {mediaCodec, queueLock, decode_tid, isDecodeThreadRunning} \subseteq BOOLEAN
    /\ sessions \in 0 .. MaxSessions
    /\ udpFD \in {"none", "open", "shut"} /\ (udpFD = "shut" => ui # "idle")
    /\ errno \in {"EAGAIN", "other"}
    /\ wpc \in {"none", "command", "greet", "announce", "while", "receive", "decode", "bye", "ended"}
    /\ dpc \in {"none", "announce", "while", "ended"}

\* Once the player is closed no thread of it runs, so that the next session is
\* alone with the static state (the joins of deinit and mediaCodec_destroy).
NoThreadLeft == ui = "idle" /\ udpFD = "none" => ~WorkAlive /\ ~DecodeAlive

\* While the work thread runs it has its socket and the queue its lock; while
\* the decode thread runs there is a codec: nothing is released under a thread,
\* whenever the player is closed and however often deinit is called.
ReleasedAfterUse ==
    /\ WorkAlive => udpFD # "none" /\ queueLock
    /\ DecodeAlive => mediaCodec /\ queueLock

\* Every codec has its decode thread, or is being released: a frame is never
\* queued for a codec nobody feeds, in a second session either.
CodecIsServed ==
    mediaCodec => DecodeAlive \/ ui \in {"joinDecode", "release"}

\* deinit returns when it is called with both threads at work.
BothRunning == wpc \in {"while", "receive", "decode"} /\ isWorkRunning
               /\ dpc = "while" /\ isDecodeThreadRunning

DeinitReturnsOnceRunning == (ui = "shutdown" /\ BothRunning) ~> (ui = "idle")

\* mediaCodec_destroy gets past the join of the decode thread ("waiting decode
\* thread ok", mediacodec.cpp:337), wherever that thread is when it is stopped.
DecodeJoinReturns == (ui = "joinDecode") ~> (ui # "joinDecode")
=============================================================================
