------------------------- MODULE UdpSession_proofs -------------------------
(***************************************************************************)
(* That the safety properties of UdpSession hold in every state of every   *)
(* behaviour, however many sessions there are.                             *)
(***************************************************************************)
EXTENDS UdpSession, TLAPS

(***************************************************************************)
(* The inductive invariant. The socket tells whether a session is open,    *)
(* and ui how far deinit has got: the work thread is joined before the     *)
(* decode thread is stopped, so that once ui has passed "joinWork" nobody  *)
(* is left to make a codec.                                                *)
(***************************************************************************)
WorkJoined == ui \in {"stopDecode", "joinDecode", "release"}

WorkInv ==
    /\ WorkAlive => work_threadID /\ udpFD # "none"
    /\ WorkJoined => ~work_threadID
    /\ udpFD # "none" => queueLock
    /\ ui = "idle" /\ ~surface => udpFD = "none"

DecodeInv ==
    /\ DecodeAlive => decode_tid
    /\ decode_tid => mediaCodec
    /\ mediaCodec => udpFD # "none"
    /\ ui = "release" => ~decode_tid

\* The decode thread ends only when it is told to.
ServedInv ==
    /\ dpc = "while" /\ ~isDecodeThreadRunning => ui = "joinDecode"
    /\ mediaCodec => DecodeAlive \/ ui \in {"joinDecode", "release"}

IInv == TypeOK /\ WorkInv /\ DecodeInv /\ ServedInv

\* The invariant holds before the first surface is created.
LEMMA InvInit == Init => IInv
<1> SUFFICES ASSUME Init
             PROVE  IInv
  OBVIOUS
<1>1. sessions \in 0 .. MaxSessions
  BY UdpSessionAssumption DEF Init
<1>2. TypeOK
  BY <1>1, Zenon DEF Init, TypeOK
<1>3. WorkInv /\ DecodeInv /\ ServedInv
  BY Zenon DEF Init, WorkInv, DecodeInv, ServedInv, WorkAlive, DecodeAlive, WorkJoined
<1> QED
  BY <1>2, <1>3 DEF IInv

\* Every step of every thread preserves it.
LEMMA InvStep == IInv /\ [Next]_vars => IInv'
<1> SUFFICES ASSUME IInv, [Next]_vars
             PROVE  IInv'
  OBVIOUS
<1> USE UdpSessionAssumption
        DEF IInv, TypeOK, WorkInv, DecodeInv, ServedInv, WorkAlive,
            DecodeAlive, WorkJoined
<1>1. CASE SurfaceCreated
  <2>1. CASE /\ udpFD' = "open" /\ queueLock' = TRUE /\ work_threadID' = TRUE
             /\ wpc' = "command" /\ errno' = "other"
    BY <1>1, <2>1 DEF SurfaceCreated, decodeVars
  <2>2. CASE /\ udpFD' = "none"
             /\ UNCHANGED <<queueLock, work_threadID, wpc, errno>>
    BY <1>1, <2>2 DEF SurfaceCreated, decodeVars
  <2> QED
    BY <1>1, <2>1, <2>2, Zenon DEF SurfaceCreated
<1>2. CASE SurfaceDestroyed
  BY <1>2 DEF SurfaceDestroyed, workVars, codecVars, decodeVars
<1>3. CASE OnDestroy
  BY <1>3 DEF OnDestroy, workVars, codecVars, decodeVars
<1>4. CASE ShutdownSocket
  BY <1>4 DEF ShutdownSocket, javaVars, workVars, codecVars, decodeVars
<1>5. CASE StopWork
  BY <1>5 DEF StopWork, javaVars, codecVars, decodeVars
<1>6. CASE JoinWork
  BY <1>6 DEF JoinWork, javaVars, workVars, codecVars, decodeVars
<1>7. CASE StopDecode
  BY <1>7 DEF StopDecode, javaVars, workVars, codecVars
<1>8. CASE JoinDecode
  BY <1>8 DEF JoinDecode, javaVars, workVars, codecVars
<1>9. CASE Release
  BY <1>9 DEF Release, javaVars, workVars, decodeVars
<1>10. CASE StartCommand
  BY <1>10 DEF StartCommand, javaVars, codecVars, decodeVars
<1>11. CASE Greet
  BY <1>11 DEF Greet, javaVars, codecVars, decodeVars
<1>12. CASE AnnounceWork
  BY <1>12 DEF AnnounceWork, javaVars, codecVars, decodeVars
<1>13. CASE TestWorkRunning
  BY <1>13 DEF TestWorkRunning, javaVars, codecVars, decodeVars
<1>14. CASE ReceiveNothing
  BY <1>14 DEF ReceiveNothing, javaVars, codecVars, decodeVars
<1>15. CASE DecodeOnly
  BY <1>15 DEF DecodeOnly, javaVars, codecVars, decodeVars
<1>16. CASE CreateCodec
  BY <1>16 DEF CreateCodec, javaVars
<1>17. CASE StopCommand
  BY <1>17 DEF StopCommand, javaVars, codecVars, decodeVars
<1>18. CASE ReceiveDatagram
  BY <1>18 DEF ReceiveDatagram, javaVars, codecVars, decodeVars
<1>22. CASE ReceiveEmpty
  BY <1>22 DEF ReceiveEmpty, javaVars, codecVars, decodeVars
<1>23. CASE ReceiveError
  BY <1>23 DEF ReceiveError, javaVars, codecVars, decodeVars
<1>19. CASE AnnounceDecode
  BY <1>19 DEF AnnounceDecode, javaVars, workVars, codecVars
<1>20. CASE EndDecode
  BY <1>20 DEF EndDecode, javaVars, workVars, codecVars
<1>21. CASE UNCHANGED vars
  BY <1>21 DEF vars, javaVars, workVars, codecVars, decodeVars
<1> QED
  BY <1>1, <1>2, <1>3, <1>4, <1>5, <1>6, <1>7, <1>8, <1>9, <1>10, <1>11, <1>12, <1>13, <1>14, <1>15, <1>16, <1>17, <1>18, <1>19, <1>20, <1>21,
     <1>22, <1>23
     DEF Next, Deinit, WorkAlone, DecodeThread

\* The invariant holds throughout.
LEMMA InvAlways == Spec => []IInv
  BY InvInit, InvStep, PTL DEF Spec

\* Types, and no shut socket outside deinit.
THEOREM TypeCorrect == Spec => []TypeOK
  BY InvAlways, PTL DEF IInv

\* When the player is closed no thread of it is left.
THEOREM NoThreadLeftAlways == Spec => []NoThreadLeft
<1>1. IInv => NoThreadLeft
  BY DEF IInv, WorkInv, DecodeInv, NoThreadLeft
<1> QED
  BY <1>1, InvAlways, PTL

\* Nothing is released under a running thread.
THEOREM ReleasedAfterUseAlways == Spec => []ReleasedAfterUse
<1>1. IInv => ReleasedAfterUse
  BY DEF IInv, WorkInv, DecodeInv, ReleasedAfterUse
<1> QED
  BY <1>1, InvAlways, PTL

\* Every codec has a decode thread until it is released.
THEOREM CodecIsServedAlways == Spec => []CodecIsServed
<1>1. IInv => CodecIsServed
  BY DEF IInv, ServedInv, CodecIsServed
<1> QED
  BY <1>1, InvAlways, PTL
=============================================================================
