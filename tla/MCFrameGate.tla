---------------------------- MODULE MCFrameGate ----------------------------
(***************************************************************************)
(* FrameGate for TLC, with frame numbers of three bits for the code's four *)
(* and groups of twelve pictures. Losses of two pictures in a row and      *)
(* delays of three NAL units stay well below the 2^3 - 1 pictures after    *)
(* which the numbers repeat and the gate cannot tell.                      *)
(***************************************************************************)
EXTENDS FrameGate

Lossless == [starts |-> {0}, restarts |-> {}, lossRun |-> 0, late |-> 0, loseSps |-> FALSE]

LossyUdpLosslessRtsp ==
    [udp  |-> [starts |-> {0, 1, 2, 3, 9}, restarts |-> {13, 17, 26}, lossRun |-> 2,
               late |-> 3, loseSps |-> TRUE],
     rtsp |-> [Lossless EXCEPT !.loseSps = TRUE]]

ASSUME WithinLimits == FrameNumTells
=============================================================================
