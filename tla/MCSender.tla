------------------------------ MODULE MCSender ------------------------------
(***************************************************************************)
(* Sender for TLC. A tick of the clock makes the frames that wait stale,   *)
(* also while another one is converted; two sequence parameter sets of two *)
(* sizes free and replace the arrays at any moment of a conversion.        *)
(***************************************************************************)
EXTENDS Sender
=============================================================================
