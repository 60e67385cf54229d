---------------------------- MODULE MCUdpSession ----------------------------
(***************************************************************************)
(* UdpSession for TLC: three surfaces let a session begin with the static  *)
(* state two others left.                                                  *)
(***************************************************************************)
EXTENDS UdpSession
=============================================================================
