----------------------------- MODULE MCNalBytes -----------------------------
(***************************************************************************)
(* NalBytes for TLC: a byte of each kind the escape tells apart, strings   *)
(* long enough for three escapes, and buffers that are too small by one,   *)
(* of the promised size, and large enough.                                 *)
(***************************************************************************)
EXTENDS NalBytes
=============================================================================
