--------------------------- MODULE MCDecodeQueue ---------------------------
(***************************************************************************)
(* DecodeQueue for TLC. A clock that may pass DropAfter twice lets packets *)
(* become stale in the queue, while a key packet is retried, and again     *)
(* after a fresh key packet has ended the dropping mode.                   *)
(***************************************************************************)
EXTENDS DecodeQueue
=============================================================================
