------------------------------ MODULE MCRenderer ------------------------------
(* Renderer for TLC: sizes with padding and without it, two with as many pixels. *)
EXTENDS Renderer

MCSizes == {<<128, 32>>, <<64, 64>>, <<66, 34>>}

ASSUME SizesEven == EvenSizes
=============================================================================
