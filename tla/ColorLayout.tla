----------------------------- MODULE ColorLayout -----------------------------
(***************************************************************************)
(* Where senderThread finds the planes of a decoded picture in a packet    *)
(* and what it writes of them. A picture has a size <<width, height>>; the *)
(* codec's colour formats are "planar" (19), "semiplanar" (21), "tiled"    *)
(* (0x7FA30C03) and all others ("packed").                                 *)
(***************************************************************************)
EXTENDS Naturals

Formats == {"planar", "semiplanar", "tiled", "packed"}

Align(n, a) == IF n % a > 0 THEN a * (n \div a + 1) ELSE n

\* The stride and the rows of luma and of chroma.
Aligned(size, a) ==
    LET y == <<Align(size[1], a), Align(size[2], 32)>> IN [y |-> y, uv |-> <<y[1], y[2] \div 2>>]
\* mutant: the rows of a U plane and of a V plane are taken for those of both
HalfSpan(size, f) ==
    CASE f = "planar"     -> [y |-> size, uv |-> <<size[1] \div 2, size[2] \div 2>>]
      [] f = "semiplanar" -> [y |-> size, uv |-> <<size[1], size[2] \div 2>>]
      [] f = "tiled"      -> Aligned(size, 64)
      [] OTHER            -> Aligned(size, 128)
getStride(size, f) ==
    CASE f = "planar"     -> [y |-> size, uv |-> <<size[1] \div 2, size[2]>>]
      [] f = "semiplanar" -> [y |-> size, uv |-> <<size[1], size[2] \div 2>>]
      [] f = "tiled"      -> Aligned(size, 64)
      [] OTHER            -> Aligned(size, 128)

\* Planes are [at, stride, rows, width] in bytes. src_uv and src_v begin the
\* chroma planes; V comes with U, but for I420.
Planes(size, f) ==
    LET s      == getStride(size, f)
        src_uv == s.y[1] * s.y[2]
        src_v  == src_uv + (s.uv[1] * s.uv[2]) \div 2
        Chroma(at, width) == [at |-> at, stride |-> s.uv[1], rows |-> (size[2] + 1) \div 2, width |-> width]
    IN  {[at |-> 0, stride |-> s.y[1], rows |-> size[2], width |-> size[1]]}
        \cup IF f = "planar" THEN {Chroma(src_uv, (size[1] + 1) \div 2), Chroma(src_v, (size[1] + 1) \div 2)}
             ELSE {Chroma(src_uv, 2 * ((size[1] + 1) \div 2))}

\* The size of a packet, by the layout of its format (external: the codec).
Length(size, f) ==
    LET Padded(n, a) == a * ((n + a - 1) \div a)
        y == CASE f = "tiled"  -> <<Padded(size[1], 64), Padded(size[2], 32)>>
               [] f = "packed" -> <<Padded(size[1], 128), Padded(size[2], 32)>>
               [] OTHER        -> size
    IN  (3 * y[1] * y[2]) \div 2

\* sizeChanged makes the arrays; toNV21 copies the packet as it is, toARGB writes
\* four bytes for each pixel.
nv21_size(size)    == (3 * size[1] * size[2]) \div 2
argb_size(size)    == 4 * size[1] * size[2]
toNV21(size, f)    == Length(size, f)
toARGB(size, f)    == argb_size(size)

LastByte(p) == p.at + p.stride * (p.rows - 1) + p.width
=============================================================================
