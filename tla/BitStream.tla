------------------------------ MODULE BitStream ------------------------------
(***************************************************************************)
(* The bit stream of bs.h. A stream is the sequence of its bits and the    *)
(* position of the next one: p - start is pos \div 8, bits_left is         *)
(* 8 - pos % 8. Streams consist of whole bytes.                            *)
(*                                                                         *)
(* Values are below 2^31, the integers of TLC.                             *)
(***************************************************************************)
EXTENDS Integers, Sequences

\* One sequence after the other.
Joined(ss) ==
    LET s[k \in 0 .. Len(ss)] == IF k = 0 THEN <<>> ELSE s[k - 1] \o ss[k]
    IN  s[Len(ss)]

bs_eof(bits, pos)      == pos \div 8 >= Len(bits) \div 8
\* mutant: the end of the buffer counts as behind it
AtEnd(bits, pos)       == pos \div 8 >= Len(bits) \div 8
bs_overrun(bits, pos)  == pos \div 8 > Len(bits) \div 8
bs_byte_aligned(pos)   == pos % 8 = 0

\* Behind the end of the buffer every bit reads as 0.
bs_read_u1(bits, pos) == IF bs_eof(bits, pos) THEN 0 ELSE bits[pos + 1]

\* bs_read_u, also bs_read_f and bs_read_u8.
bs_read_u(bits, pos, n) ==
    LET r[i \in 0 .. n] == IF i = 0 THEN 0 ELSE 2 * r[i - 1] + bs_read_u1(bits, pos + i - 1)
    IN  r[n]

\* How often the loop of bs_read_ue turns: zero bits before a one bit, but no
\* more than 32, nor any behind the end.
Turns(bits, pos) ==
    CHOOSE i \in 0 .. 32 :
       /\ i = 32 \/ bs_read_u1(bits, pos + i) = 1 \/ bs_eof(bits, pos + i + 1)
       /\ \A j \in 0 .. i - 1 : bs_read_u1(bits, pos + j) = 0 /\ ~bs_eof(bits, pos + j + 1)

bs_read_ue(bits, pos) ==
    LET i == Turns(bits, pos) IN bs_read_u(bits, pos + i + 1, i) + 2 ^ i - 1

bs_read_se(bits, pos) ==
    LET r == bs_read_ue(bits, pos) IN IF r % 2 = 1 THEN (r + 1) \div 2 ELSE -(r \div 2)

bs_write_u(n, v) ==
    [i \in 1 .. n |-> IF n - i > 30 THEN 0 ELSE (v \div 2 ^ (n - i)) % 2]

\* The table of lengths, and what bs_write_ue makes of it.
BitsOf(v) == CHOOSE n \in 1 .. 31 : 2 ^ (n - 1) <= v /\ (n = 31 \/ v < 2 ^ n)
bs_write_ue(v) == IF v = 0 THEN <<1>> ELSE bs_write_u(2 * BitsOf(v + 1) - 1, v + 1)
bs_write_se(v) == bs_write_ue(IF v <= 0 THEN -2 * v ELSE 2 * v - 1)

-----------------------------------------------------------------------------
(* The three codes of the H.264 syntax, n the width of a u(n). *)

\* mutant: an se(v) is read as an ue(v)
ForgetsSign(code, n, bits, pos) ==
    IF code = "u" THEN bs_read_u(bits, pos, n) ELSE bs_read_ue(bits, pos)
ReadCode(code, n, bits, pos) ==
    CASE code = "u"  -> bs_read_u(bits, pos, n)
      [] code = "ue" -> bs_read_ue(bits, pos)
      [] code = "se" -> bs_read_se(bits, pos)

\* The position behind a code.
Behind(code, n, bits, pos) == IF code = "u" THEN pos + n ELSE pos + 2 * Turns(bits, pos) + 1

\* The values a code has a word for.
Half   == 2 ^ 30
MaxInt == Half - 1 + Half
Fits(code, n, v) ==
    CASE code = "u"  -> v \in 0 .. MaxInt /\ (n < 31 => v < 2 ^ n)
      [] code = "ue" -> v \in 0 .. MaxInt - 1
      [] code = "se" -> v \in 1 - Half .. Half - 1

WriteCode(code, n, v) ==
    CASE code = "u"  -> bs_write_u(n, v)
      [] code = "ue" -> bs_write_ue(v)
      [] code = "se" -> bs_write_se(v)

\* read_rbsp_trailing_bits reads a bit and then up to the next byte.
BehindTrailing(pos) == 8 * (pos \div 8 + 1)
WriteTrailing(bits) ==
    bits \o [i \in 1 .. BehindTrailing(Len(bits)) - Len(bits) |-> IF i = 1 THEN 1 ELSE 0]
=============================================================================
