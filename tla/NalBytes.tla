------------------------------ MODULE NalBytes ------------------------------
(***************************************************************************)
(* How the bytes of an RBSP are put into a NAL unit and taken out again:   *)
(* rbsp_to_nal, nal_to_rbsp and find_nal_unit of h264_stream.cpp. Inside a *)
(* NAL unit two zero bytes are never followed by a byte below 3, so that   *)
(* no start code can be seen there: rbsp_to_nal puts an escape byte 3      *)
(* between, which nal_to_rbsp skips.                                       *)
(*                                                                         *)
(* One step is one turn of a loop. The C index of the next byte of nal_buf *)
(* is Len(nal). Nothing interrupts these functions; the steps are there to *)
(* say what holds after any number of turns.                               *)
(***************************************************************************)
EXTENDS Integers, Sequences

CONSTANTS Byte,     \* the bytes an RBSP is made of
          MaxBytes, \* bound: the longest RBSP
          Rooms     \* sizes of the buffer the NAL unit is written to

ASSUME NalBytesAssumption == Byte \subseteq 0..255 /\ MaxBytes \in Nat /\ Rooms \subseteq Nat

Escape == 3   \* emulation_prevention_three_byte

VARIABLES
    rbsp,   \* the bytes rbsp_to_nal is given
    room,   \* what *nal_size says on entry
    pc,     \* "escape", "unescape", or how it ended: "done", "no_room", "rejected"
    nal,    \* what has been written from nal_buf on, past its end included
    zeros,  \* count: the zero bytes just passed, since an escape at most
    out,    \* what nal_to_rbsp has written to rbsp_buf
    next,   \* its index in nal_buf
    places  \* history: where in nal each byte of rbsp was put

nalVars == <<rbsp, room, pc, nal, zeros, out, next, places>>

\* rbsp_to_nal writes 0 where the header of the NAL unit belongs.
Init == /\ \E n \in 0..MaxBytes : rbsp \in [1..n -> Byte]
        /\ room \in Rooms
        /\ pc = "escape" /\ nal = <<0>> /\ zeros = 0
        /\ out = <<>> /\ next = 1 /\ places = <<>>

\* count after a byte that was escaped or not.
ZerosAfter(escaped, byte) == IF byte # 0 THEN 0 ELSE IF escaped THEN 1 ELSE zeros + 1

-----------------------------------------------------------------------------
(* rbsp_to_nal *)

\* mutant: 2 and 3 are not escaped, though 2 may not stand there.
NeedsEscapeLow(byte) == zeros = 2 /\ byte < 2
\* mutant: the escape byte itself is not escaped.
NeedsEscapeBelow(byte) == zeros = 2 /\ byte < 3
NeedsEscape(byte) == zeros = 2 /\ byte <= 3

\* mutant: the last byte of the buffer is not used.
FullEarly == Len(nal) + 1 >= room
\* The test of the room: once for a byte, whether an escape goes before it or not.
Full == Len(nal) >= room

EscapeByte ==
    /\ pc = "escape" /\ Len(places) < Len(rbsp)
    /\ IF Full
       THEN pc' = "no_room" /\ UNCHANGED <<nal, zeros, places>>
       ELSE LET byte == rbsp[Len(places) + 1]
                esc  == NeedsEscape(byte)
            IN  /\ nal' = nal \o IF esc THEN <<Escape, byte>> ELSE <<byte>>
                /\ zeros' = ZerosAfter(esc, byte)
                /\ places' = Append(places, Len(nal'))
                /\ UNCHANGED pc
    /\ UNCHANGED <<rbsp, room, out, next>>

\* The NAL unit is complete, and nal_to_rbsp begins behind its header.
EscapeEnds == /\ pc = "escape" /\ Len(places) = Len(rbsp)
              /\ pc' = "unescape" /\ zeros' = 0
              /\ UNCHANGED <<rbsp, room, nal, out, next, places>>

-----------------------------------------------------------------------------
(* nal_to_rbsp *)

ByteAt(i) == nal[i + 1]
AtLast == next = Len(nal) - 1

\* mutant: a 3 that was escaped is taken for one that needs no escape.
ForbidsThree == /\ zeros = 2
                /\ \/ ByteAt(next) < Escape
                   \/ ByteAt(next) = Escape /\ ~AtLast /\ ByteAt(next + 1) >= 3
\* After two zero bytes: a byte that may not stand here, or an escape before a
\* byte that needs none.
Forbidden == /\ zeros = 2
             /\ \/ ByteAt(next) < Escape
                \/ ByteAt(next) = Escape /\ ~AtLast /\ ByteAt(next + 1) > 3

IsEscape == zeros = 2 /\ ByteAt(next) = Escape

\* An escape is skipped and the byte behind it copied; one that ends the NAL unit
\* ends the loop. rbsp_buf is as long as nal_buf, so its end is not met.
UnescapeByte ==
    /\ pc = "unescape" /\ next < Len(nal)
    /\ IF Forbidden THEN pc' = "rejected" /\ UNCHANGED <<out, zeros, next>>
       ELSE IF IsEscape /\ AtLast THEN pc' = "done" /\ UNCHANGED <<out, zeros, next>>
       ELSE LET at == IF IsEscape THEN next + 1 ELSE next
            IN  /\ out' = Append(out, ByteAt(at))
                /\ zeros' = ZerosAfter(IsEscape, ByteAt(at))
                /\ next' = at + 1
                /\ UNCHANGED pc
    /\ UNCHANGED <<rbsp, room, nal, places>>

UnescapeEnds == /\ pc = "unescape" /\ next = Len(nal)
                /\ pc' = "done"
                /\ UNCHANGED <<rbsp, room, nal, zeros, out, next, places>>

Next == EscapeByte \/ EscapeEnds \/ UnescapeByte \/ UnescapeEnds
Spec == Init /\ [][Next]_nalVars

-----------------------------------------------------------------------------
(* find_nal_unit. Positions are those of C. *)

Has(buf, i, bytes) == i + Len(bytes) <= Len(buf) /\ \A k \in DOMAIN bytes : buf[i + k] = bytes[k]
First(S) == CHOOSE i \in S : \A j \in S : i <= j

StartsAt(buf, i) == Has(buf, i, <<0, 0, 1>>) \/ Has(buf, i, <<0, 0, 0, 1>>)
\* mutant: only a start code ends a NAL unit, zero bytes before it do not.
EndsAtCode(buf, i) == Has(buf, i, <<0, 0, 1>>)
EndsAt(buf, i) == Has(buf, i, <<0, 0, 0>>) \/ Has(buf, i, <<0, 0, 1>>)

\* The loops give up where less than a start code and a byte are left, except at
\* the place where they begin.
find_nal_unit(buf) ==
    LET size   == Len(buf)
        starts == {i \in 0..(size - 1) : StartsAt(buf, i) /\ (i = 0 \/ i + 4 < size)}
        i      == First(starts)
        start  == i + IF Has(buf, i, <<0, 0, 1>>) THEN 3 ELSE 4
        ends   == {e \in start..(size - 1) : EndsAt(buf, e) /\ (e = start \/ e + 3 < size)}
    IN  IF starts = {} THEN [start |-> 0, end |-> 0, length |-> 0]
        ELSE IF ends = {} THEN [start |-> start, end |-> size, length |-> -1]
        ELSE [start |-> start, end |-> First(ends), length |-> First(ends) - start]

-----------------------------------------------------------------------------
(* Properties *)

\* The functions work on bytes, count never passes two, and the index of
\* nal_to_rbsp stays in the NAL unit.
TypeOK ==
    /\ rbsp \in Seq(Byte) /\ room \in Nat
    /\ pc \in {"escape", "unescape", "done", "no_room", "rejected"}
    /\ nal \in Seq(0..255) /\ out \in Seq(0..255) /\ places \in Seq(Nat)
    /\ zeros \in 0..2
    /\ next \in 1..Len(nal)

\* Behind its header, a NAL unit made by rbsp_to_nal never has two zero bytes
\* before a byte below 3: no start code, and no end of one, is seen inside.
NoStartCode == \A i \in 2..Len(nal) - 2 : ~(nal[i] = 0 /\ nal[i + 1] = 0 /\ nal[i + 2] < Escape)

\* nal_to_rbsp accepts every NAL unit rbsp_to_nal makes and gives back the bytes
\* it was made of, each as it comes to it.
RoundTrip == /\ pc # "rejected"
             /\ Len(out) <= Len(rbsp) /\ \A i \in 1..Len(out) : out[i] = rbsp[i]
             /\ pc = "done" => Len(out) = Len(rbsp)

\* A buffer of three bytes for every two of the RBSP is always enough, the
\* header included, and then nothing is written past its end. (The comment of
\* rbsp_to_nal asks for four for every three, which is not enough.)
RoomSuffices == room > 0 /\ 2 * room >= 3 * Len(rbsp) => pc # "no_room" /\ Len(nal) <= room

\* A NAL unit with a header other than 0, put between start codes, is found by
\* find_nal_unit at its place and in its length, exactly when it does not end in
\* a zero byte.
Found == pc = "done" =>
    LET unit == <<101>> \o Tail(nal)
        code == <<0, 0, 1>>
    IN  find_nal_unit(<<0>> \o code \o unit \o code \o <<101>>)
          = [start |-> 4, end |-> 4 + Len(unit), length |-> Len(unit)]
        <=> (rbsp = <<>> \/ rbsp[Len(rbsp)] # 0)
=============================================================================
