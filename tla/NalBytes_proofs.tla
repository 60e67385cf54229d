--------------------------- MODULE NalBytes_proofs ---------------------------
(***************************************************************************)
(* For every byte string: escaping it leaves no start code inside, taking  *)
(* the escapes out gives it back, three bytes for every two are room       *)
(* enough, and between start codes the NAL unit is found again.            *)
(*                                                                         *)
(* The argument: `places` cuts the NAL unit into one or two bytes for each *)
(* byte of the RBSP, two exactly where two zero bytes come before a byte   *)
(* up to 3 (Cut). What both loops count is then the zero bytes at the end  *)
(* of what they have passed (ZerosAt), so that the second loop recognises  *)
(* the cuts of the first.                                                  *)
(***************************************************************************)
EXTENDS NalBytes, TLAPS

\* The length of the NAL unit when n bytes had been put into it.
At(n) == IF n = 0 THEN 1 ELSE places[n]

\* The zero bytes at the end of the first p bytes, the header not counted.
ZerosAt(p) == IF p = 1 \/ nal[p] # 0 THEN 0 ELSE IF p > 2 /\ nal[p - 1] = 0 THEN 2 ELSE 1

Cut(n) == /\ nal[places[n]] = rbsp[n]
          /\ IF ZerosAt(At(n - 1)) = 2 /\ rbsp[n] <= 3
             THEN places[n] = At(n - 1) + 2 /\ nal[At(n - 1) + 1] = 3
             ELSE places[n] = At(n - 1) + 1

Shape == /\ Len(places) <= Len(rbsp)
         /\ Len(nal) = At(Len(places))
         /\ \A n \in 1..Len(places) : places[n] \in 2..Len(nal)
         /\ \A n \in 1..Len(places) - 1 : places[n] < Len(nal)
         /\ \A n \in 1..Len(places) : Cut(n)

Phase == IF pc \in {"escape", "no_room"}
         THEN out = <<>> /\ next = 1 /\ zeros = ZerosAt(Len(nal))
         ELSE /\ pc # "rejected"
              /\ Len(places) = Len(rbsp)
              /\ Len(out) <= Len(rbsp) /\ \A i \in 1..Len(out) : out[i] = rbsp[i]
              /\ next = At(Len(out)) /\ zeros = ZerosAt(next)
              /\ pc = "done" => Len(out) = Len(rbsp)

\* Escapes are counted by what they make longer: each needs two zero bytes of its own.
Room == LET escapes == Len(nal) - 1 - Len(places)
        IN  /\ escapes >= 0
            /\ Len(places) > 0 => 2 * escapes + 1 <= Len(places)
            /\ pc = "escape" => 2 * escapes + zeros <= Len(places)
            /\ room > 0 /\ 2 * room >= 3 * Len(rbsp) => pc # "no_room"

IInv == TypeOK /\ Shape /\ Phase /\ NoStartCode /\ Room

-----------------------------------------------------------------------------
\* One or two bytes at the end of a sequence.
LEMMA AddOne == ASSUME NEW S, NEW s \in Seq(S), NEW a \in S
                PROVE  /\ s \o <<a>> \in Seq(S) /\ Len(s \o <<a>>) = Len(s) + 1
                       /\ \A i \in 1..Len(s) : (s \o <<a>>)[i] = s[i]
                       /\ (s \o <<a>>)[Len(s) + 1] = a
  OBVIOUS
LEMMA ElementIn == ASSUME NEW S, NEW s \in Seq(S), NEW i \in 1..Len(s) PROVE s[i] \in S
  OBVIOUS
LEMMA AddTwo == ASSUME NEW S, NEW s \in Seq(S), NEW a \in S, NEW b \in S
                PROVE  /\ s \o <<a, b>> \in Seq(S) /\ Len(s \o <<a, b>>) = Len(s) + 2
                       /\ \A i \in 1..Len(s) : (s \o <<a, b>>)[i] = s[i]
                       /\ (s \o <<a, b>>)[Len(s) + 1] = a
                       /\ (s \o <<a, b>>)[Len(s) + 2] = b
  OBVIOUS

\* The initial states satisfy the invariant.
LEMMA InitIInv == Init => IInv
  <1> SUFFICES ASSUME Init PROVE IInv OBVIOUS
  <1>1. rbsp \in Seq(Byte) /\ Len(rbsp) \in Nat
    BY NalBytesAssumption DEF Init
  <1>2. places = <<>> /\ Len(places) = 0 /\ nal = <<0>> /\ Len(nal) = 1 /\ room \in Nat
    BY NalBytesAssumption DEF Init
  <1>3. TypeOK
    BY <1>1, <1>2 DEF Init, TypeOK
  <1>4. Shape
    BY <1>1, <1>2 DEF Init, Shape, At
  <1>5. Phase /\ NoStartCode /\ Room
    BY <1>1, <1>2 DEF Init, Phase, NoStartCode, Room, ZerosAt, At
  <1> QED BY <1>3, <1>4, <1>5 DEF IInv

\* What TypeOK says of the elements of the sequences.
LEMMA Elements ==
    ASSUME TypeOK
    PROVE  /\ Len(nal) \in Nat /\ \A i \in 1..Len(nal) : nal[i] \in 0..255
           /\ Len(places) \in Nat /\ \A n \in 1..Len(places) : places[n] \in Nat
           /\ Len(rbsp) \in Nat /\ \A n \in 1..Len(rbsp) : rbsp[n] \in 0..255
           /\ Len(out) \in Nat
  <1>1. rbsp \in Seq(Byte) /\ Byte \subseteq 0..255
    BY NalBytesAssumption DEF TypeOK
  <1>2. Len(rbsp) \in Nat /\ \A n \in 1..Len(rbsp) : rbsp[n] \in Byte
    BY <1>1
  <1>3. Len(nal) \in Nat /\ \A i \in 1..Len(nal) : nal[i] \in 0..255
    BY ElementIn DEF TypeOK
  <1>4. Len(places) \in Nat /\ \A n \in 1..Len(places) : places[n] \in Nat
    BY DEF TypeOK
  <1>5. \A n \in 1..Len(rbsp) : rbsp[n] \in 0..255
    BY <1>1, <1>2
  <1> QED BY <1>2, <1>3, <1>4, <1>5 DEF TypeOK

-----------------------------------------------------------------------------
(* The first loop *)

\* What a turn that makes the NAL unit k bytes longer leaves behind, two with an
\* escape and one without.
Put(byte, k) ==
    /\ Len(nal') = Len(nal) + k
    /\ \A i \in 1..Len(nal) : nal'[i] = nal[i]
    /\ k = 2 => nal'[Len(nal) + 1] = 3
    /\ nal'[Len(nal')] = byte
    /\ Len(places') = Len(places) + 1
    /\ \A n \in 1..Len(places) : places'[n] = places[n]
    /\ places'[Len(places) + 1] = Len(nal')
    /\ zeros' = IF byte # 0 THEN 0 ELSE IF k = 2 THEN 1 ELSE zeros + 1

LEMMA EscapePuts ==
    ASSUME TypeOK, EscapeByte, ~Full, NEW byte, byte = rbsp[Len(places) + 1]
    PROVE  /\ byte \in 0..255 /\ UNCHANGED pc
           /\ nal' \in Seq(0..255) /\ places' \in Seq(Nat)
           /\ NeedsEscape(byte) => Put(byte, 2)
           /\ ~NeedsEscape(byte) => Put(byte, 1)
  <1>1. byte \in 0..255
    <2>1. rbsp \in Seq(Byte) /\ Len(places) \in Nat /\ Len(places) < Len(rbsp)
      BY DEF TypeOK, EscapeByte
    <2>2. rbsp[Len(places) + 1] \in Byte
      BY <2>1
    <2> QED BY <2>2, NalBytesAssumption
  <1>2. /\ nal' = nal \o IF NeedsEscape(byte) THEN <<3, byte>> ELSE <<byte>>
        /\ zeros' = ZerosAfter(NeedsEscape(byte), byte)
        /\ places' = Append(places, Len(nal')) /\ pc' = pc
    BY DEF EscapeByte, Escape
  <1>3. CASE NeedsEscape(byte)
    <2>1. nal' = nal \o <<3, byte>>
      BY <1>2, <1>3
    <2>2. /\ nal' \in Seq(0..255) /\ Len(nal') = Len(nal) + 2
          /\ \A i \in 1..Len(nal) : nal'[i] = nal[i]
          /\ nal'[Len(nal) + 1] = 3 /\ nal'[Len(nal) + 2] = byte
      BY <2>1, <1>1, AddTwo DEF TypeOK
    <2> QED BY <1>1, <1>2, <1>3, <2>2 DEF Put, ZerosAfter, TypeOK
  <1>4. CASE ~NeedsEscape(byte)
    <2>1. nal' = nal \o <<byte>>
      BY <1>2, <1>4
    <2>2. /\ nal' \in Seq(0..255) /\ Len(nal') = Len(nal) + 1
          /\ \A i \in 1..Len(nal) : nal'[i] = nal[i]
          /\ nal'[Len(nal) + 1] = byte
      BY <2>1, <1>1, AddOne DEF TypeOK
    <2> QED BY <1>1, <1>2, <1>4, <2>2 DEF Put, ZerosAfter, TypeOK
  <1> QED BY <1>3, <1>4

\* A turn of the first loop keeps the invariant.
LEMMA EscapeKeeps == ASSUME IInv, EscapeByte PROVE IInv'
  <1> USE DEF IInv
  <1>0. /\ UNCHANGED <<rbsp, room, out, next>> /\ pc = "escape" /\ Len(places) < Len(rbsp)
        /\ Len(rbsp) \in Nat /\ Len(places) \in Nat /\ Len(nal) \in Nat \ {0}
        /\ zeros = ZerosAt(Len(nal))
        /\ \A i \in 1..Len(nal) : nal[i] \in 0..255
        /\ \A n \in 1..Len(places) : places[n] \in Nat
    BY Elements DEF EscapeByte, TypeOK, Phase
  <1>1. CASE Full
    <2>1. pc' = "no_room" /\ UNCHANGED <<nal, zeros, places>>
      BY <1>1 DEF EscapeByte
    <2>2. TypeOK' /\ NoStartCode'
      BY <1>0, <2>1 DEF TypeOK, NoStartCode
    <2>3. Shape' /\ Phase'
      BY <1>0, <2>1 DEF Shape, Phase, ZerosAt, At, Cut
    <2>4. Room'
      <3>1. 2 * Len(nal) <= 3 * Len(places) + 1 \/ Len(nal) = 1
        BY <1>0 DEF Room, Shape, At
      <3>2. ~(room > 0 /\ 2 * room >= 3 * Len(rbsp))
        BY <1>0, <1>1, <3>1 DEF Full, TypeOK
      <3> QED BY <1>0, <2>1, <3>2 DEF Room
    <2> QED BY <2>2, <2>3, <2>4
  <1>2. CASE ~Full
    <2> DEFINE byte == rbsp[Len(places) + 1]
               k == IF zeros = 2 /\ byte <= 3 THEN 2 ELSE 1
    <2>1. byte \in 0..255 /\ k \in {1, 2} /\ Put(byte, k) /\ pc' = "escape"
      BY <1>0, <1>2, EscapePuts DEF NeedsEscape
    <2>2. k = 2 <=> (zeros = 2 /\ byte <= 3)
      OBVIOUS
    <2>3. zeros \in 0..2 /\ zeros' \in 0..2
      BY <2>1, <2>2 DEF Put, TypeOK
    <2> HIDE DEF byte, k
    <2>4. TypeOK'
      <3>1. nal' \in Seq(0..255) /\ places' \in Seq(Nat)
        BY <1>0, <1>2, EscapePuts
      <3>2. next' \in 1..Len(nal')
        BY <1>0, <2>1 DEF Put, TypeOK
      <3> QED BY <1>0, <2>1, <2>3, <3>1, <3>2 DEF TypeOK
    <2>5. zeros' = ZerosAt(Len(nal))'
      <3>1. /\ Len(nal') = Len(nal) + k /\ nal'[Len(nal')] = byte
            /\ nal'[Len(nal)] = nal[Len(nal)] /\ (k = 2 => nal'[Len(nal) + 1] = 3)
            /\ zeros' = IF byte # 0 THEN 0 ELSE IF k = 2 THEN 1 ELSE zeros + 1
        BY <1>0, <2>1 DEF Put
      <3>2. CASE byte # 0
        BY <1>0, <2>1, <3>1, <3>2 DEF ZerosAt
      <3>3. CASE byte = 0 /\ k = 2
        <4>1. Len(nal') > 2 /\ nal'[Len(nal') - 1] = 3 /\ nal'[Len(nal')] = 0
          BY <1>0, <3>1, <3>3
        <4> QED BY <3>1, <3>3, <4>1 DEF ZerosAt
      <3>4. CASE byte = 0 /\ k = 1
        <4>1. Len(nal') = Len(nal) + 1 /\ nal'[Len(nal') - 1] = nal[Len(nal)] /\ nal'[Len(nal')] = 0
          BY <1>0, <3>1, <3>4
        <4>2. zeros \in {0, 1} /\ zeros' = zeros + 1
          BY <2>2, <2>3, <3>1, <3>4
        <4>3. zeros = 1 <=> (Len(nal) > 1 /\ nal[Len(nal)] = 0)
          <5>1. zeros = IF Len(nal) = 1 \/ nal[Len(nal)] # 0 THEN 0
                        ELSE IF Len(nal) > 2 /\ nal[Len(nal) - 1] = 0 THEN 2 ELSE 1
            BY <1>0 DEF ZerosAt
          <5>2. Len(nal) \in Nat /\ Len(nal) >= 1
            BY <1>0
          <5>3. CASE Len(nal) > 1 /\ nal[Len(nal)] = 0
            <6>1. Len(nal) # 1
              BY <5>2, <5>3
            <6> QED BY <4>2, <5>1, <5>3, <6>1
          <5>4. CASE ~(Len(nal) > 1) \/ nal[Len(nal)] # 0
            <6>1. Len(nal) = 1 \/ nal[Len(nal)] # 0
              BY <5>2, <5>4
            <6>2. zeros = 0
              BY <5>1, <6>1
            <6> QED BY <5>4, <6>2
          <5> QED BY <5>3, <5>4
        <4> QED BY <1>0, <4>1, <4>2, <4>3 DEF ZerosAt
      <3> QED BY <2>1, <3>2, <3>3, <3>4
    <2>6. Phase'
      BY <1>0, <2>1, <2>5 DEF Phase
    <2>7. NoStartCode'
      <3> SUFFICES ASSUME NEW i \in 2..Len(nal') - 2,
                          nal'[i] = 0, nal'[i + 1] = 0, nal'[i + 2] < 3
                   PROVE  FALSE
        BY DEF NoStartCode, Escape
      <3>1. CASE i + 2 <= Len(nal)
        <4>1. i \in 2..Len(nal) - 2 /\ {i, i + 1, i + 2} \subseteq 1..Len(nal)
          BY <1>0, <3>1
        <4>2. nal[i] = 0 /\ nal[i + 1] = 0 /\ nal[i + 2] < 3
          BY <2>1, <4>1 DEF Put
        <4> QED BY <4>1, <4>2 DEF NoStartCode, Escape
      <3>2. CASE i + 2 = Len(nal) + 1
        <4>1. nal[i] = 0 /\ nal[i + 1] = 0 /\ zeros = 2
          BY <1>0, <2>1, <3>2 DEF Put, ZerosAt
        <4> QED BY <1>0, <2>1, <2>2, <3>2, <4>1 DEF Put
      <3>3. CASE i + 2 = Len(nal) + 2
        BY <1>0, <2>1, <3>3 DEF Put
      <3> QED BY <1>0, <2>1, <3>1, <3>2, <3>3 DEF Put
    <2>8. Shape'
      <3>1. At(Len(places))' = Len(nal') /\ Len(places') <= Len(rbsp')
        BY <1>0, <2>1 DEF Put, At
      <3>2. \A n \in 0..Len(places) : At(n)' = At(n) /\ At(n) \in 1..Len(nal)
        BY <1>0, <2>1 DEF Put, At, Shape
      <3>3. \A n \in 0..Len(places) : ZerosAt(At(n))' = ZerosAt(At(n))
        <4> SUFFICES ASSUME NEW n \in 0..Len(places) PROVE ZerosAt(At(n))' = ZerosAt(At(n))
          OBVIOUS
        <4>1. At(n)' = At(n) /\ At(n) \in 1..Len(nal)
          BY <3>2
        <4>2. nal'[At(n)] = nal[At(n)] /\ (At(n) > 2 => nal'[At(n) - 1] = nal[At(n) - 1])
          BY <1>0, <2>1, <4>1 DEF Put
        <4> QED BY <4>1, <4>2 DEF ZerosAt
      <3>4. \A n \in 1..Len(places) : Cut(n)'
        <4> SUFFICES ASSUME NEW n \in 1..Len(places) PROVE Cut(n)'
          OBVIOUS
        <4>1. n - 1 \in 0..Len(places) /\ Cut(n)
          BY DEF Shape
        <4>2. /\ places'[n] = places[n] /\ rbsp' = rbsp
              /\ At(n - 1)' = At(n - 1) /\ At(n - 1) \in 1..Len(nal)
              /\ ZerosAt(At(n - 1))' = ZerosAt(At(n - 1))
          BY <1>0, <2>1, <3>2, <3>3, <4>1 DEF Put
        <4>3. places[n] \in 2..Len(nal) /\ nal'[places[n]] = nal[places[n]]
          BY <1>0, <2>1 DEF Put, Shape
        <4>4. At(n - 1) + 1 <= Len(nal)
          BY <4>1, <4>2, <4>3 DEF Cut
        <4>5. nal'[At(n - 1) + 1] = nal[At(n - 1) + 1]
          BY <2>1, <4>2, <4>4 DEF Put
        <4> QED BY <4>1, <4>2, <4>3, <4>5 DEF Cut
      <3>5. PICK m \in Nat, l \in Nat \ {0} : m = Len(places) /\ l = Len(nal)
        BY <1>0
      <3>6. Cut(m + 1)'
        <4>1. At(m)' = l /\ ZerosAt(l)' = zeros
          <5>1. At(m)' = At(m) /\ ZerosAt(At(m))' = ZerosAt(At(m))
            BY <1>0, <3>2, <3>3, <3>5
          <5>2. At(m) = l
            BY <3>5 DEF Shape
          <5> QED BY <1>0, <3>5, <5>1, <5>2
        <4>2. places'[m + 1] = l + k /\ nal'[l + k] = byte /\ rbsp'[m + 1] = byte
          BY <1>0, <2>1, <3>5 DEF Put, byte
        <4>3. k = 2 => nal'[l + 1] = 3
          BY <2>1, <3>5 DEF Put
        <4> QED BY <1>0, <2>1, <2>2, <4>1, <4>2, <4>3 DEF Cut
      <3>9. \A n \in 1..Len(places') : Cut(n)'
        BY <1>0, <2>1, <3>4, <3>5, <3>6 DEF Put
      <3>7. \A n \in 1..Len(places') : places'[n] \in 2..Len(nal')
        <4>1. \A n \in 1..Len(places) : places'[n] \in 2..Len(nal')
          <5>1. \A n \in 1..Len(places) : places[n] \in 2..Len(nal)
            BY DEF Shape
          <5> QED BY <1>0, <2>1, <5>1 DEF Put
        <4>2. places'[Len(places) + 1] \in 2..Len(nal')
          BY <1>0, <2>1 DEF Put
        <4> QED BY <1>0, <2>1, <4>1, <4>2 DEF Put
      <3>8. \A n \in 1..Len(places') - 1 : places'[n] < Len(nal')
        BY <1>0, <2>1 DEF Put, Shape
      <3> QED BY <3>1, <3>7, <3>8, <3>9 DEF Shape
    <2>9. Room'
      BY <1>0, <2>1, <2>2, <2>3 DEF Room, Put
    <2> QED BY <2>4, <2>6, <2>7, <2>8, <2>9
  <1> QED BY <1>1, <1>2

-----------------------------------------------------------------------------
(* The second loop *)

\* Both ends of a loop keep the invariant.
LEMMA EndsKeep == ASSUME IInv, EscapeEnds \/ UnescapeEnds PROVE IInv'
  <1> USE DEF IInv
  <1>0. /\ UNCHANGED <<rbsp, room, nal, out, next, places>>
        /\ Len(rbsp) \in Nat /\ Len(places) \in Nat /\ Len(nal) \in Nat /\ Len(out) \in Nat
        /\ \A n \in 1..Len(places) : places[n] \in Nat
    BY Elements DEF EscapeEnds, UnescapeEnds
  <1>1. Shape' /\ NoStartCode'
    BY <1>0 DEF Shape, Cut, At, ZerosAt, NoStartCode
  <1>2. TypeOK' /\ Room'
    BY <1>0 DEF EscapeEnds, UnescapeEnds, TypeOK, Room
  <1>3. CASE EscapeEnds
    <2>1. pc' = "unescape" /\ zeros' = 0 /\ out = <<>> /\ next = 1 /\ Len(places) = Len(rbsp)
      BY <1>3 DEF EscapeEnds, Phase
    <2>2. Len(out) = 0
      BY <2>1
    <2> QED BY <1>0, <1>1, <1>2, <2>1, <2>2 DEF Phase, At, ZerosAt
  <1>4. CASE UnescapeEnds
    <2>1. pc = "unescape" /\ pc' = "done" /\ zeros' = zeros /\ next = Len(nal)
      BY <1>4 DEF UnescapeEnds
    <2>2. next = At(Len(out)) /\ Len(out) <= Len(rbsp) /\ Len(places) = Len(rbsp)
      BY <2>1 DEF Phase
    <2>3. Len(out) = Len(rbsp)
      <3> SUFFICES ASSUME Len(out) < Len(rbsp) PROVE FALSE
        BY <1>0, <2>2
      <3>1. CASE Len(out) = 0
        <4>1. places[1] \in 2..Len(nal)
          BY <1>0, <2>2, <3>1 DEF Shape
        <4> QED BY <1>0, <2>1, <2>2, <3>1, <4>1 DEF At
      <3>2. CASE Len(out) > 0
        <4>1. places[Len(out)] < Len(nal)
          BY <1>0, <2>2, <3>2 DEF Shape
        <4> QED BY <1>0, <2>1, <2>2, <3>2, <4>1 DEF At
      <3> QED BY <1>0, <3>1, <3>2
    <2> QED BY <1>0, <1>1, <1>2, <2>1, <2>2, <2>3 DEF Phase, At, ZerosAt
  <1> QED BY <1>3, <1>4

\* A turn of the second loop keeps the invariant: it takes exactly the bytes that
\* were put for the next byte of the RBSP.
LEMMA UnescapeKeeps == ASSUME IInv, UnescapeByte PROVE IInv'
  <1> USE DEF IInv
  <1>0. /\ UNCHANGED <<rbsp, room, nal, places>>
        /\ Len(rbsp) \in Nat /\ Len(places) \in Nat /\ Len(nal) \in Nat /\ Len(out) \in Nat
        /\ \A n \in 1..Len(places) : places[n] \in Nat
        /\ \A i \in 1..Len(nal) : nal[i] \in 0..255
        /\ \A n \in 1..Len(rbsp) : rbsp[n] \in 0..255
    BY Elements DEF UnescapeByte
  <1>1. /\ pc = "unescape" /\ next < Len(nal) /\ next \in 1..Len(nal)
        /\ next = At(Len(out)) /\ zeros = ZerosAt(next) /\ Len(places) = Len(rbsp)
        /\ Len(out) <= Len(rbsp) /\ \A i \in 1..Len(out) : out[i] = rbsp[i]
    BY DEF UnescapeByte, Phase, TypeOK
  <1>2. PICK d \in Nat \ {0} : d = Len(out) + 1
    BY <1>0
  <1>3. d <= Len(rbsp)
    <2>1. At(Len(places)) = Len(nal)
      BY DEF Shape
    <2> QED BY <1>0, <1>1, <1>2, <2>1
  <1>4. /\ At(d - 1) = next /\ places[d] \in 2..Len(nal)
        /\ nal[places[d]] = rbsp[d]
        /\ IF zeros = 2 /\ rbsp[d] <= 3 THEN places[d] = next + 2 /\ nal[next + 1] = 3
           ELSE places[d] = next + 1
    <2>1. At(d - 1) = next
      BY <1>0, <1>1, <1>2
    <2>2. Cut(d) /\ places[d] \in 2..Len(nal)
      BY <1>1, <1>2, <1>3 DEF Shape
    <2> QED BY <1>1, <2>1, <2>2 DEF Cut
  <1>5. rbsp[d] \in 0..255
    BY <1>0, <1>3
  <1>6. ~Forbidden /\ ~(IsEscape /\ AtLast)
    <2>1. CASE zeros # 2
      BY <2>1 DEF Forbidden, IsEscape
    <2>2. CASE zeros = 2 /\ rbsp[d] <= 3
      <3>1. ByteAt(next) = 3 /\ ByteAt(next + 1) = rbsp[d] /\ next + 2 <= Len(nal)
        BY <1>1, <1>4, <2>2 DEF ByteAt
      <3>2. ~AtLast
        BY <1>0, <1>1, <3>1 DEF AtLast
      <3>3. ~Forbidden
        <4>1. PICK b \in 0..255 : b = rbsp[d] /\ b <= 3
          BY <1>5, <2>2
        <4>2. ByteAt(next) = 3 /\ ByteAt(next + 1) = b
          BY <3>1, <4>1
        <4>3. ~(b > 3) /\ ~(3 < 3)
          BY <4>1
        <4> QED BY <4>2, <4>3 DEF Forbidden, Escape
      <3> QED BY <3>2, <3>3
    <2>3. CASE zeros = 2 /\ rbsp[d] > 3
      <3>1. ~(rbsp[d] <= 3)
        BY <1>5, <2>3
      <3>2. ByteAt(next) = rbsp[d]
        BY <1>4, <3>1 DEF ByteAt
      <3> QED BY <1>5, <2>3, <3>2 DEF Forbidden, IsEscape, Escape
    <2> QED BY <1>5, <2>1, <2>2, <2>3
  <1>7. IsEscape <=> (zeros = 2 /\ rbsp[d] <= 3)
    BY <1>0, <1>1, <1>4, <1>5 DEF IsEscape, ByteAt, Escape
  <1>8. LET at == IF IsEscape THEN next + 1 ELSE next
        IN  /\ at + 1 = places[d] /\ ByteAt(at) = rbsp[d]
    BY <1>0, <1>1, <1>4, <1>7 DEF ByteAt
  <1>9. /\ out' = Append(out, rbsp[d]) /\ next' = places[d] /\ pc' = pc
        /\ zeros' = ZerosAfter(IsEscape, rbsp[d])
    BY <1>6, <1>8 DEF UnescapeByte
  <1>10. zeros' = ZerosAt(places[d])
    <2>1. zeros \in 0..2 /\ (zeros = 2 <=> (next > 2 /\ nal[next] = 0 /\ nal[next - 1] = 0))
          /\ (zeros = 0 <=> (next = 1 \/ nal[next] # 0))
      BY <1>0, <1>1 DEF ZerosAt
    <2>2. CASE rbsp[d] # 0
      BY <1>4, <1>9, <2>2 DEF ZerosAfter, ZerosAt
    <2>3. CASE rbsp[d] = 0 /\ IsEscape
      <3>1. places[d] = next + 2 /\ nal[places[d] - 1] = 3 /\ nal[places[d]] = 0 /\ zeros' = 1
        BY <1>1, <1>4, <1>7, <1>9, <2>3 DEF ZerosAfter
      <3> QED BY <1>1, <3>1 DEF ZerosAt
    <2>4. CASE rbsp[d] = 0 /\ ~IsEscape
      <3>1. places[d] = next + 1 /\ nal[places[d] - 1] = nal[next] /\ nal[places[d]] = 0
        BY <1>1, <1>4, <1>7, <2>4
      <3>2. zeros' = zeros + 1 /\ zeros \in {0, 1}
        BY <1>5, <1>7, <1>9, <2>1, <2>4 DEF ZerosAfter
      <3> QED BY <1>1, <2>1, <3>1, <3>2 DEF ZerosAt
    <2> QED BY <2>2, <2>3, <2>4
  <1>11. out' \in Seq(0..255) /\ Len(out') = d /\ \A i \in 1..d : out'[i] = rbsp[i]
    <2>1. out \in Seq(0..255)
      BY DEF TypeOK
    <2> QED BY <1>1, <1>2, <1>5, <1>9, <2>1
  <1>12. TypeOK'
    <2>1. zeros' \in 0..2
      BY <1>10 DEF ZerosAt
    <2>2. next' \in 1..Len(nal')
      BY <1>0, <1>4, <1>9
    <2> QED BY <1>0, <1>1, <1>9, <1>11, <2>1, <2>2 DEF TypeOK
  <1>13. Shape' /\ NoStartCode' /\ Room'
    BY <1>0, <1>1, <1>9 DEF Shape, Cut, At, ZerosAt, NoStartCode, Room
  <1>14. Phase'
    <2>1. At(d)' = places[d] /\ ZerosAt(places[d])' = ZerosAt(places[d])
      BY <1>0 DEF At, ZerosAt
    <2> QED BY <1>0, <1>1, <1>2, <1>3, <1>9, <1>10, <1>11, <2>1 DEF Phase, At, ZerosAt
  <1> QED BY <1>12, <1>13, <1>14

-----------------------------------------------------------------------------
(* Theorems *)

LEMMA NextKeeps == IInv /\ [Next]_nalVars => IInv'
  <1>1. ASSUME IInv, UNCHANGED nalVars PROVE IInv'
    BY <1>1 DEF IInv, nalVars, TypeOK, Shape, Cut, At, ZerosAt, Phase, NoStartCode, Room
  <1> QED BY <1>1, EscapeKeeps, EndsKeep, UnescapeKeeps DEF Next

LEMMA Invariant == Spec => []IInv
  BY InitIInv, NextKeeps, PTL DEF Spec

\* The loops stay within bytes, counts and positions (TypeOK), for byte strings
\* and buffers of any length.
THEOREM TypeCorrect == Spec => []TypeOK
  <1>1. IInv => TypeOK
    BY DEF IInv
  <1> QED BY <1>1, Invariant, PTL

\* No NAL unit that rbsp_to_nal makes holds a start code behind its header,
\* whatever the bytes it is made of (NoStartCode).
THEOREM NoStartCodeAlways == Spec => []NoStartCode
  <1>1. IInv => NoStartCode
    BY DEF IInv
  <1> QED BY <1>1, Invariant, PTL

\* nal_to_rbsp undoes rbsp_to_nal for every byte string (RoundTrip).
THEOREM RoundTripAlways == Spec => []RoundTrip
  <1>1. IInv => RoundTrip
    BY DEF IInv, RoundTrip, Phase, TypeOK
  <1> QED BY <1>1, Invariant, PTL

\* Three bytes for every two are room enough, for every byte string (RoomSuffices).
THEOREM RoomSufficesAlways == Spec => []RoomSuffices
  <1>1. IInv => RoomSuffices
    <2> SUFFICES ASSUME IInv, room > 0, 2 * room >= 3 * Len(rbsp)
                 PROVE  pc # "no_room" /\ Len(nal) <= room
      BY DEF RoomSuffices
    <2>1. Len(nal) \in Nat /\ Len(places) \in Nat /\ Len(rbsp) \in Nat /\ room \in Nat
      BY Elements DEF IInv, TypeOK
    <2>2. Len(places) <= Len(rbsp) /\ (Len(places) = 0 => Len(nal) = 1)
      BY DEF IInv, Shape, At
    <2>3. Len(nal) = 1 \/ 2 * (Len(nal) - 1 - Len(places)) + 1 <= Len(places)
      BY <2>1, <2>2 DEF IInv, Room
    <2>4. pc # "no_room"
      BY DEF IInv, Room
    <2>5. CASE Len(nal) = 1
      BY <2>1, <2>4, <2>5
    <2>6. CASE 2 * (Len(nal) - 1 - Len(places)) + 1 <= Len(places)
      BY <2>1, <2>2, <2>4, <2>6
    <2> QED BY <2>3, <2>5, <2>6
  <1> QED BY <1>1, Invariant, PTL

-----------------------------------------------------------------------------
(* Between start codes *)

LEMMA FirstIs == ASSUME NEW S \in SUBSET Int, NEW m \in S, \A j \in S : m <= j
                 PROVE  First(S) = m
  <1>1. \A i \in S : (\A j \in S : i <= j) => i = m
    OBVIOUS
  <1> QED BY <1>1 DEF First

LEMMA HasThree ==
    ASSUME NEW buf, NEW i \in Int, NEW a, NEW b, NEW c
    PROVE  Has(buf, i, <<a, b, c>>)
             <=> i + 3 <= Len(buf) /\ buf[i + 1] = a /\ buf[i + 2] = b /\ buf[i + 3] = c
  <1>1. Len(<<a, b, c>>) = 3 /\ DOMAIN <<a, b, c>> = {1, 2, 3}
    OBVIOUS
  <1> QED BY <1>1 DEF Has

\* The NAL unit with a header other than 0, and what find_nal_unit looks at.
Unit == <<101>> \o Tail(nal)
Buffer == <<0>> \o <<0, 0, 1>> \o Unit \o <<0, 0, 1>> \o <<101>>

LEMMA Concat == \A s, t \in Seq(0..255) :
                  /\ s \o t \in Seq(0..255) /\ Len(s \o t) = Len(s) + Len(t)
                  /\ \A i \in 1..Len(s) : (s \o t)[i] = s[i]
                  /\ \A i \in 1..Len(t) : (s \o t)[Len(s) + i] = t[i]
  OBVIOUS
LEMMA AddThree == ASSUME NEW S, NEW s \in Seq(S), NEW a \in S, NEW b \in S, NEW c \in S
                  PROVE  /\ s \o <<a, b, c>> \in Seq(S) /\ Len(s \o <<a, b, c>>) = Len(s) + 3
                         /\ \A i \in 1..Len(s) : (s \o <<a, b, c>>)[i] = s[i]
                         /\ (s \o <<a, b, c>>)[Len(s) + 1] = a
                         /\ (s \o <<a, b, c>>)[Len(s) + 2] = b
                         /\ (s \o <<a, b, c>>)[Len(s) + 3] = c
  OBVIOUS

\* A sequence between the others.
LEMMA Between ==
    ASSUME NEW u \in Seq(0..255)
    PROVE  LET buf == <<0>> \o <<0, 0, 1>> \o u \o <<0, 0, 1>> \o <<101>>
           IN  /\ buf \in Seq(0..255) /\ Len(buf) = Len(u) + 8
               /\ buf[1] = 0 /\ buf[2] = 0 /\ buf[3] = 0 /\ buf[4] = 1
               /\ \A i \in 1..Len(u) : buf[i + 4] = u[i]
               /\ buf[Len(u) + 5] = 0 /\ buf[Len(u) + 6] = 0 /\ buf[Len(u) + 7] = 1
  <1> DEFINE a == <<0>> \o <<0, 0, 1>>
             b == a \o u
             c == b \o <<0, 0, 1>>
  <1>1. a \in Seq(0..255) /\ Len(a) = 4 /\ a[1] = 0 /\ a[2] = 0 /\ a[3] = 0 /\ a[4] = 1
    OBVIOUS
  <1> HIDE DEF a
  <1>2. /\ b \in Seq(0..255) /\ Len(b) = Len(u) + 4 /\ (\A i \in 1..4 : b[i] = a[i])
        /\ \A i \in 1..Len(u) : b[4 + i] = u[i]
    <2>1. /\ b \in Seq(0..255) /\ Len(b) = Len(a) + Len(u) /\ (\A i \in 1..Len(a) : b[i] = a[i])
          /\ \A i \in 1..Len(u) : b[Len(a) + i] = u[i]
      BY <1>1, Concat
    <2> HIDE DEF b
    <2> QED BY <1>1, <2>1
  <1> HIDE DEF b
  <1>3. /\ c \in Seq(0..255) /\ Len(c) = Len(u) + 7 /\ \A i \in 1..Len(u) + 4 : c[i] = b[i]
        /\ c[Len(u) + 5] = 0 /\ c[Len(u) + 6] = 0 /\ c[Len(u) + 7] = 1
    <2>1. 0 \in 0..255 /\ 1 \in 0..255
      OBVIOUS
    <2>2. /\ c \in Seq(0..255) /\ Len(c) = Len(b) + 3 /\ \A i \in 1..Len(b) : c[i] = b[i]
          /\ c[Len(b) + 1] = 0 /\ c[Len(b) + 2] = 0 /\ c[Len(b) + 3] = 1
      BY <1>2, <2>1, AddThree
    <2> HIDE DEF c
    <2> QED BY <1>2, <2>2
  <1> HIDE DEF c
  <1>4. /\ c \o <<101>> \in Seq(0..255) /\ Len(c \o <<101>>) = Len(u) + 8
        /\ \A i \in 1..Len(u) + 7 : (c \o <<101>>)[i] = c[i]
    <2>1. 101 \in 0..255
      OBVIOUS
    <2> QED BY <1>3, <2>1, AddOne
  <1>5. \A i \in 1..Len(u) : (c \o <<101>>)[i + 4] = u[i]
    <2> SUFFICES ASSUME NEW i \in 1..Len(u) PROVE (c \o <<101>>)[i + 4] = u[i]
      OBVIOUS
    <2>1. i + 4 \in 1..Len(u) + 4 /\ i + 4 \in 1..Len(u) + 7 /\ i + 4 = 4 + i
      OBVIOUS
    <2> QED BY <1>2, <1>3, <1>4, <2>1
  <1> QED BY <1>1, <1>2, <1>3, <1>4, <1>5 DEF a, b, c

LEMMA Wrapped ==
    ASSUME IInv
    PROVE  /\ Len(nal) \in Nat \ {0} /\ Len(Unit) = Len(nal) /\ Len(Buffer) = Len(nal) + 8
           /\ Buffer[1] = 0 /\ Buffer[2] = 0 /\ Buffer[3] = 0 /\ Buffer[4] = 1
           /\ Buffer[5] = 101 /\ \A i \in 2..Len(nal) : Buffer[i + 4] = nal[i]
           /\ Buffer[Len(nal) + 5] = 0 /\ Buffer[Len(nal) + 6] = 0 /\ Buffer[Len(nal) + 7] = 1
           /\ \A i \in 1..Len(Buffer) : Buffer[i] \in 0..255
  <1>1. nal \in Seq(0..255) /\ Len(nal) \in Nat \ {0}
    <2>1. nal \in Seq(0..255) /\ next \in 1..Len(nal)
      BY DEF IInv, TypeOK
    <2> QED BY <2>1
  <1>2. /\ Tail(nal) \in Seq(0..255) /\ Len(Tail(nal)) = Len(nal) - 1
        /\ \A i \in 1..Len(nal) - 1 : Tail(nal)[i] = nal[i + 1]
    BY <1>1
  <1>3. /\ Unit \in Seq(0..255) /\ Len(Unit) = Len(nal) /\ Unit[1] = 101
        /\ \A i \in 2..Len(nal) : Unit[i] = nal[i]
    <2>1. /\ Unit \in Seq(0..255) /\ Len(Unit) = 1 + Len(Tail(nal)) /\ Unit[1] = 101
          /\ \A i \in 1..Len(Tail(nal)) : Unit[i + 1] = Tail(nal)[i]
      BY <1>2 DEF Unit
    <2>2. \A i \in 2..Len(nal) : Unit[i] = nal[i]
      <3> SUFFICES ASSUME NEW i \in 2..Len(nal) PROVE Unit[i] = nal[i]
        OBVIOUS
      <3>1. i - 1 \in 1..Len(Tail(nal)) /\ (i - 1) + 1 = i
        BY <1>1, <1>2
      <3>2. i - 1 \in 1..Len(nal) - 1 /\ Tail(nal)[i - 1] = nal[(i - 1) + 1]
        BY <1>1, <1>2
      <3>3. Unit[(i - 1) + 1] = Tail(nal)[i - 1]
        BY <2>1, <3>1
      <3> QED BY <3>1, <3>2, <3>3
    <2> QED BY <1>1, <1>2, <2>1, <2>2
  <1>4. /\ Len(Buffer) = Len(nal) + 8
        /\ Buffer[1] = 0 /\ Buffer[2] = 0 /\ Buffer[3] = 0 /\ Buffer[4] = 1
        /\ \A i \in 1..Len(nal) : Buffer[i + 4] = Unit[i]
        /\ Buffer[Len(nal) + 5] = 0 /\ Buffer[Len(nal) + 6] = 0 /\ Buffer[Len(nal) + 7] = 1
    BY <1>3, Between DEF Buffer
  <1>5. Buffer \in Seq(0..255)
    BY <1>3, Between DEF Buffer
  <1>6. \A i \in 1..Len(Buffer) : Buffer[i] \in 0..255
    BY <1>5, ElementIn
  <1> QED BY <1>1, <1>3, <1>4, <1>6

\* The first place in the NAL unit where it seems to end.
LEMMA EndSeen ==
    ASSUME IInv, NEW e \in 4..Len(nal) + 3, EndsAt(Buffer, e)
    PROVE  e > Len(nal) + 1 /\ Len(nal) > 1 /\ nal[Len(nal)] = 0
           /\ (e = Len(nal) + 2 => nal[Len(nal) - 1] = 0)
  <1>1. Len(nal) \in Nat \ {0} /\ Len(Buffer) = Len(nal) + 8
    BY Wrapped
  <1>2. Buffer[e + 1] = 0 /\ Buffer[e + 2] = 0 /\ Buffer[e + 3] \in {0, 1}
    BY HasThree DEF EndsAt
  <1>3. e # 4
    BY <1>2, Wrapped
  <1>4. e - 3 \in 2..Len(nal) /\ (e - 3) + 4 = e + 1 /\ nal[e - 3] = 0
    <2>1. e - 3 \in 2..Len(nal) /\ (e - 3) + 4 = e + 1
      BY <1>1, <1>3
    <2> QED BY <1>2, <2>1, Wrapped
  <1>5. e - 2 <= Len(nal) => nal[e - 2] = 0
    <2> SUFFICES ASSUME e - 2 <= Len(nal) PROVE nal[e - 2] = 0
      OBVIOUS
    <2>1. e - 2 \in 2..Len(nal) /\ (e - 2) + 4 = e + 2
      BY <1>1
    <2> QED BY <1>2, <2>1, Wrapped
  <1>6. e - 1 > Len(nal)
    <2> SUFFICES ASSUME e - 1 <= Len(nal) PROVE FALSE
      BY <1>1
    <2>1. e - 1 \in 2..Len(nal) /\ (e - 1) + 4 = e + 3 /\ e - 3 \in 2..Len(nal) - 2
      BY <1>1, <1>4
    <2>2. nal[e - 1] \in {0, 1}
      BY <1>2, <2>1, Wrapped
    <2>3. (e - 3) + 1 = e - 2 /\ (e - 3) + 2 = e - 1 /\ nal[e - 2] = 0
      BY <1>1, <1>5, <2>1
    <2> QED BY <1>4, <2>1, <2>2, <2>3 DEF IInv, NoStartCode, Escape
  <1>7. CASE e = Len(nal) + 3
    BY <1>1, <1>4, <1>7
  <1>8. CASE e = Len(nal) + 2
    BY <1>1, <1>4, <1>5, <1>8
  <1> QED BY <1>1, <1>6, <1>7, <1>8

\* What find_nal_unit finds, when its loop over the ends stops first at e.
LEMMA FindsUntil ==
    ASSUME IInv, NEW e \in 4..Len(nal) + 4, EndsAt(Buffer, e),
           \A f \in 4..e - 1 : ~EndsAt(Buffer, f)
    PROVE  find_nal_unit(Buffer) = [start |-> 4, end |-> e, length |-> e - 4]
  <1> DEFINE size   == Len(Buffer)
             starts == {i \in 0..(size - 1) : StartsAt(Buffer, i) /\ (i = 0 \/ i + 4 < size)}
             ends   == {f \in 4..(size - 1) : EndsAt(Buffer, f) /\ (f = 4 \/ f + 3 < size)}
  <1>1. Len(nal) \in Nat \ {0} /\ size = Len(nal) + 8
    BY Wrapped
  <1>2. ~Has(Buffer, 0, <<0, 0, 1>>)
    BY HasThree, Wrapped
  <1>3. Has(Buffer, 0, <<0, 0, 0, 1>>)
    <2>1. Len(<<0, 0, 0, 1>>) = 4 /\ DOMAIN <<0, 0, 0, 1>> = {1, 2, 3, 4}
      OBVIOUS
    <2> QED BY <1>1, <2>1, Wrapped DEF Has
  <1>4. 0 \in starts /\ First(starts) = 0
    <2>1. 0 \in starts
      BY <1>1, <1>3 DEF StartsAt
    <2>2. starts \subseteq Nat
      BY <1>1
    <2> HIDE DEF starts
    <2> QED BY <2>1, <2>2, FirstIs
  <1>5. e \in ends /\ First(ends) = e
    <2>1. e \in ends
      BY <1>1
    <2>2. \A f \in ends : f \in Int /\ e <= f
      BY <1>1
    <2> HIDE DEF ends
    <2> QED BY <2>1, <2>2, FirstIs
  <1>6. 0 + (IF Has(Buffer, 0, <<0, 0, 1>>) THEN 3 ELSE 4) = 4
    BY <1>2
  <1> HIDE DEF starts, ends
  <1>7. starts # {} /\ ends # {}
    BY <1>4, <1>5
  <1> QED BY <1>4, <1>5, <1>6, <1>7 DEF find_nal_unit, starts, ends

\* find_nal_unit finds the NAL unit rbsp_to_nal has made of any bytes, in its whole
\* length, exactly when the last of these bytes is not 0 (Found).
THEOREM FoundAlways == Spec => []Found
  <1>1. IInv => Found
    <2> SUFFICES ASSUME IInv, pc = "done"
                 PROVE  find_nal_unit(Buffer) = [start |-> 4, end |-> 4 + Len(Unit), length |-> Len(Unit)]
                          <=> (rbsp = <<>> \/ rbsp[Len(rbsp)] # 0)
      BY DEF Found, Buffer, Unit
    <2>1. Len(nal) \in Nat \ {0} /\ Len(Unit) = Len(nal) /\ Len(Buffer) = Len(nal) + 8
      BY Wrapped
    <2>2. EndsAt(Buffer, Len(nal) + 4)
      BY <2>1, HasThree, Wrapped DEF EndsAt
    <2>3. /\ (rbsp = <<>> <=> Len(nal) = 1)
          /\ rbsp # <<>> => rbsp[Len(rbsp)] = nal[Len(nal)]
      <3>1. rbsp \in Seq(Byte) /\ Len(rbsp) \in Nat
        BY DEF IInv, TypeOK
      <3>2. Len(places) = Len(rbsp) /\ Len(nal) = At(Len(rbsp))
        BY DEF IInv, Phase, Shape
      <3>3. CASE Len(rbsp) = 0
        BY <3>1, <3>2, <3>3 DEF At
      <3>4. CASE Len(rbsp) # 0
        <4>1. Len(rbsp) \in 1..Len(places)
          BY <3>1, <3>2, <3>4
        <4>2. Len(nal) = places[Len(rbsp)] /\ Len(nal) >= 2 /\ nal[places[Len(rbsp)]] = rbsp[Len(rbsp)]
          BY <3>2, <3>4, <4>1 DEF At, Cut, IInv, Shape
        <4> QED BY <3>1, <3>4, <4>2
      <3> QED BY <3>3, <3>4
    <2>4. CASE Len(nal) = 1 \/ nal[Len(nal)] # 0
      <3>1. \A f \in 4..(Len(nal) + 4) - 1 : ~EndsAt(Buffer, f)
        BY <2>1, <2>4, EndSeen
      <3>2. find_nal_unit(Buffer) = [start |-> 4, end |-> Len(nal) + 4, length |-> (Len(nal) + 4) - 4]
        BY <2>1, <2>2, <3>1, FindsUntil
      <3> QED BY <2>1, <2>3, <2>4, <3>2
    <2>5. CASE Len(nal) > 1 /\ nal[Len(nal)] = 0
      <3>1. EndsAt(Buffer, Len(nal) + 3)
        <4>1. Len(nal) \in 2..Len(nal) /\ Buffer[Len(nal) + 4] = 0
          BY <2>1, <2>5, Wrapped
        <4>2. (Len(nal) + 3) + 1 = Len(nal) + 4 /\ (Len(nal) + 3) + 2 = Len(nal) + 5
              /\ (Len(nal) + 3) + 3 = Len(nal) + 6
          BY <2>1
        <4>3. Buffer[Len(nal) + 5] = 0 /\ Buffer[Len(nal) + 6] = 0
          BY Wrapped
        <4>4. Has(Buffer, Len(nal) + 3, <<0, 0, 0>>)
          BY <2>1, <4>1, <4>2, <4>3, HasThree
        <4> QED BY <4>4 DEF EndsAt
      <3>2. PICK e \in {Len(nal) + 2, Len(nal) + 3} :
                e >= 4 /\ EndsAt(Buffer, e) /\ \A f \in 4..e - 1 : ~EndsAt(Buffer, f)
        <4>1. \A f \in 4..Len(nal) + 1 : ~EndsAt(Buffer, f)
          BY <2>1, EndSeen
        <4>2. CASE EndsAt(Buffer, Len(nal) + 2)
          BY <2>1, <2>5, <4>1, <4>2
        <4>3. CASE ~EndsAt(Buffer, Len(nal) + 2)
          BY <2>1, <2>5, <3>1, <4>1, <4>3
        <4> QED BY <4>2, <4>3
      <3>3. find_nal_unit(Buffer) = [start |-> 4, end |-> e, length |-> e - 4]
        BY <2>1, <3>2, FindsUntil
      <3>4. e # 4 + Len(Unit)
        BY <2>1, <3>2
      <3> QED BY <2>1, <2>3, <2>5, <3>3, <3>4
    <2> QED BY <2>1, <2>4, <2>5
  <1> QED BY <1>1, Invariant, PTL
=============================================================================
