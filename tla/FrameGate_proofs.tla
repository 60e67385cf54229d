------------------------- MODULE FrameGate_proofs -------------------------
(***************************************************************************)
(* NoFalseAlarm for groups of any length, any losses and delays, and any   *)
(* range of frame numbers that the bits read can tell apart, and           *)
(* PassesDecodable for every network within the limits FrameNumTells.      *)
(***************************************************************************)
EXTENDS FrameGate, TLAPS

(***************************************************************************)
(* Quotients and remainders: frame_num is a remainder, and so are the      *)
(* places of NAL units in a group.                                         *)
(***************************************************************************)
\* A quotient and a remainder make up the number.
LEMMA Division ==
  ASSUME NEW n \in Nat, NEW k \in Nat \ {0}
  PROVE  n = k * (n \div k) + (n % k) /\ n \div k \in Int /\ n % k \in 0 .. k - 1
<1>1. n % k \in 0 .. k - 1
  OBVIOUS
<1>2. n \div k \in Int
  OBVIOUS
<1>3. n = k * (n \div k) + (n % k)
  OBVIOUS
<1> QED
  BY <1>1, <1>2, <1>3

\* A multiple of k that is greater is greater by k at least.
LEMMA Times ==
  ASSUME NEW k \in Nat \ {0}, NEW a \in Int, NEW b \in Int, a < b
  PROVE  k * b >= k * a + k
<1>1. k * (b - a) >= k
  OBVIOUS
<1>2. k * (b - a) = k * b - k * a
  OBVIOUS
<1> QED
  BY <1>1, <1>2

\* The remainder of the next number.
LEMMA CountOn ==
  ASSUME NEW n \in Nat, NEW k \in Nat \ {0}
  PROVE  (n + 1) % k = IF n % k = k - 1 THEN 0 ELSE (n % k) + 1
<1> DEFINE q == n \div k
           r == n % k
           p == (n + 1) \div k
           s == (n + 1) % k
<1>1. n = k * q + r /\ q \in Int /\ r \in 0 .. k - 1
  BY Division
<1>2. n + 1 = k * p + s /\ p \in Int /\ s \in 0 .. k - 1
  BY Division
<1> HIDE DEF q, r, p, s
<1>3. k * q \in Int /\ k * p \in Int /\ k * (q + 1) = k * q + k
  BY <1>1, <1>2
<1>4. ~(p > q + 1)
  <2>1. ASSUME p > q + 1 PROVE k * p >= k * (q + 1) + k
    BY <2>1, <1>1, <1>2, Times
  <2> QED
    BY <1>1, <1>2, <1>3, <2>1
<1>5. ~(p < q)
  <2>1. ASSUME p < q PROVE k * q >= k * p + k
    BY <2>1, <1>1, <1>2, Times
  <2> QED
    BY <1>1, <1>2, <1>3, <2>1
<1>6. CASE p = q
  BY <1>1, <1>2, <1>6 DEF r, s
<1>7. CASE p = q + 1
  BY <1>1, <1>2, <1>3, <1>7 DEF r, s
<1> QED
  BY <1>1, <1>2, <1>4, <1>5, <1>6, <1>7

\* There is no other quotient and remainder.
LEMMA Divided ==
  ASSUME NEW k \in Nat \ {0}, NEW q \in Int, NEW r \in 0 .. k - 1, NEW n \in Nat, n = k * q + r
  PROVE  n \div k = q /\ n % k = r
<1> DEFINE p == n \div k
           s == n % k
<1>1. n = k * p + s /\ p \in Int /\ s \in 0 .. k - 1
  BY Division
<1> HIDE DEF p, s
<1>2. k * p \in Int /\ k * q \in Int
  BY <1>1
<1>3. ~(p < q)
  <2>1. ASSUME p < q PROVE k * q >= k * p + k
    BY <1>1, <2>1, Times
  <2> QED
    BY <1>1, <1>2, <2>1
<1>4. ~(q < p)
  <2>1. ASSUME q < p PROVE k * p >= k * q + k
    BY <1>1, <2>1, Times
  <2> QED
    BY <1>1, <1>2, <2>1
<1>5. p = q /\ s = r
  BY <1>1, <1>2, <1>3, <1>4
<1> QED
  BY <1>5 DEF p, s

\* Divided, of the remainder alone.
LEMMA Remainder ==
  \A k \in Nat \ {0}, q \in Int, n \in Nat : \A r \in 0 .. k - 1 : n = k * q + r => n % k = r
BY Divided

\* Two numbers with one remainder are a multiple apart.
LEMMA SameNumber ==
  ASSUME NEW k \in Nat \ {0}, NEW x \in Nat, NEW y \in Nat, x % k = y % k
  PROVE  \E c \in Int : y - x = k * c
<1> DEFINE p == x \div k
           q == y \div k
           r == x % k
           s == y % k
<1>1. x = k * p + r /\ p \in Int /\ r \in 0 .. k - 1 /\ y = k * q + s /\ q \in Int /\ r = s
  BY Division
<1> HIDE DEF p, q, r, s
<1>2. k * (q - p) = k * q - k * p /\ k * q \in Int /\ k * p \in Int
  BY <1>1
<1>3. y - x = k * (q - p) /\ q - p \in Int
  BY <1>1, <1>2
<1> QED
  BY <1>3

(***************************************************************************)
(* The stream                                                              *)
(***************************************************************************)
LEMMA Places ==
  ASSUME NEW n \in Nat
  PROVE  /\ Position(n) \in 0 .. GopLen
         /\ Position(n + 1) = IF Position(n) = GopLen THEN 0 ELSE Position(n) + 1
<1>1. GopLen + 1 \in Nat \ {0} /\ GopLen \in Nat \ {0}
  BY FrameGateAssumption
<1>2. n % (GopLen + 1) \in 0 .. (GopLen + 1) - 1
  BY <1>1, Division
<1>3. (n + 1) % (GopLen + 1) = IF n % (GopLen + 1) = (GopLen + 1) - 1 THEN 0 ELSE (n % (GopLen + 1)) + 1
  BY <1>1, CountOn
<1> QED
  BY <1>1, <1>2, <1>3 DEF Position

\* Behind a parameter set comes an IDR.
LEMMA AfterSps ==
  ASSUME NEW n \in Nat, IsSps(n)
  PROVE  ~IsP(n + 1)
BY Places, FrameGateAssumption DEF IsSps, IsP

LEMMA Numbers ==
  ASSUME Unread = 1, NEW n \in Nat, ~IsSps(n)
  PROVE  /\ FrameNumRead(n) = (Position(n) - 1) % ParsedMax
         /\ FrameNumRead(n) \in 0 .. ParsedMax - 1
<1>1. Position(n) - 1 \in Nat /\ ParsedMax \in Nat \ {0} /\ ParsedMax * Unread = ParsedMax
  BY Places, FrameGateAssumption DEF IsSps
<1>2. FrameNum(n) = (Position(n) - 1) % ParsedMax /\ FrameNum(n) \in 0 .. ParsedMax - 1
  BY <1>1, Division DEF FrameNum
<1> HIDE DEF FrameNum
<1>3. FrameNum(n) \div 1 = FrameNum(n)
  BY <1>1, <1>2
<1> QED
  BY <1>2, <1>3 DEF FrameNumRead

\* The number of a P picture is the one after that of the picture before it.
LEMMA NextNumber ==
  ASSUME Unread = 1, NEW n \in Nat, ~IsSps(n), IsP(n + 1)
  PROVE  FrameNumRead(n + 1) = IF FrameNumRead(n) = ParsedMax - 1 THEN 0 ELSE FrameNumRead(n) + 1
<1>1. Position(n + 1) = Position(n) + 1 /\ Position(n) - 1 \in Nat /\ ~IsSps(n + 1)
  BY Places, FrameGateAssumption DEF IsSps, IsP
<1>2. FrameNumRead(n + 1) = ((Position(n) - 1) + 1) % ParsedMax
  BY <1>1, Numbers, Places
<1>3. FrameNumRead(n) = (Position(n) - 1) % ParsedMax
  BY Numbers
<1> QED
  BY <1>1, <1>2, <1>3, CountOn, FrameGateAssumption

(***************************************************************************)
(* The gate                                                                *)
(***************************************************************************)
Known ==
    /\ variant \in DOMAIN Network /\ nal \in Nat /\ delayed \in Nat \cup {None}
    /\ frame_num_max \in {0, ParsedMax * Unread}

\* Undisturbed, the gate has called nothing lost and expects the number of the
\* picture that the camera sends next.
InOrder ==
    ~disturbed =>
       /\ ~isLostFrame
       /\ IsP(nal) => frame_num_max = ParsedMax * Unread /\ lastPFrameNum = FrameNumRead(nal) - 1

IInv == Known /\ InOrder

LEMMA KnownNext ==
  ASSUME Known, [Next]_vars
  PROVE  Known'
<1> USE FrameGateAssumption DEF Known, None
<1>1. ASSUME NEW n \in Nat, decodeFrame(n) PROVE frame_num_max' \in {0, ParsedMax * Unread}
  BY <1>1 DEF decodeFrame, OnSps, OnIdr, DropP, PassP
<1>2. CASE Receive
  BY <1>1, <1>2 DEF Receive, Sends
<1>3. CASE Lose
  BY <1>3 DEF Lose, MissPicture, MissSps, Sends, gateVars
<1>4. CASE Delay
  BY <1>4 DEF Delay, MissPicture, MissSps, Sends, gateVars
<1>5. CASE ReceiveLate
  BY <1>1, <1>5 DEF ReceiveLate
<1>6. CASE Reopen
  <2>1. nal' \in 0 .. MaxNals
    BY <1>6 DEF Reopen
  <2> QED
    BY <1>6, <2>1 DEF Reopen, gateVars
<1>7. CASE UNCHANGED vars
  BY <1>7 DEF vars, netVars, gateVars
<1> QED
  BY <1>2, <1>3, <1>4, <1>5, <1>6, <1>7 DEF Next

\* What decodeFrame does with a picture that comes in its place.
LEMMA InPlace ==
  ASSUME Unread = 1, ParsedMax > 1, Known, InOrder, ~IsSps(nal), decodeFrame(nal),
         IsIdr(nal) \/ ~disturbed, frame_num_max # 0
  PROVE  ~isLostFrame' /\ (IsP(nal + 1) => lastPFrameNum' = FrameNumRead(nal + 1) - 1)
<1> USE FrameGateAssumption DEF Known
<1>1. FrameNumRead(nal) \in 0 .. ParsedMax - 1 /\ frame_num_max = ParsedMax
  BY Numbers
<1>2. CASE IsIdr(nal)
  <2>1. FrameNumRead(nal) = 0
    <3>1. FrameNumRead(nal) = 0 % ParsedMax
      BY <1>2, Numbers DEF IsIdr
    <3> QED
      BY <3>1
  <2>2. ~isLostFrame' /\ lastPFrameNum' = 0
    BY <1>2, <2>1 DEF decodeFrame, OnSps, OnIdr, DropP, PassP, IsIdr, IsSps, IsP
  <2> QED
    BY <2>1, <2>2, NextNumber
<1>3. CASE IsP(nal) /\ ~disturbed
  <2>1. ~isLostFrame /\ lastPFrameNum = FrameNumRead(nal) - 1
    BY <1>3 DEF InOrder
  <2>2. ~OutOfSequence(nal)
    BY <1>1, <2>1 DEF OutOfSequence
  <2>3. ~isLostFrame' /\ lastPFrameNum' = AfterFrameNum(FrameNumRead(nal))
    BY <1>3, <2>1, <2>2 DEF decodeFrame, OnSps, OnIdr, DropP, PassP, IsIdr, IsSps, IsP
  <2> QED
    BY <1>1, <2>3, NextNumber DEF AfterFrameNum
<1> QED
  BY <1>2, <1>3, Places DEF IsSps, IsIdr, IsP

LEMMA InOrderNext ==
  ASSUME Unread = 1, ParsedMax > 1, IInv, [Next]_vars
  PROVE  InOrder'
<1> SUFFICES ASSUME ~disturbed'
             PROVE  /\ ~isLostFrame'
                    /\ IsP(nal)' => frame_num_max' = ParsedMax * Unread
                                    /\ lastPFrameNum' = FrameNumRead(nal)' - 1
  BY DEF InOrder
<1> USE FrameGateAssumption DEF IInv, Known, None
<1>1. CASE Receive
  <2>1. nal' = nal + 1 /\ decodeFrame(nal)
    BY <1>1 DEF Receive, Sends
  <2>2. CASE IsSps(nal)
    <3>1. ~disturbed /\ isLostFrame' = isLostFrame
      BY <1>1, <2>1, <2>2 DEF Receive, decodeFrame, OnSps, OnIdr, DropP, PassP, IsSps, IsIdr, IsP
    <3>2. ~IsP(nal + 1)
      BY <2>2, AfterSps
    <3> QED
      BY <2>1, <3>1, <3>2 DEF InOrder, IsP, Position
  <2>3. CASE ~IsSps(nal)
    <3>1. (IsIdr(nal) \/ ~disturbed) /\ (IsIdr(nal) => frame_num_max # 0)
      BY <1>1 DEF Receive
    <3>2. IsIdr(nal) \/ IsP(nal)
      BY <2>3, Places DEF IsSps, IsIdr, IsP
    <3>3. frame_num_max # 0 /\ frame_num_max' = frame_num_max
      BY <2>1, <2>3, <3>1, <3>2 DEF InOrder, decodeFrame, OnSps, OnIdr, DropP, PassP
    <3>4. ~isLostFrame' /\ (IsP(nal + 1) => lastPFrameNum' = FrameNumRead(nal + 1) - 1)
      BY <2>1, <2>3, <3>1, <3>3, InPlace
    <3> QED
      BY <2>1, <3>3, <3>4 DEF IsP, Position, FrameNumRead, FrameNum
  <2> QED
    BY <2>2, <2>3
<1>2. ASSUME MissPicture \/ MissSps PROVE InOrder'
  <2>1. IsSps(nal) /\ nal' = nal + 1 /\ UNCHANGED <<gateVars, disturbed>>
    BY <1>2 DEF MissPicture, MissSps, Sends
  <2>2. ~IsP(nal + 1)
    BY <2>1, AfterSps
  <2> QED
    BY <2>1, <2>2 DEF InOrder, gateVars, IsP, Position
<1>3. CASE ReceiveLate
  <2>1. delayed \in Nat /\ IsSps(delayed) /\ ~disturbed /\ nal' = nal
    BY <1>3 DEF ReceiveLate
  <2>2. OnSps(delayed)
    BY <1>3, <2>1 DEF ReceiveLate, decodeFrame, OnIdr, DropP, PassP, IsSps, IsIdr, IsP
  <2> QED
    BY <2>1, <2>2 DEF OnSps, InOrder, IsP, Position, FrameNumRead, FrameNum
<1>4. CASE Reopen
  <2>1. ~disturbed /\ UNCHANGED gateVars /\ nal' \in Nat /\ nal' >= nal
    <3>1. nal' \in Network[variant].restarts /\ nal' >= nal
      BY <1>4 DEF Reopen
    <3>2. nal' \in 0 .. MaxNals
      BY <3>1
    <3>3. ~disturbed /\ UNCHANGED gateVars
      BY <1>4 DEF Reopen
    <3> QED
      BY <3>1, <3>2, <3>3
  <2>2. CASE nal' = nal
    BY <2>1, <2>2 DEF InOrder, gateVars, IsP, Position, FrameNumRead, FrameNum
  <2>3. CASE nal' > nal
    <3> DEFINE m == nal'
    <3>1. m - 1 \in nal .. m - 1 /\ m - 1 \in Nat
      <4>1. m \in Nat /\ m > nal /\ nal \in Nat
        BY <2>1, <2>3
      <4> HIDE DEF m
      <4> QED
        BY <4>1
    <3>2. IsSps(nal' - 1)
      BY <1>4, <3>1 DEF Reopen
    <3>3. ~IsP((nal' - 1) + 1)
      BY <3>1, <3>2, AfterSps
    <3>4. ~IsP(nal)'
      BY <2>1, <3>3 DEF IsP, Position
    <3> QED
      BY <2>1, <3>4 DEF InOrder, gateVars
  <2> QED
    BY <2>1, <2>2, <2>3
<1>5. CASE UNCHANGED vars
  BY <1>5 DEF vars, netVars, gateVars, InOrder, IsP, Position, FrameNumRead, FrameNum
<1> QED
  BY <1>1, <1>2, <1>3, <1>4, <1>5 DEF Next, Lose, Delay, InOrder

\* If four bits hold frame_num (Unread = 1), decodeFrame calls a picture lost only
\* in a group the network has disturbed or whose IDR came before any SPS: the end
\* of the numbers, a new group, a late parameter set and a reopening are never
\* mistaken for a loss, for groups of any length and any network.
THEOREM NoFalseAlarmAlways ==
  ASSUME Unread = 1, ParsedMax > 1
  PROVE  Spec => []NoFalseAlarm
<1>1. Init => IInv
  BY FrameGateAssumption DEF Init, IInv, Known, InOrder, None
<1>2. IInv /\ [Next]_vars => IInv'
  BY KnownNext, InOrderNext DEF IInv
<1>3. IInv => NoFalseAlarm
  BY DEF IInv, InOrder, NoFalseAlarm
<1> QED
  BY <1>1, <1>2, <1>3, PTL DEF Spec

(***************************************************************************)
(* The numbers again: which pictures can be taken for the next one         *)
(***************************************************************************)
\* The pictures sent before NAL unit n, and the number of a picture.
Pics(n) == (n \div (GopLen + 1)) * GopLen + (IF IsSps(n) THEN 0 ELSE Position(n) - 1)
Num(p)  == (p % GopLen) % ParsedMax

\* Of n NAL units, those are not pictures that begin a group.
LEMMA PicsAre ==
  ASSUME NEW n \in Nat
  PROVE  /\ n \div (GopLen + 1) \in Nat
         /\ n = (GopLen + 1) * (n \div (GopLen + 1)) + Position(n)
         /\ Pics(n) = n - (n \div (GopLen + 1)) - (IF IsSps(n) THEN 0 ELSE 1)
         /\ Pics(n) \in Nat
<1> DEFINE q == n \div (GopLen + 1)
<1>1. GopLen + 1 \in Nat \ {0} /\ GopLen \in Nat \ {0}
  BY FrameGateAssumption
<1>2. n = (GopLen + 1) * q + Position(n) /\ q \in Int /\ Position(n) \in 0 .. GopLen
  BY <1>1, Division, Places DEF Position
<1> HIDE DEF q
<1>3. (GopLen + 1) * q = q * GopLen + q /\ q * GopLen \in Int
  BY <1>1, <1>2
<1>4. q >= 0
  <2>1. ASSUME q < 0 PROVE (GopLen + 1) * 0 >= (GopLen + 1) * q + (GopLen + 1)
    BY <1>1, <1>2, <2>1, Times
  <2> QED
    BY <1>1, <1>2, <1>3, <2>1
<1>5. q * GopLen >= 0
  BY <1>1, <1>2, <1>4
<1>6. Pics(n) = q * GopLen + (IF IsSps(n) THEN 0 ELSE Position(n) - 1)
  BY DEF Pics, q
<1>7. q \in Nat /\ Pics(n) = n - q - (IF IsSps(n) THEN 0 ELSE 1) /\ Pics(n) \in Nat
  BY <1>1, <1>2, <1>3, <1>4, <1>5, <1>6 DEF IsSps
<1> QED
  BY <1>2, <1>7 DEF q

\* A NAL unit that is a picture, and its number.
LEMMA PictureIs ==
  ASSUME NEW n \in Nat, ~IsSps(n), Unread = 1
  PROVE  /\ Picture(n) = Pics(n)
         /\ Picture(n) % GopLen = Position(n) - 1
         /\ FrameNumRead(n) = Num(Picture(n))
<1> DEFINE q == n \div (GopLen + 1)
<1>1. GopLen \in Nat \ {0} /\ Position(n) - 1 \in 0 .. GopLen - 1
  BY FrameGateAssumption, Places DEF IsSps
<1>2. Picture(n) = Pics(n) /\ q \in Nat /\ Pics(n) \in Nat
  BY <1>1, PicsAre DEF Picture, Pics
<1>3. Picture(n) = GopLen * q + (Position(n) - 1)
  BY <1>1, <1>2 DEF Picture
<1> DEFINE m == Picture(n)
           r == Position(n) - 1
<1> HIDE DEF q, m, r
<1>4. m % GopLen = r
  <2>1. GopLen \in Nat \ {0} /\ q \in Int /\ r \in 0 .. GopLen - 1 /\ m \in Nat /\ m = GopLen * q + r
    BY <1>1, <1>2, <1>3 DEF m, r
  <2> QED
    BY <2>1, Divided
<1>5. Picture(n) % GopLen = Position(n) - 1
  BY <1>4 DEF m, r
<1> QED
  BY <1>2, <1>5, Numbers DEF Num

LEMMA NextPics ==
  ASSUME NEW n \in Nat
  PROVE  Pics(n + 1) = Pics(n) + (IF IsSps(n) THEN 0 ELSE 1)
<1> DEFINE k == GopLen + 1
           q == n \div k
           p == (n + 1) \div k
<1>1. k \in Nat \ {0} /\ GopLen \in Nat \ {0}
  BY FrameGateAssumption
<1>2. n = k * q + Position(n) /\ q \in Nat /\ Pics(n) = n - q - (IF IsSps(n) THEN 0 ELSE 1)
  BY PicsAre
<1>3. Pics(n + 1) = (n + 1) - p - (IF IsSps(n + 1) THEN 0 ELSE 1)
  BY PicsAre
<1>4. /\ Position(n) \in 0 .. GopLen
      /\ Position(n + 1) = IF Position(n) = GopLen THEN 0 ELSE Position(n) + 1
  BY Places
<1>5. p = IF Position(n) = GopLen THEN q + 1 ELSE q
  <2>1. k = GopLen + 1
    OBVIOUS
  <2>2. \A c \in Int, r \in 0 .. k - 1 : n + 1 = k * c + r => (n + 1) \div k = c
    <3> SUFFICES ASSUME NEW c \in Int, NEW r \in 0 .. k - 1, n + 1 = k * c + r
                 PROVE  (n + 1) \div k = c
      OBVIOUS
    <3> HIDE DEF k
    <3> QED
      BY <1>1, Divided
  <2> HIDE DEF k, q
  <2>3. k * (q + 1) = k * q + k
    BY <1>1, <1>2
  <2>4. CASE Position(n) = GopLen
    <3>1. n + 1 = k * (q + 1) + 0
      BY <1>1, <1>2, <2>1, <2>3, <2>4
    <3> QED
      BY <1>1, <1>2, <2>2, <2>4, <3>1
  <2>5. CASE Position(n) # GopLen
    <3>1. n + 1 = k * q + (Position(n) + 1) /\ Position(n) + 1 \in 0 .. k - 1
      BY <1>1, <1>2, <1>4, <2>1, <2>5
    <3> QED
      BY <1>1, <1>2, <2>2, <2>5, <3>1
  <2> QED
    BY <2>4, <2>5
<1> HIDE DEF k, q, p
<1> QED
  BY <1>1, <1>2, <1>3, <1>4, <1>5 DEF IsSps

\* A late picture is at most as many pictures back as NAL units.
LEMMA PicsBetween ==
  ASSUME NEW d \in Nat, NEW n \in Nat, d < n, ~IsSps(d)
  PROVE  Pics(n) - Pics(d) \in 1 .. n - d
<1> DEFINE p == d \div (GopLen + 1)
           q == n \div (GopLen + 1)
<1>1. GopLen + 1 \in Nat \ {0} /\ GopLen \in Nat \ {0}
  BY FrameGateAssumption
<1>2. /\ d = (GopLen + 1) * p + Position(d) /\ p \in Nat /\ Pics(d) = d - p - 1
      /\ Position(d) \in 1 .. GopLen
  BY PicsAre, Places DEF IsSps
<1>3. /\ n = (GopLen + 1) * q + Position(n) /\ q \in Nat /\ Position(n) \in 0 .. GopLen
      /\ Pics(n) = n - q - (IF IsSps(n) THEN 0 ELSE 1)
  BY PicsAre, Places
<1> HIDE DEF p, q
<1>4. (GopLen + 1) * p \in Int /\ (GopLen + 1) * q \in Int
  BY <1>1, <1>2, <1>3
<1>5. ~(q < p)
  <2>1. ASSUME q < p PROVE (GopLen + 1) * p >= (GopLen + 1) * q + (GopLen + 1)
    BY <1>1, <1>2, <1>3, <2>1, Times
  <2> QED
    BY <1>1, <1>2, <1>3, <1>4, <2>1
<1>6. CASE q = p
  <2> DEFINE g == (GopLen + 1) * p
  <2>1. n = g + Position(n) /\ d = g + Position(d) /\ g \in Int
    BY <1>2, <1>3, <1>4, <1>6
  <2> HIDE DEF g
  <2>2. ~IsSps(n)
    BY <1>2, <1>3, <2>1 DEF IsSps
  <2> QED
    BY <1>2, <1>3, <1>6, <2>2
<1>7. CASE q > p
  <2>1. n - d >= (q - p) + (IF IsSps(n) THEN 0 ELSE 1)
    <3>1. (GopLen + 1) * (q - p) = (GopLen + 1) * q - (GopLen + 1) * p
      BY <1>1, <1>2, <1>3
    <3>2. (GopLen + 1) * (q - p) = GopLen * (q - p) + (q - p) /\ GopLen * (q - p) >= GopLen
      BY <1>1, <1>2, <1>3, <1>7
    <3> DEFINE g == GopLen * (q - p)
    <3>3. g \in Int
      BY <1>1, <1>2, <1>3
    <3>4. (GopLen + 1) * q - (GopLen + 1) * p = g + (q - p) /\ g >= GopLen
      BY <3>1, <3>2
    <3> HIDE DEF g
    <3> QED
      BY <1>1, <1>2, <1>3, <1>4, <3>3, <3>4 DEF IsSps
  <2> QED
    BY <1>2, <1>3, <1>7, <2>1
<1> QED
  BY <1>2, <1>3, <1>5, <1>6, <1>7

\* A picture b that is not first in its group, with the number after that of a, is
\* the next one, or off by what a group is longer than the numbers go round.
LEMMA Tell ==
  ASSUME ParsedMax > 1, NEW a \in Nat, NEW b \in Nat, b % GopLen # 0,
         Num(b) = IF Num(a) = ParsedMax - 1 THEN 0 ELSE Num(a) + 1,
         b - (a + 1) \in 1 - ParsedMax .. ParsedMax - 1,
         b - (a + 1) \in 1 - GopLen .. GopLen - 1
  PROVE  \/ b = a + 1
         \/ /\ GopLen % ParsedMax # 0
            /\ \/ b - (a + 1) = GopLen % ParsedMax /\ a % GopLen # 0
               \/ (a + 1) - b = GopLen % ParsedMax
<1> DEFINE k == ParsedMax
           g == GopLen
           p == a \div g
           q == b \div g
           r == a % g
           s == b % g
           m == b - (a + 1)
<1>1. k \in Nat \ {0} /\ g \in Nat \ {0}
  BY FrameGateAssumption
<1>2. a = g * p + r /\ p \in Int /\ r \in 0 .. g - 1 /\ b = g * q + s /\ q \in Int /\ s \in 1 .. g - 1
  <2>1. a = g * p + r /\ p \in Int /\ r \in 0 .. g - 1
    BY <1>1, Division
  <2>2. b = g * q + s /\ q \in Int /\ s \in 0 .. g - 1
    BY <1>1, Division
  <2>3. s # 0
    OBVIOUS
  <2> HIDE DEF g, p, q, r, s
  <2> QED
    BY <1>1, <2>1, <2>2, <2>3
<1>3. PICK c \in Int : s - (r + 1) = k * c
  <2>1. s % k = (r + 1) % k
    <3>1. s % k = IF r % k = k - 1 THEN 0 ELSE (r % k) + 1
      BY DEF Num
    <3>2. (r + 1) % k = IF r % k = k - 1 THEN 0 ELSE (r % k) + 1
      <4> HIDE DEF k, g, r
      <4>1. r \in Nat /\ k \in Nat \ {0}
        BY <1>1, <1>2
      <4> QED
        BY <4>1, CountOn
    <3> QED
      BY <3>1, <3>2
  <2> HIDE DEF k, g, r, s
  <2>2. r + 1 \in Nat /\ s \in Nat
    BY <1>1, <1>2
  <2> QED
    BY <1>1, <2>1, <2>2, SameNumber
<1>4. m \in 1 - k .. k - 1 /\ m \in 1 - g .. g - 1 /\ m = b - (a + 1)
  OBVIOUS
<1> HIDE DEF k, g, p, q, r, s, m
<1>5. g * p \in Int /\ g * q \in Int /\ k * c \in Int
  BY <1>1, <1>2, <1>3
<1>6. m = (g * q - g * p) + k * c
  BY <1>2, <1>3, <1>4, <1>5
<1>7. ~(q > p + 1)
  <2>1. ASSUME q > p + 1 PROVE g * q >= g * (p + 1) + g
    BY <1>1, <1>2, <2>1, Times
  <2>2. g * (p + 1) = g * p + g
    BY <1>1, <1>2
  <2> QED
    BY <1>1, <1>2, <1>3, <1>4, <1>5, <1>6, <2>1, <2>2
<1>8. ~(q + 1 < p)
  <2>1. ASSUME q + 1 < p PROVE g * p >= g * (q + 1) + g
    BY <1>1, <1>2, <2>1, Times
  <2>2. g * (q + 1) = g * q + g
    BY <1>1, <1>2
  <2> QED
    BY <1>1, <1>2, <1>3, <1>4, <1>5, <1>6, <2>1, <2>2
<1>9. CASE q = p
  <2>1. m = k * c
    BY <1>5, <1>6, <1>9
  <2>2. ~(c > 0)
    <3>1. ASSUME c > 0 PROVE k * c >= k * 0 + k
      BY <1>1, <1>3, <3>1, Times
    <3> QED
      BY <1>1, <1>4, <2>1, <3>1
  <2>3. ~(c < 0)
    <3>1. ASSUME c < 0 PROVE k * 0 >= k * c + k
      BY <1>1, <1>3, <3>1, Times
    <3> QED
      BY <1>1, <1>4, <1>5, <2>1, <3>1
  <2>4. m = 0
    BY <1>1, <1>3, <2>1, <2>2, <2>3
  <2> QED
    BY <1>4, <2>4
<1>10. CASE q = p + 1
  <2>1. g * q = g * p + g
    BY <1>1, <1>2, <1>10
  <2>2. m = g + k * c /\ m >= 1 /\ r # 0
    BY <1>1, <1>2, <1>3, <1>4, <1>5, <1>6, <2>1
  <2>3. g = k * (0 - c) + m /\ m \in 0 .. k - 1 /\ 0 - c \in Int
    <3>1. k * (0 - c) = 0 - k * c
      BY <1>1, <1>3
    <3> QED
      BY <1>1, <1>4, <1>5, <2>2, <3>1
  <2>4. g % k = m
    BY <1>1, <2>3, Divided
  <2> QED
    BY <2>2, <2>4 DEF k, g, m, r
<1>11. CASE q + 1 = p
  <2>1. g * p = g * q + g
    BY <1>1, <1>2, <1>11
  <2>2. m = k * c - g /\ m < 0
    BY <1>1, <1>2, <1>3, <1>4, <1>5, <1>6, <2>1
  <2>3. g = k * c + (0 - m) /\ 0 - m \in 0 .. k - 1
    BY <1>1, <1>4, <1>5, <2>2
  <2> DEFINE d == 0 - m
  <2>4. g = k * c + d /\ d \in 0 .. k - 1
    BY <2>3
  <2>5. d = (a + 1) - b /\ d # 0
    BY <1>1, <1>4, <2>2
  <2> HIDE DEF d
  <2>6. g % k = d
    <3>1. c \in Int /\ g \in Nat /\ k \in Nat \ {0}
      BY <1>1, <1>3
    <3> QED
      BY <2>4, <3>1, Remainder, Zenon
  <2>7. g % k = (a + 1) - b /\ g % k # 0
    BY <2>5, <2>6
  <2> QED
    BY <2>7 DEF k, g
<1> QED
  BY <1>2, <1>7, <1>8, <1>9, <1>10, <1>11

(***************************************************************************)
(* What the gate passes on                                                 *)
(***************************************************************************)
W   == Network[variant]
Gap == Pics(nal) - (lastPassed + 1)

Bounds ==
    /\ lossRun \in 0 .. W.lossRun /\ sessions \in Nat \ {0}
    /\ lastPassed \in Nat \cup {None} /\ (lastPassed # None => lastPassed < Pics(nal))
    /\ delayed # None => delayed < nal /\ (W.lossRun = 0 => IsSps(delayed))

\* While it calls nothing lost, the gate waits for the number after that of the
\* picture passed last.
Expects ==
    lastPassed # None /\ ~isLostFrame =>
        \/ lastPFrameNum = Num(lastPassed)
        \/ lastPFrameNum = -1 /\ Num(lastPassed) = ParsedMax - 1

\* In the first session it waits for an IDR.
Fresh ==
    sessions = 1 /\ lastPassed = None =>
        lastPFrameNum = -2 /\ (variant = "rtsp" => ~IsP(nal))

\* Then few pictures are missing: no more than the network holds back in a row, or
\* than come after an IDR while it is late.
Near ==
    ~isLostFrame /\ lastPassed # None =>
        \/ Gap <= lossRun
        \/ /\ lastPassed % GopLen = 0 /\ W.lossRun > 0 /\ Gap <= lossRun + W.late - 1
           /\ delayed # None /\ ~IsSps(delayed) => Picture(delayed) # lastPassed + 1

\* A picture that is late in a new session: those behind it did not come either.
NothingSince ==
    ~isLostFrame /\ lastPassed = None /\ delayed # None /\ ~IsSps(delayed) =>
        Pics(nal) - Picture(delayed) <= lossRun

GateInv == Known /\ Bounds /\ Expects /\ Fresh /\ Near /\ NothingSince

\* Priming an operator of the stream is priming its argument.
LEMMA Primed ==
  /\ Pics(nal)' = Pics(nal') /\ IsP(nal)' = IsP(nal') /\ Num(lastPassed)' = Num(lastPassed')
  /\ IsSps(delayed)' = IsSps(delayed') /\ Picture(delayed)' = Picture(delayed')
BY DEF Pics, IsP, IsSps, Num, Picture, Position

LEMMA WithinNetwork ==
  ASSUME Known, FrameNumTells
  PROVE  /\ W.lossRun \in Nat /\ W.late \in Nat /\ variant \in {"udp", "rtsp"}
         /\ Unread = 1 /\ ParsedMax \in Nat /\ ParsedMax > 1 /\ GopLen \in Nat \ {0}
         /\ variant = "udp" =>
              /\ W.lossRun + W.late < ParsedMax /\ W.lossRun + W.late < GopLen
              /\ GopLen % ParsedMax # 0 =>
                    GopLen % ParsedMax > W.lossRun /\ GopLen % ParsedMax > W.late
         /\ variant = "rtsp" => W.lossRun = 0
BY FrameGateAssumption DEF Known, FrameNumTells, W

LEMMA ExpectsKept ==
  ASSUME Known, Expects, FrameNumTells, NEW n \in Nat, decodeFrame(n)
  PROVE  Expects'
<1>1. Unread = 1 /\ ParsedMax \in Nat /\ ParsedMax > 1 /\ ParsedMax * Unread = ParsedMax
  BY WithinNetwork
<1>2. ASSUME ~IsSps(n)
      PROVE  /\ Picture(n) = Pics(n) /\ FrameNumRead(n) = Num(Picture(n))
             /\ FrameNumRead(n) \in 0 .. ParsedMax - 1
  BY <1>1, <1>2, PictureIs, Numbers
<1>3. CASE OnSps(n)
  BY <1>3, Primed DEF OnSps, Expects
<1>4. CASE OnIdr(n)
  BY <1>2, <1>4, Primed DEF OnIdr, IsIdr, IsSps, Expects
<1>5. CASE DropP(n)
  BY <1>5 DEF DropP, Expects
<1>6. CASE PassP(n)
  <2>1. lastPassed' = Picture(n) /\ lastPFrameNum' = AfterFrameNum(FrameNumRead(n)) /\ ~IsSps(n)
    BY <1>6 DEF PassP, IsP, IsSps
  <2>2. \/ lastPFrameNum' = FrameNumRead(n)
        \/ lastPFrameNum' = -1 /\ FrameNumRead(n) = ParsedMax - 1
    BY <1>1, <1>2, <2>1 DEF AfterFrameNum, Known
  <2> QED
    BY <1>2, <2>1, <2>2, Primed DEF Expects
<1> QED
  BY <1>3, <1>4, <1>5, <1>6 DEF decodeFrame

\* A P picture that the UDP variant passes has the number after that of the last one.
LEMMA PassedNumber ==
  ASSUME Known, Bounds, Expects, FrameNumTells, variant = "udp", lastPassed # None,
         NEW n \in Nat, PassP(n)
  PROVE  /\ Num(Pics(n)) = IF Num(lastPassed) = ParsedMax - 1 THEN 0 ELSE Num(lastPassed) + 1
         /\ Pics(n) % GopLen # 0 /\ Pics(n) \in Nat
<1>1. Unread = 1 /\ ParsedMax \in Nat /\ ParsedMax > 1 /\ GopLen \in Nat \ {0}
  BY WithinNetwork
<1>2. ~IsSps(n) /\ Position(n) > 1 /\ ~isLostFrame /\ FrameNumRead(n) = lastPFrameNum + 1
  BY <1>1, Places DEF PassP, OutOfSequence, IsP, IsSps
<1>3. /\ Picture(n) = Pics(n) /\ FrameNumRead(n) = Num(Picture(n))
      /\ Picture(n) % GopLen = Position(n) - 1 /\ FrameNumRead(n) \in 0 .. ParsedMax - 1
  BY <1>1, <1>2, PictureIs, Numbers
<1>4. Pics(n) % GopLen # 0 /\ Pics(n) \in Nat
  BY <1>2, <1>3, PicsAre, Places, FrameGateAssumption
<1>5. Num(lastPassed) \in Nat
  <2>1. lastPassed \in Nat
    BY DEF Bounds
  <2>2. lastPassed % GopLen \in Nat
    BY <1>1, <2>1, Division
  <2> QED
    BY <1>1, <2>2, Division DEF Num
<1> QED
  BY <1>1, <1>2, <1>3, <1>4, <1>5 DEF Expects

LEMMA FollowsInPlace ==
  ASSUME GateInv, FrameNumTells, lastPassed # None, PassP(nal)
  PROVE  Picture(nal) = lastPassed + 1
<1>1. /\ W.lossRun \in Nat /\ W.late \in Nat /\ ParsedMax \in Nat /\ GopLen \in Nat
      /\ variant \in {"udp", "rtsp"} /\ nal \in Nat /\ lossRun \in 0 .. W.lossRun
  BY WithinNetwork DEF GateInv, Known, Bounds
<1>2. Picture(nal) = Pics(nal) /\ Pics(nal) \in Nat
  BY <1>1, WithinNetwork, PictureIs, PicsAre DEF GateInv, PassP, IsP, IsSps
<1>3. lastPassed \in Nat /\ lastPassed < Pics(nal) /\ ~isLostFrame
  BY DEF GateInv, Bounds, PassP
<1>4. Gap >= 0 /\ Gap = Pics(nal) - (lastPassed + 1)
  BY <1>2, <1>3 DEF Gap
<1>5. CASE variant = "rtsp"
  <2>1. W.lossRun = 0
    BY <1>5, WithinNetwork DEF GateInv
  <2> QED
    BY <1>1, <1>2, <1>3, <1>4, <2>1 DEF GateInv, Near
<1>6. CASE variant = "udp"
  <2>1. /\ W.lossRun + W.late < ParsedMax /\ W.lossRun + W.late < GopLen /\ ParsedMax > 1
        /\ GopLen % ParsedMax # 0 => GopLen % ParsedMax > W.lossRun
    BY <1>6, WithinNetwork DEF GateInv
  <2>2. \/ Gap <= lossRun
        \/ lastPassed % GopLen = 0 /\ Gap <= lossRun + W.late - 1
    BY <1>3 DEF GateInv, Near
  <2>3. Gap \in 1 - ParsedMax .. ParsedMax - 1 /\ Gap \in 1 - GopLen .. GopLen - 1
    BY <1>1, <1>2, <1>3, <1>4, <2>1, <2>2
  <2>4. \/ Gap = 0
        \/ GopLen % ParsedMax # 0 /\ (\/ Gap = GopLen % ParsedMax /\ lastPassed % GopLen # 0
                                      \/ 0 - Gap = GopLen % ParsedMax)
    BY <1>1, <1>2, <1>3, <1>4, <1>6, <2>1, <2>3, PassedNumber, Tell DEF GateInv
  <2>5. GopLen % ParsedMax \in Nat
    BY <1>1, <2>1, Division
  <2>6. Gap = 0
    BY <1>1, <1>4, <2>1, <2>2, <2>4, <2>5
  <2> QED
    BY <1>2, <1>3, <1>4, <2>6
<1> QED
  BY <1>1, <1>5, <1>6

LEMMA FollowsLate ==
  ASSUME GateInv, FrameNumTells, lastPassed # None, delayed # None,
         nal - delayed <= W.late, PassP(delayed)
  PROVE  Picture(delayed) = lastPassed + 1 /\ Gap <= lossRun
<1>1. /\ W.lossRun \in Nat /\ W.late \in Nat /\ ParsedMax \in Nat /\ GopLen \in Nat
      /\ nal \in Nat /\ delayed \in Nat /\ delayed < nal /\ lossRun \in 0 .. W.lossRun
      /\ ~IsSps(delayed) /\ variant = "udp"
  BY WithinNetwork DEF GateInv, Known, Bounds, PassP, IsP, IsSps
<1> DEFINE p == Pics(delayed)
<1>2. Picture(delayed) = p /\ p \in Nat /\ Pics(nal) \in Nat
  BY <1>1, WithinNetwork, PictureIs, PicsAre DEF GateInv
<1>3. Pics(nal) - p \in 1 .. W.late
  <2>1. Pics(nal) - p \in 1 .. nal - delayed
    BY <1>1, PicsBetween
  <2> QED
    BY <1>1, <1>2, <2>1
<1>4. lastPassed \in Nat /\ lastPassed < Pics(nal) /\ ~isLostFrame
  BY DEF GateInv, Bounds, PassP
<1>5. Gap >= 0 /\ Gap = Pics(nal) - (lastPassed + 1)
  BY <1>2, <1>4 DEF Gap
<1>6. /\ W.lossRun + W.late < ParsedMax /\ W.lossRun + W.late < GopLen /\ ParsedMax > 1
      /\ GopLen % ParsedMax # 0 =>
           GopLen % ParsedMax > W.lossRun /\ GopLen % ParsedMax > W.late
  BY <1>1, WithinNetwork DEF GateInv
<1>7. \/ Gap <= lossRun
      \/ /\ lastPassed % GopLen = 0 /\ Gap <= lossRun + W.late - 1
         /\ Picture(delayed) # lastPassed + 1
  BY <1>1, <1>4 DEF GateInv, Near
<1> DEFINE m == p - (lastPassed + 1)
<1> HIDE DEF p
<1>8. m \in 1 - ParsedMax .. ParsedMax - 1 /\ m \in 1 - GopLen .. GopLen - 1
  BY <1>1, <1>2, <1>3, <1>4, <1>5, <1>6, <1>7
<1>9. \/ p = lastPassed + 1
      \/ GopLen % ParsedMax # 0 /\ (\/ m = GopLen % ParsedMax /\ lastPassed % GopLen # 0
                                    \/ 0 - m = GopLen % ParsedMax)
  <2>1. /\ Num(p) = IF Num(lastPassed) = ParsedMax - 1 THEN 0 ELSE Num(lastPassed) + 1
        /\ p % GopLen # 0
    BY <1>1, PassedNumber DEF GateInv, p
  <2>2. (lastPassed + 1) - p = 0 - m
    BY <1>2, <1>4
  <2> QED
    BY <1>2, <1>4, <1>6, <1>8, <2>1, <2>2, Tell
<1>10. p = lastPassed + 1
  BY <1>1, <1>2, <1>3, <1>4, <1>5, <1>6, <1>7, <1>9
<1> QED
  BY <1>2, <1>7, <1>10

(***************************************************************************)
(* The steps                                                               *)
(***************************************************************************)
\* What a P picture that is passed and a NAL unit that is not P leave behind.
LEMMA FirstIsKey ==
  ASSUME GateInv, FrameNumTells, lastPassed = None, sessions = 1,
         NEW n \in Nat, n = nal \/ (~IsSps(n) /\ n = delayed), PassP(n)
  PROVE  FALSE
<1>1. /\ Unread = 1 /\ W.lossRun \in Nat /\ variant \in {"udp", "rtsp"} /\ IsP(n) /\ ~IsSps(n)
      /\ ParsedMax \in Nat \ {0}
  BY WithinNetwork DEF GateInv, PassP, IsP, IsSps
<1>2. CASE variant = "udp"
  <2>1. FrameNumRead(n) = lastPFrameNum + 1 /\ lastPFrameNum = -2
    BY <1>2 DEF GateInv, Fresh, PassP, OutOfSequence
  <2>2. FrameNumRead(n) \in 0 .. ParsedMax - 1
    BY <1>1, Numbers
  <2> QED
    BY <1>1, <2>1, <2>2
<1>3. CASE variant = "rtsp"
  <2>1. W.lossRun = 0 /\ ~IsP(nal)
    BY <1>3, WithinNetwork DEF GateInv, Fresh
  <2> QED
    BY <1>1, <2>1 DEF GateInv, Bounds, Known, None
<1> QED
  BY <1>1, <1>2, <1>3

LEMMA ReceiveKeeps ==
  ASSUME GateInv, FrameNumTells, Receive
  PROVE  Bounds' /\ Fresh' /\ Near' /\ NothingSince'
<1>1. /\ nal' = nal + 1 /\ nal \in Nat /\ decodeFrame(nal) /\ UNCHANGED <<variant, delayed, sessions>>
      /\ lossRun' = (IF IsSps(nal) THEN lossRun ELSE 0) /\ lossRun \in 0 .. W.lossRun
  BY DEF Receive, Sends, GateInv, Known, Bounds
<1>2. /\ W.lossRun \in Nat /\ W.late \in Nat /\ Unread = 1 /\ GopLen \in Nat \ {0} /\ ParsedMax \in Nat
  BY WithinNetwork DEF GateInv
<1>3. /\ Pics(nal') = Pics(nal) + (IF IsSps(nal) THEN 0 ELSE 1)
      /\ Pics(nal) \in Nat
  BY <1>1, NextPics, PicsAre
<1>4. W' = W
  BY <1>1 DEF W
<1>5. Gap' = Pics(nal') - (lastPassed' + 1)
  BY Primed DEF Gap
<1>6. delayed \in Nat \cup {None} /\ lastPassed \in Nat \cup {None}
  BY DEF GateInv, Known, Bounds
<1>7. CASE OnSps(nal)
  <2>1. UNCHANGED <<lastPFrameNum, isLostFrame, lastPassed, lossRun>> /\ Pics(nal') = Pics(nal) /\ IsSps(nal)
    BY <1>1, <1>3, <1>7 DEF OnSps
  <2>2. Gap' = Gap
    BY <1>5, <2>1 DEF Gap
  <2>3. ~IsP(nal')
    BY <1>1, <2>1, AfterSps
  <2>4. Bounds'
    BY <1>1, <1>4, <1>6, <2>1, Primed DEF GateInv, Bounds, None
  <2>5. Fresh'
    BY <1>1, <2>1, <2>3, Primed DEF GateInv, Fresh
  <2>6. Near' /\ NothingSince'
    BY <1>1, <1>4, <2>1, <2>2, Primed DEF GateInv, Near, NothingSince
  <2> QED
    BY <2>4, <2>5, <2>6
<1>8. CASE OnIdr(nal) \/ PassP(nal)
  <2>1. lastPassed' = Picture(nal) /\ ~IsSps(nal)
    BY <1>8 DEF OnIdr, PassP, IsIdr, IsP, IsSps
  <2>2. lastPassed' = Pics(nal) /\ Pics(nal') = Pics(nal) + 1 /\ lossRun' = 0
    BY <1>1, <1>2, <1>3, <2>1, PictureIs
  <2>3. lastPassed' \in Nat /\ lastPassed' # None /\ Gap' = 0
    BY <1>3, <1>5, <2>2 DEF None
  <2>4. Bounds'
    BY <1>1, <1>2, <1>3, <1>4, <1>6, <2>2, <2>3, Primed DEF GateInv, Bounds, None
  <2> QED
    BY <2>2, <2>3, <2>4 DEF Fresh, Near, NothingSince
<1>9. CASE DropP(nal)
  <2>1. UNCHANGED <<lastPFrameNum, lastPassed>> /\ isLostFrame' /\ IsP(nal) /\ ~IsSps(nal)
    BY <1>9 DEF DropP, IsP, IsSps
  <2>2. Bounds'
    BY <1>1, <1>2, <1>3, <1>4, <1>6, <2>1, Primed DEF GateInv, Bounds, None
  <2>3. Fresh'
    BY <1>1, <2>1, Primed DEF GateInv, Fresh
  <2> QED
    BY <2>1, <2>2, <2>3 DEF Near, NothingSince
<1> QED
  BY <1>1, <1>7, <1>8, <1>9 DEF decodeFrame

\* A NAL unit that does not come in its place, whether it comes later or not.
LEMMA MissKeeps ==
  ASSUME GateInv, FrameNumTells, Lose \/ Delay
  PROVE  Bounds' /\ Expects' /\ Fresh' /\ Near' /\ NothingSince'
<1>1. /\ nal' = nal + 1 /\ nal \in Nat /\ UNCHANGED <<variant, sessions, gateVars, lastPassed>>
      /\ lossRun \in 0 .. W.lossRun
  BY DEF Lose, Delay, MissPicture, MissSps, Sends, GateInv, Known, Bounds
<1>2. /\ W.lossRun \in Nat /\ W.late \in Nat /\ Unread = 1 /\ GopLen \in Nat \ {0}
      /\ variant = "rtsp" => W.lossRun = 0
  BY WithinNetwork DEF GateInv
<1>3. /\ Pics(nal') = Pics(nal) + (IF IsSps(nal) THEN 0 ELSE 1)
      /\ Pics(nal) \in Nat
  BY <1>1, NextPics, PicsAre
<1>4. W' = W
  BY <1>1 DEF W
<1>5. delayed' = delayed \/ (delayed = None /\ delayed' = nal)
  BY DEF Lose, Delay
<1>6. \/ IsSps(nal) /\ lossRun' = lossRun
      \/ ~IsSps(nal) /\ lossRun < W.lossRun /\ lossRun' = lossRun + 1
  BY DEF Lose, Delay, MissPicture, MissSps, W
<1>7. lastPassed \in Nat \cup {None} /\ delayed \in Nat \cup {None}
  BY DEF GateInv, Known, Bounds
<1>8. Gap' = Gap + (IF IsSps(nal) THEN 0 ELSE 1) /\ (lastPassed # None => Gap \in Nat)
  BY <1>1, <1>3, <1>7, Primed DEF Gap, gateVars, GateInv, Bounds, None
<1>9. ~IsSps(nal) => Picture(nal) = Pics(nal)
  BY <1>1, <1>2, PictureIs
<1>10. Bounds'
  <2>1. lossRun' \in 0 .. W.lossRun
    BY <1>1, <1>2, <1>6
  <2>2. lastPassed' # None => lastPassed' < Pics(nal')
    BY <1>1, <1>3, <1>7 DEF GateInv, Bounds, None
  <2>3. delayed' # None => delayed' < nal' /\ (W.lossRun = 0 => IsSps(delayed'))
    BY <1>1, <1>2, <1>5, <1>6, <1>7 DEF GateInv, Bounds, None
  <2> QED
    BY <1>1, <1>4, <1>7, <2>1, <2>2, <2>3, Primed DEF Bounds, GateInv
<1>11. Expects'
  BY <1>1, Primed DEF GateInv, Expects, gateVars
<1>12. Fresh'
  <2>1. variant = "rtsp" => ~IsP(nal')
    BY <1>1, <1>2, <1>6, AfterSps
  <2> QED
    BY <1>1, <2>1, Primed DEF GateInv, Fresh, gateVars
<1>13. Near'
  <2> SUFFICES ASSUME ~isLostFrame, lastPassed # None
               PROVE  \/ Gap' <= lossRun'
                      \/ /\ lastPassed % GopLen = 0 /\ W.lossRun > 0 /\ Gap' <= lossRun' + W.late - 1
                         /\ delayed' # None /\ ~IsSps(delayed') => Picture(delayed') # lastPassed + 1
    BY <1>1, <1>4, Primed DEF Near, gateVars
  <2>1. CASE Gap <= lossRun
    BY <1>1, <1>2, <1>6, <1>8, <2>1
  <2>2. CASE ~(Gap <= lossRun)
    <3>1. /\ lastPassed % GopLen = 0 /\ W.lossRun > 0 /\ Gap <= lossRun + W.late - 1
          /\ delayed # None /\ ~IsSps(delayed) => Picture(delayed) # lastPassed + 1
      BY <2>2 DEF GateInv, Near
    <3>2. Gap > 0
      BY <1>1, <1>2, <1>8, <2>2
    <3>3. ~IsSps(nal) => Picture(nal) # lastPassed + 1
      BY <1>3, <1>7, <1>9, <3>2 DEF Gap, None
    <3>4. Gap' <= lossRun' + W.late - 1
      BY <1>1, <1>2, <1>6, <1>8, <3>1
    <3> QED
      BY <1>5, <3>1, <3>3, <3>4
  <2> QED
    BY <2>1, <2>2
<1>14. NothingSince'
  <2> SUFFICES ASSUME ~isLostFrame, lastPassed = None, delayed' # None, ~IsSps(delayed')
               PROVE  Pics(nal') - Picture(delayed') <= lossRun'
    BY <1>1, Primed DEF NothingSince, gateVars
  <2>1. CASE delayed' = delayed
    <3>1. Pics(nal) - Picture(delayed) <= lossRun /\ Picture(delayed) \in Int
      <4>1. delayed \in Nat
        BY <1>7, <2>1
      <4>2. Picture(delayed) \in Int
        BY <1>2, <2>1, <4>1, PictureIs, PicsAre
      <4> QED
        BY <2>1, <4>2 DEF GateInv, NothingSince
    <3> QED
      BY <1>1, <1>3, <1>6, <2>1, <3>1
  <2>2. CASE delayed' = nal
    BY <1>1, <1>3, <1>6, <1>9, <2>2
  <2> QED
    BY <1>5, <2>1, <2>2
<1> QED
  BY <1>10, <1>11, <1>12, <1>13, <1>14

LEMMA ReceiveLateKeeps ==
  ASSUME GateInv, FrameNumTells, ReceiveLate
  PROVE  Bounds' /\ Fresh' /\ Near' /\ NothingSince'
<1>1. /\ delayed # None /\ nal - delayed <= W.late /\ decodeFrame(delayed) /\ delayed' = None
      /\ UNCHANGED <<variant, nal, lossRun, sessions>> /\ nal \in Nat /\ lossRun \in 0 .. W.lossRun
      /\ delayed \in Nat /\ delayed < nal
  BY DEF ReceiveLate, GateInv, Known, Bounds, W
<1>2. W.lossRun \in Nat /\ W.late \in Nat /\ Unread = 1 /\ GopLen \in Nat \ {0} /\ ParsedMax \in Nat
  BY WithinNetwork DEF GateInv
<1>3. Pics(nal)' = Pics(nal) /\ Pics(nal) \in Nat /\ W' = W /\ IsP(nal)' = IsP(nal)
  BY <1>1, PicsAre, Primed DEF W
<1>4. Gap' = Pics(nal) - (lastPassed' + 1)
  BY <1>3 DEF Gap
<1>5. lastPassed \in Nat \cup {None}
  BY DEF GateInv, Bounds
<1>6. ~IsSps(delayed) => /\ Picture(delayed) = Pics(delayed) /\ Pics(delayed) \in Nat
                         /\ Pics(nal) - Pics(delayed) \in 1 .. W.late
  <2>1. SUFFICES ASSUME ~IsSps(delayed)
                 PROVE  /\ Picture(delayed) = Pics(delayed) /\ Pics(delayed) \in Nat
                        /\ Pics(nal) - Pics(delayed) \in 1 .. W.late
    OBVIOUS
  <2>2. Picture(delayed) = Pics(delayed) /\ Pics(delayed) \in Nat
    BY <1>1, <1>2, <2>1, PictureIs, PicsAre
  <2>3. Pics(nal) - Pics(delayed) \in 1 .. nal - delayed
    BY <1>1, <2>1, PicsBetween
  <2> QED
    BY <1>1, <1>2, <1>3, <2>2, <2>3
<1>7. NothingSince'
  BY <1>1 DEF NothingSince
<1>8. CASE OnSps(delayed) \/ DropP(delayed)
  <2>1. UNCHANGED <<lastPFrameNum, lastPassed>> /\ (isLostFrame' \/ isLostFrame' = isLostFrame)
    BY <1>8 DEF OnSps, DropP
  <2>2. Bounds'
    BY <1>1, <1>3, <1>5, <2>1 DEF GateInv, Bounds
  <2>3. Fresh'
    BY <1>1, <1>3, <2>1 DEF GateInv, Fresh
  <2>4. Near'
    <3>1. Gap' = Gap
      BY <1>4, <2>1 DEF Gap
    <3> QED
      BY <1>1, <1>3, <2>1, <3>1 DEF GateInv, Near
  <2> QED
    BY <1>7, <2>2, <2>3, <2>4
<1>9. CASE OnIdr(delayed) \/ PassP(delayed)
  <2>1. lastPassed' = Picture(delayed) /\ ~IsSps(delayed)
    BY <1>9 DEF OnIdr, PassP, IsIdr, IsP, IsSps
  <2>2. /\ lastPassed' \in Nat /\ lastPassed' # None /\ lastPassed' < Pics(nal)
        /\ Gap' \in 0 .. W.late - 1
    BY <1>2, <1>3, <1>4, <1>6, <2>1 DEF None
  <2>3. W.lossRun > 0
    BY <1>1, <1>2, <2>1 DEF GateInv, Bounds
  <2>4. Bounds'
    BY <1>1, <1>3, <2>2 DEF GateInv, Bounds
  <2>5. Near'
    <3>1. CASE OnIdr(delayed)
      <4>1. lastPassed' % GopLen = 0
        BY <1>1, <1>2, <2>1, <3>1, PictureIs DEF OnIdr, IsIdr
      <4>2. Gap' <= lossRun' + W.late - 1
        BY <1>1, <1>2, <2>2
      <4> QED
        BY <1>1, <1>3, <2>3, <4>1, <4>2 DEF Near
    <3>2. CASE PassP(delayed) /\ lastPassed # None
      <4>1. Picture(delayed) = lastPassed + 1 /\ Gap <= lossRun
        BY <1>1, <3>2, FollowsLate
      <4>2. Gap' <= lossRun'
        BY <1>1, <1>3, <1>4, <1>5, <2>1, <3>2, <4>1 DEF Gap, None
      <4> QED
        BY <4>2 DEF Near
    <3>3. CASE PassP(delayed) /\ lastPassed = None
      <4>1. Pics(nal) - Picture(delayed) <= lossRun
        BY <1>1, <2>1, <3>3 DEF GateInv, NothingSince, PassP
      <4>2. Gap' <= lossRun'
        BY <1>1, <1>3, <1>4, <1>6, <2>1, <4>1
      <4> QED
        BY <4>2 DEF Near
    <3> QED
      BY <1>9, <3>1, <3>2, <3>3
  <2> QED
    BY <1>7, <2>2, <2>4, <2>5 DEF Fresh
<1> QED
  BY <1>1, <1>8, <1>9 DEF decodeFrame

LEMMA ReopenKeeps ==
  ASSUME GateInv, Reopen
  PROVE  Bounds' /\ Expects' /\ Fresh' /\ Near' /\ NothingSince'
<1>1. /\ sessions' = sessions + 1 /\ sessions \in Nat \ {0} /\ variant' = variant
      /\ lossRun' = 0 /\ delayed' = None /\ lastPassed' = None
  BY DEF Reopen, GateInv, Bounds
<1>2. W' = W /\ W.lossRun \in Nat
  BY <1>1, FrameGateAssumption DEF W, GateInv, Known
<1>3. Bounds'
  BY <1>1, <1>2 DEF Bounds
<1> QED
  BY <1>1, <1>3 DEF Expects, Fresh, Near, NothingSince

LEMMA GateStep ==
  ASSUME GateInv, FrameNumTells, [Next]_vars
  PROVE  GateInv'
<1>1. Known'
  BY KnownNext DEF GateInv
<1>2. CASE Receive
  <2>1. Expects'
    BY <1>2, ExpectsKept DEF Receive, GateInv, Known
  <2> QED
    BY <1>1, <1>2, <2>1, ReceiveKeeps DEF GateInv
<1>3. CASE Lose \/ Delay
  BY <1>1, <1>3, MissKeeps DEF GateInv
<1>4. CASE ReceiveLate
  <2>1. Expects'
    <3>1. delayed \in Nat /\ decodeFrame(delayed)
      BY <1>4 DEF ReceiveLate, GateInv, Known
    <3> QED
      BY <3>1, ExpectsKept DEF GateInv
  <2> QED
    BY <1>1, <1>4, <2>1, ReceiveLateKeeps DEF GateInv
<1>5. CASE Reopen
  BY <1>1, <1>5, ReopenKeeps DEF GateInv
<1>6. CASE UNCHANGED vars
  <2>1. UNCHANGED <<W, Gap, Pics(nal), IsP(nal), Num(lastPassed), IsSps(delayed), Picture(delayed)>>
    BY <1>6, Primed DEF vars, netVars, gateVars, W, Gap
  <2> QED
    BY <1>1, <1>6, <2>1 DEF vars, netVars, gateVars, GateInv, Bounds, Expects, Fresh, Near, NothingSince
<1> QED
  BY <1>2, <1>3, <1>4, <1>5, <1>6 DEF Next

LEMMA PassesNext ==
  ASSUME GateInv, FrameNumTells, [Next]_vars
  PROVE  \/ lastPassed' \in {lastPassed, None}
         \/ lastPassed' % GopLen = 0
         \/ lastPassed # None /\ lastPassed' = lastPassed + 1
         \/ lastPassed = None /\ sessions > 1
<1>1. ASSUME NEW n \in Nat, decodeFrame(n),
             n = nal \/ (n = delayed /\ nal - delayed <= W.late /\ delayed # None)
      PROVE  \/ lastPassed' = lastPassed
             \/ lastPassed' % GopLen = 0
             \/ lastPassed # None /\ lastPassed' = lastPassed + 1
             \/ lastPassed = None /\ sessions > 1
  <2>1. CASE OnSps(n) \/ DropP(n)
    BY <2>1 DEF OnSps, DropP
  <2>2. CASE OnIdr(n)
    BY <2>2, WithinNetwork, PictureIs DEF OnIdr, IsIdr, IsSps, GateInv
  <2>3. CASE PassP(n) /\ lastPassed = None
    <3>1. ~IsSps(n)
      BY <2>3 DEF PassP, IsP, IsSps
    <3>2. sessions # 1
      BY <1>1, <2>3, <3>1, FirstIsKey
    <3> QED
      BY <2>3, <3>2 DEF GateInv, Bounds
  <2>4. CASE PassP(n) /\ lastPassed # None
    <3>1. CASE n = nal
      BY <2>4, <3>1, FollowsInPlace DEF PassP
    <3>2. CASE n = delayed /\ nal - delayed <= W.late /\ delayed # None
      BY <2>4, <3>2, FollowsLate DEF PassP
    <3> QED
      BY <1>1, <3>1, <3>2
  <2> QED
    BY <1>1, <2>1, <2>2, <2>3, <2>4 DEF decodeFrame
<1>2. CASE Receive
  BY <1>1, <1>2 DEF Receive, GateInv, Known
<1>3. CASE ReceiveLate
  <2>1. delayed \in Nat /\ decodeFrame(delayed) /\ nal - delayed <= W.late /\ delayed # None
    BY <1>3 DEF ReceiveLate, GateInv, Known, W
  <2> QED
    BY <1>1, <2>1
<1>4. CASE Lose \/ Delay \/ Reopen \/ UNCHANGED vars
  BY <1>4 DEF Lose, Delay, Reopen, MissPicture, MissSps, vars
<1> QED
  BY <1>2, <1>3, <1>4 DEF Next

\* Within the limits FrameNumTells, decodeFrame passes on an IDR or the picture behind
\* the one passed before, whatever the network loses, delays and overtakes, and however
\* often the player is opened: only the first picture of a later session can be another.
THEOREM PassesDecodableAlways ==
  ASSUME FrameNumTells
  PROVE  Spec => PassesDecodable
<1>1. Init => GateInv
  <2> SUFFICES ASSUME Init PROVE GateInv
    OBVIOUS
  <2>1. Known
    BY FrameGateAssumption DEF Init, Known, None
  <2>2. Bounds
    BY <2>1, WithinNetwork DEF Init, Bounds, None
  <2>3. Fresh
    BY DEF Init, Fresh, FrameNumTells
  <2> QED
    BY <2>1, <2>2, <2>3 DEF Init, GateInv, Expects, Near, NothingSince, None
<1>2. GateInv /\ [Next]_vars => GateInv'
  BY GateStep
<1>3. GateInv /\ [Next]_vars =>
        [\/ lastPassed' \in {lastPassed, None}
         \/ lastPassed' % GopLen = 0
         \/ lastPassed # None /\ lastPassed' = lastPassed + 1
         \/ lastPassed = None /\ sessions > 1]_vars
  BY PassesNext
<1> QED
  BY <1>1, <1>2, <1>3, PTL DEF Spec, PassesDecodable
=============================================================================
