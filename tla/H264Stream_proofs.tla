--------------------------- MODULE H264Stream_proofs ---------------------------
(***************************************************************************)
(* Theorems about H264Stream: what read_nal_unit keeps of the NAL units    *)
(* that were sent. The way there: a code that was written is read as the   *)
(* number it was written for (bit stream); a structure the reader asks for *)
(* element by element as it was sent is read with the fields it was sent   *)
(* with, and one that lost its end is read to its end (walking); the       *)
(* elements the reader asks for depend on fields read before only (links). *)
(***************************************************************************)
EXTENDS H264Stream, FiniteSetTheorems, SequenceTheorems, TLAPS

\* A set of numbers that is not empty has a least one.
LEMMA Least ==
  ASSUME NEW T \in SUBSET Nat, T # {}
  PROVE  \E m \in T : \A k \in T : m <= k
<1> DEFINE S == {0 .. k : k \in T}
<1>1. S \subseteq FiniteSubsetsOf(Nat)
  <2> SUFFICES ASSUME NEW k \in T PROVE 0 .. k \in FiniteSubsetsOf(Nat)
    OBVIOUS
  <2>1. IsFiniteSet(0 .. k)  BY FS_Interval
  <2>2. 0 .. k \subseteq Nat OBVIOUS
  <2> QED BY <2>1, <2>2 DEF FiniteSubsetsOf
<1>2. \E x \in S : \A y \in S : ~ (<<y, x>> \in StrictSubsetOrdering(Nat))
  <2>1. IsWellFoundedOn(StrictSubsetOrdering(Nat), FiniteSubsetsOf(Nat))
    BY FS_StrictSubsetOrderingWellFounded
  <2>2. S # {}
    OBVIOUS
  <2> HIDE DEF S
  <2> QED
    BY <1>1, <2>1, <2>2, WFMin, Zenon
<1>3. PICK m \in T : \A k \in T : ~ (<<0 .. k, 0 .. m>> \in StrictSubsetOrdering(Nat))
  BY <1>2
<1>4. ASSUME NEW k \in T, k < m PROVE FALSE
  <2>1. 0 .. k \subseteq 0 .. m /\ 0 .. k \in SUBSET Nat /\ 0 .. m \in SUBSET Nat
    BY <1>4
  <2>2. m \in 0 .. m /\ m \notin 0 .. k
    BY <1>4
  <2>3. ~ (<<0 .. k, 0 .. m>> \in StrictSubsetOrdering(Nat))
    BY <1>3
  <2> QED BY <2>1, <2>2, <2>3 DEF StrictSubsetOrdering
<1> QED BY <1>4

\* A set that holds 0, and with a number the next, holds every number.
LEMMA Induction ==
  ASSUME NEW T, 0 \in T, \A n \in Nat : n \in T => n + 1 \in T
  PROVE  Nat \subseteq T
<1> DEFINE R == Nat \ T
<1>1. SUFFICES ASSUME R # {} PROVE FALSE
  OBVIOUS
<1>2. PICK m \in R : \A k \in R : m <= k
  BY <1>1, Least
<1>3. m - 1 \in Nat /\ m - 1 \notin R
  BY <1>2
<1> QED BY <1>3

\* What a recursion is that goes on from k - 1 to k.
Goes(f, n, start, G) == f = [k \in 0 .. n |-> IF k = 0 THEN start ELSE G[<<k, f[k - 1]>>]]

\* There is a function that starts at start and goes on with G.
LEMMA GoesOn ==
  ASSUME NEW n \in Nat, NEW S, NEW start \in S, NEW G \in [(Nat \ {0}) \X S -> S]
  PROVE  \E f \in [0 .. n -> S] : Goes(f, n, start, G)
<1> DEFINE T == {m \in Nat : \E f \in [0 .. m -> S] : Goes(f, m, start, G)}
<1>1. 0 \in T
  <2> DEFINE f == [k \in 0 .. 0 |-> start]
  <2>1. f \in [0 .. 0 -> S] /\ Goes(f, 0, start, G)
    BY DEF Goes
  <2> QED BY <2>1
<1>2. ASSUME NEW m \in Nat, m \in T PROVE m + 1 \in T
  <2>1. PICK f \in [0 .. m -> S] : Goes(f, m, start, G)
    BY <1>2
  <2> DEFINE g == [k \in 0 .. m + 1 |-> IF k = m + 1 THEN G[<<m + 1, f[m]>>] ELSE f[k]]
  <2>2. g \in [0 .. m + 1 -> S]
    OBVIOUS
  <2>3. \A k \in 0 .. m + 1 : g[k] = IF k = 0 THEN start ELSE G[<<k, g[k - 1]>>]
    <3>0. \A k \in 0 .. m : f[k] = IF k = 0 THEN start ELSE G[<<k, f[k - 1]>>]
      BY <2>1 DEF Goes
    <3> TAKE k \in 0 .. m + 1
    <3>1. CASE k = m + 1
      <4>1. g[m + 1] = G[<<m + 1, f[m]>>] /\ g[m] = f[m]
        OBVIOUS
      <4> HIDE DEF g
      <4> QED BY <3>1, <4>1
    <3>2. CASE k # m + 1
      <4>1. k \in 0 .. m /\ g[k] = f[k] /\ (k # 0 => g[k - 1] = f[k - 1])
        BY <3>2
      <4> HIDE DEF g
      <4> QED BY <3>0, <4>1
    <3> QED BY <3>1, <3>2
  <2>4. Goes(g, m + 1, start, G)
    BY <2>3 DEF Goes
  <2> HIDE DEF g
  <2> QED BY <2>2, <2>4
<1> HIDE DEF T
<1>3. n \in T
  BY <1>1, <1>2, Induction
<1> QED BY <1>3 DEF T

\* Two functions that go on alike from one start are the same as far as both go.
LEMMA GoesOneWay ==
  ASSUME NEW n \in Nat, NEW m \in 0 .. n, NEW start, NEW G, NEW f, NEW g,
         Goes(f, n, start, G), Goes(g, m, start, G)
  PROVE  \A k \in 0 .. m : f[k] = g[k]
<1> DEFINE T == {k \in Nat : k <= m => f[k] = g[k]}
<1>1. 0 \in T
  BY DEF Goes
<1>2. ASSUME NEW k \in Nat, k \in T PROVE k + 1 \in T
  BY <1>2 DEF Goes
<1> HIDE DEF T
<1>3. Nat \subseteq T
  BY <1>1, <1>2, Induction
<1> QED BY <1>3 DEF T

\* What such a function is at 0, and at k from what it is at k - 1.
LEMMA GoesFirst ==
  ASSUME NEW n \in Nat, NEW start, NEW G, NEW f, Goes(f, n, start, G)
  PROVE  f[0] = start /\ \A k \in 1 .. n : f[k] = G[<<k, f[k - 1]>>]
BY DEF Goes

\* Joined lays one sequence after the other behind what there is.
LEMMA JoinedSteps ==
  ASSUME NEW A, NEW ss \in Seq(Seq(A))
  PROVE  \E s \in [0 .. Len(ss) -> Seq(A)] :
            /\ s[0] = <<>> /\ s[Len(ss)] = Joined(ss)
            /\ \A k \in 1 .. Len(ss) : s[k] = s[k - 1] \o ss[k]
<1> DEFINE n == Len(ss)
           N == Nat \ {0}
           G == [p \in N \X Seq(A) |-> IF p[1] <= n THEN p[2] \o ss[p[1]] ELSE p[2]]
           r == CHOOSE r : r = [k \in 0 .. n |-> IF k = 0 THEN <<>> ELSE r[k - 1] \o ss[k]]
<1>1. n \in Nat /\ \A k \in 1 .. n : ss[k] \in Seq(A)
  OBVIOUS
<1>2. Joined(ss) = r[n]
  BY DEF Joined
<1>3. G \in [N \X Seq(A) -> Seq(A)]
  <2>1. ASSUME NEW k \in N, NEW x \in Seq(A)
        PROVE (IF k <= n THEN x \o ss[k] ELSE x) \in Seq(A)
    BY <1>1
  <2> QED BY <2>1
<1>4. PICK f \in [0 .. n -> Seq(A)] : Goes(f, n, <<>>, G)
  <2>1. <<>> \in Seq(A)
    OBVIOUS
  <2> HIDE DEF n, G
  <2> QED BY <1>1, <1>3, <2>1, GoesOn
<1>5. \A k \in 0 .. n : (IF k = 0 THEN <<>> ELSE G[<<k, f[k - 1]>>]) = IF k = 0 THEN <<>> ELSE f[k - 1] \o ss[k]
  <2> TAKE k \in 0 .. n
  <2>1. CASE k = 0
    BY <2>1
  <2>2. CASE k # 0
    <3>0. k \in N /\ k - 1 \in 0 .. n /\ k <= n
      BY <1>1, <2>2
    <3>1. k \in N /\ f[k - 1] \in Seq(A) /\ k <= n
      <4> HIDE DEF n
      <4> QED BY <1>4, <3>0
    <3>2. G[<<k, f[k - 1]>>] = f[k - 1] \o ss[k]
      BY <3>1
    <3> QED BY <2>2, <3>2
  <2> QED BY <2>1, <2>2
<1> HIDE DEF G
<1>6. f = [k \in 0 .. n |-> IF k = 0 THEN <<>> ELSE f[k - 1] \o ss[k]]
  BY <1>4, <1>5 DEF Goes
<1>7. r = [k \in 0 .. n |-> IF k = 0 THEN <<>> ELSE r[k - 1] \o ss[k]]
  BY <1>6, Zenon
<1>8. \A k \in 0 .. n : r[k] = f[k]
  <2> DEFINE T == {k \in Nat : k <= n => r[k] = f[k]}
  <2> HIDE DEF r, n
  <2>1. 0 \in T
    BY <1>1, <1>6, <1>7
  <2>2. ASSUME NEW k \in Nat, k \in T PROVE k + 1 \in T
    <3> SUFFICES ASSUME k + 1 <= n PROVE r[k + 1] = f[k + 1]
      OBVIOUS
    <3>1. k + 1 \in 0 .. n /\ k \in 0 .. n /\ k + 1 # 0 /\ (k + 1) - 1 = k
      BY <1>1
    <3>2. r[k + 1] = r[k] \o ss[k + 1] /\ f[k + 1] = f[k] \o ss[k + 1]
      BY <1>6, <1>7, <3>1
    <3>3. r[k] = f[k]
      BY <2>2, <3>1
    <3> QED BY <3>2, <3>3
  <2> HIDE DEF T
  <2>3. Nat \subseteq T
    BY <2>1, <2>2, Induction
  <2> QED BY <2>3, <1>1 DEF T
<1> HIDE DEF r
<1>9. f[0] = <<>> /\ \A k \in 1 .. n : f[k] = f[k - 1] \o ss[k]
  <2> HIDE DEF n
  <2>1. 0 \in 0 .. n /\ \A k \in 1 .. n : k \in 0 .. n /\ k # 0
    BY <1>1
  <2> QED BY <1>6, <2>1
<1>10. f \in [0 .. n -> Seq(A)] /\ f[n] = Joined(ss)
  <2>1. n \in 0 .. n
    BY <1>1
  <2> QED BY <1>2, <1>4, <1>8, <2>1
<1> QED BY <1>9, <1>10

\* The powers of two that the bit stream uses.
LEMMA Powers ==
  /\ 2 ^ 0 = 1
  /\ \A n \in Nat : 2 ^ n \in Nat \ {0} /\ 2 ^ (n + 1) = 2 * 2 ^ n
<1>1. 2 ^ 0 = 1
  OBVIOUS
<1>2. ASSUME NEW n \in Nat PROVE 2 ^ n \in Nat \ {0} /\ 2 ^ (n + 1) = 2 * 2 ^ n
  <2> DEFINE S == 1 .. n
             T == 1 .. n + 1
             X == SUBSET S
             Y == {x \cup {n + 1} : x \in X}
             f == [x \in X |-> x \cup {n + 1}]
  <2>1. IsFiniteSet(S) /\ Cardinality(S) = n /\ IsFiniteSet(T) /\ Cardinality(T) = n + 1
    BY FS_Interval
  <2>2. /\ IsFiniteSet(X) /\ Cardinality(X) = 2 ^ n
        /\ Cardinality(SUBSET T) = 2 ^ (n + 1)
    BY <2>1, FS_SUBSET
  <2>3. X \cup Y = SUBSET T
    <3>1. ASSUME NEW x \in SUBSET T PROVE x \in X \cup Y
      <4>1. CASE n + 1 \in x
        <5>1. x \ {n + 1} \in X
          OBVIOUS
        <5>2. x = (x \ {n + 1}) \cup {n + 1}
          BY <4>1
        <5>3. x \in Y
          BY <5>1, <5>2
        <5> HIDE DEF X, Y
        <5> QED BY <5>3
      <4>2. CASE n + 1 \notin x
        <5>1. x \subseteq S
          BY <4>2
        <5>2. x \in X
          BY <5>1
        <5> HIDE DEF X, Y
        <5> QED BY <5>2
      <4> QED BY <4>1, <4>2
    <3>2. X \cup Y \subseteq SUBSET T
      <4>1. X \subseteq SUBSET T
        OBVIOUS
      <4>2. Y \subseteq SUBSET T
        <5> SUFFICES ASSUME NEW x \in X PROVE x \cup {n + 1} \in SUBSET T
          OBVIOUS
        <5> QED OBVIOUS
      <4> QED BY <4>1, <4>2
    <3> HIDE DEF X, Y
    <3>3. SUBSET T \subseteq X \cup Y
      BY <3>1
    <3> QED BY <3>2, <3>3
  <2>4. X \cap Y = {}
    OBVIOUS
  <2>5. ExistsBijection(X, Y)
    <3>1. f \in [X -> Y]
      OBVIOUS
    <3>2. \A a, b \in X : f[a] = f[b] => a = b
      <4> SUFFICES ASSUME NEW a \in X, NEW b \in X, f[a] = f[b] PROVE a = b
        OBVIOUS
      <4>1. a = (a \cup {n + 1}) \ {n + 1} /\ b = (b \cup {n + 1}) \ {n + 1}
        OBVIOUS
      <4> QED BY <4>1
    <3>3. \A y \in Y : \E a \in X : f[a] = y
      OBVIOUS
    <3>4. f \in Bijection(X, Y)
      BY <3>1, <3>2, <3>3, Zenon DEF Bijection, Injection, Surjection, IsInjective
    <3> QED BY <3>4 DEF ExistsBijection
  <2>6. IsFiniteSet(Y) /\ Cardinality(Y) = 2 ^ n
    BY <2>2, <2>5, FS_Bijection
  <2>7. 2 ^ (n + 1) = 2 ^ n + 2 ^ n - Cardinality({})
    <3> HIDE DEF X, Y, T
    <3>1. Cardinality(X \cup Y) = Cardinality(X) + Cardinality(Y) - Cardinality(X \cap Y)
      BY <2>2, <2>6, FS_Union
    <3> QED BY <2>2, <2>3, <2>4, <2>6, <3>1
  <2>8. Cardinality({}) = 0
    BY FS_EmptySet
  <2>9. Cardinality(X) \in Nat /\ Cardinality(X) # 0
    <3>1. X # {}
      OBVIOUS
    <3> QED BY <2>2, <3>1, FS_EmptySet, FS_CardinalityType
  <2> QED BY <2>2, <2>7, <2>8, <2>9
<1> QED BY <1>1, <1>2

Bit == {0, 1}

\* bs_read_u1 returns 0 or 1, wherever it reads.
LEMMA ReadBit ==
  ASSUME NEW bits \in Seq(Bit), NEW pos \in Nat
  PROVE  bs_read_u1(bits, pos) \in Bit
BY DEF bs_read_u1, bs_eof, Bit

\* bs_read_u of one bit more is twice the number before and that bit.
LEMMA ReadU ==
  ASSUME NEW bits \in Seq(Bit), NEW pos \in Nat, NEW n \in Nat
  PROVE  /\ bs_read_u(bits, pos, 0) = 0
         /\ bs_read_u(bits, pos, n) \in Nat
         /\ bs_read_u(bits, pos, n + 1) = 2 * bs_read_u(bits, pos, n) + bs_read_u1(bits, pos + n)
<1> DEFINE N == Nat \ {0}
           G == [p \in N \X Nat |-> 2 * p[2] + bs_read_u1(bits, pos + p[1] - 1)]
           r(m) == CHOOSE r : r = [i \in 0 .. m |-> IF i = 0 THEN 0 ELSE 2 * r[i - 1] + bs_read_u1(bits, pos + i - 1)]
<1>1. \A m \in Nat : bs_read_u(bits, pos, m) = r(m)[m]
  BY DEF bs_read_u
<1>2. G \in [N \X Nat -> Nat]
  <2>1. ASSUME NEW k \in N, NEW x \in Nat PROVE 2 * x + bs_read_u1(bits, pos + k - 1) \in Nat
    <3>1. pos + k - 1 \in Nat
      OBVIOUS
    <3>2. bs_read_u1(bits, pos + k - 1) \in Nat
      BY <3>1, ReadBit DEF Bit
    <3> QED BY <3>2
  <2> QED BY <2>1
<1>3. ASSUME NEW m \in Nat
      PROVE  /\ r(m) \in [0 .. m -> Nat] /\ r(m)[0] = 0
             /\ \A i \in 1 .. m : r(m)[i] = 2 * r(m)[i - 1] + bs_read_u1(bits, pos + i - 1)
             /\ Goes(r(m), m, 0, G)
  <2>1. PICK f \in [0 .. m -> Nat] : Goes(f, m, 0, G)
    BY <1>2, GoesOn
  <2>2. \A i \in 0 .. m : (IF i = 0 THEN 0 ELSE G[<<i, f[i - 1]>>])
                        = IF i = 0 THEN 0 ELSE 2 * f[i - 1] + bs_read_u1(bits, pos + i - 1)
    OBVIOUS
  <2>3. f = [i \in 0 .. m |-> IF i = 0 THEN 0 ELSE 2 * f[i - 1] + bs_read_u1(bits, pos + i - 1)]
    BY <2>1, <2>2 DEF Goes
  <2>4. r(m) = [i \in 0 .. m |-> IF i = 0 THEN 0 ELSE 2 * r(m)[i - 1] + bs_read_u1(bits, pos + i - 1)]
    BY <2>3, Zenon
  <2> HIDE DEF r
  <2> DEFINE T == {i \in Nat : i <= m => r(m)[i] \in Nat}
  <2>5. 0 \in T
    BY <2>4
  <2>6. ASSUME NEW i \in Nat, i \in T PROVE i + 1 \in T
    <3> SUFFICES ASSUME i + 1 <= m PROVE r(m)[i + 1] \in Nat
      OBVIOUS
    <3>1. r(m)[i + 1] = 2 * r(m)[i] + bs_read_u1(bits, pos + i)
      BY <2>4
    <3>2. bs_read_u1(bits, pos + i) \in Nat
      BY ReadBit DEF Bit
    <3>3. r(m)[i] \in Nat
      BY <2>6
    <3> QED BY <3>1, <3>2, <3>3
  <2>7. \A i \in 0 .. m : r(m)[i] \in Nat
    <3> HIDE DEF T
    <3>1. Nat \subseteq T
      BY <2>5, <2>6, Induction
    <3> QED BY <3>1 DEF T
  <2>8. r(m) \in [0 .. m -> Nat]
    BY <2>4, <2>7
  <2>9. \A i \in 0 .. m : (IF i = 0 THEN 0 ELSE G[<<i, r(m)[i - 1]>>])
                        = IF i = 0 THEN 0 ELSE 2 * r(m)[i - 1] + bs_read_u1(bits, pos + i - 1)
    BY <2>7
  <2>10. Goes(r(m), m, 0, G)
    BY <2>4, <2>9 DEF Goes
  <2> QED BY <2>4, <2>8, <2>10
<1> HIDE DEF r, G
<1>4. r(n + 1)[n] = r(n)[n]
  <2>1. n \in 0 .. n + 1 /\ n + 1 \in Nat /\ n \in 0 .. n
    OBVIOUS
  <2> QED BY <1>3, <2>1, GoesOneWay
<1>5. r(n + 1)[n + 1] = 2 * r(n + 1)[n] + bs_read_u1(bits, pos + n)
  <2>1. n + 1 \in Nat /\ n + 1 \in 1 .. n + 1 /\ (n + 1) - 1 = n /\ pos + (n + 1) - 1 = pos + n
    OBVIOUS
  <2> QED BY <1>3, <2>1
<1>6. r(0)[0] = 0 /\ r(n)[n] \in Nat
  BY <1>3
<1>7. n + 1 \in Nat /\ 0 \in Nat
  OBVIOUS
<1> QED BY <1>1, <1>4, <1>5, <1>6, <1>7

-----------------------------------------------------------------------------
(* Arithmetic *)

LEMMA Division ==
  ASSUME NEW n \in Nat, NEW k \in Nat \ {0}
  PROVE  n = k * (n \div k) + (n % k) /\ n \div k \in Int /\ n % k \in 0 .. k - 1
<1>1. n % k \in 0 .. k - 1
  OBVIOUS
<1>2. n \div k \in Int
  OBVIOUS
<1>3. n = k * (n \div k) + (n % k)
  OBVIOUS
<1> QED
  BY <1>1, <1>2, <1>3

\* A multiple of k that is greater is greater by k at least.
LEMMA Times ==
  ASSUME NEW k \in Nat \ {0}, NEW a \in Int, NEW b \in Int, a < b
  PROVE  k * b >= k * a + k
<1>1. k * (b - a) >= k
  OBVIOUS
<1>2. k * (b - a) = k * b - k * a
  OBVIOUS
<1> QED
  BY <1>1, <1>2

\* The quotient and the rest of a division are the only ones there are.
LEMMA Divided ==
  ASSUME NEW k \in Nat \ {0}, NEW q \in Int, NEW r \in 0 .. k - 1, NEW n \in Nat, n = k * q + r
  PROVE  n \div k = q /\ n % k = r
<1> DEFINE p == n \div k
           s == n % k
<1>1. n = k * p + s /\ p \in Int /\ s \in 0 .. k - 1
  BY Division
<1> HIDE DEF p, s
<1>2. k * p \in Int /\ k * q \in Int
  BY <1>1
<1>3. ~(p < q)
  <2>1. ASSUME p < q PROVE k * q >= k * p + k
    BY <1>1, <2>1, Times
  <2> QED
    BY <1>1, <1>2, <2>1
<1>4. ~(q < p)
  <2>1. ASSUME q < p PROVE k * p >= k * q + k
    BY <1>1, <2>1, Times
  <2> QED
    BY <1>1, <1>2, <2>1
<1>5. p = q /\ s = r
  BY <1>1, <1>2, <1>3, <1>4
<1> QED
  BY <1>5 DEF p, s

\* Quotients of numbers below k and below 2k.
LEMMA Small ==
  ASSUME NEW n \in Nat, NEW k \in Nat \ {0}
  PROVE  /\ n < k => n \div k = 0
         /\ k <= n /\ n < 2 * k => n \div k = 1
         /\ n \div k \in Nat
<1>1. n < k => n \div k = 0
  <2> SUFFICES ASSUME n < k PROVE n \div k = 0
    OBVIOUS
  <2>1. n = k * 0 + n /\ n \in 0 .. k - 1
    OBVIOUS
  <2> QED BY <2>1, Divided
<1>2. k <= n /\ n < 2 * k => n \div k = 1
  <2> SUFFICES ASSUME k <= n /\ n < 2 * k PROVE n \div k = 1
    OBVIOUS
  <2>1. n = k * 1 + (n - k) /\ n - k \in 0 .. k - 1
    OBVIOUS
  <2> QED BY <2>1, Divided
<1>3. n \div k \in Nat
  <2>1. n = k * (n \div k) + (n % k) /\ n \div k \in Int /\ n % k \in 0 .. k - 1
    BY Division
  <2> DEFINE q == n \div k
             r == n % k
  <2> HIDE DEF q, r
  <2>2. n = k * q + r /\ q \in Int /\ r \in 0 .. k - 1
    BY <2>1 DEF q, r
  <2>3. ~(q < 0)
    <3> SUFFICES ASSUME q < 0 PROVE FALSE
      OBVIOUS
    <3>1. k * 0 >= k * q + k
      BY <2>2, Times
    <3>2. k * q \in Int /\ k * 0 = 0
      BY <2>2
    <3> QED BY <2>2, <3>1, <3>2
  <2> QED BY <2>2, <2>3 DEF q
<1> QED BY <1>1, <1>2, <1>3

\* A quotient is twice the quotient by twice the divisor, and a bit.
LEMMA Halves ==
  ASSUME NEW n \in Nat, NEW k \in Nat \ {0}
  PROVE  n \div k = 2 * (n \div (2 * k)) + ((n \div k) % 2)
<1> DEFINE p == n \div k
           s == n % k
           a == p \div 2
           b == p % 2
<1>1. n = k * p + s /\ p \in Nat /\ s \in 0 .. k - 1
  BY Division, Small
<1>2. p = 2 * a + b /\ a \in Nat /\ b \in 0 .. 1
  BY <1>1
<1> HIDE DEF p, s, a, b
<1>3. 2 * k \in Nat \ {0} /\ k * b + s \in 0 .. 2 * k - 1
  <2>1. CASE b = 0
    BY <1>1, <2>1
  <2>2. CASE b = 1
    BY <1>1, <2>2
  <2> QED BY <1>2, <2>1, <2>2
<1>4. n = (2 * k) * a + (k * b + s)
  <2>1. n = k * (2 * a + b) + s
    BY <1>1, <1>2
  <2> QED BY <1>1, <1>2, <2>1
<1>5. n \div (2 * k) = a
  BY <1>2, <1>3, <1>4, Divided
<1> QED BY <1>2, <1>5 DEF p, b

\* Powers of two grow with the exponent.
LEMMA PowersGrow ==
  \A i, j \in Nat : i <= j => 2 ^ i <= 2 ^ j
<1> SUFFICES ASSUME NEW i \in Nat PROVE \A j \in Nat : i <= j => 2 ^ i <= 2 ^ j
  OBVIOUS
<1> DEFINE T == {j \in Nat : i <= j => 2 ^ i <= 2 ^ j}
<1>1. 0 \in T
  <2>1. 2 ^ 0 \in Nat /\ (i <= 0 => i = 0)
    BY Powers
  <2> HIDE DEF T
  <2>2. i <= 0 => 2 ^ i <= 2 ^ 0
    <3> SUFFICES ASSUME i <= 0 PROVE 2 ^ i <= 2 ^ 0
      OBVIOUS
    <3>1. 2 ^ i = 2 ^ 0
      BY <2>1
    <3> QED BY <2>1, <3>1
  <2> QED BY <2>2 DEF T
<1>2. ASSUME NEW j \in Nat, j \in T PROVE j + 1 \in T
  <2>1. 2 ^ (j + 1) = 2 * 2 ^ j /\ 2 ^ j \in Nat /\ 2 ^ i \in Nat /\ 2 ^ (j + 1) \in Nat
    BY Powers
  <2>2. CASE i = j + 1
    BY <2>1, <2>2
  <2>3. CASE i <= j
    BY <1>2, <2>1, <2>3
  <2>4. CASE i > j + 1
    BY <2>4
  <2> QED BY <2>2, <2>3, <2>4
<1> HIDE DEF T
<1>3. Nat \subseteq T
  BY <1>1, <1>2, Induction
<1> QED BY <1>3 DEF T

\* The powers behind the greatest value.
LEMMA Word31 == Half = 2 ^ 30 /\ Half \in Nat \ {0} /\ 2 ^ 31 = 2 * Half /\ MaxInt = 2 * Half - 1 /\ MaxInt \in Nat
<1>1. Half = 2 ^ 30
  BY DEF Half
<1>2. 2 ^ 30 \in Nat \ {0} /\ 2 ^ (30 + 1) = 2 * 2 ^ 30
  BY Powers
<1>3. 30 + 1 = 31
  OBVIOUS
<1> HIDE DEF Half
<1> QED BY <1>1, <1>2, <1>3 DEF MaxInt

-----------------------------------------------------------------------------
(* Words *)

Words == {b \in Seq(Bit) : Len(b) % 8 = 0}

\* In a buffer of whole bytes, bs_eof and bs_overrun compare bit positions.
LEMMA EndOfWords ==
  ASSUME NEW bits \in Words, NEW pos \in Nat
  PROVE  /\ bs_eof(bits, pos) <=> pos >= Len(bits)
         /\ bs_overrun(bits, pos) <=> pos >= Len(bits) + 8
<1>1. Len(bits) \in Nat /\ Len(bits) % 8 = 0
  BY DEF Words
<1> QED BY <1>1 DEF bs_eof, bs_overrun

\* bs_read_u1 returns the bit at the position, and 0 behind the end.
LEMMA BitIn ==
  ASSUME NEW bits \in Words, NEW pos \in Nat
  PROVE  /\ bs_read_u1(bits, pos) \in Bit
         /\ pos < Len(bits) => bs_read_u1(bits, pos) = bits[pos + 1]
         /\ pos >= Len(bits) => bs_read_u1(bits, pos) = 0
<1>1. bits \in Seq(Bit)
  BY DEF Words
<1> QED BY <1>1, ReadBit, EndOfWords DEF bs_read_u1

\* pos is where the bits of word w begin
Holds(bits, pos, w, m) == pos + m <= Len(bits) /\ \A i \in 1 .. m : bits[pos + i] = w[i]

IsWord(n, v) == v \in 0 .. MaxInt /\ (n < 31 => v < 2 ^ n)

\* bs_write_u writes n bits.
LEMMA WriteU ==
  ASSUME NEW n \in Nat, NEW v \in Nat
  PROVE  bs_write_u(n, v) \in Seq(Bit) /\ Len(bs_write_u(n, v)) = n
<1>1. ASSUME NEW i \in 1 .. n
      PROVE  (IF n - i > 30 THEN 0 ELSE (v \div 2 ^ (n - i)) % 2) \in Bit
  <2>1. n - i \in Nat
    OBVIOUS
  <2>2. 2 ^ (n - i) \in Nat \ {0}
    BY <2>1, Powers
  <2>3. v \div 2 ^ (n - i) \in Nat
    BY <2>2, Small
  <2>4. (v \div 2 ^ (n - i)) % 2 \in 0 .. 1
    BY <2>3
  <2> QED BY <2>4 DEF Bit
<1>2. bs_write_u(n, v) \in [1 .. n -> Bit]
  BY <1>1 DEF bs_write_u
<1> QED BY <1>2

\* What is above the first m bits of a word.
LEMMA ReadTop ==
  ASSUME NEW bits \in Words, NEW pos \in Nat, NEW n \in Nat, NEW v \in Nat, IsWord(n, v),
         NEW m \in 0 .. n, Holds(bits, pos, bs_write_u(n, v), m)
  PROVE  bs_read_u(bits, pos, m) = v \div 2 ^ (n - m)
<1>0. bits \in Seq(Bit)
  BY DEF Words
<1> DEFINE T == {k \in Nat : k <= m => bs_read_u(bits, pos, k) = v \div 2 ^ (n - k)}
<1>z. \A k \in Nat : 30 < k => v \div 2 ^ k = 0
  <2> SUFFICES ASSUME NEW k \in Nat, 30 < k PROVE v \div 2 ^ k = 0
    OBVIOUS
  <2>1. v < 2 ^ 31
    BY Word31 DEF IsWord
  <2>2. 2 ^ 31 <= 2 ^ k
    <3>1. 31 \in Nat /\ 31 <= k
      OBVIOUS
    <3> QED BY <3>1, PowersGrow
  <2>3. 2 ^ k \in Nat \ {0}
    BY Powers
  <2> QED BY <2>1, <2>2, <2>3, Word31, Small
<1>1. 0 \in T
  <2>1. v \div 2 ^ n = 0
    <3>1. 2 ^ n \in Nat \ {0}
      BY Powers
    <3> QED BY <1>z, <3>1, Small DEF IsWord
  <2>2. n - 0 = n
    OBVIOUS
  <2> QED BY <1>0, <2>1, <2>2, ReadU
<1>2. ASSUME NEW k \in Nat, k \in T PROVE k + 1 \in T
  <2> SUFFICES ASSUME k + 1 <= m PROVE bs_read_u(bits, pos, k + 1) = v \div 2 ^ (n - (k + 1))
    OBVIOUS
  <2> DEFINE j == n - (k + 1)
             q == 2 ^ j
             w == bs_write_u(n, v)
  <2>1. j \in Nat /\ n - k = j + 1
    OBVIOUS
  <2>2. q \in Nat \ {0} /\ 2 ^ (n - k) = 2 * q
    BY <2>1, Powers
  <2>3. bs_read_u(bits, pos, k) = v \div (2 * q)
    BY <1>2, <2>2
  <2>4. bs_read_u1(bits, pos + k) = w[k + 1]
    <3>1. pos + k \in Nat /\ pos + k < Len(bits) /\ bits[pos + (k + 1)] = w[k + 1]
      <4>1. Len(bits) \in Nat
        BY <1>0
      <4> QED BY <4>1 DEF Holds
    <3>2. bs_read_u1(bits, pos + k) = bits[(pos + k) + 1]
      BY <3>1, BitIn
    <3>3. (pos + k) + 1 = pos + (k + 1)
      OBVIOUS
    <3> QED BY <3>1, <3>2, <3>3
  <2>5. w[k + 1] = IF j > 30 THEN 0 ELSE (v \div q) % 2
    BY DEF bs_write_u
  <2>6. v \div q = 2 * (v \div (2 * q)) + ((v \div q) % 2)
    BY <2>2, Halves
  <2>7. bs_read_u(bits, pos, k + 1) = 2 * (v \div (2 * q)) + w[k + 1]
    <3>1. bs_read_u(bits, pos, k + 1) = 2 * bs_read_u(bits, pos, k) + bs_read_u1(bits, pos + k)
      BY <1>0, ReadU
    <3> HIDE DEF j, q, w
    <3> QED BY <2>3, <2>4, <3>1
  <2>8. CASE j <= 30
    <3>1. w[k + 1] = (v \div q) % 2
      BY <2>5, <2>8
    <3> HIDE DEF j, q, w
    <3>2. bs_read_u(bits, pos, k + 1) = v \div q
      BY <2>6, <2>7, <3>1
    <3> QED BY <3>2 DEF q, j
  <2>9. CASE j > 30
    <3>1. v \div q = 0
      BY <1>z, <2>1, <2>9
    <3>2. v \div (2 * q) = 0
      <4>1. v \div 2 ^ (j + 1) = 0 /\ 2 ^ (j + 1) = 2 * q
        BY <1>z, <2>1, <2>2, <2>9
      <4> QED BY <4>1
    <3> QED BY <2>5, <2>7, <2>9, <3>1, <3>2
  <2> QED BY <2>1, <2>8, <2>9
<1> HIDE DEF T
<1>3. Nat \subseteq T
  BY <1>1, <1>2, Induction
<1> QED BY <1>3 DEF T

\* bs_read_u returns the number whose word of n bits is at the position.
LEMMA ReadWord ==
  ASSUME NEW bits \in Words, NEW pos \in Nat, NEW n \in Nat, NEW v \in Nat, IsWord(n, v),
         Holds(bits, pos, bs_write_u(n, v), n)
  PROVE  bs_read_u(bits, pos, n) = v
<1>1. bs_read_u(bits, pos, n) = v \div 2 ^ (n - n)
  <2>1. n \in 0 .. n
    OBVIOUS
  <2> QED BY <2>1, ReadTop
<1>2. n - n = 0 /\ 2 ^ 0 = 1 /\ v \div 1 = v
  BY Powers
<1> QED BY <1>1, <1>2

\* A number of a + m bits is one of a and one of m.
LEMMA ReadSplit ==
  ASSUME NEW bits \in Seq(Bit), NEW pos \in Nat, NEW a \in Nat, NEW m \in Nat
  PROVE  bs_read_u(bits, pos, a + m) = bs_read_u(bits, pos, a) * 2 ^ m + bs_read_u(bits, pos + a, m)
<1> DEFINE x == bs_read_u(bits, pos, a)
           T == {k \in Nat : bs_read_u(bits, pos, a + k) = x * 2 ^ k + bs_read_u(bits, pos + a, k)}
<1>0. x \in Nat /\ pos + a \in Nat
  <2>1. bs_read_u(bits, pos, a) \in Nat
    BY ReadU
  <2> QED BY <2>1
<1> HIDE DEF x
<1>1. 0 \in T
  <2>1. a + 0 = a /\ x * 1 = x /\ bs_read_u(bits, pos + a, 0) = 0 /\ 2 ^ 0 = 1
    BY <1>0, ReadU, Powers
  <2> QED BY <2>1, <1>0 DEF x
<1>2. ASSUME NEW k \in Nat, k \in T PROVE k + 1 \in T
  <2> DEFINE y == bs_read_u(bits, pos + a, k)
             p == 2 ^ k
             b == bs_read_u1(bits, pos + (a + k))
  <2>1. bs_read_u(bits, pos, a + k) = x * p + y
    BY <1>2
  <2>2. bs_read_u(bits, pos, (a + k) + 1) = 2 * bs_read_u(bits, pos, a + k) + b
    BY ReadU
  <2>3. bs_read_u(bits, pos + a, k + 1) = 2 * y + bs_read_u1(bits, (pos + a) + k) /\ y \in Nat
    BY <1>0, ReadU
  <2>4. (pos + a) + k = pos + (a + k) /\ a + (k + 1) = (a + k) + 1
    OBVIOUS
  <2>5. 2 ^ (k + 1) = 2 * p /\ p \in Nat
    BY Powers
  <2>6. b \in Nat
    BY ReadBit DEF Bit
  <2> DEFINE l == bs_read_u(bits, pos, a + (k + 1))
             r == bs_read_u(bits, pos + a, k + 1)
             p2 == 2 ^ (k + 1)
  <2>7. l = 2 * (x * p + y) + b
    BY <2>1, <2>2, <2>4
  <2>8. r = 2 * y + b
    BY <2>3, <2>4
  <2>9. SUFFICES l = x * p2 + r
    OBVIOUS
  <2>10. p2 = 2 * p
    BY <2>5
  <2> HIDE DEF l, r, p2, p, b, y
  <2> QED BY <1>0, <2>3, <2>5, <2>6, <2>7, <2>8, <2>10
<1> HIDE DEF T
<1>3. Nat \subseteq T
  BY <1>1, <1>2, Induction
<1> QED BY <1>3 DEF T, x

\* There is one way to choose Turns.
Stops(bits, pos, i) ==
    /\ i \in 0 .. 32
    /\ i = 32 \/ bs_read_u1(bits, pos + i) = 1 \/ bs_eof(bits, pos + i + 1)
    /\ \A j \in 0 .. i - 1 : bs_read_u1(bits, pos + j) = 0 /\ ~bs_eof(bits, pos + j + 1)

\* bs_read_ue counts zeros up to a one, up to the end or up to 32.
LEMMA TurnsStop ==
  ASSUME NEW bits \in Words, NEW pos \in Nat
  PROVE  Stops(bits, pos, Turns(bits, pos))
<1> DEFINE T == {i \in Nat : i = 32 \/ bs_read_u1(bits, pos + i) = 1 \/ bs_eof(bits, pos + i + 1)}
<1>1. T \in SUBSET Nat /\ 32 \in T
  OBVIOUS
<1>2. PICK i \in T : \A k \in T : i <= k
  <2> HIDE DEF T
  <2> QED BY <1>1, Least
<1>3. i \in 0 .. 32
  <2> HIDE DEF T
  <2> QED BY <1>1, <1>2
<1>4. \A j \in 0 .. i - 1 : bs_read_u1(bits, pos + j) = 0 /\ ~bs_eof(bits, pos + j + 1)
  <2> TAKE j \in 0 .. i - 1
  <2>1. j \in Nat /\ j \notin T
    <3> HIDE DEF T
    <3> QED BY <1>2, <1>3
  <2>2. bs_read_u1(bits, pos + j) \in Bit
    BY <2>1, BitIn
  <2> QED BY <2>1, <2>2 DEF Bit
<1>5. \E x \in 0 .. 32 : Stops(bits, pos, x)
  BY <1>2, <1>3, <1>4 DEF Stops
<1>6. Turns(bits, pos) = CHOOSE x \in 0 .. 32 : Stops(bits, pos, x)
  BY DEF Turns, Stops
<1> QED BY <1>5, <1>6

\* There is one place only where it can stop.
LEMMA OneStop ==
  ASSUME NEW bits \in Words, NEW pos \in Nat, NEW i \in 0 .. 31,
         pos + i < Len(bits), bs_read_u1(bits, pos + i) = 1,
         \A j \in 0 .. i - 1 : bs_read_u1(bits, pos + j) = 0
  PROVE  Turns(bits, pos) = i
<1> DEFINE t == Turns(bits, pos)
<1>1. Stops(bits, pos, t)
  BY TurnsStop
<1>2. t \in 0 .. 32
  BY <1>1 DEF Stops
<1>3. ~(t < i)
  <2> SUFFICES ASSUME t < i PROVE FALSE
    OBVIOUS
  <2>1. t \in 0 .. i - 1 /\ t # 32 /\ pos + t + 1 \in Nat
    <3> HIDE DEF t
    <3> QED BY <1>2
  <2>2. bs_read_u1(bits, pos + t) = 0
    BY <2>1
  <2>3. bs_eof(bits, pos + t + 1)
    BY <1>1, <2>1, <2>2 DEF Stops
  <2>4. pos + t + 1 >= Len(bits)
    BY <2>1, <2>3, EndOfWords
  <2>5. Len(bits) \in Nat
    BY DEF Words
  <2> HIDE DEF t
  <2> QED BY <2>1, <2>4, <2>5
<1>4. ~(i < t)
  <2> SUFFICES ASSUME i < t PROVE FALSE
    OBVIOUS
  <2>1. i \in 0 .. t - 1
    <3> HIDE DEF t
    <3> QED BY <1>2
  <2>2. bs_read_u1(bits, pos + i) = 0
    BY <1>1, <2>1 DEF Stops
  <2> QED BY <2>2
<1> HIDE DEF t
<1>5. t = i
  BY <1>2, <1>3, <1>4
<1> QED BY <1>5 DEF t

\* The length of a number.
LEMMA BitsOfNumber ==
  ASSUME NEW w \in 1 .. MaxInt
  PROVE  BitsOf(w) \in 1 .. 31 /\ 2 ^ (BitsOf(w) - 1) <= w /\ w < 2 ^ BitsOf(w)
<1>0. w \in Nat /\ w # 0 /\ w < 2 ^ 31
  BY Word31
<1> DEFINE T == {n \in Nat : w < 2 ^ n}
<1>1. T \in SUBSET Nat /\ 31 \in T
  BY <1>0
<1>2. PICK b \in T : \A k \in T : b <= k
  <2> HIDE DEF T
  <2> QED BY <1>1, Least
<1>3. b \in 0 .. 31 /\ b \in Nat /\ w < 2 ^ b
  <2>1. b <= 31
    <3> HIDE DEF T
    <3> QED BY <1>1, <1>2
  <2> QED BY <2>1, <1>2
<1>4. b # 0
  <2> SUFFICES ASSUME b = 0 PROVE FALSE
    OBVIOUS
  <2>1. w < 1
    BY <1>3, Powers
  <2> QED BY <1>0, <2>1
<1>5. b - 1 \in Nat /\ b - 1 \notin T
  <2>1. b - 1 \in Nat
    BY <1>3, <1>4
  <2> HIDE DEF T
  <2> QED BY <1>2, <1>3, <2>1
<1>6. 2 ^ (b - 1) <= w
  <2>1. 2 ^ (b - 1) \in Nat
    BY <1>5, Powers
  <2> QED BY <1>0, <1>5, <2>1
<1> DEFINE Fit(n) == 2 ^ (n - 1) <= w /\ (n = 31 \/ w < 2 ^ n)
<1>7. Fit(b) /\ b \in 1 .. 31
  BY <1>3, <1>4, <1>6
<1>8. BitsOf(w) = CHOOSE n \in 1 .. 31 : Fit(n)
  BY DEF BitsOf
<1> HIDE DEF Fit
<1>9. BitsOf(w) \in 1 .. 31 /\ Fit(BitsOf(w))
  BY <1>7, <1>8
<1>10. BitsOf(w) = 31 => w < 2 ^ BitsOf(w)
  <2> SUFFICES ASSUME BitsOf(w) = 31 PROVE w < 2 ^ BitsOf(w)
    OBVIOUS
  <2> QED BY <1>0
<1> QED BY <1>9, <1>10 DEF Fit

\* An ue(v) is a number of b bits behind b - 1 zeros.
LEMMA WriteUe ==
  ASSUME NEW v \in 0 .. MaxInt - 1
  PROVE  LET b == BitsOf(v + 1)
         IN  /\ v + 1 \in 1 .. MaxInt /\ v + 1 \in Nat
             /\ b \in 1 .. 31 /\ 2 ^ (b - 1) <= v + 1 /\ v + 1 < 2 ^ b
             /\ bs_write_ue(v) = bs_write_u(2 * b - 1, v + 1)
             /\ IsWord(2 * b - 1, v + 1)
             /\ \A i \in 1 .. b - 1 : bs_write_ue(v)[i] = 0
             /\ bs_write_ue(v)[b] = 1
<1> DEFINE w == v + 1
           b == BitsOf(w)
           n == 2 * b - 1
<1>1. w \in 1 .. MaxInt /\ w \in Nat
  BY Word31
<1>2. b \in 1 .. 31 /\ 2 ^ (b - 1) <= w /\ w < 2 ^ b
  <2> HIDE DEF w
  <2> QED BY <1>1, BitsOfNumber
<1>3. bs_write_ue(v) = bs_write_u(n, w)
  <2>1. CASE v # 0
    BY <2>1 DEF bs_write_ue
  <2>2. CASE v = 0
    <3>1. w = 1
      BY <2>2
    <3>2. b = 1
      <4>1. 2 <= b => 2 ^ 1 <= 2 ^ (b - 1)
        <5> SUFFICES ASSUME 2 <= b PROVE 2 ^ 1 <= 2 ^ (b - 1)
          OBVIOUS
        <5> HIDE DEF b
        <5>1. b - 1 \in Nat /\ 1 \in Nat /\ 1 <= b - 1
          BY <1>2
        <5> QED BY <5>1, PowersGrow
      <4>2. 2 ^ (0 + 1) = 2 * 2 ^ 0 /\ 0 + 1 = 1 /\ 2 ^ 0 = 1
        BY Powers
      <4>3. 2 ^ (b - 1) \in Nat
        <5> HIDE DEF b
        <5>1. b - 1 \in Nat
          BY <1>2
        <5> QED BY <5>1, Powers
      <4> HIDE DEF b, w
      <4> QED BY <1>2, <3>1, <4>1, <4>2, <4>3
    <3>3. n = 1
      <4> HIDE DEF b
      <4> QED BY <3>2
    <3>4. bs_write_u(1, 1) = <<1>>
      <4>1. 1 \div 2 ^ (1 - 1) = 1
        BY Powers
      <4>2. \A i \in 1 .. 1 : (IF 1 - i > 30 THEN 0 ELSE (1 \div 2 ^ (1 - i)) % 2) = 1
        <5> TAKE i \in 1 .. 1
        <5>1. i = 1
          OBVIOUS
        <5> QED BY <4>1, <5>1
      <4>3. bs_write_u(1, 1) = [i \in 1 .. 1 |-> 1]
        BY <4>2 DEF bs_write_u
      <4> QED BY <4>3
    <3> HIDE DEF n, w
    <3> QED BY <2>2, <3>1, <3>3, <3>4 DEF bs_write_ue
  <2> QED BY <2>1, <2>2
<1>4. IsWord(n, w)
  <2>1. w \in 0 .. MaxInt
    BY <1>1, Word31
  <2>2. n \in Nat /\ b <= n /\ b \in Nat
    <3> HIDE DEF b
    <3> QED BY <1>2
  <2>3. w < 2 ^ n
    <3>1. 2 ^ b <= 2 ^ n /\ 2 ^ b \in Nat /\ 2 ^ n \in Nat
      <4> HIDE DEF n, b
      <4> QED BY <2>2, Powers, PowersGrow
    <3> HIDE DEF n, b, w
    <3> QED BY <1>1, <1>2, <3>1
  <2> QED BY <2>1, <2>3 DEF IsWord
<1>5. ASSUME NEW i \in 1 .. n
      PROVE  bs_write_ue(v)[i] = IF n - i > 30 THEN 0 ELSE (w \div 2 ^ (n - i)) % 2
  <2> HIDE DEF n, w
  <2> QED BY <1>3 DEF bs_write_u
<1> HIDE DEF b
<1>6. ASSUME NEW i \in 1 .. b - 1 PROVE bs_write_ue(v)[i] = 0
  <2>1. i \in 1 .. n /\ n - i \in Nat /\ b <= n - i /\ b \in Nat
    BY <1>2
  <2> HIDE DEF n, w
  <2>2. w \div 2 ^ (n - i) = 0
    <3>1. 2 ^ b <= 2 ^ (n - i) /\ 2 ^ b \in Nat /\ 2 ^ (n - i) \in Nat \ {0}
      BY <2>1, Powers, PowersGrow
    <3>2. w < 2 ^ (n - i)
      BY <1>1, <1>2, <3>1
    <3> QED BY <1>1, <3>1, <3>2, Small
  <2> QED BY <1>5, <2>1, <2>2
<1>7. bs_write_ue(v)[b] = 1
  <2>1. b \in 1 .. n /\ n - b = b - 1 /\ ~(b - 1 > 30) /\ b - 1 \in Nat /\ b = (b - 1) + 1
    BY <1>2
  <2>2. 2 ^ b = 2 * 2 ^ (b - 1) /\ 2 ^ (b - 1) \in Nat \ {0}
    <3>1. 2 ^ ((b - 1) + 1) = 2 * 2 ^ (b - 1) /\ 2 ^ (b - 1) \in Nat \ {0}
      BY <2>1, Powers
    <3> QED BY <2>1, <3>1
  <2> HIDE DEF n, w
  <2>3. w \div 2 ^ (b - 1) = 1
    BY <1>1, <1>2, <2>2, Small
  <2> QED BY <1>5, <2>1, <2>3
<1> QED BY <1>1, <1>2, <1>3, <1>4, <1>6, <1>7 DEF b

\* bs_read_ue returns the number bs_write_ue wrote, and goes behind its bits.
LEMMA ReadWrittenUe ==
  ASSUME NEW bits \in Words, NEW pos \in Nat, NEW v \in 0 .. MaxInt - 1,
         Holds(bits, pos, bs_write_ue(v), Len(bs_write_ue(v)))
  PROVE  bs_read_ue(bits, pos) = v /\ pos + 2 * Turns(bits, pos) + 1 = pos + Len(bs_write_ue(v))
<1> DEFINE w == v + 1
           b == BitsOf(w)
           n == 2 * b - 1
           s == bs_write_ue(v)
<1>1. /\ w \in 1 .. MaxInt /\ w \in Nat /\ b \in 1 .. 31
      /\ 2 ^ (b - 1) <= w /\ w < 2 ^ b
      /\ s = bs_write_u(n, w) /\ IsWord(n, w)
      /\ (\A i \in 1 .. b - 1 : s[i] = 0) /\ s[b] = 1
  BY WriteUe
<1>v. v \in Nat /\ w = v + 1
  BY <1>1
<1> HIDE DEF b, w
<1>2. n \in Nat /\ b \in 1 .. n /\ b \in Nat /\ b - 1 \in Nat
  BY <1>1
<1> HIDE DEF s, n
<1>3. Len(s) = n /\ Len(bits) \in Nat /\ bits \in Seq(Bit)
  <2>1. Len(bs_write_u(n, w)) = n
    BY <1>1, <1>2, WriteU
  <2>2. Len(bits) \in Nat /\ bits \in Seq(Bit)
    BY DEF Words
  <2> QED BY <1>1, <2>1, <2>2
<1>4. Holds(bits, pos, s, n)
  BY <1>3 DEF s
<1>5. ASSUME NEW i \in 1 .. n PROVE pos + (i - 1) < Len(bits) /\ bs_read_u1(bits, pos + (i - 1)) = s[i]
  <2>1. pos + (i - 1) \in Nat /\ pos + (i - 1) < Len(bits) /\ (pos + (i - 1)) + 1 = pos + i
    BY <1>2, <1>3, <1>4 DEF Holds
  <2>2. bs_read_u1(bits, pos + (i - 1)) = bits[(pos + (i - 1)) + 1]
    BY <2>1, BitIn
  <2> QED BY <1>4, <2>1, <2>2 DEF Holds
<1>6. Turns(bits, pos) = b - 1
  <2>1. b - 1 \in 0 .. 31 /\ pos + (b - 1) < Len(bits) /\ bs_read_u1(bits, pos + (b - 1)) = 1
    BY <1>1, <1>2, <1>5
  <2>2. ASSUME NEW j \in 0 .. (b - 1) - 1 PROVE bs_read_u1(bits, pos + j) = 0
    <3>1. j + 1 \in 1 .. n /\ j + 1 \in 1 .. b - 1 /\ (j + 1) - 1 = j
      BY <1>2
    <3>2. bs_read_u1(bits, pos + ((j + 1) - 1)) = s[j + 1]
      BY <1>5, <3>1
    <3>3. s[j + 1] = 0
      BY <1>1, <3>1
    <3> QED BY <3>1, <3>2, <3>3
  <2> QED BY <2>1, <2>2, OneStop
<1>7. bs_read_u(bits, pos, n) = w
  BY <1>1, <1>2, <1>4, ReadWord
<1>8. bs_read_u(bits, pos, b) = 1
  <2>1. Holds(bits, pos, s, b)
    BY <1>2, <1>3, <1>4 DEF Holds
  <2>2. bs_read_u(bits, pos, b) = w \div 2 ^ (n - b)
    <3>1. b \in 0 .. n
      BY <1>2
    <3> QED BY <1>1, <1>2, <2>1, <3>1, ReadTop
  <2>3. n - b = b - 1
    BY <1>2 DEF n
  <2>4. 2 ^ ((b - 1) + 1) = 2 * 2 ^ (b - 1) /\ 2 ^ (b - 1) \in Nat \ {0} /\ (b - 1) + 1 = b
    BY <1>2, Powers
  <2>5. w \div 2 ^ (b - 1) = 1
    BY <1>1, <2>4, Small
  <2> QED BY <2>2, <2>3, <2>5
<1>9. bs_read_u(bits, pos, b + (b - 1)) = bs_read_u(bits, pos, b) * 2 ^ (b - 1) + bs_read_u(bits, pos + b, b - 1)
  BY <1>2, <1>3, ReadSplit
<1>10. b + (b - 1) = n /\ pos + (b - 1) + 1 = pos + b
  BY <1>2 DEF n
<1>11. 2 ^ (b - 1) \in Nat /\ bs_read_u(bits, pos + b, b - 1) \in Nat
  <2>1. pos + b \in Nat
    BY <1>2
  <2> QED BY <1>2, <1>3, <2>1, Powers, ReadU
<1>12. bs_read_ue(bits, pos) = bs_read_u(bits, pos + b, b - 1) + 2 ^ (b - 1) - 1
  BY <1>6, <1>10 DEF bs_read_ue
<1>13. bs_read_ue(bits, pos) = v
  BY <1>v, <1>7, <1>8, <1>9, <1>10, <1>11, <1>12
<1>14. pos + 2 * Turns(bits, pos) + 1 = pos + n
  BY <1>2, <1>6 DEF n
<1> QED BY <1>3, <1>13, <1>14 DEF s

Codes == {"u", "ue", "se"}

\* Every code is a word of bits or an Exp-Golomb code of a number.
LEMMA WriteCodes ==
  ASSUME NEW code \in Codes, NEW n \in Nat, NEW v \in Int, Fits(code, n, v)
  PROVE  /\ WriteCode(code, n, v) \in Seq(Bit)
         /\ code = "u" => v \in Nat /\ IsWord(n, v) /\ WriteCode(code, n, v) = bs_write_u(n, v)
         /\ code # "u" => \E x \in 0 .. MaxInt - 1 :
               /\ WriteCode(code, n, v) = bs_write_ue(x)
               /\ \A r : r = x => v = IF code = "ue" THEN r
                                      ELSE IF r % 2 = 1 THEN (r + 1) \div 2 ELSE -(r \div 2)
<1>0. \A x \in 0 .. MaxInt - 1 : bs_write_ue(x) \in Seq(Bit)
  <2> TAKE x \in 0 .. MaxInt - 1
  <2>1. PICK b \in 1 .. 31 : bs_write_ue(x) = bs_write_u(2 * b - 1, x + 1)
    BY WriteUe
  <2>2. 2 * b - 1 \in Nat /\ x + 1 \in Nat
    BY Word31
  <2> QED BY <2>1, <2>2, WriteU
<1>1. CASE code = "u"
  <2>1. v \in Nat /\ IsWord(n, v)
    BY <1>1, Word31 DEF Fits, IsWord
  <2>2. WriteCode(code, n, v) = bs_write_u(n, v)
    BY <1>1 DEF WriteCode
  <2> QED BY <1>1, <2>1, <2>2, WriteU
<1>2. CASE code = "ue"
  <2>1. v \in 0 .. MaxInt - 1 /\ WriteCode(code, n, v) = bs_write_ue(v)
    BY <1>2 DEF Fits, WriteCode
  <2> QED BY <1>0, <1>2, <2>1
<1>3. CASE code = "se"
  <2> DEFINE x == IF v <= 0 THEN -2 * v ELSE 2 * v - 1
  <2>1. v \in 1 - Half .. Half - 1 /\ WriteCode(code, n, v) = bs_write_ue(x)
    BY <1>3 DEF Fits, WriteCode, bs_write_se
  <2>2. x \in 0 .. MaxInt - 1
    BY <2>1, Word31
  <2>3. v = IF x % 2 = 1 THEN (x + 1) \div 2 ELSE -(x \div 2)
    <3>1. CASE v <= 0
      <4> DEFINE y == -v
      <4>1. y \in Nat /\ x = 2 * y + 0 /\ v = -y
        BY <3>1
      <4> HIDE DEF x, y
      <4>2. x % 2 = 0 /\ x \div 2 = y
        <5>1. 0 \in 0 .. 2 - 1 /\ 2 \in Nat \ {0} /\ x \in Nat
          BY <4>1
        <5> QED BY <4>1, <5>1, Divided
      <4> QED BY <4>1, <4>2
    <3>2. CASE v > 0
      <4>1. x = 2 * (v - 1) + 1 /\ x + 1 = 2 * v /\ v - 1 \in Int
        BY <3>2
      <4> HIDE DEF x
      <4>2. x % 2 = 1 /\ (x + 1) \div 2 = v
        BY <3>2, <4>1
      <4> QED BY <4>2
    <3> QED BY <3>1, <3>2
  <2> HIDE DEF x
  <2>4. WriteCode(code, n, v) \in Seq(Bit)
    BY <1>0, <2>1, <2>2
  <2> QED BY <1>3, <2>1, <2>2, <2>3, <2>4
<1> QED BY <1>1, <1>2, <1>3 DEF Codes

\* A number that is coded in bits behind pos.
Written(bits, pos, code, n, v) ==
    /\ code \in Codes /\ n \in Nat /\ v \in Int /\ Fits(code, n, v)
    /\ Holds(bits, pos, WriteCode(code, n, v), Len(WriteCode(code, n, v)))

\* What is written is read.
LEMMA ReadWritten ==
  ASSUME NEW bits \in Words, NEW pos \in Nat, NEW code, NEW n, NEW v, Written(bits, pos, code, n, v)
  PROVE  /\ ReadCode(code, n, bits, pos) = v
         /\ Behind(code, n, bits, pos) = pos + Len(WriteCode(code, n, v))
<1>0. /\ code \in Codes /\ n \in Nat /\ v \in Int /\ Fits(code, n, v)
      /\ Holds(bits, pos, WriteCode(code, n, v), Len(WriteCode(code, n, v)))
  BY DEF Written
<1> DEFINE w == WriteCode(code, n, v)
<1>1. CASE code = "u"
  <2>1. v \in Nat /\ IsWord(n, v) /\ w = bs_write_u(n, v) /\ Len(w) = n
    BY <1>0, <1>1, WriteCodes, WriteU
  <2>2. Holds(bits, pos, w, Len(w))
    BY <1>0
  <2> HIDE DEF w
  <2>3. Holds(bits, pos, bs_write_u(n, v), n)
    BY <2>1, <2>2
  <2>4. bs_read_u(bits, pos, n) = v
    BY <1>0, <2>1, <2>3, ReadWord
  <2> QED BY <1>0, <1>1, <2>1, <2>4 DEF ReadCode, Behind, w
<1>2. CASE code # "u"
  <2>0. \E x \in 0 .. MaxInt - 1 :
            /\ w = bs_write_ue(x)
            /\ \A r : r = x => v = IF code = "ue" THEN r ELSE IF r % 2 = 1 THEN (r + 1) \div 2 ELSE -(r \div 2)
    BY <1>0, <1>2, WriteCodes
  <2>1. PICK x \in 0 .. MaxInt - 1 :
            /\ w = bs_write_ue(x)
            /\ \A r : r = x => v = IF code = "ue" THEN r ELSE IF r % 2 = 1 THEN (r + 1) \div 2 ELSE -(r \div 2)
    BY <2>0
  <2>2. Holds(bits, pos, w, Len(w))
    BY <1>0
  <2> HIDE DEF w
  <2>3. Holds(bits, pos, bs_write_ue(x), Len(bs_write_ue(x)))
    BY <2>1, <2>2
  <2>4. bs_read_ue(bits, pos) = x /\ pos + 2 * Turns(bits, pos) + 1 = pos + Len(w)
    BY <2>1, <2>3, ReadWrittenUe
  <2>5. v = IF code = "ue" THEN bs_read_ue(bits, pos)
            ELSE IF bs_read_ue(bits, pos) % 2 = 1 THEN (bs_read_ue(bits, pos) + 1) \div 2
                 ELSE -(bs_read_ue(bits, pos) \div 2)
    BY <2>1, <2>4
  <2>6. ReadCode(code, n, bits, pos) = v
    BY <1>0, <1>2, <2>5, Zenon DEF ReadCode, bs_read_se, Codes
  <2>7. Behind(code, n, bits, pos) = pos + Len(w)
    BY <1>2, <2>4 DEF Behind
  <2> QED BY <2>6, <2>7 DEF w
<1> QED BY <1>1, <1>2

\* Reading never goes back.
LEMMA BehindOn ==
  ASSUME NEW bits \in Words, NEW pos \in Nat, NEW code, NEW n \in Nat
  PROVE  Behind(code, n, bits, pos) \in Nat /\ Behind(code, n, bits, pos) >= pos
<1>1. Turns(bits, pos) \in 0 .. 32
  BY TurnsStop DEF Stops
<1> DEFINE t == Turns(bits, pos)
<1> HIDE DEF t
<1>2. t \in 0 .. 32
  BY <1>1 DEF t
<1>3. pos + 2 * t + 1 \in Nat /\ pos + 2 * t + 1 >= pos /\ pos + n \in Nat /\ pos + n >= pos
  BY <1>2
<1>4. Behind(code, n, bits, pos) = IF code = "u" THEN pos + n ELSE pos + 2 * t + 1
  BY DEF Behind, t
<1> QED BY <1>3, <1>4

\* Of a word that goes on behind the end nothing is left to be read.
LEMMA BehindCut ==
  ASSUME NEW bits \in Words, NEW pos \in Nat, NEW code \in Codes, NEW n \in Nat, NEW v \in Int,
         Fits(code, n, v), pos + Len(WriteCode(code, n, v)) >= Len(bits),
         \A i \in 1 .. Len(WriteCode(code, n, v)) : pos + i <= Len(bits) => bits[pos + i] = WriteCode(code, n, v)[i]
  PROVE  Behind(code, n, bits, pos) >= Len(bits)
<1> DEFINE w == WriteCode(code, n, v)
<1>1. CASE code = "u"
  BY <1>1, WriteCodes, WriteU DEF Behind
<1>2. CASE code # "u"
  <2>1. \E x \in 0 .. MaxInt - 1 : w = bs_write_ue(x)
    <3>1. CASE code = "ue"
      <4>1. v \in 0 .. MaxInt - 1 /\ w = bs_write_ue(v)
        BY <3>1 DEF Fits, WriteCode
      <4> QED BY <4>1
    <3>2. CASE code = "se"
      <4> DEFINE x == IF v <= 0 THEN -2 * v ELSE 2 * v - 1
      <4>1. v \in 1 - Half .. Half - 1 /\ w = bs_write_ue(x)
        BY <3>2 DEF Fits, WriteCode, bs_write_se
      <4>2. x \in 0 .. MaxInt - 1
        BY <4>1, Word31
      <4> HIDE DEF x, w
      <4> QED BY <4>1, <4>2
    <3> QED BY <1>2, <3>1, <3>2 DEF Codes
  <2>2. PICK x \in 0 .. MaxInt - 1 : w = bs_write_ue(x)
    BY <2>1
  <2>3. \E b \in 1 .. 31 : Len(w) = 2 * b - 1 /\ \A i \in 1 .. b - 1 : w[i] = 0
    <3>1. PICK b \in 1 .. 31 : /\ bs_write_ue(x) = bs_write_u(2 * b - 1, x + 1) /\ x + 1 \in Nat
                               /\ \A i \in 1 .. b - 1 : bs_write_ue(x)[i] = 0
      BY WriteUe
    <3>2. 2 * b - 1 \in Nat
      OBVIOUS
    <3>3. Len(w) = 2 * b - 1
      <4> HIDE DEF w
      <4> QED BY <2>2, <3>1, <3>2, WriteU
    <3> HIDE DEF w
    <3> QED BY <2>2, <3>1, <3>3
  <2>4. PICK b \in 1 .. 31 : Len(w) = 2 * b - 1 /\ \A i \in 1 .. b - 1 : w[i] = 0
    BY <2>3
  <2>5. /\ pos + Len(w) >= Len(bits)
        /\ \A i \in 1 .. Len(w) : pos + i <= Len(bits) => bits[pos + i] = w[i]
    OBVIOUS
  <2> HIDE DEF w
  <2> DEFINE t == Turns(bits, pos)
  <2>6. Stops(bits, pos, t)
    BY TurnsStop
  <2>7. t \in 0 .. 32 /\ Len(bits) \in Nat
    <3>1. bits \in Seq(Bit)
      BY DEF Words
    <3> HIDE DEF t
    <3> QED BY <2>6, <3>1 DEF Stops
  <2>8. Behind(code, n, bits, pos) = pos + 2 * t + 1
    BY <1>2 DEF Behind
  <2>9. t = 32 \/ bs_read_u1(bits, pos + t) = 1 \/ bs_eof(bits, pos + t + 1)
    BY <2>6 DEF Stops
  <2> HIDE DEF t
  <2>10. pos + t \in Nat /\ pos + t + 1 \in Nat
    BY <2>7
  <2>11. CASE t = 32
    BY <2>4, <2>5, <2>7, <2>8, <2>11
  <2>12. CASE bs_eof(bits, pos + t + 1)
    <3>1. pos + t + 1 >= Len(bits)
      BY <2>10, <2>12, EndOfWords
    <3> QED BY <2>7, <2>8, <3>1
  <2>13. CASE bs_read_u1(bits, pos + t) = 1 /\ t < b - 1
    <3>1. pos + t < Len(bits) /\ bits[(pos + t) + 1] = 1
      BY <2>7, <2>10, <2>13, BitIn
    <3>2. t + 1 \in 1 .. Len(w) /\ t + 1 \in 1 .. b - 1 /\ pos + (t + 1) <= Len(bits) /\ (pos + t) + 1 = pos + (t + 1)
      BY <2>4, <2>7, <2>13, <3>1
    <3>3. bits[pos + (t + 1)] = 0
      BY <2>4, <2>5, <3>2
    <3> QED BY <3>1, <3>2, <3>3
  <2>14. CASE t >= b - 1
    BY <2>4, <2>5, <2>7, <2>8, <2>14
  <2>15. t < b - 1 \/ t >= b - 1
    BY <2>7
  <2> QED BY <2>9, <2>11, <2>12, <2>13, <2>14, <2>15
<1> QED BY <1>1, <1>2

\* The fields that are never in a loop.
Once == {"profile_idc", "seq_parameter_set_id", "chroma_format_idc", "frame_mbs_only_flag",
         "pic_width_in_mbs_minus1", "pic_height_in_map_units_minus1",
         "frame_crop_left_offset", "frame_crop_right_offset",
         "frame_crop_top_offset", "frame_crop_bottom_offset", "pic_parameter_set_id", "frame_num"}
\* The fields that are.
Looped == {"cpb_cnt_minus1", "bit_rate_scale", "cpb_size_scale", "bit_rate_value_minus1",
           "cpb_size_value_minus1", "cbr_flag", "initial_cpb_removal_delay_length_minus1",
           "cpb_removal_delay_length_minus1", "dpb_output_delay_length_minus1", "time_offset_length",
           "seq_scaling_list_present_flag", "offset_for_ref_frame", "run_length_minus1", "top_left",
           "bottom_right", "slice_group_id", "pic_scaling_list_present_flag", "delta_scale",
           "payloadType", "payloadSize", "payload", "end_bits"}
\* The others of the sequence parameter set, of its VUI and of the picture parameter set.
OfSps == {"constraint_set0_flag", "constraint_set1_flag", "constraint_set2_flag",
          "constraint_set3_flag", "constraint_set4_flag", "constraint_set5_flag",
          "reserved_zero_2bits", "level_idc", "separate_colour_plane_flag", "bit_depth_luma_minus8",
          "bit_depth_chroma_minus8", "qpprime_y_zero_transform_bypass_flag",
          "seq_scaling_matrix_present_flag", "log2_max_frame_num_minus4", "pic_order_cnt_type",
          "log2_max_pic_order_cnt_lsb_minus4", "delta_pic_order_always_zero_flag",
          "offset_for_non_ref_pic", "offset_for_top_to_bottom_field",
          "num_ref_frames_in_pic_order_cnt_cycle", "max_num_ref_frames",
          "gaps_in_frame_num_value_allowed_flag", "mb_adaptive_frame_field_flag",
          "direct_8x8_inference_flag", "frame_cropping_flag", "vui_parameters_present_flag"}
OfVui == {"aspect_ratio_info_present_flag", "aspect_ratio_idc", "sar_width", "sar_height",
          "overscan_info_present_flag", "overscan_appropriate_flag", "video_signal_type_present_flag",
          "video_format", "video_full_range_flag", "colour_description_present_flag",
          "colour_primaries", "transfer_characteristics", "matrix_coefficients",
          "chroma_loc_info_present_flag", "chroma_sample_loc_type_top_field",
          "chroma_sample_loc_type_bottom_field", "timing_info_present_flag", "num_units_in_tick",
          "time_scale", "fixed_frame_rate_flag", "nal_hrd_parameters_present_flag",
          "vcl_hrd_parameters_present_flag", "low_delay_hrd_flag", "pic_struct_present_flag",
          "bitstream_restriction_flag", "motion_vectors_over_pic_boundaries_flag",
          "max_bytes_per_pic_denom", "max_bits_per_mb_denom", "log2_max_mv_length_horizontal",
          "log2_max_mv_length_vertical", "num_reorder_frames", "max_dec_frame_buffering"}
OfPps == {"entropy_coding_mode_flag", "bottom_field_pic_order_in_frame_present_flag",
          "num_slice_groups_minus1", "slice_group_map_type", "slice_group_change_direction_flag",
          "slice_group_change_rate_minus1", "pic_size_in_map_units_minus1",
          "num_ref_idx_l0_active_minus1", "num_ref_idx_l1_active_minus1", "weighted_pred_flag",
          "weighted_bipred_idc", "pic_init_qp_minus26", "pic_init_qs_minus26",
          "chroma_qp_index_offset", "deblocking_filter_control_present_flag",
          "constrained_intra_pred_flag", "redundant_pic_cnt_present_flag", "transform_8x8_mode_flag",
          "pic_scaling_matrix_present_flag", "second_chroma_qp_index_offset", "primary_pic_type"}
Names == Once \cup Looped \cup OfSps \cup OfVui \cup OfPps
ElOf(N) == {x \in Codes \X Nat \X N \X Nat : x[4] = 0 \/ x[3] \notin Once}
Syntax(N) == Seq(ElOf(N))
IntFields(e) == \A k \in DOMAIN e : e[k] \in Int

Known(a, K) == \A j \in 1 .. Len(a) : Key(a[j]) \in K
Agree(e, d, K) == \A k \in K : k \in DOMAIN e /\ k \in DOMAIN d /\ e[k] = d[k]

\* Up to and with the first element that is not in K they are the same.
Coh(a, b, K) ==
    \A j \in 0 .. Len(a) :
       (\A i \in 1 .. j : Key(a[i]) \in K)
       => /\ \A i \in 1 .. j : b[i] = a[i]
          /\ j <= Len(b)
          /\ j + 1 <= Len(a) <=> j + 1 <= Len(b)
          /\ j + 1 <= Len(a) => b[j + 1] = a[j + 1]

\* A sequence starts as itself.
LEMMA CohSame ==
  ASSUME NEW A, NEW K, NEW a \in Seq(A)
  PROVE  Coh(a, a, K)
BY DEF Coh

\* Sequences that start alike as far as all is known are the same.
LEMMA CohAll ==
  ASSUME NEW A, NEW K, NEW a \in Seq(A), NEW b \in Seq(A), Coh(a, b, K), Known(a, K)
  PROVE  a = b
<1>1. Len(a) \in Nat /\ Len(b) \in Nat
  OBVIOUS
<1>2. Len(a) \in 0 .. Len(a)
  BY <1>1
<1>3. /\ \A i \in 1 .. Len(a) : b[i] = a[i]
      /\ Len(a) <= Len(b) /\ (Len(a) + 1 <= Len(a) <=> Len(a) + 1 <= Len(b))
  BY <1>2 DEF Coh, Known
<1>4. Len(a) = Len(b)
  BY <1>1, <1>3
<1> QED BY <1>3, <1>4, SeqEqual

\* Where two sequences start alike, and their continuations when they are known, so do
\* both together.
LEMMA CohCat ==
  ASSUME NEW A, NEW K, NEW a \in Seq(A), NEW b \in Seq(A), NEW c \in Seq(A), NEW d \in Seq(A),
         Coh(a, b, K), Known(a, K) => Coh(c, d, K)
  PROVE  Coh(a \o c, b \o d, K)
<1> DEFINE x == a \o c
           y == b \o d
<1>1. Len(a) \in Nat /\ Len(b) \in Nat /\ Len(c) \in Nat /\ Len(d) \in Nat
  OBVIOUS
<1>2. /\ x \in Seq(A) /\ Len(x) = Len(a) + Len(c)
      /\ \A i \in 1 .. Len(a) : x[i] = a[i]
      /\ \A i \in 1 .. Len(c) : x[Len(a) + i] = c[i]
  OBVIOUS
<1>3. /\ y \in Seq(A) /\ Len(y) = Len(b) + Len(d)
      /\ \A i \in 1 .. Len(b) : y[i] = b[i]
      /\ \A i \in 1 .. Len(d) : y[Len(b) + i] = d[i]
  OBVIOUS
<1> HIDE DEF x, y
<1> SUFFICES ASSUME NEW j \in 0 .. Len(x), \A i \in 1 .. j : Key(x[i]) \in K
             PROVE  /\ \A i \in 1 .. j : y[i] = x[i]
                    /\ j <= Len(y)
                    /\ j + 1 <= Len(x) <=> j + 1 <= Len(y)
                    /\ j + 1 <= Len(x) => y[j + 1] = x[j + 1]
  <2>1. Coh(x, y, K)
    BY DEF Coh
  <2> QED BY <2>1 DEF x, y
<1>4. CASE j < Len(a)
  <2>0. j \in 0 .. Len(a) /\ \A i \in 1 .. j + 1 : i \in 1 .. Len(a)
    BY <1>1, <1>2, <1>4
  <2>1. \A i \in 1 .. j : Key(a[i]) \in K
    <3> TAKE i \in 1 .. j
    <3>1. i \in 1 .. Len(a)
      BY <1>1, <1>2, <1>4
    <3>2. x[i] = a[i]
      BY <1>2, <3>1
    <3> QED BY <3>2
  <2>2. /\ \A i \in 1 .. j : b[i] = a[i]
        /\ j + 1 <= Len(b) /\ b[j + 1] = a[j + 1]
    BY <1>1, <1>4, <2>0, <2>1 DEF Coh
  <2>3. ASSUME NEW i \in 1 .. j + 1 PROVE y[i] = b[i] /\ x[i] = a[i] /\ b[i] = a[i]
    <3>1. i \in 1 .. Len(a) /\ i \in 1 .. Len(b)
      BY <1>1, <2>0, <2>2
    <3>2. i \in 1 .. j \/ i = j + 1
      BY <2>0
    <3> QED BY <1>2, <1>3, <2>2, <3>1, <3>2
  <2>4. (\A i \in 1 .. j : y[i] = x[i]) /\ y[j + 1] = x[j + 1]
    <3>1. j + 1 \in 1 .. j + 1 /\ \A i \in 1 .. j : i \in 1 .. j + 1
      BY <2>0
    <3> QED BY <2>3, <3>1
  <2>5. j <= Len(y) /\ j + 1 <= Len(x) /\ j + 1 <= Len(y)
    BY <1>1, <1>2, <1>3, <1>4, <2>0, <2>2
  <2> QED BY <2>4, <2>5
<1>5. CASE j >= Len(a)
  <2>1. Known(a, K)
    BY <1>1, <1>2, <1>5 DEF Known
  <2>2. a = b
    BY <2>1, CohAll
  <2> DEFINE k == j - Len(a)
  <2>3. k \in 0 .. Len(c) /\ j = Len(a) + k
    BY <1>1, <1>2, <1>5
  <2> HIDE DEF k
  <2>4. ASSUME NEW i \in 1 .. k PROVE Key(c[i]) \in K
    <3>1. Len(a) + i \in 1 .. j /\ i \in 1 .. Len(c)
      BY <1>1, <2>3
    <3> QED BY <1>2, <3>1
  <2>5. /\ \A i \in 1 .. k : d[i] = c[i]
        /\ k <= Len(d)
        /\ k + 1 <= Len(c) <=> k + 1 <= Len(d)
        /\ k + 1 <= Len(c) => d[k + 1] = c[k + 1]
    BY <2>1, <2>3, <2>4 DEF Coh
  <2>6. ASSUME NEW i \in 1 .. j PROVE y[i] = x[i]
    <3>1. CASE i <= Len(a)
      BY <1>1, <1>2, <1>3, <2>2, <3>1
    <3>2. CASE i > Len(a)
      <4>1. i - Len(a) \in 1 .. k /\ i - Len(a) \in 1 .. Len(c) /\ i - Len(a) \in 1 .. Len(d) /\ i = Len(a) + (i - Len(a))
        BY <1>1, <2>3, <2>5, <3>2
      <4>2. y[Len(a) + (i - Len(a))] = x[Len(a) + (i - Len(a))]
        BY <1>2, <1>3, <2>2, <2>5, <4>1
      <4> QED BY <4>1, <4>2
    <3> QED BY <1>1, <3>1, <3>2
  <2>7. j + 1 <= Len(x) => y[j + 1] = x[j + 1]
    <3> SUFFICES ASSUME j + 1 <= Len(x) PROVE y[j + 1] = x[j + 1]
      OBVIOUS
    <3>1. k + 1 \in 1 .. Len(c) /\ k + 1 \in 1 .. Len(d) /\ j + 1 = Len(a) + (k + 1)
      BY <1>1, <1>2, <2>3, <2>5
    <3>2. y[Len(b) + (k + 1)] = d[k + 1] /\ x[Len(a) + (k + 1)] = c[k + 1] /\ d[k + 1] = c[k + 1]
      <4>1. \A i \in 1 .. Len(d) : y[Len(b) + i] = d[i]
        BY <1>3
      <4>2. \A i \in 1 .. Len(c) : x[Len(a) + i] = c[i]
        BY <1>2
      <4>3. d[k + 1] = c[k + 1]
        BY <1>1, <2>3, <2>5, <3>1
      <4> QED BY <3>1, <4>1, <4>2, <4>3
    <3>3. y[Len(a) + (k + 1)] = x[Len(a) + (k + 1)]
      BY <2>2, <3>2
    <3> QED BY <3>1, <3>3
  <2>8. j <= Len(y) /\ (j + 1 <= Len(x) <=> j + 1 <= Len(y))
    BY <1>1, <1>2, <1>3, <2>2, <2>3, <2>5
  <2> QED BY <2>6, <2>7, <2>8
<1> QED BY <1>1, <1>4, <1>5

\* What is known of two sequences together is known of each.
LEMMA KnownCat ==
  ASSUME NEW A, NEW K, NEW a \in Seq(A), NEW c \in Seq(A)
  PROVE  a \o c \in Seq(A) /\ (Known(a \o c, K) => Known(a, K) /\ Known(c, K))
<1>1. Len(a) \in Nat /\ Len(c) \in Nat
  OBVIOUS
<1>2. /\ a \o c \in Seq(A) /\ Len(a \o c) = Len(a) + Len(c)
      /\ \A i \in 1 .. Len(a) : (a \o c)[i] = a[i]
      /\ \A i \in 1 .. Len(c) : (a \o c)[Len(a) + i] = c[i]
  OBVIOUS
<1> DEFINE x == a \o c
<1> HIDE DEF x
<1>3. /\ x \in Seq(A) /\ Len(x) = Len(a) + Len(c)
      /\ \A i \in 1 .. Len(a) : x[i] = a[i]
      /\ \A i \in 1 .. Len(c) : x[Len(a) + i] = c[i]
  BY <1>2 DEF x
<1>4. ASSUME Known(x, K) PROVE Known(a, K) /\ Known(c, K)
  <2>1. Known(a, K)
    BY <1>1, <1>3, <1>4 DEF Known
  <2>2. ASSUME NEW i \in 1 .. Len(c) PROVE Key(c[i]) \in K
    <3>1. Len(a) + i \in 1 .. Len(x)
      BY <1>1, <1>3
    <3> QED BY <1>3, <1>4, <3>1 DEF Known
  <2> QED BY <2>1, <2>2 DEF Known
<1> QED BY <1>3, <1>4 DEF x

-----------------------------------------------------------------------------
(* Pieces *)

LEMMA InSyntax ==
  ASSUME NEW N, NEW M, M \subseteq N, NEW names \in Seq(M), NEW n \in Nat
  PROVE  u(n, names) \in Syntax(N) /\ ue(names) \in Syntax(N) /\ se(names) \in Syntax(N)
<1>1. Len(names) \in Nat /\ DOMAIN names = 1 .. Len(names) /\ \A i \in 1 .. Len(names) : names[i] \in M
  OBVIOUS
<1> QED BY <1>1 DEF u, ue, se, Syntax, ElOf, Codes

\* When the elements of a piece are read, their names are known.
LEMMA Told ==
  ASSUME NEW names, NEW m \in Nat, DOMAIN names = 1 .. m, NEW n, NEW K
  PROVE  /\ Known(u(n, names), K) => \A i \in 1 .. m : <<names[i], 0>> \in K
         /\ Known(ue(names), K) => \A i \in 1 .. m : <<names[i], 0>> \in K
<1>1. Len(u(n, names)) = m /\ Len(ue(names)) = m
  BY DEF u, ue
<1>2. \A i \in 1 .. m : Key(u(n, names)[i]) = <<names[i], 0>> /\ Key(ue(names)[i]) = <<names[i], 0>>
  BY DEF u, ue, Key
<1> QED BY <1>1, <1>2 DEF Known

\* An optional part has the elements of the part.
LEMMA WhenIn ==
  ASSUME NEW A, NEW c, NEW s \in Seq(A)
  PROVE  When(c, s) \in Seq(A)
BY DEF When

\* Optional parts under the same condition start alike.
LEMMA CohWhen ==
  ASSUME NEW A, NEW K, NEW p, NEW q, p <=> q, NEW s \in Seq(A), NEW t \in Seq(A), p => Coh(s, t, K)
  PROVE  Coh(When(p, s), When(q, t), K)
<1>1. <<>> \in Seq(A)
  OBVIOUS
<1>2. Coh(<<>>, <<>>, K)
  BY <1>1, CohSame
<1> QED BY <1>2 DEF When

\* A field, or 0 in its place, is a number.
LEMMA AtInt ==
  ASSUME NEW e, IntFields(e), NEW name, NEW i
  PROVE  At(e, name, i) \in Int
BY DEF At, IntFields

\* A known field has one value for writer and reader.
LEMMA AtAgree ==
  ASSUME NEW e, NEW d, NEW K, Agree(e, d, K), NEW name, NEW i, <<name, i>> \in K
  PROVE  At(e, name, i) = At(d, name, i)
BY DEF Agree, At

\* A flag with an optional part is made of elements.
LEMMA OptIn ==
  ASSUME NEW N, NEW e, NEW flag \in N, NEW s \in Syntax(N)
  PROVE  Opt(e, flag, s) \in Syntax(N)
<1>1. u(1, <<flag>>) \in Syntax(N)
  <2>1. <<flag>> \in Seq(N) /\ 1 \in Nat
    OBVIOUS
  <2> QED BY <2>1, InSyntax
<1> QED BY <1>1, WhenIn, KnownCat DEF Opt, OptAt, Syntax

\* Flag and part start alike: behind the flag, both know whether the part is there.
LEMMA CohOpt ==
  ASSUME NEW N, NEW e, NEW d, NEW K, Agree(e, d, K), NEW flag \in N, NEW s \in Syntax(N), NEW t \in Syntax(N),
         <<flag, 0>> \in K => Coh(s, t, K)
  PROVE  Coh(Opt(e, flag, s), Opt(d, flag, t), K)
<1>1. <<flag>> \in Seq(N) /\ DOMAIN <<flag>> = 1 .. 1 /\ <<flag>>[1] = flag /\ 1 \in Nat
  OBVIOUS
<1>2. u(1, <<flag>>) \in Syntax(N)
  BY <1>1, InSyntax
<1>3. Coh(u(1, <<flag>>), u(1, <<flag>>), K)
  BY <1>2, CohSame DEF Syntax
<1>4. Known(u(1, <<flag>>), K) => <<flag, 0>> \in K
  <2>1. Known(u(1, <<flag>>), K) => \A i \in 1 .. 1 : <<<<flag>>[i], 0>> \in K
    BY <1>1, Told
  <2> QED BY <1>1, <2>1
<1>5. <<flag, 0>> \in K => Coh(When(At(e, flag, 0) # 0, s), When(At(d, flag, 0) # 0, t), K)
  <2> SUFFICES ASSUME <<flag, 0>> \in K PROVE Coh(When(At(e, flag, 0) # 0, s), When(At(d, flag, 0) # 0, t), K)
    OBVIOUS
  <2>1. At(e, flag, 0) = At(d, flag, 0)
    BY AtAgree
  <2> QED BY <2>1, CohWhen DEF Syntax
<1> QED BY <1>2, <1>3, <1>4, <1>5, WhenIn, CohCat DEF Opt, OptAt, Syntax

-----------------------------------------------------------------------------
(* Loops *)

LEMMA JoinedIn ==
  ASSUME NEW A, NEW ss \in Seq(Seq(A))
  PROVE  Joined(ss) \in Seq(A)
<1>1. PICK s \in [0 .. Len(ss) -> Seq(A)] : s[Len(ss)] = Joined(ss)
  BY JoinedSteps
<1>2. Len(ss) \in 0 .. Len(ss)
  OBVIOUS
<1> QED BY <1>1, <1>2

\* Giving the elements of a turn their index leaves all else.
LEMMA IndexedIn ==
  ASSUME NEW N, NEW M, M \subseteq N, M \cap Once = {}, NEW t \in Syntax(M), NEW i \in Nat
  PROVE  Indexed(t, i) \in Syntax(N) /\ Len(Indexed(t, i)) = Len(t)
         /\ \A j \in 1 .. Len(t) : Indexed(t, i)[j] = <<t[j][1], t[j][2], t[j][3], i>>
<1>1. Len(t) \in Nat /\ DOMAIN t = 1 .. Len(t) /\ \A j \in 1 .. Len(t) : t[j] \in ElOf(M)
  BY DEF Syntax
<1>2. \A j \in 1 .. Len(t) : <<t[j][1], t[j][2], t[j][3], i>> \in ElOf(N)
  BY <1>1 DEF ElOf
<1> QED BY <1>1, <1>2 DEF Indexed, Syntax

\* A loop is made of elements.
LEMMA LoopIn ==
  ASSUME NEW N, NEW M, M \subseteq N, M \cap Once = {}, NEW t \in Syntax(M), NEW b \in Nat, NEW n \in Int
  PROVE  Joined([k \in 1 .. n |-> Indexed(t, b + k - 1)]) \in Syntax(N)
<1> DEFINE ss == [k \in 1 .. n |-> Indexed(t, b + k - 1)]
<1>1. \A k \in 1 .. n : Indexed(t, b + k - 1) \in Syntax(N)
  <2> TAKE k \in 1 .. n
  <2>1. b + k - 1 \in Nat
    OBVIOUS
  <2> QED BY <2>1, IndexedIn
<1>2. ss \in Seq(Syntax(N))
  <2>1. CASE n \in Nat
    BY <1>1, <2>1
  <2>2. CASE n \notin Nat
    <3>1. 1 .. n = 1 .. 0
      BY <2>2
    <3>2. ss = [k \in 1 .. 0 |-> Indexed(t, b + k - 1)]
      BY <3>1
    <3> QED BY <3>2
  <2> QED BY <2>1, <2>2
<1> HIDE DEF ss
<1>3. Joined(ss) \in Syntax(N)
  BY <1>2, JoinedIn DEF Syntax
<1> QED BY <1>3 DEF ss

\* A loop of one turn is that turn.
LEMMA LoopOnce ==
  ASSUME NEW N, NEW M, M \subseteq N, M \cap Once = {}, NEW t \in Syntax(M), NEW b \in Nat
  PROVE  Joined([k \in 1 .. 1 |-> Indexed(t, b + k - 1)]) = Indexed(t, b)
<1> DEFINE ss == [k \in 1 .. 1 |-> Indexed(t, b + k - 1)]
<1>1. Indexed(t, b) \in Syntax(N)
  BY IndexedIn
<1>2. ss \in Seq(Syntax(N)) /\ Len(ss) = 1 /\ ss[1] = Indexed(t, b)
  <2>1. \A k \in 1 .. 1 : b + k - 1 = b
    OBVIOUS
  <2>2. ss = [k \in 1 .. 1 |-> Indexed(t, b)]
    BY <2>1
  <2> HIDE DEF ss
  <2> QED BY <1>1, <2>2
<1> HIDE DEF ss
<1>3. PICK s \in [0 .. Len(ss) -> Syntax(N)] : /\ s[0] = <<>> /\ s[Len(ss)] = Joined(ss)
                                              /\ \A k \in 1 .. Len(ss) : s[k] = s[k - 1] \o ss[k]
  BY <1>2, JoinedSteps DEF Syntax
<1>4. s[1] = <<>> \o Indexed(t, b) /\ s[1] = Joined(ss)
  <2>1. 1 \in 1 .. Len(ss) /\ 1 - 1 = 0
    BY <1>2
  <2>2. s[1] = s[1 - 1] \o ss[1]
    BY <1>3, <2>1
  <2> QED BY <1>2, <1>3, <2>1, <2>2
<1>5. <<>> \o Indexed(t, b) = Indexed(t, b)
  BY <1>1, ConcatEmptySeq DEF Syntax
<1> QED BY <1>4, <1>5 DEF ss

S == Syntax(Names)
Loops == Syntax(Looped)

\* The names of fields that are in a loop are never used outside of one; none is a
\* state of the stream.
LEMMA Groups ==
  /\ Once \subseteq Names /\ Looped \subseteq Names /\ OfSps \subseteq Names
  /\ OfVui \subseteq Names /\ OfPps \subseteq Names
  /\ Looped \cap Once = {} /\ "eof" \notin Names /\ "more" \notin Names
<1>1. Looped \cap Once = {}
  BY DEF Looped, Once
<1>2. \A x \in {"eof", "more"} : x \notin Once /\ x \notin Looped /\ x \notin OfSps /\ x \notin OfVui /\ x \notin OfPps
  BY DEF Once, Looped, OfSps, OfVui, OfPps
<1> QED BY <1>1, <1>2 DEF Names

\* The pieces of a structure are made of elements.
LEMMA Typed ==
  ASSUME NEW M \in {Once, Looped, OfSps, OfVui, OfPps}, NEW names \in Seq(M), NEW n \in Nat
  PROVE  u(n, names) \in S /\ ue(names) \in S /\ se(names) \in S
<1>1. M \subseteq Names
  BY Groups
<1> QED BY <1>1, InSyntax DEF S

\* So are those of the turns of a loop.
LEMMA LoopTyped ==
  ASSUME NEW names \in Seq(Looped), NEW n \in Nat
  PROVE  u(n, names) \in Loops /\ ue(names) \in Loops /\ se(names) \in Loops
BY InSyntax DEF Loops

\* Which group the names of a piece are of.
LEMMA LoopNames ==
  /\ <<"cpb_cnt_minus1">> \in Seq(Looped)
  /\ <<"bit_rate_scale", "cpb_size_scale">> \in Seq(Looped)
  /\ <<"bit_rate_value_minus1", "cpb_size_value_minus1">> \in Seq(Looped)
  /\ <<"cbr_flag">> \in Seq(Looped)
  /\ <<"initial_cpb_removal_delay_length_minus1", "cpb_removal_delay_length_minus1",
        "dpb_output_delay_length_minus1", "time_offset_length">> \in Seq(Looped)
  /\ <<"seq_scaling_list_present_flag">> \in Seq(Looped)
  /\ <<"offset_for_ref_frame">> \in Seq(Looped)
  /\ <<"run_length_minus1">> \in Seq(Looped)
  /\ <<"top_left", "bottom_right">> \in Seq(Looped)
  /\ <<"slice_group_id">> \in Seq(Looped)
  /\ <<"pic_scaling_list_present_flag">> \in Seq(Looped)
  /\ <<"delta_scale">> \in Seq(Looped)
BY DEF Looped

\* The names in the pieces of the VUI parameters.
LEMMA VuiNames ==
  /\ <<"aspect_ratio_idc">> \in Seq(OfVui)
  /\ <<"sar_width", "sar_height">> \in Seq(OfVui)
  /\ <<"overscan_appropriate_flag">> \in Seq(OfVui)
  /\ <<"video_format">> \in Seq(OfVui)
  /\ <<"video_full_range_flag">> \in Seq(OfVui)
  /\ <<"colour_primaries", "transfer_characteristics", "matrix_coefficients">> \in Seq(OfVui)
  /\ <<"chroma_sample_loc_type_top_field", "chroma_sample_loc_type_bottom_field">> \in Seq(OfVui)
  /\ <<"num_units_in_tick", "time_scale">> \in Seq(OfVui)
  /\ <<"fixed_frame_rate_flag">> \in Seq(OfVui)
  /\ <<"low_delay_hrd_flag">> \in Seq(OfVui)
  /\ <<"pic_struct_present_flag">> \in Seq(OfVui)
  /\ <<"motion_vectors_over_pic_boundaries_flag">> \in Seq(OfVui)
  /\ <<"max_bytes_per_pic_denom", "max_bits_per_mb_denom", "log2_max_mv_length_horizontal",
        "log2_max_mv_length_vertical", "num_reorder_frames", "max_dec_frame_buffering">> \in Seq(OfVui)
BY DEF OfVui

\* The names in the pieces of a sequence parameter set.
LEMMA SpsNames ==
  /\ <<"profile_idc">> \in Seq(Once)
  /\ <<"constraint_set0_flag", "constraint_set1_flag", "constraint_set2_flag",
        "constraint_set3_flag", "constraint_set4_flag", "constraint_set5_flag">> \in Seq(OfSps)
  /\ <<"reserved_zero_2bits">> \in Seq(OfSps)
  /\ <<"level_idc">> \in Seq(OfSps)
  /\ <<"seq_parameter_set_id">> \in Seq(Once)
  /\ <<"chroma_format_idc">> \in Seq(Once)
  /\ <<"separate_colour_plane_flag">> \in Seq(OfSps)
  /\ <<"bit_depth_luma_minus8", "bit_depth_chroma_minus8">> \in Seq(OfSps)
  /\ <<"qpprime_y_zero_transform_bypass_flag">> \in Seq(OfSps)
  /\ <<"log2_max_frame_num_minus4", "pic_order_cnt_type">> \in Seq(OfSps)
  /\ <<"log2_max_pic_order_cnt_lsb_minus4">> \in Seq(OfSps)
  /\ <<"delta_pic_order_always_zero_flag">> \in Seq(OfSps)
  /\ <<"offset_for_non_ref_pic", "offset_for_top_to_bottom_field">> \in Seq(OfSps)
  /\ <<"num_ref_frames_in_pic_order_cnt_cycle">> \in Seq(OfSps)
  /\ <<"max_num_ref_frames">> \in Seq(OfSps)
  /\ <<"gaps_in_frame_num_value_allowed_flag">> \in Seq(OfSps)
  /\ <<"pic_width_in_mbs_minus1", "pic_height_in_map_units_minus1">> \in Seq(Once)
  /\ <<"frame_mbs_only_flag">> \in Seq(Once)
  /\ <<"mb_adaptive_frame_field_flag">> \in Seq(OfSps)
  /\ <<"direct_8x8_inference_flag">> \in Seq(OfSps)
  /\ <<"frame_crop_left_offset", "frame_crop_right_offset",
        "frame_crop_top_offset", "frame_crop_bottom_offset">> \in Seq(Once)
BY DEF OfSps, Once

\* The elements of two sequences, one behind the other.
LEMMA Cat ==
  ASSUME NEW A, NEW c \in Seq(A), NEW d \in Seq(A)
  PROVE  /\ c \o d \in Seq(A) /\ Len(c) \in Nat /\ Len(d) \in Nat /\ Len(c \o d) = Len(c) + Len(d)
         /\ \A i \in 1 .. Len(c) : (c \o d)[i] = c[i]
         /\ \A i \in 1 .. Len(d) : (c \o d)[Len(c) + i] = d[i]
OBVIOUS

\* The first of them.
LEMMA CatFirst ==
  ASSUME NEW A, NEW a \in Seq(A), NEW b \in Seq(A), Len(a) = 1
  PROVE  (a \o b)[1] = a[1] /\ Len(a \o b) \in Nat /\ Len(a \o b) >= 1
<1>1. /\ Len(a) \in Nat /\ Len(b) \in Nat /\ Len(a \o b) = Len(a) + Len(b)
      /\ \A i \in 1 .. Len(a) : (a \o b)[i] = a[i]
  BY Cat
<1>2. 1 \in 1 .. Len(a)
  BY <1>1
<1> QED BY <1>1, <1>2

\* Two sequences that start alike, and what is known behind them.
Links(a, b, G, K) ==
    a \in S /\ b \in S /\ Coh(a, b, K) /\ (Known(a, K) => G \subseteq K)

\* A piece both sides have.
LEMMA Start ==
  ASSUME NEW K, NEW a \in S, NEW G, Known(a, K) => G \subseteq K
  PROVE  Links(a, a, G, K)
BY CohSame DEF Links, S, Syntax

\* Another piece each, alike if what is known before decides it.
LEMMA Link ==
  ASSUME NEW K, NEW G, NEW a, NEW b, Links(a, b, G, K), NEW c \in S, NEW d \in S, NEW H,
         G \subseteq K => Coh(c, d, K), Known(c, K) => H \subseteq K
  PROVE  Links(a \o c, b \o d, G \cup H, K)
<1>1. a \o c \in S /\ b \o d \in S /\ (Known(a \o c, K) => Known(a, K) /\ Known(c, K))
  BY KnownCat DEF Links, S, Syntax
<1>2. Coh(a \o c, b \o d, K)
  <2>1. Known(a, K) => Coh(c, d, K)
    BY DEF Links
  <2> QED BY <2>1, CohCat DEF Links, S, Syntax
<1> QED BY <1>1, <1>2 DEF Links

\* Another piece both sides have.
LEMMA LinkSame ==
  ASSUME NEW K, NEW G, NEW a, NEW b, Links(a, b, G, K), NEW c \in S
  PROVE  Links(a \o c, b \o c, G, K)
<1>1. Coh(c, c, K)
  BY CohSame DEF S, Syntax
<1>2. Links(a \o c, b \o c, G \cup {}, K)
  BY <1>1, Link
<1>3. G \cup {} = G
  OBVIOUS
<1> QED BY <1>2, <1>3

\* Another flag with an optional part.
LEMMA LinkOpt ==
  ASSUME NEW K, NEW G, NEW a, NEW b, Links(a, b, G, K), NEW e, NEW d, Agree(e, d, K),
         NEW flag \in Names, NEW s \in S, NEW t \in S, <<flag, 0>> \in K => Coh(s, t, K)
  PROVE  /\ Links(a \o Opt(e, flag, s), b \o Opt(d, flag, t), G, K)
         /\ Links(a \o Opt(e, flag, s), b \o Opt(d, flag, t), G \cup {<<flag, 0>>}, K)
<1>1. Coh(Opt(e, flag, s), Opt(d, flag, t), K)
  BY CohOpt DEF S
<1>2. Opt(e, flag, s) \in S /\ Opt(d, flag, t) \in S
  BY OptIn DEF S
<1>3. Known(Opt(e, flag, s), K) => {<<flag, 0>>} \subseteq K
  <2>1. <<flag>> \in Seq(Names) /\ 1 \in Nat /\ DOMAIN <<flag>> = 1 .. 1 /\ <<flag>>[1] = flag
    OBVIOUS
  <2>2. u(1, <<flag>>) \in S /\ When(At(e, flag, 0) # 0, s) \in S
    BY <2>1, InSyntax, WhenIn DEF S, Syntax
  <2>3. Known(Opt(e, flag, s), K) => Known(u(1, <<flag>>), K)
    BY <2>2, KnownCat DEF Opt, OptAt, S, Syntax
  <2>4. Known(u(1, <<flag>>), K) => \A i \in 1 .. 1 : <<<<flag>>[i], 0>> \in K
    BY <2>1, Told
  <2> QED BY <2>1, <2>3, <2>4
<1>4. Links(a \o Opt(e, flag, s), b \o Opt(d, flag, t), G \cup {}, K)
  BY <1>1, <1>2, Link
<1>5. Links(a \o Opt(e, flag, s), b \o Opt(d, flag, t), G \cup {<<flag, 0>>}, K)
  BY <1>1, <1>2, <1>3, Link
<1>6. G \cup {} = G
  OBVIOUS
<1> QED BY <1>4, <1>5, <1>6

\* Another flag with the same optional part.
LEMMA LinkSameOpt ==
  ASSUME NEW K, NEW G, NEW a, NEW b, Links(a, b, G, K), NEW e, NEW d, Agree(e, d, K),
         NEW flag \in Names, NEW s \in S
  PROVE  Links(a \o Opt(e, flag, s), b \o Opt(d, flag, s), G, K)
<1>1. Coh(s, s, K)
  BY CohSame DEF S, Syntax
<1> QED BY <1>1, LinkOpt

\* Another optional part, under a condition that what is known before decides.
LEMMA LinkWhen ==
  ASSUME NEW K, NEW G, NEW a, NEW b, Links(a, b, G, K), NEW p, NEW q, NEW s \in S, NEW t \in S,
         G \subseteq K => (p <=> q), G \subseteq K => Coh(s, t, K)
  PROVE  Links(a \o When(p, s), b \o When(q, t), G, K)
<1>1. When(p, s) \in S /\ When(q, t) \in S
  BY WhenIn DEF S, Syntax
<1>2. G \subseteq K => Coh(When(p, s), When(q, t), K)
  <2> SUFFICES ASSUME G \subseteq K PROVE Coh(When(p, s), When(q, t), K)
    OBVIOUS
  <2> QED BY CohWhen DEF S, Syntax
<1>3. Links(a \o When(p, s), b \o When(q, t), G \cup {}, K)
  BY <1>1, <1>2, Link
<1>4. G \cup {} = G
  OBVIOUS
<1> QED BY <1>3, <1>4

-----------------------------------------------------------------------------
(* HRD parameters *)

LEMMA HrdLinks ==
  ASSUME NEW e, NEW d, NEW K, Agree(e, d, K), IntFields(e), IntFields(d), NEW b \in Nat
  PROVE  /\ hrd_parameters(e, b) \in S /\ hrd_parameters(d, b) \in S
         /\ Coh(hrd_parameters(e, b), hrd_parameters(d, b), K)
<1> DEFINE t1 == ue(<<"cpb_cnt_minus1">>) \o u(4, <<"bit_rate_scale", "cpb_size_scale">>)
           t2 == ue(<<"bit_rate_value_minus1", "cpb_size_value_minus1">>) \o u(1, <<"cbr_flag">>)
           t3 == u(5, <<"initial_cpb_removal_delay_length_minus1",
                 "cpb_removal_delay_length_minus1", "dpb_output_delay_length_minus1", "time_offset_length">>)
           A == Joined([k \in 1 .. 1 |-> Indexed(t1, b + k - 1)])
           B2(n) == Joined([k \in 1 .. n |-> Indexed(t2, b + k - 1)])
           C == Joined([k \in 1 .. 1 |-> Indexed(t3, b + k - 1)])
           n1 == At(e, "cpb_cnt_minus1", b) + 1
           n2 == At(d, "cpb_cnt_minus1", b) + 1
<1>1. hrd_parameters(e, b) = (A \o B2(n1)) \o C /\ hrd_parameters(d, b) = (A \o B2(n2)) \o C
  BY DEF hrd_parameters, Each
<1>2. t1 \in Loops /\ t2 \in Loops /\ t3 \in Loops /\ t1[1][3] = "cpb_cnt_minus1" /\ Len(t1) \in Nat /\ Len(t1) >= 1
  <2>1. ue(<<"cpb_cnt_minus1">>) \in Loops
    BY LoopTyped, LoopNames
  <2>2. u(4, <<"bit_rate_scale", "cpb_size_scale">>) \in Loops
    BY LoopTyped, LoopNames
  <2>3. ue(<<"bit_rate_value_minus1", "cpb_size_value_minus1">>) \in Loops
    BY LoopTyped, LoopNames
  <2>4. u(1, <<"cbr_flag">>) \in Loops
    BY LoopTyped, LoopNames
  <2>5. t3 \in Loops
    BY LoopTyped, LoopNames
  <2>6. ue(<<"cpb_cnt_minus1">>)[1][3] = "cpb_cnt_minus1" /\ Len(ue(<<"cpb_cnt_minus1">>)) = 1
    BY DEF ue
  <2>7. t1 \in Loops /\ t2 \in Loops
    BY <2>1, <2>2, <2>3, <2>4, KnownCat DEF Loops, Syntax
  <2>8. t1[1] = ue(<<"cpb_cnt_minus1">>)[1] /\ Len(t1) \in Nat /\ Len(t1) >= 1
    <3> DEFINE x == ue(<<"cpb_cnt_minus1">>)
               y == u(4, <<"bit_rate_scale", "cpb_size_scale">>)
    <3>1. x \in Seq(ElOf(Looped)) /\ y \in Seq(ElOf(Looped)) /\ Len(x) = 1
      BY <2>1, <2>2, <2>6 DEF Loops, Syntax
    <3>2. t1 = x \o y
      OBVIOUS
    <3> HIDE DEF x, y, t1
    <3>3. t1[1] = x[1] /\ Len(t1) \in Nat /\ Len(t1) >= 1
      BY <3>1, <3>2, CatFirst
    <3> QED BY <3>3 DEF x
  <2> QED BY <2>5, <2>6, <2>7, <2>8
<1>3. n1 \in Int /\ n2 \in Int
  <2>1. At(e, "cpb_cnt_minus1", b) \in Int /\ At(d, "cpb_cnt_minus1", b) \in Int
    BY AtInt
  <2> QED BY <2>1
<1> HIDE DEF t1, t2, t3, n1, n2
<1>4. A \in S /\ C \in S /\ B2(n1) \in S /\ B2(n2) \in S
  <2>1. 1 \in Int
    OBVIOUS
  <2> QED BY <1>2, <1>3, <2>1, LoopIn, Groups DEF Loops, S
<1>5. Known(A, K) => {<<"cpb_cnt_minus1", b>>} \subseteq K
  <2>1. A = Indexed(t1, b)
    BY <1>2, LoopOnce, Groups DEF Loops
  <2>2. Len(Indexed(t1, b)) = Len(t1) /\ Indexed(t1, b)[1] = <<t1[1][1], t1[1][2], t1[1][3], b>>
    <3>1. 1 \in 1 .. Len(t1)
      BY <1>2
    <3> QED BY <1>2, <3>1, IndexedIn, Groups DEF Loops
  <2>3. Known(A, K) => Key(A[1]) \in K
    BY <1>2, <2>1, <2>2 DEF Known
  <2>4. Key(A[1]) = <<"cpb_cnt_minus1", b>>
    BY <1>2, <2>1, <2>2 DEF Key
  <2> QED BY <2>3, <2>4
<1> HIDE DEF A, B2, C
<1>6. Links(A, A, {<<"cpb_cnt_minus1", b>>}, K)
  BY <1>4, <1>5, Start
<1>7. {<<"cpb_cnt_minus1", b>>} \subseteq K => Coh(B2(n1), B2(n2), K)
  <2> SUFFICES ASSUME <<"cpb_cnt_minus1", b>> \in K PROVE Coh(B2(n1), B2(n2), K)
    OBVIOUS
  <2>1. n1 = n2
    BY AtAgree DEF n1, n2
  <2>2. Coh(B2(n1), B2(n1), K)
    BY <1>4, CohSame DEF S, Syntax
  <2> QED BY <2>1, <2>2
<1>8. Links(A \o B2(n1), A \o B2(n2), {<<"cpb_cnt_minus1", b>>} \cup {}, K)
  BY <1>4, <1>6, <1>7, Link
<1>9. Links((A \o B2(n1)) \o C, (A \o B2(n2)) \o C, {<<"cpb_cnt_minus1", b>>} \cup {}, K)
  BY <1>4, <1>8, LinkSame
<1> QED BY <1>1, <1>9 DEF Links

\* The flags of the VUI parameters.
LEMMA VuiFlags ==
  /\ "aspect_ratio_info_present_flag" \in Names /\ "overscan_info_present_flag" \in Names
  /\ "video_signal_type_present_flag" \in Names /\ "colour_description_present_flag" \in Names
  /\ "chroma_loc_info_present_flag" \in Names /\ "timing_info_present_flag" \in Names
  /\ "nal_hrd_parameters_present_flag" \in Names /\ "vcl_hrd_parameters_present_flag" \in Names
  /\ "bitstream_restriction_flag" \in Names
BY Groups DEF OfVui

\* The flags of a sequence parameter set.
LEMMA SpsFlags ==
  /\ "seq_scaling_matrix_present_flag" \in Names /\ "frame_cropping_flag" \in Names
  /\ "vui_parameters_present_flag" \in Names
BY Groups DEF OfSps

\* Two pieces are made of elements when each of them is.
LEMMA JoinTyped ==
  ASSUME NEW a \in S, NEW b \in S
  PROVE  a \o b \in S
BY KnownCat DEF S, Syntax

\* A flag with an optional part at the start.
LEMMA StartOpt ==
  ASSUME NEW K, NEW e, NEW d, Agree(e, d, K),
         NEW flag \in Names, NEW s \in S, NEW t \in S, <<flag, 0>> \in K => Coh(s, t, K)
  PROVE  Links(Opt(e, flag, s), Opt(d, flag, t), {}, K)
<1>1. Coh(Opt(e, flag, s), Opt(d, flag, t), K)
  BY CohOpt DEF S
<1>2. Opt(e, flag, s) \in S /\ Opt(d, flag, t) \in S
  BY OptIn DEF S
<1> QED BY <1>1, <1>2 DEF Links

\* What is known behind the second of two pieces.
LEMMA TwoPieces ==
  ASSUME NEW K, NEW a \in S, NEW b \in S, NEW G, Known(b, K) => G \subseteq K
  PROVE  a \o b \in S /\ (Known(a \o b, K) => G \subseteq K)
BY KnownCat DEF S, Syntax

\* The VUI parameters are asked for as they are sent.
LEMMA VuiLinks ==
  ASSUME NEW e, NEW d, NEW K, Agree(e, d, K), IntFields(e), IntFields(d)
  PROVE  /\ vui_parameters(e) \in S /\ vui_parameters(d) \in S
         /\ Coh(vui_parameters(e), vui_parameters(d), K)
<1> DEFINE s1 == u(8, <<"aspect_ratio_idc">>)
           s2 == u(16, <<"sar_width", "sar_height">>)
           a(z) == s1 \o When(F(z, "aspect_ratio_idc") = 255, s2)
           b == u(1, <<"overscan_appropriate_flag">>)
           c1 == u(3, <<"video_format">>) \o u(1, <<"video_full_range_flag">>)
           c2 == u(8, <<"colour_primaries", "transfer_characteristics", "matrix_coefficients">>)
           c(z) == c1 \o Opt(z, "colour_description_present_flag", c2)
           l == ue(<<"chroma_sample_loc_type_top_field", "chroma_sample_loc_type_bottom_field">>)
           t == u(32, <<"num_units_in_tick", "time_scale">>) \o u(1, <<"fixed_frame_rate_flag">>)
           y == u(1, <<"low_delay_hrd_flag">>)
           p == u(1, <<"pic_struct_present_flag">>)
           r == u(1, <<"motion_vectors_over_pic_boundaries_flag">>)
                \o ue(<<"max_bytes_per_pic_denom", "max_bits_per_mb_denom", "log2_max_mv_length_horizontal",
                   "log2_max_mv_length_vertical", "num_reorder_frames", "max_dec_frame_buffering">>)
           low(z) == F(z, "nal_hrd_parameters_present_flag") + F(z, "vcl_hrd_parameters_present_flag") > 0
           X1(z) == Opt(z, "aspect_ratio_info_present_flag", a(z))
           X2(z) == X1(z) \o Opt(z, "overscan_info_present_flag", b)
           X3(z) == X2(z) \o Opt(z, "video_signal_type_present_flag", c(z))
           X4(z) == X3(z) \o Opt(z, "chroma_loc_info_present_flag", l)
           X5(z) == X4(z) \o Opt(z, "timing_info_present_flag", t)
           X6(z) == X5(z) \o Opt(z, "nal_hrd_parameters_present_flag", hrd_parameters(z, 0))
           X7(z) == X6(z) \o Opt(z, "vcl_hrd_parameters_present_flag", hrd_parameters(z, Second))
           X8(z) == X7(z) \o When(low(z), y)
           X9(z) == X8(z) \o p
           X10(z) == X9(z) \o Opt(z, "bitstream_restriction_flag", r)
<1>1. vui_parameters(e) = X10(e) /\ vui_parameters(d) = X10(d)
  BY DEF vui_parameters
<1>2. s1 \in S /\ s2 \in S /\ b \in S /\ c1 \in S /\ c2 \in S /\ l \in S /\ t \in S /\ y \in S /\ p \in S /\ r \in S
  <2>1. s1 \in S /\ s2 \in S /\ b \in S /\ c2 \in S /\ l \in S /\ y \in S /\ p \in S
    BY Typed, VuiNames
  <2>2. c1 \in S
    BY Typed, VuiNames, JoinTyped
  <2>3. t \in S
    BY Typed, VuiNames, JoinTyped
  <2>4. r \in S
    BY Typed, VuiNames, JoinTyped
  <2> QED BY <2>1, <2>2, <2>3, <2>4
<1>3. Links(a(e), a(d), {<<"aspect_ratio_idc", 0>>}, K)
  <2>1. Known(s1, K) => {<<"aspect_ratio_idc", 0>>} \subseteq K
    <3>1. DOMAIN <<"aspect_ratio_idc">> = 1 .. 1 /\ 1 \in Nat /\ <<"aspect_ratio_idc">>[1] = "aspect_ratio_idc"
      OBVIOUS
    <3>2. Known(s1, K) => \A i \in 1 .. 1 : <<<<"aspect_ratio_idc">>[i], 0>> \in K
      BY <3>1, Told
    <3> QED BY <3>1, <3>2
  <2> HIDE DEF s1, s2
  <2>2. Links(s1, s1, {<<"aspect_ratio_idc", 0>>}, K)
    BY <1>2, <2>1, Start
  <2>3. {<<"aspect_ratio_idc", 0>>} \subseteq K => (F(e, "aspect_ratio_idc") = 255 <=> F(d, "aspect_ratio_idc") = 255)
    BY AtAgree DEF F
  <2>4. Coh(s2, s2, K)
    BY <1>2, CohSame DEF S, Syntax
  <2> QED BY <1>2, <2>2, <2>3, <2>4, LinkWhen
<1>4. Links(c(e), c(d), {}, K)
  <2> HIDE DEF c1, c2
  <2>1. Links(c1, c1, {}, K)
    BY <1>2, Start
  <2> QED BY <1>2, <2>1, LinkSameOpt, VuiFlags
<1> HIDE DEF a, b, c, l, t, y, p, r, s1, s2, c1, c2
<1>5. a(e) \in S /\ a(d) \in S /\ Coh(a(e), a(d), K) /\ c(e) \in S /\ c(d) \in S /\ Coh(c(e), c(d), K)
  BY <1>3, <1>4 DEF Links
<1>6. Links(X1(e), X1(d), {}, K)
  BY <1>5, StartOpt, VuiFlags
<1> HIDE DEF X1
<1>7. Links(X2(e), X2(d), {}, K)
  BY <1>2, <1>6, LinkSameOpt, VuiFlags
<1> HIDE DEF X2
<1>8. Links(X3(e), X3(d), {}, K)
  BY <1>5, <1>7, LinkOpt, VuiFlags
<1> HIDE DEF X3
<1>9. Links(X4(e), X4(d), {}, K)
  BY <1>2, <1>8, LinkSameOpt, VuiFlags
<1> HIDE DEF X4
<1>10. Links(X5(e), X5(d), {}, K)
  BY <1>2, <1>9, LinkSameOpt, VuiFlags
<1> HIDE DEF X5
<1>h. \A b0 \in {0, Second} : /\ hrd_parameters(e, b0) \in S /\ hrd_parameters(d, b0) \in S
                              /\ Coh(hrd_parameters(e, b0), hrd_parameters(d, b0), K)
  <2>1. 0 \in Nat /\ Second \in Nat
    BY DEF Second
  <2> QED BY <2>1, HrdLinks
<1>11. Links(X6(e), X6(d), {} \cup {<<"nal_hrd_parameters_present_flag", 0>>}, K)
  BY <1>h, <1>10, LinkOpt, VuiFlags
<1> HIDE DEF X6
<1> DEFINE G == ({} \cup {<<"nal_hrd_parameters_present_flag", 0>>}) \cup {<<"vcl_hrd_parameters_present_flag", 0>>}
<1>12. Links(X7(e), X7(d), G, K)
  BY <1>h, <1>11, LinkOpt, VuiFlags
<1> HIDE DEF X7
<1>13. Links(X8(e), X8(d), G, K)
  <2>1. G \subseteq K => (low(e) <=> low(d))
    BY AtAgree DEF F
  <2>2. Coh(y, y, K)
    BY <1>2, CohSame DEF S, Syntax
  <2> HIDE DEF G, low
  <2> QED BY <1>2, <1>12, <2>1, <2>2, LinkWhen
<1> HIDE DEF X8, G
<1>14. Links(X9(e), X9(d), G, K)
  BY <1>2, <1>13, LinkSame
<1> HIDE DEF X9
<1>15. Links(X10(e), X10(d), G, K)
  BY <1>2, <1>14, LinkSameOpt, VuiFlags
<1> QED BY <1>1, <1>15 DEF Links

\* Fields every sequence parameter set has.
SpsKeys == {<<"profile_idc", 0>>, <<"reserved_zero_2bits", 0>>}

\* Sequence parameter sets of a profile the parser knows are asked for as they are
\* sent.
LEMMA SpsLinks ==
  ASSUME NEW e, NEW d, NEW K, Agree(e, d, K), IntFields(e), IntFields(d), ~UnknownProfile(e)
  PROVE  Links(seq_parameter_set("sent", e), seq_parameter_set("read", d), SpsKeys, K)
<1> DEFINE p1 == u(8, <<"profile_idc">>)
           p2 == u(1, <<"constraint_set0_flag", "constraint_set1_flag", "constraint_set2_flag",
              "constraint_set3_flag", "constraint_set4_flag", "constraint_set5_flag">>)
           p3 == u(2, <<"reserved_zero_2bits">>)
           p4 == u(8, <<"level_idc">>)
           p5 == ue(<<"seq_parameter_set_id">>)
           h1 == ue(<<"chroma_format_idc">>)
           h2 == u(1, <<"separate_colour_plane_flag">>)
           h3 == ue(<<"bit_depth_luma_minus8", "bit_depth_chroma_minus8">>)
           h4 == u(1, <<"qpprime_y_zero_transform_bypass_flag">>)
           h5 == u(1, <<"seq_scaling_list_present_flag">>)
           lists(n) == Joined([k \in 1 .. n |-> Indexed(h5, 0 + k - 1)])
           many(s, z) == IF s # "written" /\ F(z, "chroma_format_idc") = 3 THEN 12 ELSE 8
           H1(z) == h1 \o When(F(z, "chroma_format_idc") = 3, h2)
           H2(z) == H1(z) \o h3
           H3(z) == H2(z) \o h4
           H(s, z) == H3(z) \o Opt(z, "seq_scaling_matrix_present_flag", lists(many(s, z)))
           p7 == ue(<<"log2_max_frame_num_minus4", "pic_order_cnt_type">>)
           p8 == ue(<<"log2_max_pic_order_cnt_lsb_minus4">>)
           o1 == u(1, <<"delta_pic_order_always_zero_flag">>)
           o2 == se(<<"offset_for_non_ref_pic", "offset_for_top_to_bottom_field">>)
           o3 == ue(<<"num_ref_frames_in_pic_order_cnt_cycle">>)
           o4 == se(<<"offset_for_ref_frame">>)
           O3 == (o1 \o o2) \o o3
           cycle(n) == Joined([k \in 1 .. n |-> Indexed(o4, 0 + k - 1)])
           O(z) == O3 \o cycle(F(z, "num_ref_frames_in_pic_order_cnt_cycle"))
           p10 == ue(<<"max_num_ref_frames">>)
           p11 == u(1, <<"gaps_in_frame_num_value_allowed_flag">>)
           p12 == ue(<<"pic_width_in_mbs_minus1", "pic_height_in_map_units_minus1">>)
           p13 == u(1, <<"frame_mbs_only_flag">>)
           p14 == u(1, <<"mb_adaptive_frame_field_flag">>)
           p15 == u(1, <<"direct_8x8_inference_flag">>)
           p16 == ue(<<"frame_crop_left_offset", "frame_crop_right_offset",
                "frame_crop_top_offset", "frame_crop_bottom_offset">>)
           X2 == p1 \o p2
           X3 == X2 \o p3
           X4 == X3 \o p4
           X5 == X4 \o p5
           X6(s, z) == X5 \o When(F(z, "profile_idc") \in HighProfiles(s), H(s, z))
           X7(s, z) == X6(s, z) \o p7
           X8(s, z) == X7(s, z) \o When(F(z, "pic_order_cnt_type") = 0, p8)
           X9(s, z) == X8(s, z) \o When(F(z, "pic_order_cnt_type") = 1, O(z))
           X10(s, z) == X9(s, z) \o p10
           X11(s, z) == X10(s, z) \o p11
           X12(s, z) == X11(s, z) \o p12
           X13(s, z) == X12(s, z) \o p13
           X14(s, z) == X13(s, z) \o When(F(z, "frame_mbs_only_flag") = 0, p14)
           X15(s, z) == X14(s, z) \o p15
           X16(s, z) == X15(s, z) \o Opt(z, "frame_cropping_flag", p16)
           X17(s, z) == X16(s, z) \o Opt(z, "vui_parameters_present_flag", vui_parameters(z))
<1>1. seq_parameter_set("sent", e) = X17("sent", e) /\ seq_parameter_set("read", d) = X17("read", d)
  BY DEF seq_parameter_set, Each
<1>2. /\ p1 \in S /\ p2 \in S /\ p3 \in S /\ p4 \in S /\ p5 \in S /\ p7 \in S /\ p8 \in S /\ p10 \in S
      /\ p11 \in S /\ p12 \in S /\ p13 \in S /\ p14 \in S /\ p15 \in S /\ p16 \in S
  BY Typed, SpsNames
<1>3. /\ h1 \in S /\ h2 \in S /\ h3 \in S /\ h4 \in S /\ h5 \in Loops
      /\ o1 \in S /\ o2 \in S /\ o3 \in S /\ o4 \in Loops
  BY Typed, SpsNames, LoopTyped, LoopNames
<1>4. /\ Known(p1, K) => {<<"profile_idc", 0>>} \subseteq K
      /\ Known(p3, K) => {<<"reserved_zero_2bits", 0>>} \subseteq K
      /\ Known(h1, K) => {<<"chroma_format_idc", 0>>} \subseteq K
      /\ Known(p7, K) => {<<"pic_order_cnt_type", 0>>} \subseteq K
      /\ Known(o3, K) => {<<"num_ref_frames_in_pic_order_cnt_cycle", 0>>} \subseteq K
      /\ Known(p13, K) => {<<"frame_mbs_only_flag", 0>>} \subseteq K
  <2>1. \A x : DOMAIN <<x>> = 1 .. 1 /\ <<x>>[1] = x /\ 1 \in Nat
    OBVIOUS
  <2>2. \A x, n : (Known(u(n, <<x>>), K) => <<x, 0>> \in K) /\ (Known(ue(<<x>>), K) => <<x, 0>> \in K)
    <3> TAKE x, n
    <3>1. /\ Known(u(n, <<x>>), K) => \A i \in 1 .. 1 : <<<<x>>[i], 0>> \in K
          /\ Known(ue(<<x>>), K) => \A i \in 1 .. 1 : <<<<x>>[i], 0>> \in K
      BY <2>1, Told
    <3> QED BY <2>1, <3>1
  <2>3. Known(p7, K) => <<"pic_order_cnt_type", 0>> \in K
    <3> DEFINE names == <<"log2_max_frame_num_minus4", "pic_order_cnt_type">>
    <3>1. DOMAIN names = 1 .. 2 /\ 2 \in Nat /\ names[2] = "pic_order_cnt_type"
      OBVIOUS
    <3>2. Known(p7, K) => \A i \in 1 .. 2 : <<names[i], 0>> \in K
      BY <3>1, Told
    <3> QED BY <3>1, <3>2
  <2> QED BY <2>2, <2>3
<1> HIDE DEF h1, h2, h3, h4, h5, o1, o2, o3, o4, p1, p2, p3, p4, p5, p7, p8, p10, p11, p12, p13, p14, p15, p16
<1>5. \A n \in Int : lists(n) \in S /\ cycle(n) \in S
  <2>1. 0 \in Nat
    OBVIOUS
  <2> QED BY <1>3, <2>1, LoopIn, Groups DEF Loops, S
<1> HIDE DEF lists, cycle
<1>6. ASSUME NEW c \in S PROVE Coh(c, c, K)
  BY CohSame DEF S, Syntax
<1>7. Links(H("sent", e), H("read", d), {<<"chroma_format_idc", 0>>}, K)
  <2> DEFINE G == {<<"chroma_format_idc", 0>>}
  <2>1. Links(h1, h1, G, K)
    BY <1>3, <1>4, Start
  <2>2. G \subseteq K => F(e, "chroma_format_idc") = F(d, "chroma_format_idc")
    BY AtAgree DEF F
  <2> HIDE DEF G
  <2>3. Links(H1(e), H1(d), G, K)
    BY <1>3, <1>6, <2>1, <2>2, LinkWhen
  <2> HIDE DEF H1
  <2>4. Links(H2(e), H2(d), G, K)
    BY <1>3, <2>3, LinkSame
  <2> HIDE DEF H2
  <2>5. Links(H3(e), H3(d), G, K)
    BY <1>3, <2>4, LinkSame
  <2> HIDE DEF H3
  <2>6. many("sent", e) \in Int /\ many("read", d) \in Int /\ (G \subseteq K => many("sent", e) = many("read", d))
    BY <2>2
  <2> HIDE DEF many
  <2> DEFINE x == Opt(e, "seq_scaling_matrix_present_flag", lists(many("sent", e)))
             y == Opt(d, "seq_scaling_matrix_present_flag", lists(many("read", d)))
  <2>7. x \in S /\ y \in S
    BY <1>5, <2>6, OptIn, SpsFlags DEF S
  <2>8. G \subseteq K => Coh(x, y, K)
    <3> SUFFICES ASSUME G \subseteq K PROVE Coh(x, y, K)
      OBVIOUS
    <3>1. Coh(lists(many("sent", e)), lists(many("read", d)), K)
      BY <1>5, <1>6, <2>6
    <3>2. lists(many("sent", e)) \in S /\ lists(many("read", d)) \in S
      BY <1>5, <2>6
    <3> QED BY <3>1, <3>2, CohOpt, SpsFlags DEF S
  <2> HIDE DEF x, y
  <2>9. Links(H3(e) \o x, H3(d) \o y, G \cup {}, K)
    BY <2>5, <2>7, <2>8, Link
  <2>10. G \cup {} = G
    OBVIOUS
  <2> QED BY <2>9, <2>10 DEF x, y, G
<1> HIDE DEF H
<1>8. Links(O(e), O(d), {<<"num_ref_frames_in_pic_order_cnt_cycle", 0>>}, K)
  <2> DEFINE G == {<<"num_ref_frames_in_pic_order_cnt_cycle", 0>>}
             n1 == F(e, "num_ref_frames_in_pic_order_cnt_cycle")
             n2 == F(d, "num_ref_frames_in_pic_order_cnt_cycle")
  <2>1. O3 \in S /\ (Known(O3, K) => G \subseteq K)
    <3>1. o1 \o o2 \in S
      BY <1>3, JoinTyped
    <3> QED BY <1>3, <1>4, <3>1, TwoPieces
  <2>2. n1 \in Int /\ n2 \in Int
    BY AtInt DEF F
  <2>3. G \subseteq K => n1 = n2
    BY AtAgree DEF F
  <2> HIDE DEF O3, G, n1, n2
  <2>4. Links(O3, O3, G, K)
    BY <2>1, Start
  <2>5. G \subseteq K => Coh(cycle(n1), cycle(n2), K)
    BY <1>5, <1>6, <2>2, <2>3
  <2>6. Links(O3 \o cycle(n1), O3 \o cycle(n2), G \cup {}, K)
    BY <1>5, <2>2, <2>4, <2>5, Link
  <2>7. G \cup {} = G
    OBVIOUS
  <2> QED BY <2>6, <2>7 DEF G, n1, n2
<1> HIDE DEF O
<1>9. /\ H("sent", e) \in S /\ H("read", d) \in S /\ Coh(H("sent", e), H("read", d), K)
      /\ O(e) \in S /\ O(d) \in S /\ Coh(O(e), O(d), K)
  BY <1>7, <1>8 DEF Links
<1> DEFINE G0 == {<<"profile_idc", 0>>}
           G1 == G0 \cup {<<"reserved_zero_2bits", 0>>}
<1>10. Links(X5, X5, G1, K)
  <2>1. Links(p1, p1, G0, K)
    BY <1>2, <1>4, Start
  <2> HIDE DEF G0
  <2>2. Links(X2, X2, G0, K)
    BY <1>2, <2>1, LinkSame
  <2> HIDE DEF X2
  <2>3. Links(X3, X3, G1, K)
    BY <1>2, <1>4, <1>6, <2>2, Link
  <2> HIDE DEF G1
  <2> HIDE DEF X3
  <2>4. Links(X4, X4, G1, K)
    BY <1>2, <2>3, LinkSame
  <2> HIDE DEF X4
  <2> QED BY <1>2, <2>4, LinkSame
<1> HIDE DEF X5
<1>11. G1 \subseteq K => (F(e, "profile_idc") \in HighProfiles("sent") <=> F(d, "profile_idc") \in HighProfiles("read"))
  <2> SUFFICES ASSUME G1 \subseteq K
               PROVE  F(e, "profile_idc") \in HighProfiles("sent") <=> F(d, "profile_idc") \in HighProfiles("read")
    OBVIOUS
  <2>0. <<"profile_idc", 0>> \in K
    OBVIOUS
  <2>1. F(e, "profile_idc") = F(d, "profile_idc")
    BY <2>0, AtAgree DEF F
  <2>2. HighProfiles("read") \subseteq HighProfiles("sent")
    BY DEF HighProfiles
  <2> QED BY <2>1, <2>2 DEF UnknownProfile
<1> HIDE DEF G1
<1>12. Links(X6("sent", e), X6("read", d), G1, K)
  BY <1>9, <1>10, <1>11, LinkWhen
<1> HIDE DEF X6
<1> DEFINE G2 == G1 \cup {<<"pic_order_cnt_type", 0>>}
<1>13. Links(X7("sent", e), X7("read", d), G2, K)
  BY <1>2, <1>4, <1>6, <1>12, Link
<1> HIDE DEF X7
<1>14. G2 \subseteq K => F(e, "pic_order_cnt_type") = F(d, "pic_order_cnt_type")
  <2>1. G2 \subseteq K => <<"pic_order_cnt_type", 0>> \in K
    OBVIOUS
  <2> HIDE DEF G2
  <2> QED BY <2>1, AtAgree DEF F
<1> HIDE DEF G2
<1>15. Links(X8("sent", e), X8("read", d), G2, K)
  BY <1>2, <1>6, <1>13, <1>14, LinkWhen
<1> HIDE DEF X8
<1>16. Links(X9("sent", e), X9("read", d), G2, K)
  BY <1>9, <1>14, <1>15, LinkWhen
<1> HIDE DEF X9
<1>17. Links(X10("sent", e), X10("read", d), G2, K)
  BY <1>2, <1>16, LinkSame
<1> HIDE DEF X10
<1>18. Links(X11("sent", e), X11("read", d), G2, K)
  BY <1>2, <1>17, LinkSame
<1> HIDE DEF X11
<1>19. Links(X12("sent", e), X12("read", d), G2, K)
  BY <1>2, <1>18, LinkSame
<1> HIDE DEF X12
<1> DEFINE G3 == G2 \cup {<<"frame_mbs_only_flag", 0>>}
<1>20. Links(X13("sent", e), X13("read", d), G3, K)
  BY <1>2, <1>4, <1>6, <1>19, Link
<1> HIDE DEF X13
<1>21. G3 \subseteq K => F(e, "frame_mbs_only_flag") = F(d, "frame_mbs_only_flag")
  <2>1. G3 \subseteq K => <<"frame_mbs_only_flag", 0>> \in K
    OBVIOUS
  <2> HIDE DEF G3
  <2> QED BY <2>1, AtAgree DEF F
<1>g. G1 \subseteq G3
  BY DEF G2
<1> HIDE DEF G3
<1>22. Links(X14("sent", e), X14("read", d), G3, K)
  BY <1>2, <1>6, <1>20, <1>21, LinkWhen
<1> HIDE DEF X14
<1>23. Links(X15("sent", e), X15("read", d), G3, K)
  BY <1>2, <1>22, LinkSame
<1> HIDE DEF X15
<1>24. Links(X16("sent", e), X16("read", d), G3, K)
  BY <1>2, <1>23, LinkSameOpt, SpsFlags
<1> HIDE DEF X16
<1>25. Links(X17("sent", e), X17("read", d), G3, K)
  BY <1>24, LinkOpt, SpsFlags, VuiLinks
<1> HIDE DEF X17
<1>26. Links(X17("sent", e), X17("read", d), G1, K)
  BY <1>25, <1>g DEF Links
<1> QED BY <1>1, <1>26 DEF G1, SpsKeys

\* Where the parts of a joined sequence are.
LEMMA Layout ==
  ASSUME NEW A, NEW ss \in Seq(Seq(A))
  PROVE  \E q \in [0 .. Len(ss) -> Nat] :
            /\ q[0] = 0 /\ q[Len(ss)] = Len(Joined(ss))
            /\ \A k \in 1 .. Len(ss) :
                  /\ q[k] = q[k - 1] + Len(ss[k]) /\ q[k] <= Len(Joined(ss))
                  /\ \A i \in 1 .. Len(ss[k]) : Joined(ss)[q[k - 1] + i] = ss[k][i]
<1> DEFINE n == Len(ss)
<1>1. PICK s \in [0 .. n -> Seq(A)] : /\ s[0] = <<>> /\ s[n] = Joined(ss)
                                     /\ \A k \in 1 .. n : s[k] = s[k - 1] \o ss[k]
  BY JoinedSteps
<1>2. n \in Nat /\ \A k \in 1 .. n : ss[k] \in Seq(A)
  OBVIOUS
<1> HIDE DEF n
<1> DEFINE q == [k \in 0 .. n |-> Len(s[k])]
<1>3. \A k \in 0 .. n : s[k] \in Seq(A) /\ Len(s[k]) \in Nat /\ q[k] = Len(s[k])
  BY <1>1
<1>4. q \in [0 .. n -> Nat] /\ q[0] = 0 /\ q[n] = Len(Joined(ss))
  <2>1. 0 \in 0 .. n /\ n \in 0 .. n
    BY <1>2
  <2> QED BY <1>1, <1>3, <2>1
<1>5. ASSUME NEW k \in 1 .. n
      PROVE  /\ k - 1 \in 0 .. n /\ k \in 0 .. n /\ Len(ss[k]) \in Nat
             /\ q[k] = q[k - 1] + Len(ss[k])
             /\ \A i \in 1 .. q[k - 1] : s[k][i] = s[k - 1][i]
             /\ \A i \in 1 .. Len(ss[k]) : s[k][q[k - 1] + i] = ss[k][i]
  <2>1. k - 1 \in 0 .. n /\ k \in 0 .. n
    BY <1>2
  <2>2. s[k] = s[k - 1] \o ss[k] /\ s[k - 1] \in Seq(A) /\ ss[k] \in Seq(A)
    BY <1>1, <1>2, <1>3, <2>1
  <2> DEFINE a == s[k - 1]
             b == ss[k]
             c == s[k]
  <2>3. a \in Seq(A) /\ b \in Seq(A) /\ c = a \o b /\ q[k - 1] = Len(a) /\ q[k] = Len(c)
    BY <1>3, <2>1, <2>2
  <2> HIDE DEF a, b, c, q
  <2>4. /\ Len(b) \in Nat /\ Len(c) = Len(a) + Len(b)
        /\ \A i \in 1 .. Len(a) : c[i] = a[i]
        /\ \A i \in 1 .. Len(b) : c[Len(a) + i] = b[i]
    BY <2>3
  <2> QED BY <2>1, <2>3, <2>4 DEF a, b, c
<1> HIDE DEF q
<1> DEFINE Pre(k, m) == q[k] <= q[m] /\ \A i \in 1 .. q[k] : s[m][i] = s[k][i]
<1>6. ASSUME NEW k \in 0 .. n PROVE Pre(k, n)
  <2> DEFINE T == {m \in Nat : k <= m /\ m <= n => Pre(k, m)}
  <2>1. 0 \in T
    <3>1. k <= 0 => k = 0
      BY <1>2
    <3> QED BY <1>4, <3>1
  <2>2. ASSUME NEW m \in Nat, m \in T PROVE m + 1 \in T
    <3> SUFFICES ASSUME k <= m + 1, m + 1 <= n PROVE Pre(k, m + 1)
      OBVIOUS
    <3>1. m + 1 \in 1 .. n /\ (m + 1) - 1 = m /\ q[k] \in Nat /\ q[m + 1] \in Nat /\ q[m] \in Nat
      BY <1>2, <1>4
    <3>2. CASE k = m + 1
      BY <3>1, <3>2
    <3>3. CASE k <= m
      <4>1. Pre(k, m)
        BY <1>2, <2>2, <3>1, <3>3
      <4>2. /\ q[m + 1] = q[m] + Len(ss[m + 1]) /\ Len(ss[m + 1]) \in Nat
            /\ \A i \in 1 .. q[m] : s[m + 1][i] = s[m][i]
        BY <1>5, <3>1
      <4>3. q[k] <= q[m + 1]
        BY <3>1, <4>1, <4>2
      <4>4. ASSUME NEW i \in 1 .. q[k] PROVE s[m + 1][i] = s[k][i]
        <5>1. i \in 1 .. q[m]
          BY <3>1, <4>1
        <5> QED BY <4>1, <4>2, <5>1
      <4> QED BY <4>3, <4>4
    <3> QED BY <3>1, <3>2, <3>3
  <2> HIDE DEF T
  <2>3. Nat \subseteq T
    BY <2>1, <2>2, Induction
  <2>4. n \in T /\ k <= n /\ n <= n
    BY <1>2, <2>3
  <2> QED BY <2>4 DEF T
<1>7. ASSUME NEW k \in 1 .. n
      PROVE  /\ q[k] = q[k - 1] + Len(ss[k]) /\ q[k] <= Len(Joined(ss))
             /\ \A i \in 1 .. Len(ss[k]) : Joined(ss)[q[k - 1] + i] = ss[k][i]
  <2>1. k \in 0 .. n /\ k - 1 \in 0 .. n /\ q[k] = q[k - 1] + Len(ss[k]) /\ Len(ss[k]) \in Nat /\ q[k - 1] \in Nat
    BY <1>4, <1>5
  <2>2. Pre(k, n)
    BY <1>6, <2>1
  <2>3. ASSUME NEW i \in 1 .. Len(ss[k]) PROVE Joined(ss)[q[k - 1] + i] = ss[k][i]
    <3>1. q[k - 1] + i \in 1 .. q[k]
      BY <2>1
    <3>2. s[n][q[k - 1] + i] = s[k][q[k - 1] + i]
      BY <2>2, <3>1
    <3> QED BY <1>1, <1>5, <3>2
  <2> QED BY <1>4, <2>1, <2>2, <2>3
<1> QED BY <1>4, <1>7 DEF n

-----------------------------------------------------------------------------
(* Walks *)

Asked == {"eof", "more", "_more_rbsp_data_present"}
Keys(N) == (N \cup Asked) \X Nat
FieldsOf(N) == UNION {[D -> Int] : D \in SUBSET Keys(N)}
States(N) == [e : FieldsOf(N), pos : Nat, done : BOOLEAN]

\* The step of Walk that Read takes.
Onto(bits, el, t) ==
    LET pos == Behind(el[1], el[2], bits, t.pos)
    IN  [t EXCEPT !.e = Before(State(bits, pos), Before(Only(Key(el), ReadCode(el[1], el[2], bits, t.pos)), @)), !.pos = pos]
Advance(bits, es, t, k) ==
    IF t.done THEN t
    ELSE IF k > Len(es) THEN [t EXCEPT !.done = TRUE] ELSE Onto(bits, es[k], t)
From(known) == [e |-> known, pos |-> 0, done |-> FALSE]

\* What makes fields.
LEMMA InFields ==
  ASSUME NEW N, NEW f
  PROVE  f \in FieldsOf(N) <=> /\ f = [k \in DOMAIN f |-> f[k]] /\ DOMAIN f \subseteq Keys(N)
                               /\ \A k \in DOMAIN f : f[k] \in Int
BY DEF FieldsOf

\* Every code is read as a number.
LEMMA ReadsInt ==
  ASSUME NEW bits \in Words, NEW pos \in Nat, NEW code \in Codes, NEW n \in Nat
  PROVE  ReadCode(code, n, bits, pos) \in Int
<1>1. bits \in Seq(Bit)
  BY DEF Words
<1>2. bs_read_u(bits, pos, n) \in Int
  BY <1>1, ReadU
<1>3. bs_read_ue(bits, pos) \in Int
  <2> DEFINE i == Turns(bits, pos)
  <2>1. i \in 0 .. 32
    BY TurnsStop DEF Stops
  <2> HIDE DEF i
  <2>2. i \in Nat /\ pos + i + 1 \in Nat /\ 2 ^ i \in Nat
    BY <2>1, Powers
  <2>3. bs_read_u(bits, pos + i + 1, i) \in Nat
    BY <1>1, <2>2, ReadU
  <2>4. bs_read_ue(bits, pos) = bs_read_u(bits, pos + i + 1, i) + 2 ^ i - 1
    BY DEF bs_read_ue, i
  <2> QED BY <2>2, <2>3, <2>4
<1>4. bs_read_se(bits, pos) \in Int
  BY <1>3 DEF bs_read_se
<1> QED BY <1>2, <1>3, <1>4, Zenon DEF ReadCode, Codes

\* Reading one element sets its field and the state of the stream, and goes on.
LEMMA Onwards ==
  ASSUME NEW N, NEW bits \in Words, NEW el \in ElOf(N), NEW t \in States(N)
  PROVE  LET pos == Behind(el[1], el[2], bits, t.pos)
             r   == Onto(bits, el, t)
         IN  /\ r \in States(N) /\ r.done = t.done /\ r.pos = pos /\ pos >= t.pos
             /\ DOMAIN r.e = DOMAIN t.e \cup {Key(el), <<"eof", 0>>, <<"more", 0>>}
             /\ \A k \in DOMAIN r.e : k # <<"eof", 0>> /\ k # <<"more", 0>> =>
                   r.e[k] = IF k = Key(el) THEN ReadCode(el[1], el[2], bits, t.pos) ELSE t.e[k]
             /\ r.e[<<"more", 0>>] = (IF bs_eof(bits, pos) \/ bs_read_u1(bits, pos) = 1 THEN 0 ELSE 1)
<1> DEFINE pos == Behind(el[1], el[2], bits, t.pos)
           v == ReadCode(el[1], el[2], bits, t.pos)
           st == State(bits, pos)
           f == Before(st, Before(Only(Key(el), v), t.e))
           r == Onto(bits, el, t)
<1>1. /\ el[1] \in Codes /\ el[2] \in Nat /\ el[3] \in N /\ el[4] \in Nat
      /\ t.e \in FieldsOf(N) /\ t.pos \in Nat /\ t.done \in BOOLEAN
  BY DEF ElOf, States
<1>2. pos \in Nat /\ pos >= t.pos /\ v \in Int
  BY <1>1, BehindOn, ReadsInt
<1> HIDE DEF pos, v
<1>3. /\ DOMAIN st = {<<"eof", 0>>, <<"more", 0>>} /\ st[<<"eof", 0>>] \in Int
      /\ st[<<"more", 0>>] = (IF bs_eof(bits, pos) \/ bs_read_u1(bits, pos) = 1 THEN 0 ELSE 1)
  <2>1. <<"eof", 0>> # <<"more", 0>>
    OBVIOUS
  <2> QED BY <2>1 DEF State
<1> HIDE DEF st
<1>4. f = [k \in {<<"eof", 0>>, <<"more", 0>>} \cup {Key(el)} \cup DOMAIN t.e |->
             IF k \in {<<"eof", 0>>, <<"more", 0>>} THEN st[k] ELSE IF k = Key(el) THEN v ELSE t.e[k]]
  BY <1>3 DEF Before, Only
<1> HIDE DEF f
<1>5. Key(el) \in Keys(N) /\ <<"eof", 0>> \in Keys(N) /\ <<"more", 0>> \in Keys(N)
  BY <1>1 DEF Key, Keys, Asked
<1>6. DOMAIN t.e \subseteq Keys(N) /\ \A k \in DOMAIN t.e : t.e[k] \in Int
  BY <1>1, InFields
<1>7. f \in FieldsOf(N)
  <2>1. DOMAIN f \subseteq Keys(N)
    BY <1>4, <1>5, <1>6
  <2>2. \A k \in DOMAIN f : f[k] \in Int
    BY <1>2, <1>3, <1>4, <1>6
  <2>3. f = [k \in DOMAIN f |-> f[k]]
    BY <1>4
  <2> QED BY <2>1, <2>2, <2>3, InFields
<1>8. r = [t EXCEPT !.e = f, !.pos = pos]
  BY DEF Onto, f, st, v, pos
<1> HIDE DEF r
<1>9. r \in States(N) /\ r.done = t.done /\ r.pos = pos /\ r.e = f
  BY <1>1, <1>2, <1>7, <1>8 DEF States
<1>10. DOMAIN f = DOMAIN t.e \cup {Key(el), <<"eof", 0>>, <<"more", 0>>}
  BY <1>4
<1>11. /\ \A k \in DOMAIN f : k # <<"eof", 0>> /\ k # <<"more", 0>> => f[k] = IF k = Key(el) THEN v ELSE t.e[k]
       /\ f[<<"more", 0>>] = (IF bs_eof(bits, pos) \/ bs_read_u1(bits, pos) = 1 THEN 0 ELSE 1)
  BY <1>3, <1>4
<1> QED BY <1>2, <1>9, <1>10, <1>11 DEF r, pos, v, f, st

\* A step of the reader leads from state to state and never back.
LEMMA Advances ==
  ASSUME NEW N, NEW bits \in Words, NEW es \in Syntax(N), NEW t \in States(N), NEW k \in Nat \ {0}
  PROVE  Advance(bits, es, t, k) \in States(N) /\ Advance(bits, es, t, k).pos >= t.pos
<1>1. t.pos \in Nat
  BY DEF States
<1>2. CASE t.done
  BY <1>1, <1>2 DEF Advance
<1>3. CASE ~t.done /\ k > Len(es)
  <2>1. Advance(bits, es, t, k) = [t EXCEPT !.done = TRUE]
    BY <1>3 DEF Advance
  <2>2. [t EXCEPT !.done = TRUE] \in States(N) /\ [t EXCEPT !.done = TRUE].pos = t.pos
    BY DEF States
  <2> QED BY <1>1, <2>1, <2>2
<1>4. CASE ~t.done /\ ~(k > Len(es))
  <2>1. Len(es) \in Nat
    BY DEF Syntax
  <2>2. es[k] \in ElOf(N)
    BY <1>4, <2>1 DEF Syntax
  <2> QED BY <1>4, <2>2, Onwards DEF Advance
<1> QED BY <1>2, <1>3, <1>4

\* A walk over a structure, as the reader makes it.
Walking(N, E, bits, known, M, s) ==
    /\ E \in [FieldsOf(N) -> Syntax(N)] /\ bits \in Words /\ known \in FieldsOf(N) /\ M \in Nat
    /\ s \in [0 .. M -> States(N)] /\ s[0] = From(known)
    /\ \A k \in 1 .. M : s[k] = Advance(bits, E[s[k - 1].e], s[k - 1], k)

\* The reader's steps exist, up to any bound.
LEMMA Walks ==
  ASSUME NEW N, NEW E \in [FieldsOf(N) -> Syntax(N)], NEW bits \in Words, NEW known \in FieldsOf(N), NEW M \in Nat
  PROVE  \E s : Walking(N, E, bits, known, M, s)
<1> DEFINE G == [p \in (Nat \ {0}) \X States(N) |-> Advance(bits, E[p[2].e], p[2], p[1])]
<1>1. G \in [(Nat \ {0}) \X States(N) -> States(N)]
  <2>1. ASSUME NEW k \in Nat \ {0}, NEW t \in States(N) PROVE Advance(bits, E[t.e], t, k) \in States(N)
    <3>1. E[t.e] \in Syntax(N)
      BY DEF States
    <3> QED BY <3>1, Advances
  <2> QED BY <2>1
<1>2. From(known) \in States(N)
  BY DEF From, States
<1> HIDE DEF G
<1>3. PICK s \in [0 .. M -> States(N)] : Goes(s, M, From(known), G)
  BY <1>1, <1>2, GoesOn
<1>4. s[0] = From(known) /\ \A k \in 1 .. M : s[k] = G[<<k, s[k - 1]>>]
  BY <1>3, GoesFirst
<1>5. \A k \in 1 .. M : G[<<k, s[k - 1]>>] = Advance(bits, E[s[k - 1].e], s[k - 1], k)
  BY DEF G
<1>6. Walking(N, E, bits, known, M, s)
  BY <1>3, <1>4, <1>5 DEF Walking
<1> QED BY <1>6

Stream == {<<"eof", 0>>, <<"more", 0>>}

\* Two walks over the same structure are the same.
LEMMA SameWalk ==
  ASSUME NEW N, NEW E, NEW bits, NEW known, NEW M, NEW s, Walking(N, E, bits, known, M, s),
         NEW g, g[0] = From(known),
         \A k \in 1 .. M : g[k - 1] = s[k - 1] => g[k] = Advance(bits, E[g[k - 1].e], g[k - 1], k)
  PROVE  g[M] = s[M]
<1>walking. /\ E \in [FieldsOf(N) -> Syntax(N)] /\ bits \in Words /\ known \in FieldsOf(N) /\ M \in Nat
            /\ s \in [0 .. M -> States(N)] /\ s[0] = From(known)
            /\ \A k \in 1 .. M : s[k] = Advance(bits, E[s[k - 1].e], s[k - 1], k)
  BY DEF Walking
<1> USE <1>walking
<1> DEFINE T == {k \in Nat : k <= M => g[k] = s[k]}
<1>1. 0 \in T
  OBVIOUS
<1>2. ASSUME NEW k \in Nat, k \in T PROVE k + 1 \in T
  <2> SUFFICES ASSUME k + 1 <= M PROVE g[k + 1] = s[k + 1]
    OBVIOUS
  <2>1. k + 1 \in 1 .. M /\ (k + 1) - 1 = k /\ k \in 0 .. M
    OBVIOUS
  <2>2. g[k] = s[k] /\ g[k] \in States(N)
    BY <1>2, <2>1
  <2>3. s[k + 1] = Advance(bits, E[s[k].e], s[k], k + 1)
    BY <2>1
  <2>4. g[k + 1] = Advance(bits, E[g[k].e], g[k], k + 1)
    BY <2>1, <2>2
  <2> QED BY <2>2, <2>3, <2>4
<1> HIDE DEF T
<1>3. Nat \subseteq T
  BY <1>1, <1>2, Induction
<1>4. M \in T
  BY <1>3
<1> QED BY <1>4 DEF T

\* So it is enough that both are states of a reader.
LEMMA OneWalk ==
  ASSUME NEW N, NEW E, NEW bits, NEW known, NEW M, NEW s, Walking(N, E, bits, known, M, s),
         NEW g, g[0] = From(known),
         \A k \in 1 .. M : g[k - 1] \in States(N) => g[k] = Advance(bits, E[g[k - 1].e], g[k - 1], k)
  PROVE  g[M] = s[M]
<1>1. ASSUME NEW k \in 1 .. M, g[k - 1] = s[k - 1] PROVE g[k] = Advance(bits, E[g[k - 1].e], g[k - 1], k)
  <2>1. k - 1 \in 0 .. M /\ s[k - 1] \in States(N)
    BY DEF Walking
  <2> QED BY <1>1, <2>1
<1> QED BY <1>1, SameWalk

\* The words of the elements, as they are written.
Coded(x, e) == [k \in DOMAIN x |-> WriteCode(x[k][1], x[k][2], At(e, x[k][3], x[k][4]))]

\* Elements with the fields a code has a word for.
Lawful(N, x, e) ==
    /\ x \in Syntax(N) /\ e \in FieldsOf(N) /\ DOMAIN e \cap Stream = {}
    /\ \A k \in 1 .. Len(x) : Key(x[k]) \in DOMAIN e /\ Fits(x[k][1], x[k][2], e[Key(x[k])])

\* A structure is written element by element.
LEMMA CodedWords ==
  ASSUME NEW N, NEW x, NEW e, Lawful(N, x, e)
  PROVE  /\ Coded(x, e) \in Seq(Seq(Bit)) /\ Len(Coded(x, e)) = Len(x) /\ Write(x, e) = Joined(Coded(x, e))
         /\ \A k \in 1 .. Len(x) :
               /\ x[k] \in ElOf(N) /\ x[k][1] \in Codes /\ x[k][2] \in Nat /\ x[k][3] \in N /\ x[k][4] \in Nat
               /\ Key(x[k]) \in DOMAIN e /\ e[Key(x[k])] \in Int /\ Fits(x[k][1], x[k][2], e[Key(x[k])])
               /\ Coded(x, e)[k] = WriteCode(x[k][1], x[k][2], e[Key(x[k])])
               /\ Coded(x, e)[k] \in Seq(Bit)
<1>1. Len(x) \in Nat /\ DOMAIN x = 1 .. Len(x) /\ \A k \in 1 .. Len(x) : x[k] \in ElOf(N)
  BY DEF Lawful, Syntax
<1>2. ASSUME NEW k \in 1 .. Len(x)
      PROVE  /\ x[k] \in ElOf(N) /\ x[k][1] \in Codes /\ x[k][2] \in Nat /\ x[k][3] \in N /\ x[k][4] \in Nat
             /\ Key(x[k]) \in DOMAIN e /\ e[Key(x[k])] \in Int /\ Fits(x[k][1], x[k][2], e[Key(x[k])])
             /\ Coded(x, e)[k] = WriteCode(x[k][1], x[k][2], e[Key(x[k])])
             /\ Coded(x, e)[k] \in Seq(Bit)
  <2>1. x[k] \in ElOf(N) /\ x[k][1] \in Codes /\ x[k][2] \in Nat /\ x[k][3] \in N /\ x[k][4] \in Nat
    BY <1>1 DEF ElOf
  <2>2. /\ Key(x[k]) \in DOMAIN e /\ Fits(x[k][1], x[k][2], e[Key(x[k])]) /\ e[Key(x[k])] \in Int
    BY InFields DEF Lawful
  <2>3. At(e, x[k][3], x[k][4]) = e[Key(x[k])]
    BY <2>2 DEF At, Key
  <2>4. Coded(x, e)[k] = WriteCode(x[k][1], x[k][2], e[Key(x[k])])
    BY <1>1, <2>3 DEF Coded
  <2>5. WriteCode(x[k][1], x[k][2], e[Key(x[k])]) \in Seq(Bit)
    BY <2>1, <2>2, WriteCodes
  <2> QED BY <2>1, <2>2, <2>4, <2>5
<1>3. Coded(x, e) = [k \in 1 .. Len(x) |-> Coded(x, e)[k]]
  BY <1>1 DEF Coded
<1>4. Coded(x, e) \in Seq(Seq(Bit)) /\ Len(Coded(x, e)) = Len(x)
  <2> DEFINE c == Coded(x, e)
  <2>1. c = [k \in 1 .. Len(x) |-> c[k]] /\ \A k \in 1 .. Len(x) : c[k] \in Seq(Bit)
    BY <1>2, <1>3
  <2> HIDE DEF c
  <2>2. c \in Seq(Seq(Bit)) /\ Len(c) = Len(x)
    BY <1>1, <2>1
  <2> QED BY <2>2 DEF c
<1>5. Write(x, e) = Joined(Coded(x, e))
  BY DEF Write, Coded
<1> QED BY <1>2, <1>4, <1>5

\* Where the words are: q[k] is the position behind the k-th.
Placed(x, e, q) ==
    /\ q \in [0 .. Len(x) -> Nat] /\ q[0] = 0
    /\ \A k \in 1 .. Len(x) : q[k] = q[k - 1] + Len(Coded(x, e)[k])
\* A stream has these words as far as it goes.
Carries(bits, x, e, q) ==
    \A k \in 1 .. Len(x) : \A i \in 1 .. Len(Coded(x, e)[k]) :
       q[k - 1] + i <= Len(bits) => bits[q[k - 1] + i] = Coded(x, e)[k][i]

\* What the reader knows when it has read some of the elements.
Knows(e, d, known) ==
    /\ DOMAIN d \ Stream \subseteq DOMAIN e /\ DOMAIN known \subseteq DOMAIN d
    /\ \A k \in DOMAIN d \ Stream : d[k] = e[k]

\* The reader that knows the first elements asks for the next, up to the m-th.
Asks(N, E, x, e, known, m) ==
    \A d \in FieldsOf(N) : \A k \in 0 .. m - 1 :
       Knows(e, d, known) /\ (\A i \in 1 .. k : Key(x[i]) \in DOMAIN d)
       => k + 1 <= Len(E[d]) /\ E[d][k + 1] = x[k + 1]

\* The state of a reader behind the k-th element.
Reached(N, x, e, known, q, k, t) ==
    /\ t \in States(N) /\ ~t.done /\ t.pos = q[k]
    /\ Knows(e, t.e, known)
    /\ \A i \in 1 .. k : Key(x[i]) \in DOMAIN t.e
    /\ DOMAIN t.e \subseteq {Key(x[i]) : i \in 1 .. k} \cup DOMAIN known \cup Stream

\* The reader has the fields and the position of the writer after m elements if it asks
\* for them and the buffer holds them.
LEMMA WalkOn ==
  ASSUME NEW N, "eof" \notin N, "more" \notin N, NEW E,
         NEW bits, NEW known, NEW M, NEW s, Walking(N, E, bits, known, M, s),
         NEW x, NEW e, Lawful(N, x, e), NEW q, Placed(x, e, q), Carries(bits, x, e, q),
         DOMAIN known \subseteq DOMAIN e, \A k \in DOMAIN known : known[k] = e[k],
         NEW m \in 0 .. Len(x), m <= M, Asks(N, E, x, e, known, m),
         \A k \in 1 .. m : q[k] <= Len(bits)
  PROVE  \A k \in 0 .. m : Reached(N, x, e, known, q, k, s[k])
<1>walking. /\ E \in [FieldsOf(N) -> Syntax(N)] /\ bits \in Words /\ known \in FieldsOf(N) /\ M \in Nat
            /\ s \in [0 .. M -> States(N)] /\ s[0] = From(known)
            /\ \A k \in 1 .. M : s[k] = Advance(bits, E[s[k - 1].e], s[k - 1], k)
  BY DEF Walking
<1> USE <1>walking
<1>0. m \in Nat /\ Len(x) \in Nat
  BY DEF Lawful, Syntax
<1> DEFINE T == {k \in Nat : k <= m => Reached(N, x, e, known, q, k, s[k])}
<1>1. 0 \in T
  <2>1. s[0] \in States(N) /\ s[0].e = known /\ s[0].pos = 0 /\ s[0].done = FALSE
    <3>1. 0 \in 0 .. M
      OBVIOUS
    <3>2. s[0] \in States(N)
      BY <3>1
    <3> QED BY <3>2 DEF From
  <2>2. DOMAIN known \cap Stream = {}
    BY DEF Lawful
  <2> QED BY <2>1, <2>2 DEF Reached, Knows, Placed
<1>2. ASSUME NEW k \in Nat, k \in T PROVE k + 1 \in T
  <2> SUFFICES ASSUME k + 1 <= m PROVE Reached(N, x, e, known, q, k + 1, s[k + 1])
    OBVIOUS
  <2>1. /\ k + 1 \in 1 .. M /\ (k + 1) - 1 = k /\ k \in 0 .. M /\ k \in 0 .. m - 1 /\ k + 1 \in 1 .. Len(x)
        /\ k + 1 \in 1 .. m
    BY <1>0
  <2> DEFINE t == s[k]
             el == x[k + 1]
             w == Coded(x, e)[k + 1]
             pos == Behind(el[1], el[2], bits, t.pos)
             r == Onto(bits, el, t)
             v == e[Key(el)]
  <2>2. Reached(N, x, e, known, q, k, t)
    BY <1>2, <2>1
  <2>3. t \in States(N) /\ t.e \in FieldsOf(N) /\ ~t.done /\ t.pos = q[k] /\ q[k] \in Nat
    BY <2>1, <2>2 DEF Reached, States
  <2>4. k + 1 <= Len(E[t.e]) /\ E[t.e][k + 1] = el /\ Len(E[t.e]) \in Nat
    <3>1. E[t.e] \in Syntax(N)
      BY <2>3
    <3>2. k + 1 <= Len(E[t.e]) /\ E[t.e][k + 1] = x[k + 1]
      BY <2>1, <2>2, <2>3 DEF Reached, Asks
    <3> QED BY <3>1, <3>2 DEF Syntax
  <2>5. s[k + 1] = r
    <3>1. s[k + 1] = Advance(bits, E[t.e], t, k + 1)
      BY <2>1
    <3> QED BY <2>3, <2>4, <3>1 DEF Advance
  <2>6. /\ el \in ElOf(N) /\ el[1] \in Codes /\ el[2] \in Nat /\ el[3] \in N
        /\ Key(el) \in DOMAIN e /\ v \in Int /\ Fits(el[1], el[2], v)
        /\ w = WriteCode(el[1], el[2], v) /\ w \in Seq(Bit)
    BY <2>1, CodedWords
  <2>7. q[k + 1] = q[k] + Len(w) /\ q[k + 1] <= Len(bits) /\ Len(w) \in Nat /\ Len(bits) \in Nat
    <3>1. q[k + 1] = q[k] + Len(w)
      BY <2>1 DEF Placed
    <3>2. Len(w) \in Nat
      BY <2>6
    <3>3. Len(bits) \in Nat
      BY DEF Words
    <3> QED BY <2>1, <3>1, <3>2, <3>3
  <2>carries. \A i \in 1 .. Len(w) : q[k] + i <= Len(bits) => bits[q[k] + i] = w[i]
    BY <2>1 DEF Carries
  <2>pos. pos = Behind(el[1], el[2], bits, t.pos)
    OBVIOUS
  <2>r. r = Onto(bits, el, t)
    OBVIOUS
  <2>el. el = x[k + 1]
    OBVIOUS
  <2>v. v = e[Key(el)]
    OBVIOUS
  <2>t. t = s[k]
    OBVIOUS
  <2> HIDE DEF t, el, w, pos, r, v
  <2>8. Holds(bits, t.pos, WriteCode(el[1], el[2], v), Len(WriteCode(el[1], el[2], v)))
    <3>1. ASSUME NEW i \in 1 .. Len(w) PROVE bits[q[k] + i] = w[i]
      <4>1. q[k] + i <= Len(bits)
        BY <2>3, <2>7
      <4> QED BY <2>carries, <4>1
    <3> QED BY <2>3, <2>6, <2>7, <3>1 DEF Holds
  <2>9. ReadCode(el[1], el[2], bits, t.pos) = v /\ pos = q[k + 1]
    <3>1. t.pos \in Nat
      BY <2>3
    <3>2. /\ ReadCode(el[1], el[2], bits, t.pos) = v
          /\ Behind(el[1], el[2], bits, t.pos) = t.pos + Len(WriteCode(el[1], el[2], v))
      <4>1. Written(bits, t.pos, el[1], el[2], v)
        BY <2>6, <2>8 DEF Written
      <4> QED BY <3>1, <4>1, ReadWritten
    <3> QED BY <2>3, <2>6, <2>7, <2>pos, <3>2
  <2>10. /\ r \in States(N) /\ r.done = t.done /\ r.pos = pos
         /\ DOMAIN r.e = DOMAIN t.e \cup {Key(el), <<"eof", 0>>, <<"more", 0>>}
         /\ \A y \in DOMAIN r.e : y # <<"eof", 0>> /\ y # <<"more", 0>> =>
               r.e[y] = IF y = Key(el) THEN v ELSE t.e[y]
    BY <2>3, <2>6, <2>9, <2>pos, <2>r, Onwards
  <2>11. DOMAIN r.e = DOMAIN t.e \cup {Key(el)} \cup Stream
    BY <2>10 DEF Stream
  <2>12. \A y \in DOMAIN r.e \ Stream : y \in DOMAIN e /\ r.e[y] = e[y]
    <3> TAKE y \in DOMAIN r.e \ Stream
    <3>1. y # <<"eof", 0>> /\ y # <<"more", 0>>
      BY DEF Stream
    <3>2. CASE y = Key(el)
      BY <2>6, <2>10, <2>v, <3>1, <3>2
    <3>3. CASE y # Key(el)
      <4>1. y \in DOMAIN t.e \ Stream /\ r.e[y] = t.e[y]
        BY <2>10, <2>11, <3>1, <3>3
      <4> QED BY <2>2, <4>1 DEF Reached, Knows
    <3> QED BY <3>2, <3>3
  <2>13. Knows(e, r.e, known)
    BY <2>2, <2>11, <2>12 DEF Reached, Knows
  <2>14. \A i \in 1 .. k + 1 : Key(x[i]) \in DOMAIN r.e
    <3> TAKE i \in 1 .. k + 1
    <3>1. i = k + 1 \/ i \in 1 .. k
      OBVIOUS
    <3> QED BY <2>2, <2>11, <2>el, <3>1 DEF Reached
  <2>15. DOMAIN r.e \subseteq {Key(x[i]) : i \in 1 .. k + 1} \cup DOMAIN known \cup Stream
    <3>1. k + 1 \in 1 .. k + 1 /\ 1 .. k \subseteq 1 .. k + 1
      OBVIOUS
    <3> QED BY <2>2, <2>11, <2>el, <3>1 DEF Reached
  <2> QED BY <2>2, <2>5, <2>9, <2>10, <2>13, <2>14, <2>15 DEF Reached
<1> HIDE DEF T
<1>3. Nat \subseteq T
  BY <1>1, <1>2, Induction
<1>4. ASSUME NEW k \in 0 .. m PROVE Reached(N, x, e, known, q, k, s[k])
  <2>1. k \in T /\ k <= m
    BY <1>0, <1>3
  <2> QED BY <2>1 DEF T
<1> QED BY <1>4

\* Trailing bits complete the last byte, or fill another.
LEMMA Trailing ==
  ASSUME NEW w \in Seq(Bit)
  PROVE  LET t == WriteTrailing(w)
             c == SubSeq(t, 1, Len(t) - 8)
         IN  /\ t \in Words /\ Len(t) = BehindTrailing(Len(w)) /\ Len(t) > Len(w) /\ Len(t) <= Len(w) + 8
             /\ \A i \in 1 .. Len(w) : t[i] = w[i]
             /\ c \in Words /\ Len(c) = Len(t) - 8 /\ Len(c) <= Len(w)
             /\ \A i \in 1 .. Len(c) : c[i] = w[i]
<1> DEFINE n == Len(w)
           b == BehindTrailing(n)
           z == [i \in 1 .. b - n |-> IF i = 1 THEN 1 ELSE 0]
           t == WriteTrailing(w)
           c == SubSeq(t, 1, Len(t) - 8)
<1>1. n \in Nat
  OBVIOUS
<1>2. b \in Nat /\ b > n /\ b <= n + 8 /\ b % 8 = 0 /\ b >= 8
  BY <1>1 DEF BehindTrailing
<1> HIDE DEF n, b
<1>3. z \in Seq(Bit) /\ Len(z) = b - n
  <2>1. b - n \in Nat
    BY <1>1, <1>2
  <2> QED BY <2>1 DEF Bit
<1>4. t = w \o z
  BY DEF WriteTrailing, n, b
<1> HIDE DEF z, t
<1>5. t \in Seq(Bit) /\ Len(t) = b /\ \A i \in 1 .. n : t[i] = w[i]
  <2>1. t \in Seq(Bit) /\ Len(t) = Len(w) + Len(z)
    <3>1. w \o z \in Seq(Bit) /\ Len(w \o z) = Len(w) + Len(z)
      BY <1>3
    <3> QED BY <1>4, <3>1
  <2>2. Len(t) = b
    BY <1>1, <1>2, <1>3, <2>1 DEF n
  <2>3. \A i \in 1 .. n : t[i] = w[i]
    BY <1>3, <1>4 DEF n
  <2> QED BY <2>1, <2>2, <2>3
<1>6. t \in Words
  BY <1>2, <1>5 DEF Words
<1>7. c \in Seq(Bit) /\ Len(c) = b - 8 /\ \A i \in 1 .. b - 8 : c[i] = t[i]
  <2>1. b - 8 \in Nat /\ b - 8 <= Len(t)
    BY <1>2, <1>5
  <2>2. c = SubSeq(t, 1, b - 8)
    BY <1>5
  <2> HIDE DEF c
  <2> QED BY <1>5, <2>1, <2>2
<1> HIDE DEF c
<1>8. c \in Words
  <2>1. (b - 8) % 8 = 0
    BY <1>2
  <2> QED BY <1>7, <2>1 DEF Words
<1>9. \A i \in 1 .. Len(c) : c[i] = w[i]
  <2> TAKE i \in 1 .. Len(c)
  <2>1. i \in 1 .. n
    BY <1>1, <1>2, <1>7
  <2> QED BY <1>5, <1>7, <2>1
<1>10. Len(c) = Len(t) - 8 /\ Len(c) <= n
  BY <1>1, <1>2, <1>5, <1>7
<1> QED BY <1>2, <1>5, <1>6, <1>8, <1>9, <1>10 DEF n, b, t, c

\* Where in the buffer the elements of a structure are that is written at its start.
LEMMA Laid ==
  ASSUME NEW N, NEW x, NEW e, Lawful(N, x, e), NEW bits \in Words,
         \A i \in 1 .. Len(Write(x, e)) : i <= Len(bits) => bits[i] = Write(x, e)[i]
  PROVE  /\ Write(x, e) \in Seq(Bit)
         /\ \E q : /\ Placed(x, e, q) /\ Carries(bits, x, e, q) /\ q[Len(x)] = Len(Write(x, e))
                   /\ \A k \in 0 .. Len(x) : q[k] <= Len(Write(x, e))
<1> DEFINE c == Coded(x, e)
           w == Write(x, e)
           n == Len(x)
<1>1. c \in Seq(Seq(Bit)) /\ Len(c) = n /\ w = Joined(c)
  BY CodedWords
<1>2. n \in Nat
  BY DEF Lawful, Syntax
<1>c. \A k \in 1 .. n : c[k] \in Seq(Bit)
  BY <1>1
<1>hyp. \A i \in 1 .. Len(w) : i <= Len(bits) => bits[i] = w[i]
  OBVIOUS
<1>defs. c = Coded(x, e) /\ w = Write(x, e) /\ n = Len(x)
  OBVIOUS
<1> HIDE DEF c, w, n
<1>3. w \in Seq(Bit)
  BY <1>1, JoinedIn
<1>4. PICK q \in [0 .. n -> Nat] :
            /\ q[0] = 0 /\ q[n] = Len(w)
            /\ \A k \in 1 .. n :
                  /\ q[k] = q[k - 1] + Len(c[k]) /\ q[k] <= Len(w)
                  /\ \A i \in 1 .. Len(c[k]) : w[q[k - 1] + i] = c[k][i]
  <2>1. \E q \in [0 .. Len(c) -> Nat] :
            /\ q[0] = 0 /\ q[Len(c)] = Len(Joined(c))
            /\ \A k \in 1 .. Len(c) :
                  /\ q[k] = q[k - 1] + Len(c[k]) /\ q[k] <= Len(Joined(c))
                  /\ \A i \in 1 .. Len(c[k]) : Joined(c)[q[k - 1] + i] = c[k][i]
    <3>1. c \in Seq(Seq(Bit))
      BY <1>1
    <3> QED BY ONLY <3>1, Layout, ZenonT(60)
  <2> QED BY <1>1, <2>1
<1>5. Placed(x, e, q)
  BY <1>4, <1>defs DEF Placed
<1>6. ASSUME NEW k \in 1 .. n, NEW i \in 1 .. Len(c[k]), q[k - 1] + i <= Len(bits)
      PROVE  bits[q[k - 1] + i] = c[k][i]
  <2>1. k - 1 \in 0 .. n /\ k \in 0 .. n
    BY <1>2
  <2>2. q[k - 1] \in Nat /\ Len(c[k]) \in Nat /\ Len(w) \in Nat /\ q[k] = q[k - 1] + Len(c[k]) /\ q[k] <= Len(w)
    BY <1>3, <1>4, <1>c, <2>1
  <2>3. q[k - 1] + i \in 1 .. Len(w)
    BY <2>2
  <2>4. bits[q[k - 1] + i] = w[q[k - 1] + i]
    BY <1>6, <1>hyp, <2>3
  <2> QED BY <1>4, <2>4
<1>7. Carries(bits, x, e, q)
  BY <1>6, <1>defs DEF Carries
<1>8. \A k \in 0 .. n : q[k] <= Len(w)
  <2> TAKE k \in 0 .. n
  <2>1. k = 0 \/ k \in 1 .. n
    BY <1>2
  <2>2. Len(w) \in Nat
    BY <1>3
  <2> QED BY <1>4, <2>1, <2>2
<1> QED BY <1>3, <1>4, <1>5, <1>7, <1>8, <1>defs

\* The position never goes back.
LEMMA WalkGoesOn ==
  ASSUME NEW N, NEW E, NEW bits, NEW known, NEW M, NEW s, Walking(N, E, bits, known, M, s),
         NEW m \in 0 .. M
  PROVE  s[M].pos >= s[m].pos
<1>walking. /\ E \in [FieldsOf(N) -> Syntax(N)] /\ bits \in Words /\ known \in FieldsOf(N) /\ M \in Nat
            /\ s \in [0 .. M -> States(N)] /\ s[0] = From(known)
            /\ \A k \in 1 .. M : s[k] = Advance(bits, E[s[k - 1].e], s[k - 1], k)
  BY DEF Walking
<1> USE <1>walking
<1> DEFINE T == {k \in Nat : k + m <= M => s[k + m].pos >= s[m].pos}
<1>1. 0 \in T
  <2>1. s[m].pos \in Nat /\ 0 + m = m
    BY DEF States
  <2> QED BY <2>1
<1>2. ASSUME NEW k \in Nat, k \in T PROVE k + 1 \in T
  <2>0. SUFFICES ASSUME k + 1 + m <= M PROVE s[k + 1 + m].pos >= s[m].pos
    OBVIOUS
  <2>1. k + 1 + m \in 1 .. M /\ (k + 1 + m) - 1 = k + m /\ k + m \in 0 .. M /\ k + 1 + m \in Nat \ {0}
    BY <2>0
  <2> DEFINE t == s[k + m]
             n == k + 1 + m
  <2>2. t \in States(N) /\ t.e \in FieldsOf(N) /\ t.pos \in Nat /\ s[m].pos \in Nat
    BY <2>1 DEF States
  <2>3. s[n] = Advance(bits, E[t.e], t, n) /\ E[t.e] \in Syntax(N) /\ n \in Nat \ {0}
    BY <2>1, <2>2
  <2>4. t.pos >= s[m].pos
    BY <1>2, <2>1
  <2> HIDE DEF t, n
  <2>5. s[n] \in States(N) /\ s[n].pos >= t.pos /\ s[n].pos \in Nat
    <3>1. s[n] \in States(N) /\ s[n].pos >= t.pos
      BY <2>2, <2>3, Advances
    <3> QED BY <3>1 DEF States
  <2>6. s[n].pos >= s[m].pos
    BY <2>2, <2>4, <2>5
  <2> QED BY <2>6 DEF n
<1> HIDE DEF T
<1>3. Nat \subseteq T
  BY <1>1, <1>2, Induction
<1>4. M - m \in T /\ (M - m) + m = M /\ (M - m) + m <= M
  BY <1>3
<1> QED BY <1>4 DEF T

\* A reader that has come to the last element stays there.
AtRest(t, u0) == t.done = TRUE /\ t.e = u0.e /\ t.pos = u0.pos
\* A reader that is done stays where it is.
LEMMA WalkStops ==
  ASSUME NEW N, NEW E, NEW bits, NEW known, NEW M, NEW s, Walking(N, E, bits, known, M, s),
         NEW m \in 0 .. M, AtRest(s[m], s[m])
  PROVE  AtRest(s[M], s[m])
<1>walking. M \in Nat /\ \A k \in 1 .. M : s[k] = Advance(bits, E[s[k - 1].e], s[k - 1], k)
  BY DEF Walking
<1> USE <1>walking
<1> DEFINE T == {k \in Nat : k + m <= M => AtRest(s[k + m], s[m])}
<1>1. 0 \in T
  OBVIOUS
<1>2. ASSUME NEW k \in Nat, k \in T PROVE k + 1 \in T
  <2>0. SUFFICES ASSUME k + 1 + m <= M PROVE AtRest(s[k + 1 + m], s[m])
    OBVIOUS
  <2>1. k + 1 + m \in 1 .. M /\ (k + 1 + m) - 1 = k + m
    BY <2>0
  <2> DEFINE t == s[k + m]
             n == k + 1 + m
  <2>3. s[n] = Advance(bits, E[t.e], t, n)
    BY <2>1
  <2>4. AtRest(t, s[m])
    BY <1>2, <2>0
  <2> HIDE DEF t, n
  <2>5. s[n] = t
    BY <2>3, <2>4 DEF Advance, AtRest
  <2> QED BY <2>4, <2>5 DEF n
<1> HIDE DEF T
<1>3. Nat \subseteq T
  BY <1>1, <1>2, Induction
<1>4. M - m \in T /\ (M - m) + m = M /\ (M - m) + m <= M
  BY <1>3
<1> QED BY <1>4 DEF T

\* The fields of these elements, those known before and no others.
Sound(N, x, e, known) ==
    /\ "eof" \notin N /\ "more" \notin N
    /\ Lawful(N, x, e) /\ Len(x) < MaxElements
    /\ DOMAIN e = {Key(x[k]) : k \in DOMAIN x} \cup DOMAIN known
    /\ \A k \in DOMAIN known : e[k] = known[k]
\* The reader asks for the elements one after the other and then for no more.
Follows(N, E, x, e, known) ==
    /\ Asks(N, E, x, e, known, Len(x))
    /\ \A d \in FieldsOf(N) : Knows(e, d, known) /\ (\A i \in 1 .. Len(x) : Key(x[i]) \in DOMAIN d)
                              => Len(E[d]) = Len(x)
Begins(a, b) == Len(a) <= Len(b) /\ \A i \in 1 .. Len(a) : b[i] = a[i]

\* What the reader finds in the whole of what was written.
LEMMA ReadsWhole ==
  ASSUME NEW N, NEW E, NEW bits, NEW known, NEW s, Walking(N, E, bits, known, MaxElements, s),
         NEW x, NEW e, Sound(N, x, e, known), Follows(N, E, x, e, known), Begins(Write(x, e), bits)
  PROVE  Fields(s[MaxElements].e) = e /\ s[MaxElements].pos = Len(Write(x, e))
<1> DEFINE M == MaxElements
<1>sound. /\ "eof" \notin N /\ "more" \notin N
          /\ Lawful(N, x, e) /\ Len(x) < M
          /\ DOMAIN e = {Key(x[k]) : k \in DOMAIN x} \cup DOMAIN known
          /\ \A k \in DOMAIN known : e[k] = known[k]
  BY DEF Sound
<1>follows. /\ Asks(N, E, x, e, known, Len(x))
            /\ \A d \in FieldsOf(N) : Knows(e, d, known) /\ (\A i \in 1 .. Len(x) : Key(x[i]) \in DOMAIN d)
                              => Len(E[d]) = Len(x)
  BY DEF Follows
<1>begins. Len(Write(x, e)) <= Len(bits) /\ \A i \in 1 .. Len(Write(x, e)) : bits[i] = Write(x, e)[i]
  BY DEF Begins
<1> USE <1>sound, <1>follows, <1>begins
<1>walking. /\ E \in [FieldsOf(N) -> Syntax(N)] /\ bits \in Words /\ known \in FieldsOf(N) /\ M \in Nat
            /\ s \in [0 .. M -> States(N)] /\ s[0] = From(known)
            /\ \A k \in 1 .. M : s[k] = Advance(bits, E[s[k - 1].e], s[k - 1], k)
            /\ Walking(N, E, bits, known, M, s)
  BY DEF Walking
<1> USE <1>walking
<1> HIDE DEF M
<1> DEFINE w == Write(x, e)
           n == Len(x)
<1>1. PICK q : /\ Placed(x, e, q) /\ Carries(bits, x, e, q) /\ q[n] = Len(w)
               /\ \A k \in 0 .. n : q[k] <= Len(w)
  BY Laid
<1>2. n \in Nat /\ n <= M /\ n \in 0 .. Len(x) /\ n \in 0 .. M /\ n + 1 \in 1 .. M /\ n + 1 \in 0 .. M /\ (n + 1) - 1 = n
      /\ DOMAIN x = 1 .. n
  BY DEF Lawful, Syntax
<1>w. w \in Seq(Bit) /\ Len(w) \in Nat /\ Len(bits) \in Nat
  <2>1. w \in Seq(Bit)
    BY Laid
  <2>2. Len(bits) \in Nat
    BY DEF Words
  <2> QED BY <2>1, <2>2
<1>3. \A k \in 1 .. n : q[k] <= Len(bits)
  <2> TAKE k \in 1 .. n
  <2>1. k \in 0 .. n
    BY <1>2
  <2>2. q[k] \in Nat
    BY <1>1, <2>1 DEF Placed
  <2> QED BY <1>1, <1>w, <2>1, <2>2
<1>4. Reached(N, x, e, known, q, n, s[n])
  <2>1. \A k \in 0 .. n : Reached(N, x, e, known, q, k, s[k])
    BY <1>1, <1>2, <1>3, WalkOn
  <2> QED BY <1>2, <2>1
<1>5. s[n] \in States(N) /\ s[n].e \in FieldsOf(N) /\ s[n].done = FALSE /\ s[n].pos = Len(w)
  BY <1>1, <1>4 DEF Reached, States
<1>6. Len(E[s[n].e]) = n
  BY <1>4, <1>5 DEF Reached
<1>7. s[n + 1] = [s[n] EXCEPT !.done = TRUE]
  <2>1. s[n + 1] = Advance(bits, E[s[n].e], s[n], n + 1)
    BY <1>2
  <2>2. n + 1 > Len(E[s[n].e])
    BY <1>2, <1>6
  <2> QED BY <1>5, <2>1, <2>2 DEF Advance
<1>8. s[n + 1].done = TRUE /\ s[n + 1].e = s[n].e /\ s[n + 1].pos = s[n].pos
  BY <1>5, <1>7 DEF States
<1>9. AtRest(s[M], s[n + 1])
  <2>1. n + 1 \in 0 .. M /\ AtRest(s[n + 1], s[n + 1])
    BY <1>2, <1>8 DEF AtRest
  <2> QED BY <2>1, WalkStops
<1>10. Fields(s[n].e) = e
  <2> DEFINE f == s[n].e
  <2>1. Knows(e, f, known) /\ \A i \in 1 .. n : Key(x[i]) \in DOMAIN f
    BY <1>4 DEF Reached
  <2>2. e = [k \in DOMAIN e |-> e[k]] /\ DOMAIN e \cap Stream = {}
    BY InFields DEF Lawful
  <2> HIDE DEF f
  <2>3. DOMAIN f \ Stream = DOMAIN e
    BY <1>2, <2>1, <2>2 DEF Knows
  <2>4. Fields(f) = [k \in DOMAIN f \ Stream |-> f[k]]
    BY DEF Fields, Stream
  <2>5. \A k \in DOMAIN f \ Stream : f[k] = e[k]
    BY <2>1 DEF Knows
  <2>6. Fields(f) = e
    BY <2>2, <2>3, <2>4, <2>5
  <2> QED BY <2>6 DEF f
<1> QED BY <1>5, <1>8, <1>9, <1>10 DEF AtRest, M

\* The reader of what is cut gets to its end.
LEMMA ReadsCut ==
  ASSUME NEW N, NEW E, NEW bits, NEW known, NEW s, Walking(N, E, bits, known, MaxElements, s),
         NEW x, NEW e, Sound(N, x, e, known), Follows(N, E, x, e, known), Begins(bits, Write(x, e))
  PROVE  s[MaxElements].pos >= Len(bits)
<1> DEFINE M == MaxElements
<1>sound. /\ "eof" \notin N /\ "more" \notin N
          /\ Lawful(N, x, e) /\ Len(x) < M
          /\ DOMAIN known \subseteq DOMAIN e
          /\ \A k \in DOMAIN known : e[k] = known[k]
  BY DEF Sound
<1>follows. Asks(N, E, x, e, known, Len(x))
  BY DEF Follows
<1>begins. Len(bits) <= Len(Write(x, e)) /\ \A i \in 1 .. Len(bits) : bits[i] = Write(x, e)[i]
  BY DEF Begins
<1> USE <1>sound, <1>follows, <1>begins
<1>walking. /\ E \in [FieldsOf(N) -> Syntax(N)] /\ bits \in Words /\ known \in FieldsOf(N) /\ M \in Nat
            /\ s \in [0 .. M -> States(N)] /\ s[0] = From(known)
            /\ \A k \in 1 .. M : s[k] = Advance(bits, E[s[k - 1].e], s[k - 1], k)
            /\ Walking(N, E, bits, known, M, s)
  BY DEF Walking
<1> USE <1>walking
<1> HIDE DEF M
<1> DEFINE w == Write(x, e)
           n == Len(x)
<1>w. Len(bits) \in Nat /\ n \in Nat
  <2>1. Len(bits) \in Nat
    BY DEF Words
  <2>2. n \in Nat
    BY DEF Lawful, Syntax
  <2> QED BY <2>1, <2>2
<1>0. \A i \in 1 .. Len(w) : i <= Len(bits) => bits[i] = w[i]
  <2> TAKE i \in 1 .. Len(w)
  <2>1. i <= Len(bits) => i \in 1 .. Len(bits)
    BY <1>w
  <2> QED BY <2>1
<1>1. PICK q : /\ Placed(x, e, q) /\ Carries(bits, x, e, q) /\ q[n] = Len(w)
               /\ \A k \in 0 .. n : q[k] <= Len(w)
  BY <1>0, Laid
<1>q. q \in [0 .. n -> Nat] /\ q[0] = 0
  BY <1>1 DEF Placed
<1> DEFINE T == {k \in 0 .. n : q[k] >= Len(bits)}
<1>2. T \in SUBSET Nat /\ n \in T
  <2>1. n \in 0 .. n
    BY <1>w
  <2> QED BY <1>1, <1>w, <2>1
<1>3. PICK k \in T : \A j \in T : k <= j
  <2> HIDE DEF T
  <2> QED BY <1>2, Least
<1>4. k \in 0 .. n /\ q[k] >= Len(bits) /\ k \in Nat
  BY <1>3
<1>5. \A j \in 0 .. n : j < k => q[j] < Len(bits)
  <2> TAKE j \in 0 .. n
  <2> SUFFICES ASSUME j < k PROVE q[j] < Len(bits)
    OBVIOUS
  <2>1. j \notin T
    BY <1>3, <1>4
  <2>2. ~(q[j] >= Len(bits))
    BY <2>1
  <2>3. q[j] \in Nat
    BY <1>q
  <2> QED BY <1>w, <2>2, <2>3
<1> HIDE DEF T
<1>6. CASE k = 0
  <2>1. Len(bits) = 0
    BY <1>4, <1>6, <1>q, <1>w
  <2>2. M \in 0 .. M /\ s[M] \in States(N)
    OBVIOUS
  <2> QED BY <2>1, <2>2 DEF States, M
<1>7. CASE k # 0
  <2> DEFINE m == k - 1
  <2>1. /\ m \in 0 .. n /\ m <= M /\ m \in Nat /\ m + 1 = k /\ k \in 1 .. M /\ k \in 1 .. n /\ k \in 0 .. M
        /\ m \in 0 .. M /\ k - 1 = m
    BY <1>4, <1>7, <1>w
  <2> HIDE DEF m
  <2>2. \A j \in 1 .. m : q[j] <= Len(bits)
    <3> TAKE j \in 1 .. m
    <3>1. j \in 0 .. n /\ j < k
      BY <1>w, <2>1
    <3>2. q[j] < Len(bits)
      BY <1>5, <3>1
    <3>3. q[j] \in Nat
      BY <1>q, <3>1
    <3> QED BY <1>w, <3>2, <3>3
  <2>3. Asks(N, E, x, e, known, m)
    <3>1. 0 .. m - 1 \subseteq 0 .. n - 1
      BY <1>w, <2>1
    <3> QED BY <3>1 DEF Asks
  <2>4. Reached(N, x, e, known, q, m, s[m])
    <3>1. \A j \in 0 .. m : Reached(N, x, e, known, q, j, s[j])
      BY <1>1, <2>1, <2>2, <2>3, WalkOn
    <3>2. m \in 0 .. m
      BY <2>1
    <3> QED BY <3>1, <3>2
  <2>5. /\ s[m] \in States(N) /\ s[m].e \in FieldsOf(N) /\ s[m].done = FALSE
        /\ s[m].pos = q[m] /\ q[m] \in Nat
    BY <2>1, <2>4, <1>q DEF Reached, States
  <2> DEFINE t == s[m]
             el == x[k]
             v == e[Key(x[k])]
             c == Coded(x, e)[k]
  <2>6. k <= Len(E[t.e]) /\ E[t.e][k] = el /\ Len(E[t.e]) \in Nat
    <3>1. m \in 0 .. n - 1
      BY <1>w, <2>1
    <3>2. m + 1 <= Len(E[t.e]) /\ E[t.e][m + 1] = x[m + 1]
      BY <2>4, <2>5, <3>1 DEF Reached, Asks
    <3>3. E[t.e] \in Syntax(N)
      BY <2>5
    <3> QED BY <2>1, <3>2, <3>3 DEF Syntax
  <2>7. /\ el \in ElOf(N) /\ el[1] \in Codes /\ el[2] \in Nat
        /\ v \in Int /\ Fits(el[1], el[2], v) /\ c = WriteCode(el[1], el[2], v) /\ c \in Seq(Bit)
    BY <2>1, CodedWords
  <2>8. q[k] = q[m] + Len(c) /\ \A i \in 1 .. Len(c) : q[m] + i <= Len(bits) => bits[q[m] + i] = c[i]
    BY <1>1, <2>1 DEF Placed, Carries
  <2>9. s[k] = Onto(bits, el, t)
    <3>1. s[k] = Advance(bits, E[t.e], t, k)
      BY <2>1
    <3>2. ~(k > Len(E[t.e]))
      BY <2>6, <2>1
    <3> QED BY <2>5, <2>6, <3>1, <3>2 DEF Advance
  <2>10. t \in States(N) /\ t.pos = q[m] /\ t.pos \in Nat
    BY <2>5
  <2> HIDE DEF t, el, v, c
  <2>11. s[k].pos = Behind(el[1], el[2], bits, t.pos)
    BY <2>7, <2>9, <2>10, Onwards
  <2>12. t.pos + Len(WriteCode(el[1], el[2], v)) >= Len(bits)
    BY <1>4, <2>7, <2>8, <2>10
  <2>13. \A i \in 1 .. Len(WriteCode(el[1], el[2], v)) :
            t.pos + i <= Len(bits) => bits[t.pos + i] = WriteCode(el[1], el[2], v)[i]
    BY <2>7, <2>8, <2>10
  <2>14. Behind(el[1], el[2], bits, t.pos) >= Len(bits)
    BY <2>7, <2>10, <2>12, <2>13, BehindCut, ZenonT(40)
  <2>15. s[k].pos \in Nat /\ s[k].pos >= Len(bits)
    <3>1. s[k] \in States(N)
      BY <2>1
    <3> QED BY <2>11, <2>14, <3>1 DEF States
  <2>16. s[M].pos >= s[k].pos /\ s[M].pos \in Nat
    <3>1. M \in 0 .. M /\ s[M] \in States(N)
      OBVIOUS
    <3>2. s[M].pos >= s[k].pos
      BY <2>1, WalkGoesOn
    <3> QED BY <3>1, <3>2 DEF States
  <2> QED BY <1>w, <2>15, <2>16 DEF M
<1> QED BY <1>6, <1>7 DEF M

\* The field of an element is no state of the stream.
LEMMA KeyIn ==
  ASSUME NEW N, "eof" \notin N, "more" \notin N, NEW x \in Syntax(N), NEW i \in 1 .. Len(x)
  PROVE  Key(x[i]) \in N \X Nat /\ Key(x[i]) \in Keys(N) /\ Key(x[i]) \notin Stream
         /\ (x[i][3] \in Once => Key(x[i]) = <<x[i][3], 0>>)
<1>1. x[i] \in ElOf(N)
  BY DEF Syntax
<1>2. x[i][3] \in N /\ x[i][4] \in Nat /\ (x[i][3] \in Once => x[i][4] = 0)
  BY <1>1 DEF ElOf
<1>3. Key(x[i]) = <<x[i][3], x[i][4]>>
  BY DEF Key
<1>4. <<x[i][3], x[i][4]>> \notin Stream
  BY <1>2 DEF Stream
<1> QED BY <1>2, <1>3, <1>4 DEF Keys

\* What an encoder may send has words, and fields by name.
LEMMA LegalLawful ==
  ASSUME NEW N, "eof" \notin N, "more" \notin N, NEW x \in Syntax(N), NEW e, NEW known,
         DOMAIN known \subseteq {<<"_more_rbsp_data_present", 0>>}, Legal(x, e, known)
  PROVE  Sound(N, x, e, known) /\ \A k \in DOMAIN e : k[1] \notin Signed => e[k] \in Nat
<1>1. /\ DOMAIN e = {Key(x[k]) : k \in DOMAIN x} \cup DOMAIN known /\ e \in [DOMAIN e -> Int]
      /\ Len(x) < MaxElements /\ (\A k \in DOMAIN known : e[k] = known[k])
      /\ \A k \in DOMAIN x : Fits(x[k][1], x[k][2], e[Key(x[k])])
      /\ \A k \in DOMAIN e : e[k] < 0 => k[1] \in Signed
  BY DEF Legal
<1>2. DOMAIN x = 1 .. Len(x)
  BY DEF Syntax
<1>3. <<"_more_rbsp_data_present", 0>> \in Keys(N) /\ <<"_more_rbsp_data_present", 0>> \notin Stream
  BY DEF Keys, Asked, Stream
<1>4. \A k \in DOMAIN e : k \in Keys(N) /\ k \notin Stream
  <2> TAKE k \in DOMAIN e
  <2>1. CASE k \in DOMAIN known
    BY <1>3, <2>1
  <2>2. CASE k \notin DOMAIN known
    <3>1. PICK i \in 1 .. Len(x) : k = Key(x[i])
      BY <1>1, <1>2, <2>2
    <3>2. Key(x[i]) \in Keys(N) /\ Key(x[i]) \notin Stream
      BY <3>1, KeyIn
    <3> QED BY <3>1, <3>2
  <2> QED BY <2>1, <2>2
<1>5. e \in FieldsOf(N)
  <2>1. e = [k \in DOMAIN e |-> e[k]] /\ \A k \in DOMAIN e : e[k] \in Int
    BY <1>1
  <2> QED BY <1>4, <2>1, InFields
<1>6. \A k \in 1 .. Len(x) : Key(x[k]) \in DOMAIN e
  BY <1>1, <1>2
<1>7. Lawful(N, x, e)
  BY <1>1, <1>2, <1>4, <1>5, <1>6 DEF Lawful
<1>8. \A k \in DOMAIN e : k[1] \notin Signed => e[k] \in Nat
  <2> TAKE k \in DOMAIN e
  <2>1. e[k] \in Int /\ (e[k] < 0 => k[1] \in Signed)
    BY <1>1
  <2> QED BY <2>1
<1> QED BY <1>1, <1>7, <1>8 DEF Sound

AlikeFor(N, E, x, e, known) ==
    \A d \in FieldsOf(N) : Knows(e, d, known) => Coh(x, E[d], DOMAIN d \ Stream)

\* A reader asks for the elements that are sent when the structures start alike.
LEMMA AsksAll ==
  ASSUME NEW N, "eof" \notin N, "more" \notin N, NEW E \in [FieldsOf(N) -> Syntax(N)], NEW x, NEW e,
         Lawful(N, x, e), NEW known, AlikeFor(N, E, x, e, known)
  PROVE  Follows(N, E, x, e, known)
<1>1. x \in Syntax(N) /\ Len(x) \in Nat /\ \A i \in 1 .. Len(x) : Key(x[i]) \notin Stream
  <2>1. x \in Syntax(N)
    BY DEF Lawful
  <2>2. Len(x) \in Nat
    BY <2>1 DEF Syntax
  <2> QED BY <2>1, <2>2, KeyIn
<1>2. ASSUME NEW d \in FieldsOf(N), NEW k \in 0 .. Len(x), Knows(e, d, known), \A i \in 1 .. k : Key(x[i]) \in DOMAIN d
      PROVE  /\ k <= Len(E[d]) /\ (k + 1 <= Len(x) <=> k + 1 <= Len(E[d]))
             /\ k + 1 <= Len(x) => E[d][k + 1] = x[k + 1]
  <2>1. \A i \in 1 .. k : Key(x[i]) \in DOMAIN d \ Stream
    <3> TAKE i \in 1 .. k
    <3>1. i \in 1 .. Len(x)
      BY <1>1
    <3> QED BY <1>1, <1>2, <3>1
  <2>2. Coh(x, E[d], DOMAIN d \ Stream)
    BY <1>2 DEF AlikeFor
  <2> QED BY <2>1, <2>2 DEF Coh
<1>3. ASSUME NEW d \in FieldsOf(N), NEW k \in 0 .. Len(x) - 1, Knows(e, d, known), \A i \in 1 .. k : Key(x[i]) \in DOMAIN d
      PROVE  k + 1 <= Len(E[d]) /\ E[d][k + 1] = x[k + 1]
  <2>1. k \in 0 .. Len(x) /\ k + 1 <= Len(x)
    BY <1>1
  <2> QED BY <1>2, <1>3, <2>1
<1>4. Asks(N, E, x, e, known, Len(x))
  BY <1>3 DEF Asks
<1>5. ASSUME NEW d \in FieldsOf(N), Knows(e, d, known), \A i \in 1 .. Len(x) : Key(x[i]) \in DOMAIN d
      PROVE  Len(E[d]) = Len(x)
  <2>1. Len(x) \in 0 .. Len(x)
    BY <1>1
  <2>2. Len(x) <= Len(E[d]) /\ (Len(x) + 1 <= Len(x) <=> Len(x) + 1 <= Len(E[d]))
    BY <1>2, <1>5, <2>1
  <2>3. Len(E[d]) \in Nat
    BY DEF Syntax
  <2> QED BY <1>1, <2>2, <2>3
<1> QED BY <1>4, <1>5 DEF Follows

\* A reader that has read the start of a structure agrees with the writer on the fields
\* it has.
LEMMA KnowsAgree ==
  ASSUME NEW N, NEW x, NEW e, Lawful(N, x, e), NEW d \in FieldsOf(N), NEW known, Knows(e, d, known)
  PROVE  Agree(e, d, DOMAIN d \ Stream) /\ IntFields(e) /\ IntFields(d)
<1>1. e \in FieldsOf(N)
  BY DEF Lawful
<1>2. IntFields(e) /\ IntFields(d)
  BY <1>1, InFields DEF IntFields
<1> QED BY <1>2 DEF Knows, Agree

-----------------------------------------------------------------------------
(* Sequence parameter sets *)

OfSpsRead == [d \in FieldsOf(Names) |-> seq_parameter_set("read", d)]

\* The names of fields are no states of the stream.
LEMMA NamesOk == "eof" \notin Names /\ "more" \notin Names
BY Groups

\* The reader may start without fields.
LEMMA NoFieldsIn == \A N : NoFields \in FieldsOf(N)
<1> TAKE N
<1>1. NoFields = [k \in DOMAIN NoFields |-> NoFields[k]] /\ DOMAIN NoFields = {}
  BY DEF NoFields
<1> QED BY <1>1, InFields

\* The reader of sequence parameter sets always asks for elements.
LEMMA SpsReadTyped == OfSpsRead \in [FieldsOf(Names) -> Syntax(Names)]
<1> SUFFICES ASSUME NEW d \in FieldsOf(Names) PROVE seq_parameter_set("read", d) \in Syntax(Names)
  BY DEF OfSpsRead
<1>1. Agree(NoFields, d, {})
  BY DEF Agree
<1>2. IntFields(NoFields) /\ IntFields(d)
  BY NoFieldsIn, InFields DEF IntFields
<1>3. ~UnknownProfile(NoFields)
  <2>1. F(NoFields, "profile_idc") = 0
    BY DEF F, At, NoFields
  <2>2. 0 \notin HighProfiles("sent")
    BY DEF HighProfiles
  <2> QED BY <2>1, <2>2 DEF UnknownProfile
<1>4. Links(seq_parameter_set("sent", NoFields), seq_parameter_set("read", d), SpsKeys, {})
  BY <1>1, <1>2, <1>3, SpsLinks
<1> QED BY <1>4 DEF Links, S

SpsReader(bits) == Read(LAMBDA e : seq_parameter_set("read", e), bits, NoFields)

\* read_seq_parameter_set_rbsp ends where its steps end.
LEMMA SpsWalk ==
  ASSUME NEW bits, NEW s, Walking(Names, OfSpsRead, bits, NoFields, MaxElements, s)
  PROVE  SpsReader(bits) = [e |-> Fields(s[MaxElements].e), pos |-> s[MaxElements].pos]
<1> DEFINE R(r, k) == IF k = 0 THEN [e |-> NoFields, pos |-> 0, done |-> FALSE]
             ELSE LET t == r[k - 1]
                  IN  IF t.done THEN t
                      ELSE LET es == seq_parameter_set("read", t.e)
                           IN  IF k > Len(es) THEN [t EXCEPT !.done = TRUE]
                               ELSE LET el  == es[k]
                                        pos == Behind(el[1], el[2], bits, t.pos)
                                        new == Only(Key(el), ReadCode(el[1], el[2], bits, t.pos))
                                    IN  [t EXCEPT !.e = Before(State(bits, pos), Before(new, @)), !.pos = pos]
           g == CHOOSE r : r = [k \in 0 .. MaxElements |-> R(r, k)]
<1>1. SpsReader(bits) = [e |-> Fields(g[MaxElements].e), pos |-> g[MaxElements].pos]
  BY Zenon DEF SpsReader, Read, Walk
<1>2. ASSUME NEW t \in States(Names), NEW k \in Nat \ {0}, NEW r, r[k - 1] = t
      PROVE  R(r, k) = Advance(bits, OfSpsRead[t.e], t, k)
  <2>1. k # 0
    OBVIOUS
  <2>2. OfSpsRead[t.e] = seq_parameter_set("read", t.e)
    BY DEF States, OfSpsRead
  <2> QED BY <1>2, <2>1, <2>2, Zenon DEF Advance, Onto
<1>3. \E r : r = [k \in 0 .. MaxElements |-> R(r, k)]
  <2>1. s = [k \in 0 .. MaxElements |-> s[k]]
    BY DEF Walking
  <2>2. ASSUME NEW k \in 0 .. MaxElements PROVE s[k] = R(s, k)
    <3>1. CASE k = 0
      <4>1. s[0] = From(NoFields)
        BY DEF Walking
      <4> QED BY <3>1, <4>1, Zenon DEF From
    <3>2. CASE k # 0
      <4>1. k \in 1 .. MaxElements /\ k \in Nat \ {0} /\ k - 1 \in 0 .. MaxElements
        BY <3>2 DEF Walking
      <4>2. s[k - 1] \in States(Names) /\ s[k] = Advance(bits, OfSpsRead[s[k - 1].e], s[k - 1], k)
        BY <4>1 DEF Walking
      <4> QED BY <1>2, <4>1, <4>2, Zenon
    <3> QED BY <3>1, <3>2
  <2> HIDE DEF R
  <2>3. s = [k \in 0 .. MaxElements |-> R(s, k)]
    BY <2>1, <2>2
  <2> QED BY <2>3
<1>4. g = [k \in 0 .. MaxElements |-> R(g, k)]
  <2> HIDE DEF R
  <2> QED BY <1>3, Zenon
<1> HIDE DEF g
<1>5. MaxElements \in Nat /\ s[0] = From(NoFields)
  BY DEF Walking
<1>6. g[0] = From(NoFields)
  <2>1. g[0] = R(g, 0)
    <3> HIDE DEF R
    <3>1. 0 \in 0 .. MaxElements
      BY <1>5
    <3> QED BY <1>4, <3>1
  <2> QED BY <2>1 DEF From
<1>7. ASSUME NEW k \in 1 .. MaxElements, g[k - 1] \in States(Names)
      PROVE  g[k] = Advance(bits, OfSpsRead[g[k - 1].e], g[k - 1], k)
  <2>1. k \in 0 .. MaxElements /\ k \in Nat \ {0}
    BY <1>5
  <2>2. g[k] = R(g, k)
    <3> HIDE DEF R
    <3> QED BY <1>4, <2>1
  <2> HIDE DEF R
  <2> QED BY <1>2, <1>7, <2>1, <2>2
<1>8. g[MaxElements] = s[MaxElements]
  BY <1>5, <1>6, <1>7, OneWalk
<1> QED BY <1>1, <1>8

\* A structure that is read as it is sent.
Same(N, E, x, e, known) ==
    /\ "eof" \notin N /\ "more" \notin N /\ E \in [FieldsOf(N) -> Syntax(N)]
    /\ x \in Syntax(N) /\ known \in FieldsOf(N) /\ DOMAIN known \subseteq {<<"_more_rbsp_data_present", 0>>}
    /\ Legal(x, e, known) /\ AlikeFor(N, E, x, e, known)

\* What follows for a structure that is asked for as it is sent.
LEMMA SameFacts ==
  ASSUME NEW N, NEW E, NEW x, NEW e, NEW known, Same(N, E, x, e, known)
  PROVE  Sound(N, x, e, known) /\ Follows(N, E, x, e, known) /\ Write(x, e) \in Seq(Bit)
<1> USE DEF Same
<1>2. Sound(N, x, e, known)
  BY LegalLawful
<1>l. Lawful(N, x, e)
  BY <1>2 DEF Sound
<1>3. Follows(N, E, x, e, known)
  BY <1>l, AsksAll
<1>4. Write(x, e) \in Seq(Bit)
  <2>1. <<>> \in Words /\ Len(<<>>) = 0
    BY DEF Words
  <2>2. \A i \in 1 .. Len(Write(x, e)) : i <= Len(<<>>) => <<>>[i] = Write(x, e)[i]
    BY <2>1
  <2> QED BY <1>l, <2>1, <2>2, Laid
<1> QED BY <1>2, <1>3, <1>4

\* It is read whole, with the fields it was sent with, and not behind its end.
LEMMA ReadSent ==
  ASSUME NEW N, NEW E, NEW x, NEW e, NEW known, Same(N, E, x, e, known),
         NEW s, Walking(N, E, WriteTrailing(Write(x, e)), known, MaxElements, s)
  PROVE  /\ Fields(s[MaxElements].e) = e
         /\ ~bs_overrun(WriteTrailing(Write(x, e)), BehindTrailing(s[MaxElements].pos))
<1> DEFINE w == Write(x, e)
           t == WriteTrailing(w)
<1>1. /\ w \in Seq(Bit) /\ t \in Words /\ Len(t) = BehindTrailing(Len(w)) /\ Len(t) > Len(w)
      /\ \A i \in 1 .. Len(w) : t[i] = w[i]
  BY SameFacts, Trailing
<1>w. w = Write(x, e) /\ t = WriteTrailing(w)
  OBVIOUS
<1> HIDE DEF w, t
<1>2. Len(w) \in Nat /\ Len(t) \in Nat
  BY <1>1 DEF Words
<1>3. Fields(s[MaxElements].e) = e /\ s[MaxElements].pos = Len(w)
  <2>1. Walking(N, E, t, known, MaxElements, s)
    BY <1>w
  <2>2. Begins(Write(x, e), t)
    BY <1>1, <1>2, <1>w DEF Begins
  <2>3. Fields(s[MaxElements].e) = e /\ s[MaxElements].pos = Len(Write(x, e))
    BY <2>1, <2>2, SameFacts, ReadsWhole
  <2> QED BY <1>w, <2>3
<1>4. ~bs_overrun(t, BehindTrailing(Len(w)))
  <2>1. BehindTrailing(Len(w)) \in Nat /\ ~(BehindTrailing(Len(w)) >= Len(t) + 8)
    BY <1>1, <1>2
  <2> QED BY <1>1, <2>1, EndOfWords
<1> QED BY <1>3, <1>4, <1>w

\* Who reads up to the end of a buffer finds no trailing bits in it.
LEMMA OverrunBehind ==
  ASSUME NEW bits \in Words, NEW pos \in Nat, pos >= Len(bits)
  PROVE  bs_overrun(bits, BehindTrailing(pos))
<1>1. Len(bits) \in Nat /\ Len(bits) % 8 = 0
  BY DEF Words
<1>2. BehindTrailing(pos) \in Nat /\ BehindTrailing(pos) >= Len(bits) + 8
  BY <1>1 DEF BehindTrailing
<1> QED BY <1>2, EndOfWords

\* A structure that lost its last byte is read behind its end.
LEMMA ReadCut ==
  ASSUME NEW N, NEW E, NEW x, NEW e, NEW known, Same(N, E, x, e, known), NEW bits,
         bits = SubSeq(WriteTrailing(Write(x, e)), 1, Len(WriteTrailing(Write(x, e))) - 8),
         NEW s, Walking(N, E, bits, known, MaxElements, s)
  PROVE  bs_overrun(bits, BehindTrailing(s[MaxElements].pos))
<1>1. /\ Write(x, e) \in Seq(Bit) /\ bits \in Words /\ Len(bits) <= Len(Write(x, e))
      /\ \A i \in 1 .. Len(bits) : bits[i] = Write(x, e)[i]
  BY SameFacts, Trailing
<1>2. s[MaxElements].pos >= Len(bits)
  <2>1. Begins(bits, Write(x, e))
    BY <1>1 DEF Begins
  <2>2. Sound(N, x, e, known) /\ Follows(N, E, x, e, known)
    BY SameFacts
  <2> QED BY <2>1, <2>2, ReadsCut
<1>3. s[MaxElements].pos \in Nat
  BY MaxElementsAssumption DEF Walking, States
<1> QED BY <1>1, <1>2, <1>3, OverrunBehind

-----------------------------------------------------------------------------
(* Sequence parameter sets, sent and read *)

SpsSyntax(e) == seq_parameter_set("sent", e)
CutOff(bits) == SubSeq(bits, 1, Len(bits) - 8)

\* What a NAL unit of a sequence parameter set is.
LEMMA SpsNal ==
  ASSUME NEW n \in SpsNals
  PROVE  \E e : /\ n = Unit(7, 1, e, Write(SpsSyntax(e), e)) /\ Legal(SpsSyntax(e), e, NoFields)
                /\ F(e, "seq_parameter_set_id") \in SpsIds
<1>1. F(n.e, "seq_parameter_set_id") \in SpsIds
  BY DEF SpsNals
<1>2. PICK told \in SpsTold : n \in Sent(7, 1, LAMBDA e : seq_parameter_set("sent", e), told, NoFields)
  BY DEF SpsNals
<1>3. \E e : n = Unit(7, 1, e, Write(SpsSyntax(e), e)) /\ Legal(SpsSyntax(e), e, NoFields)
  BY <1>2, Zenon DEF Sent, SpsSyntax
<1>4. PICK e : n = Unit(7, 1, e, Write(SpsSyntax(e), e)) /\ Legal(SpsSyntax(e), e, NoFields)
  BY <1>3
<1>5. n.e = e
  BY <1>4 DEF Unit
<1> QED BY <1>1, <1>4, <1>5

\* A sequence parameter set of a known profile is asked for as it is sent.
LEMMA SpsSame ==
  ASSUME NEW e, Legal(SpsSyntax(e), e, NoFields), ~UnknownProfile(e)
  PROVE  /\ Same(Names, OfSpsRead, SpsSyntax(e), e, NoFields)
         /\ <<"profile_idc", 0>> \in DOMAIN e /\ <<"reserved_zero_2bits", 0>> \in DOMAIN e
<1>1. /\ DOMAIN NoFields = {} /\ NoFields \in FieldsOf(Names)
      /\ DOMAIN NoFields \subseteq {<<"_more_rbsp_data_present", 0>>}
  BY NoFieldsIn DEF NoFields
<1>i. IntFields(e)
  BY DEF Legal, IntFields
<1>2. SpsSyntax(e) \in Syntax(Names)
  <2>1. Agree(e, NoFields, {}) /\ IntFields(NoFields)
    BY <1>1 DEF Agree, IntFields
  <2>2. Links(SpsSyntax(e), seq_parameter_set("read", NoFields), SpsKeys, {})
    BY <1>i, <2>1, SpsLinks DEF SpsSyntax
  <2> QED BY <2>2 DEF Links, S
<1>3. Lawful(Names, SpsSyntax(e), e)
  <2>1. Sound(Names, SpsSyntax(e), e, NoFields)
    BY <1>1, <1>2, NamesOk, LegalLawful
  <2> QED BY <2>1 DEF Sound
<1>4. ASSUME NEW d \in FieldsOf(Names), Knows(e, d, NoFields)
      PROVE  Coh(SpsSyntax(e), OfSpsRead[d], DOMAIN d \ Stream)
  <2>1. Agree(e, d, DOMAIN d \ Stream) /\ IntFields(e) /\ IntFields(d)
    BY <1>3, <1>4, KnowsAgree
  <2>2. Links(SpsSyntax(e), seq_parameter_set("read", d), SpsKeys, DOMAIN d \ Stream)
    BY <2>1, SpsLinks DEF SpsSyntax
  <2> QED BY <2>2 DEF Links, OfSpsRead
<1>5. <<"profile_idc", 0>> \in DOMAIN e /\ <<"reserved_zero_2bits", 0>> \in DOMAIN e
  <2>1. Agree(e, e, DOMAIN e)
    BY DEF Agree
  <2>2. Links(SpsSyntax(e), seq_parameter_set("read", e), SpsKeys, DOMAIN e)
    BY <1>i, <2>1, SpsLinks DEF SpsSyntax
  <2>3. Known(SpsSyntax(e), DOMAIN e)
    BY <1>3 DEF Known, Lawful
  <2> QED BY <2>2, <2>3 DEF Links, SpsKeys
<1> QED BY <1>1, <1>2, <1>4, <1>5, NamesOk, SpsReadTyped DEF Same, AlikeFor

\* A sequence parameter set is read as it was sent, if its profile is known, and
\* one that is cut is noticed.
LEMMA SpsArrives ==
  ASSUME NEW e, Legal(SpsSyntax(e), e, NoFields), ~UnknownProfile(e)
  PROVE  LET bits == WriteTrailing(Write(SpsSyntax(e), e))
         IN  /\ SpsReader(bits).e = e /\ ~bs_overrun(bits, BehindTrailing(SpsReader(bits).pos))
             /\ bs_overrun(CutOff(bits), BehindTrailing(SpsReader(CutOff(bits)).pos))
<1> DEFINE bits == WriteTrailing(Write(SpsSyntax(e), e))
<1>1. Same(Names, OfSpsRead, SpsSyntax(e), e, NoFields)
  BY SpsSame
<1>2. bits \in Words /\ CutOff(bits) \in Words
  <2>1. Write(SpsSyntax(e), e) \in Seq(Bit)
    BY <1>1, SameFacts
  <2> QED BY <2>1, Trailing DEF CutOff
<1>3. NoFields \in FieldsOf(Names)
  BY NoFieldsIn
<1>b. bits = WriteTrailing(Write(SpsSyntax(e), e))
  OBVIOUS
<1> HIDE DEF bits
<1>4. PICK s : Walking(Names, OfSpsRead, bits, NoFields, MaxElements, s)
  BY <1>2, <1>3, SpsReadTyped, MaxElementsAssumption, Walks
<1>5. PICK c : Walking(Names, OfSpsRead, CutOff(bits), NoFields, MaxElements, c)
  BY <1>2, <1>3, SpsReadTyped, MaxElementsAssumption, Walks
<1>6. SpsReader(bits).e = e /\ ~bs_overrun(bits, BehindTrailing(SpsReader(bits).pos))
  <2>1. SpsReader(bits) = [e |-> Fields(s[MaxElements].e), pos |-> s[MaxElements].pos]
    BY <1>4, SpsWalk
  <2>2. Fields(s[MaxElements].e) = e /\ ~bs_overrun(bits, BehindTrailing(s[MaxElements].pos))
    BY <1>1, <1>4, <1>b, ReadSent
  <2> QED BY <2>1, <2>2
<1>7. bs_overrun(CutOff(bits), BehindTrailing(SpsReader(CutOff(bits)).pos))
  <2>1. SpsReader(CutOff(bits)) = [e |-> Fields(c[MaxElements].e), pos |-> c[MaxElements].pos]
    BY <1>5, SpsWalk
  <2>2. bs_overrun(CutOff(bits), BehindTrailing(c[MaxElements].pos))
    BY <1>1, <1>5, <1>b, ReadCut DEF CutOff
  <2> QED BY <2>1, <2>2
<1> QED BY <1>6, <1>7 DEF bits

-----------------------------------------------------------------------------
(* What is stored of a sequence parameter set *)

SpsInto(r) ==
    LET id == F(r.e, "seq_parameter_set_id")
    IN  [h EXCEPT !.sps = id, !.sps_table[id] = Stored(r.e), !.size = Size(Stored(r.e)),
                  !.pos = r.pos, !.end = BehindTrailing(r.pos)]

\* read_seq_parameter_set_rbsp, in two parts: reading and storing.
LEMMA SpsStep ==
  ASSUME NEW bits
  PROVE  read_seq_parameter_set_rbsp(bits) = SpsInto(SpsReader(bits))
BY Zenon DEF read_seq_parameter_set_rbsp, SpsInto, SpsReader

\* A field that is never in a loop is stored as it was read.
LEMMA StoredOnce ==
  ASSUME NEW x \in Syntax(Names), NEW e, DOMAIN e = {Key(x[k]) : k \in DOMAIN x}, NEW name \in Once
  PROVE  /\ F(Stored(e), name) = F(e, name)
         /\ <<name, 0>> \in DOMAIN Stored(e) <=> <<name, 0>> \in DOMAIN e
<1> DEFINE Over(k) == <<k[1], k[2] + Second>>
           Under   == {<<k[1], k[2] - Second>> : k \in {j \in DOMAIN e : j[2] >= Second}}
<1>1. \A k \in DOMAIN e : k = <<k[1], k[2]>> /\ k[2] \in Nat /\ (k[1] \in Once => k[2] = 0)
  <2> TAKE k \in DOMAIN e
  <2>1. PICK i \in DOMAIN x : k = Key(x[i])
    OBVIOUS
  <2>2. x[i] \in ElOf(Names)
    BY DEF Syntax
  <2>3. k = <<x[i][3], x[i][4]>>
    BY <2>1 DEF Key
  <2> QED BY <2>2, <2>3 DEF ElOf
<1>1a. CASE F(e, "nal_hrd_parameters_present_flag") = 0
  BY <1>1a DEF Stored
<1>1b. CASE F(e, "nal_hrd_parameters_present_flag") # 0
  <2>2. Stored(e) = [k \in DOMAIN e \cup Under |-> IF Over(k) \in DOMAIN e THEN e[Over(k)] ELSE e[k]]
    BY <1>1b DEF Stored
  <2>s. Second \in Nat /\ Second > 0
    BY DEF Second
  <2>3. Over(<<name, 0>>) \notin DOMAIN e
    <3>1. Over(<<name, 0>>) = <<name, Second>>
      BY <2>s
    <3>2. ASSUME <<name, Second>> \in DOMAIN e PROVE FALSE
      <4> DEFINE k == <<name, Second>>
      <4>1. k \in DOMAIN e /\ k[1] = name /\ k[2] = Second
        BY <3>2
      <4> HIDE DEF k
      <4> QED BY <1>1, <2>s, <4>1
    <3> QED BY <3>1, <3>2
  <2>4. <<name, 0>> \notin Under
    <3> SUFFICES ASSUME NEW k \in DOMAIN e, k[2] >= Second, <<k[1], k[2] - Second>> = <<name, 0>>
                 PROVE  FALSE
      OBVIOUS
    <3>1. k[1] = name /\ k[2] \in Nat
      BY <1>1
    <3>2. k[2] = 0
      BY <1>1, <3>1
    <3> QED BY <2>s, <3>2
  <2> HIDE DEF Over, Under
  <2>5. /\ <<name, 0>> \in DOMAIN Stored(e) <=> <<name, 0>> \in DOMAIN e
        /\ <<name, 0>> \in DOMAIN e => Stored(e)[<<name, 0>>] = e[<<name, 0>>]
    BY <2>2, <2>3, <2>4
  <2> QED BY <2>5 DEF F, At
<1> QED BY <1>1a, <1>1b

\* What is stored is what was read unless a VCL field differs from the NAL one.
LEMMA StoredIsRead ==
  ASSUME NEW x \in Syntax(Names), NEW e, DOMAIN e = {Key(x[k]) : k \in DOMAIN x}, e = [k \in DOMAIN e |-> e[k]]
  PROVE  Stored(e) = e <=> ~TwoHrds(e)
<1> DEFINE Over(k) == <<k[1], k[2] + Second>>
           Nal(k)  == <<k[1], k[2] - Second>>
           Under   == {Nal(k) : k \in {j \in DOMAIN e : j[2] >= Second}}
<1>1. \A k \in DOMAIN e : k = <<k[1], k[2]>> /\ k[2] \in Nat
  <2> TAKE k \in DOMAIN e
  <2>1. PICK i \in DOMAIN x : k = Key(x[i])
    OBVIOUS
  <2>2. x[i] \in ElOf(Names)
    BY DEF Syntax
  <2>3. k = <<x[i][3], x[i][4]>>
    BY <2>1 DEF Key
  <2> QED BY <2>2, <2>3 DEF ElOf
<1>s. Second \in Nat
  BY DEF Second
<1>2. CASE F(e, "nal_hrd_parameters_present_flag") = 0
  BY <1>2 DEF Stored, TwoHrds
<1>3. CASE F(e, "nal_hrd_parameters_present_flag") # 0
  <2>1. Stored(e) = [k \in DOMAIN e \cup Under |-> IF Over(k) \in DOMAIN e THEN e[Over(k)] ELSE e[k]]
    BY <1>3 DEF Stored
  <2>2. TwoHrds(e) <=> \E k \in DOMAIN e : k[2] >= Second /\ (Nal(k) \notin DOMAIN e \/ e[Nal(k)] # e[k])
    BY <1>3 DEF TwoHrds
  <2>3. \A k \in DOMAIN e : k[2] >= Second => Over(Nal(k)) = k
    <3> TAKE k \in DOMAIN e
    <3> HAVE k[2] >= Second
    <3>1. k = <<k[1], k[2]>> /\ k[2] \in Nat
      BY <1>1
    <3>2. k[2] - Second + Second = k[2]
      BY <1>s, <3>1
    <3> QED BY <3>1, <3>2
  <2>4. \A k \in DOMAIN e : Over(k) \in DOMAIN e => Over(k)[2] >= Second /\ Nal(Over(k)) = k
    <3> TAKE k \in DOMAIN e
    <3>1. k = <<k[1], k[2]>> /\ k[2] \in Nat
      BY <1>1
    <3>2. k[2] + Second >= Second /\ (k[2] + Second) - Second = k[2]
      BY <1>s, <3>1
    <3>3. Over(k)[1] = k[1] /\ Over(k)[2] = k[2] + Second
      OBVIOUS
    <3>4. Nal(Over(k)) = <<k[1], k[2]>>
      BY <3>2, <3>3
    <3> QED BY <3>1, <3>2, <3>3, <3>4
  <2> HIDE DEF Over, Nal
  <2>5. ASSUME Stored(e) = e, NEW k \in DOMAIN e, k[2] >= Second PROVE Nal(k) \in DOMAIN e /\ e[Nal(k)] = e[k]
    <3>1. Nal(k) \in Under
      BY <2>5
    <3> HIDE DEF Under
    <3>2. Nal(k) \in DOMAIN Stored(e) /\ Stored(e)[Nal(k)] = e[k]
      BY <2>1, <2>3, <2>5, <3>1
    <3> QED BY <2>5, <3>2
  <2>6. ASSUME ~TwoHrds(e) PROVE Stored(e) = e
    <3>1. Under \subseteq DOMAIN e
      BY <2>2, <2>6
    <3>2. \A k \in DOMAIN e : Over(k) \in DOMAIN e => e[Over(k)] = e[k]
      BY <2>2, <2>4, <2>6
    <3> HIDE DEF Under
    <3>3. DOMAIN e \cup Under = DOMAIN e
      BY <3>1
    <3>4. \A k \in DOMAIN e : (IF Over(k) \in DOMAIN e THEN e[Over(k)] ELSE e[k]) = e[k]
      BY <3>2
    <3>5. Stored(e) = [k \in DOMAIN e |-> e[k]]
      BY <2>1, <3>3, <3>4
    <3> QED BY <3>5
  <2> QED BY <2>2, <2>5, <2>6
<1> QED BY <1>2, <1>3

\* The fields of a sequence parameter set that its size depends on are never in a loop.
LEMMA OnceNames ==
  /\ "profile_idc" \in Once /\ "seq_parameter_set_id" \in Once /\ "chroma_format_idc" \in Once
  /\ "frame_mbs_only_flag" \in Once /\ "pic_width_in_mbs_minus1" \in Once
  /\ "pic_height_in_map_units_minus1" \in Once /\ "frame_crop_left_offset" \in Once
  /\ "frame_crop_right_offset" \in Once /\ "frame_crop_top_offset" \in Once
  /\ "frame_crop_bottom_offset" \in Once
BY DEF Once

\* Size and profile are those of the set, whichever HRD parameters were stored.
LEMMA StoredSize ==
  ASSUME NEW x \in Syntax(Names), NEW e, DOMAIN e = {Key(x[k]) : k \in DOMAIN x}, <<"profile_idc", 0>> \in DOMAIN e
  PROVE  Size(Stored(e)) = Size(e) /\ SizeTold(Stored(e)) = SizeTold(e)
<1>1. \A name \in Once : F(Stored(e), name) = F(e, name) /\ (<<name, 0>> \in DOMAIN Stored(e) <=> <<name, 0>> \in DOMAIN e)
  BY StoredOnce
<1>2. ChromaFormat(Stored(e)) = ChromaFormat(e)
  <2>1. Stored(e) # NoFields /\ e # NoFields
    <3>1. <<"profile_idc", 0>> \in DOMAIN Stored(e) /\ DOMAIN NoFields = {}
      BY <1>1, OnceNames DEF NoFields
    <3> QED BY <3>1
  <2> QED BY <1>1, <2>1, OnceNames, Zenon DEF ChromaFormat
<1>3. Size(Stored(e)) = Size(e)
  BY <1>1, <1>2, OnceNames, Zenon DEF Size
<1> QED BY <1>1, <1>3, OnceNames, Zenon DEF SizeTold

-----------------------------------------------------------------------------
(* Steps *)

AllNals == SpsNals \cup PpsNals \cup SliceNals \cup SeiNals \cup AudNals

PpsSyntax(e) == pic_parameter_set("sent", e)

\* What a NAL unit of a picture parameter set is.
LEMMA PpsNal ==
  ASSUME NEW n \in PpsNals
  PROVE  \E e, present : /\ n = Unit(8, 1, e, Write(PpsSyntax(e), e)) /\ present \in {0, 1}
                         /\ Legal(PpsSyntax(e), e, More(present)) /\ F(e, "pic_parameter_set_id") \in PpsIds
<1>1. F(n.e, "pic_parameter_set_id") \in PpsIds
  BY DEF PpsNals
<1>2. PICK t \in PpsTold \X {0, 1} : n \in Sent(8, 1, LAMBDA e : pic_parameter_set("sent", e), t[1], More(t[2]))
  BY DEF PpsNals
<1>3. \E e : n = Unit(8, 1, e, Write(PpsSyntax(e), e)) /\ Legal(PpsSyntax(e), e, More(t[2]))
  BY <1>2, Zenon DEF Sent, PpsSyntax
<1>4. PICK e : n = Unit(8, 1, e, Write(PpsSyntax(e), e)) /\ Legal(PpsSyntax(e), e, More(t[2]))
  BY <1>3
<1>5. n.e = e
  BY <1>4 DEF Unit
<1> QED BY <1>1, <1>2, <1>4, <1>5

\* The type of a NAL unit tells which structure it has.
LEMMA NalTypes ==
  /\ \A n \in SpsNals : n.type = 7 /\ n.cut = FALSE
  /\ \A n \in PpsNals : n.type = 8 /\ n.cut = FALSE
  /\ \A n \in SeiNals : n.type = 6 /\ n.cut = FALSE
  /\ \A n \in AudNals : n.type = 9 /\ n.cut = FALSE
  /\ \A n \in SliceNals : n.type \in {1, 5} /\ n.cut = FALSE
<1>1. ASSUME NEW n \in SpsNals PROVE n.type = 7 /\ n.cut = FALSE
  <2>1. PICK e : n = Unit(7, 1, e, Write(SpsSyntax(e), e))
    BY SpsNal
  <2> QED BY <2>1 DEF Unit
<1>2. ASSUME NEW n \in PpsNals PROVE n.type = 8 /\ n.cut = FALSE
  <2>1. PICK e : n = Unit(8, 1, e, Write(PpsSyntax(e), e))
    BY PpsNal
  <2> QED BY <2>1 DEF Unit
<1>3. ASSUME NEW n \in SeiNals PROVE n.type = 6 /\ n.cut = FALSE
  <2>1. PICK m \in {1, 2} : n \in Sent(6, 0, LAMBDA e : sei_rbsp("sent", e, m), SeiTold, NoFields)
    BY DEF SeiNals
  <2>2. \E e, bits : n = Unit(6, 0, e, bits)
    BY <2>1, Zenon DEF Sent
  <2>3. PICK e, bits : n = Unit(6, 0, e, bits)
    BY <2>2
  <2> QED BY <2>3 DEF Unit
<1>4. ASSUME NEW n \in AudNals PROVE n.type = 9 /\ n.cut = FALSE
  <2>2. \E e, bits : n = Unit(9, 0, e, bits)
    BY Zenon DEF AudNals, Sent
  <2>3. PICK e, bits : n = Unit(9, 0, e, bits)
    BY <2>2
  <2> QED BY <2>3 DEF Unit
<1>5. ASSUME NEW n \in SliceNals PROVE n.type \in {1, 5} /\ n.cut = FALSE
  <2>1. PICK t \in SliceTold : n = SliceNal(t)
    BY DEF SliceNals
  <2>2. \E e, bits : n = Unit(t.type, t.ref, e, bits)
    BY <2>1, Zenon DEF SliceNal
  <2>3. PICK e, bits : n = Unit(t.type, t.ref, e, bits)
    BY <2>2
  <2> QED BY <2>3, SliceTypesAssumption DEF Unit
<1> QED BY <1>1, <1>2, <1>3, <1>4, <1>5

\* What a step may have read.
LEMMA NextSteps ==
  ASSUME Next
  PROVE  \/ nal' = None
         \/ \E n \in AllNals : Sends(n) /\ read_nal_unit(n) /\ nal' = n
         \/ \E n \in SpsNals \cup PpsNals : Sends(n) /\ read_nal_unit(Cut(n)) /\ nal' = Cut(n)
<1>1. CASE NewStream
  BY <1>1 DEF NewStream
<1>2. ASSUME NEW n \in AllNals, Arrives(n) \/ IsCut(n) \/ IsLost(n)
      PROVE  \/ nal' = None
             \/ \E m \in AllNals : Sends(m) /\ read_nal_unit(m) /\ nal' = m
             \/ \E m \in SpsNals \cup PpsNals : Sends(m) /\ read_nal_unit(Cut(m)) /\ nal' = Cut(m)
  <2>1. CASE Arrives(n)
    BY <2>1 DEF Arrives, read_nal_unit
  <2>2. CASE IsCut(n)
    <3>1. n \in SpsNals \cup PpsNals
      BY <2>2, NalTypes DEF IsCut, AllNals
    <3>2. Sends(n) /\ read_nal_unit(Cut(n)) /\ nal' = Cut(n)
      BY <2>2 DEF IsCut, read_nal_unit
    <3> QED BY <3>1, <3>2
  <2>3. CASE IsLost(n)
    BY <2>3 DEF IsLost
  <2> QED BY <1>2, <2>1, <2>2, <2>3
<1> QED BY <1>1, <1>2 DEF Next, AllNals

-----------------------------------------------------------------------------
(* The shape of the state *)

HFields == {"sps_table", "pps_table", "sps", "pps", "sh", "aud", "seis", "size", "pos", "end"}
Shape == /\ DOMAIN h = HFields /\ DOMAIN h.sps_table = SpsIds /\ DOMAIN h.pps_table = PpsIds

\* A new h264_stream_t has all its parts.
LEMMA NewShape == DOMAIN h264_new = HFields /\ DOMAIN h264_new.sps_table = SpsIds /\ DOMAIN h264_new.pps_table = PpsIds
BY DEF h264_new, HFields

PpsInto(r) ==
    LET id == F(r.e, "pic_parameter_set_id")
    IN  [h EXCEPT !.pps = id, !.pps_table[id] = r.e, !.pos = r.pos, !.end = BehindTrailing(r.pos)]
SliceInto(e, pos, end) ==
    [h EXCEPT !.sh = e, !.pps = F(e, "pic_parameter_set_id"), !.sps = F(PpsOf(h, e), "seq_parameter_set_id"),
              !.pos = pos, !.end = end]
SeiInto(f, pos) == [h EXCEPT !.seis = f, !.pos = pos, !.end = BehindTrailing(pos)]
AudInto(e, pos) == [h EXCEPT !.aud = e, !.pos = pos, !.end = BehindTrailing(pos)]

Shaped(y) == DOMAIN y = HFields /\ DOMAIN y.sps_table = SpsIds /\ DOMAIN y.pps_table = PpsIds
\* Storing what was read leaves h264_stream_t its parts.
LEMMA IntoShape ==
  ASSUME Shape
  PROVE  /\ \A x : Shaped(SpsInto(x)) /\ Shaped(PpsInto(x))
         /\ \A e, pos, end : Shaped(SliceInto(e, pos, end)) /\ Shaped(SeiInto(e, pos)) /\ Shaped(AudInto(e, pos))
<1>1. DOMAIN h = HFields /\ DOMAIN h.sps_table = SpsIds /\ DOMAIN h.pps_table = PpsIds
  BY DEF Shape
<1>2. ASSUME NEW x PROVE Shaped(SpsInto(x)) /\ Shaped(PpsInto(x))
  <2>1. Shaped(SpsInto(x))
    BY <1>1 DEF SpsInto, HFields, Shaped
  <2>2. Shaped(PpsInto(x))
    BY <1>1 DEF PpsInto, HFields, Shaped
  <2> QED BY <2>1, <2>2
<1>3. ASSUME NEW e, NEW pos, NEW end
      PROVE  Shaped(SliceInto(e, pos, end)) /\ Shaped(SeiInto(e, pos)) /\ Shaped(AudInto(e, pos))
  <2>1. Shaped(SliceInto(e, pos, end))
    BY <1>1 DEF SliceInto, HFields, Shaped
  <2>2. Shaped(SeiInto(e, pos)) /\ Shaped(AudInto(e, pos))
    BY <1>1 DEF SeiInto, AudInto, HFields, Shaped
  <2> QED BY <2>1, <2>2
<1> QED BY <1>2, <1>3

PpsReader(bits, more) == Read(LAMBDA e : pic_parameter_set("read", e), bits, More(more))
MoreInPps == IF more_rbsp_data_in_pps(h.sps_table[h.sps]) THEN 1 ELSE 0
SliceReader(bits, type, ref) ==
    Read(LAMBDA e : slice_header("read", e, type, ref, h.sps_table, h.pps_table), bits, NoFields)
SliceEnd(bits, r) ==
    LET end == BehindTrailing(r.pos)
    IN  IF F(PpsOf(h, r.e), "entropy_coding_mode_flag") = 1 /\ Len(bits) > end
        THEN end + 16 * ((Len(bits) - end + 15) \div 16) ELSE end
SeiReader(bits) == Read(LAMBDA e : sei_rbsp("read", e, 0), bits, NoFields)
SeiFields(e) == [k \in {j \in DOMAIN e : j[1] # "end_bits"} |-> e[k]]
AudReader(bits) == Read(access_unit_delimiter, bits, NoFields)

\* The other readers, in the same two parts.
LEMMA ReadSteps ==
  ASSUME NEW bits, NEW type, NEW ref
  PROVE  /\ read_pic_parameter_set_rbsp(bits) = PpsInto(PpsReader(bits, MoreInPps))
         /\ read_slice_layer_rbsp(bits, type, ref) =
               SliceInto(SliceReader(bits, type, ref).e, SliceReader(bits, type, ref).pos,
                         SliceEnd(bits, SliceReader(bits, type, ref)))
         /\ read_sei_rbsp(bits) = SeiInto(SeiFields(SeiReader(bits).e), SeiReader(bits).pos)
         /\ read_access_unit_delimiter_rbsp(bits) = AudInto(AudReader(bits).e, AudReader(bits).pos)
<1>1. read_pic_parameter_set_rbsp(bits) = PpsInto(PpsReader(bits, MoreInPps))
  BY Zenon DEF read_pic_parameter_set_rbsp, PpsInto, PpsReader, MoreInPps
<1>2. read_slice_layer_rbsp(bits, type, ref) =
         SliceInto(SliceReader(bits, type, ref).e, SliceReader(bits, type, ref).pos,
                   SliceEnd(bits, SliceReader(bits, type, ref)))
  BY Zenon DEF read_slice_layer_rbsp, SliceInto, SliceReader, SliceEnd
<1>3. read_sei_rbsp(bits) = SeiInto(SeiFields(SeiReader(bits).e), SeiReader(bits).pos)
  BY Zenon DEF read_sei_rbsp, SeiInto, SeiReader, SeiFields
<1>4. read_access_unit_delimiter_rbsp(bits) = AudInto(AudReader(bits).e, AudReader(bits).pos)
  BY Zenon DEF read_access_unit_delimiter_rbsp, AudInto, AudReader
<1> QED BY <1>1, <1>2, <1>3, <1>4

\* What read_nal_unit does with a unit of each type.
LEMMA ReadNal ==
  ASSUME NEW n, read_nal_unit(n)
  PROVE  /\ n.type = 7 => h' = SpsInto(SpsReader(n.bits))
         /\ n.type = 8 => h' = PpsInto(PpsReader(n.bits, MoreInPps))
         /\ n.type \in {1, 5} => LET r == SliceReader(n.bits, n.type, n.ref)
                                 IN  h' = SliceInto(r.e, r.pos, SliceEnd(n.bits, r))
         /\ n.type = 6 => h' = SeiInto(SeiFields(SeiReader(n.bits).e), SeiReader(n.bits).pos)
         /\ n.type = 9 => h' = AudInto(AudReader(n.bits).e, AudReader(n.bits).pos)
         /\ rc' = IF bs_overrun(n.bits, h'.end) THEN -1 ELSE 0
<1>1. n.type = 7 => h' = read_seq_parameter_set_rbsp(n.bits)
  BY DEF read_nal_unit
<1>2. n.type = 8 => h' = read_pic_parameter_set_rbsp(n.bits)
  BY DEF read_nal_unit
<1>3. n.type \in {1, 5} => h' = read_slice_layer_rbsp(n.bits, n.type, n.ref)
  BY DEF read_nal_unit
<1>4. n.type = 6 => h' = read_sei_rbsp(n.bits)
  BY DEF read_nal_unit
<1>5. n.type = 9 => h' = read_access_unit_delimiter_rbsp(n.bits)
  BY DEF read_nal_unit
<1>6. rc' = IF bs_overrun(n.bits, h'.end) THEN -1 ELSE 0
  BY DEF read_nal_unit
<1> QED BY <1>1, <1>2, <1>3, <1>4, <1>5, <1>6, SpsStep, ReadSteps

\* read_nal_unit leaves h264_stream_t its parts.
LEMMA ReadShape ==
  ASSUME Shape, NEW n, n.type \in {1, 5, 6, 7, 8, 9}, read_nal_unit(n)
  PROVE  Shape'
<1>1. Shaped(h')
  BY IntoShape, ReadNal
<1> QED BY <1>1 DEF Shape, Shaped

\* The shape of h264_stream_t is an inductive invariant.
LEMMA ShapeInductive ==
  /\ Init => Shape
  /\ Shape /\ [Next]_vars => Shape'
<1>1. Init => Shape
  BY NewShape DEF Init, Shape
<1>2. ASSUME Shape, [Next]_vars PROVE Shape'
  <2>1. CASE UNCHANGED vars
    BY <1>2, <2>1 DEF Shape, vars
  <2>2. CASE NewStream
    BY <2>2, NewShape DEF NewStream, Shape
  <2>3. ASSUME NEW n \in AllNals, Arrives(n) PROVE Shape'
    <3>1. n.type \in {1, 5, 6, 7, 8, 9}
      BY NalTypes DEF AllNals
    <3> QED BY <1>2, <2>3, <3>1, ReadShape DEF Arrives
  <2>4. ASSUME NEW n \in AllNals, IsCut(n) PROVE Shape'
    <3>1. Cut(n).type = n.type /\ n.type \in {7, 8} /\ read_nal_unit(Cut(n))
      <4>1. n \in SpsNals \/ n \in PpsNals
        BY <2>4, NalTypes DEF IsCut, AllNals
      <4>2. \E e, bits, type, ref : n = Unit(type, ref, e, bits)
        <5>1. CASE n \in SpsNals
          BY <5>1, SpsNal
        <5>2. CASE n \in PpsNals
          BY <5>2, PpsNal
        <5> QED BY <4>1, <5>1, <5>2
      <4>3. PICK e, bits, type, ref : n = Unit(type, ref, e, bits)
        BY <4>2
      <4>4. Cut(n).type = n.type
        BY <4>3 DEF Unit, Cut
      <4> QED BY <2>4, <4>4 DEF IsCut
    <3> QED BY <1>2, <3>1, ReadShape
  <2>5. ASSUME NEW n \in AllNals, IsLost(n) PROVE Shape'
    BY <1>2, <2>5 DEF IsLost, Shape
  <2> QED BY <1>2, <2>1, <2>2, <2>3, <2>4, <2>5 DEF Next, AllNals
<1> QED BY <1>1, <1>2

-----------------------------------------------------------------------------
(* The size of the pictures *)

LEMMA SizeOfFields ==
  ASSUME NEW e,
         F(e, "pic_width_in_mbs_minus1") \in Nat, F(e, "pic_height_in_map_units_minus1") \in Nat,
         F(e, "frame_crop_left_offset") \in Nat, F(e, "frame_crop_right_offset") \in Nat,
         F(e, "frame_crop_top_offset") \in Nat, F(e, "frame_crop_bottom_offset") \in Nat
  PROVE  LET uncropped == \A side \in {"frame_crop_left_offset", "frame_crop_right_offset",
                                       "frame_crop_top_offset", "frame_crop_bottom_offset"} : F(e, side) = 0
             told == SizeTold(e)
         IN  /\ F(e, "frame_mbs_only_flag") = 1 => (told = Size(e) <=> uncropped)
             /\ F(e, "frame_mbs_only_flag") = 0 /\ uncropped => Size(e) = <<told[1], 2 * told[2]>>
<1> DEFINE w == F(e, "pic_width_in_mbs_minus1")
           g == F(e, "pic_height_in_map_units_minus1")
           l == F(e, "frame_crop_left_offset")
           r == F(e, "frame_crop_right_offset")
           t == F(e, "frame_crop_top_offset")
           b == F(e, "frame_crop_bottom_offset")
           m == F(e, "frame_mbs_only_flag")
           x == IF ChromaFormat(e) \in {1, 2} THEN 2 ELSE 1
           y == IF ChromaFormat(e) = 1 THEN 2 * (2 - m) ELSE 2 - m
           uncropped == \A side \in {"frame_crop_left_offset", "frame_crop_right_offset",
                                     "frame_crop_top_offset", "frame_crop_bottom_offset"} : F(e, side) = 0
<1>1. SizeTold(e) = <<16 * (w + 1), 16 * (g + 1)>>
  BY DEF SizeTold
<1>2. Size(e) = <<16 * (w + 1) - x * (l + r), (2 - m) * 16 * (g + 1) - y * (t + b)>>
  BY DEF Size
<1>3. uncropped <=> l = 0 /\ r = 0 /\ t = 0 /\ b = 0
  OBVIOUS
<1>4. x \in {1, 2} /\ (m = 1 => y \in {1, 2}) /\ (m = 0 => y \in {2, 4})
  OBVIOUS
<1>5. w \in Nat /\ g \in Nat /\ l \in Nat /\ r \in Nat /\ t \in Nat /\ b \in Nat
  OBVIOUS
<1> HIDE DEF w, g, l, r, t, b, m, x, y, uncropped
<1>6. m = 1 => (SizeTold(e) = Size(e) <=> uncropped)
  <2> SUFFICES ASSUME m = 1 PROVE SizeTold(e) = Size(e) <=> uncropped
    OBVIOUS
  <2>1. 16 * (w + 1) = 16 * (w + 1) - x * (l + r) <=> l = 0 /\ r = 0
    BY <1>4, <1>5
  <2>2. 16 * (g + 1) = (2 - m) * 16 * (g + 1) - y * (t + b) <=> t = 0 /\ b = 0
    BY <1>4, <1>5
  <2> QED BY <1>1, <1>2, <1>3, <2>1, <2>2
<1>7. m = 0 /\ uncropped => Size(e) = <<SizeTold(e)[1], 2 * SizeTold(e)[2]>>
  <2> SUFFICES ASSUME m = 0, uncropped PROVE Size(e) = <<SizeTold(e)[1], 2 * SizeTold(e)[2]>>
    OBVIOUS
  <2>1. l = 0 /\ r = 0 /\ t = 0 /\ b = 0
    BY <1>3
  <2>2. 16 * (w + 1) - x * (l + r) = 16 * (w + 1) /\ (2 - m) * 16 * (g + 1) - y * (t + b) = 2 * (16 * (g + 1))
    BY <1>4, <1>5, <2>1
  <2> QED BY <1>1, <1>2, <2>2
<1> QED BY <1>6, <1>7 DEF m, uncropped

\* A legal field that is not signed is not negative.
LEMMA NatFields ==
  ASSUME NEW x \in Syntax(Names), NEW e, NEW known, Legal(x, e, known),
         NEW name, name \notin Signed
  PROVE  F(e, name) \in Nat
<1>1. <<name, 0>> \in DOMAIN e => e[<<name, 0>>] \in Int /\ ~(e[<<name, 0>>] < 0)
  BY DEF Legal
<1> QED BY <1>1 DEF F, At

\* What has been read of a whole sequence parameter set.
LEMMA SpsStored ==
  ASSUME Shape, NEW n \in SpsNals, read_nal_unit(n), ~UnknownProfile(n.e)
  PROVE  /\ h'.sps \in SpsIds /\ h'.sps_table[h'.sps] = Stored(n.e) /\ h'.size = Size(Stored(n.e))
         /\ Size(Stored(n.e)) = Size(n.e) /\ SizeTold(Stored(n.e)) = SizeTold(n.e)
         /\ Stored(n.e) = n.e <=> ~TwoHrds(n.e)
         /\ \A name : name \notin Signed => F(n.e, name) \in Nat
         /\ rc' = 0
<1>1. PICK e : /\ n = Unit(7, 1, e, Write(SpsSyntax(e), e)) /\ Legal(SpsSyntax(e), e, NoFields)
               /\ F(e, "seq_parameter_set_id") \in SpsIds
  BY SpsNal
<1>2. n.e = e /\ n.type = 7 /\ n.bits = WriteTrailing(Write(SpsSyntax(e), e))
  BY <1>1 DEF Unit
<1>3. SpsReader(n.bits).e = e /\ ~bs_overrun(n.bits, BehindTrailing(SpsReader(n.bits).pos))
  BY <1>1, <1>2, SpsArrives
<1>4. h' = SpsInto(SpsReader(n.bits)) /\ rc' = IF bs_overrun(n.bits, h'.end) THEN -1 ELSE 0
  BY <1>2, ReadNal
<1>5. /\ h'.sps = F(e, "seq_parameter_set_id") /\ h'.sps_table[F(e, "seq_parameter_set_id")] = Stored(e)
      /\ h'.size = Size(Stored(e)) /\ h'.end = BehindTrailing(SpsReader(n.bits).pos)
  BY <1>1, <1>3, <1>4 DEF SpsInto, Shape, HFields
<1>6. Same(Names, OfSpsRead, SpsSyntax(e), e, NoFields) /\ <<"profile_idc", 0>> \in DOMAIN e
  BY <1>1, <1>2, SpsSame
<1>7. SpsSyntax(e) \in Syntax(Names) /\ DOMAIN e = {Key(SpsSyntax(e)[k]) : k \in DOMAIN SpsSyntax(e)}
      /\ e = [k \in DOMAIN e |-> e[k]]
  <2>1. Sound(Names, SpsSyntax(e), e, NoFields) /\ DOMAIN NoFields = {}
    BY <1>6, SameFacts DEF NoFields
  <2>2. e = [k \in DOMAIN e |-> e[k]]
    BY <1>1 DEF Legal
  <2> QED BY <1>6, <2>1, <2>2 DEF Sound, Same
<1>8. /\ Size(Stored(e)) = Size(e) /\ SizeTold(Stored(e)) = SizeTold(e)
      /\ Stored(e) = e <=> ~TwoHrds(e)
  BY <1>6, <1>7, StoredSize, StoredIsRead
<1>9. \A name : name \notin Signed => F(e, name) \in Nat
  BY <1>1, <1>7, NatFields
<1> QED BY <1>1, <1>2, <1>3, <1>4, <1>5, <1>8, <1>9

\* None of the fields of the size is signed.
LEMMA SizeNames ==
  /\ "pic_width_in_mbs_minus1" \notin Signed /\ "pic_height_in_map_units_minus1" \notin Signed
  /\ "frame_crop_left_offset" \notin Signed /\ "frame_crop_right_offset" \notin Signed
  /\ "frame_crop_top_offset" \notin Signed /\ "frame_crop_bottom_offset" \notin Signed
BY DEF Signed

\* The types of the units tell where they are from.
LEMMA WhichNal ==
  ASSUME Next, nal' # None
  PROVE  \/ \E n \in AllNals : read_nal_unit(n) /\ nal' = n /\ Sends(n) /\ nal'.cut = FALSE
         \/ \E n \in SpsNals \cup PpsNals : read_nal_unit(Cut(n)) /\ nal' = Cut(n) /\ nal'.cut = TRUE
<1>1. CASE \E n \in AllNals : Sends(n) /\ read_nal_unit(n) /\ nal' = n
  BY <1>1, NalTypes DEF AllNals
<1>2. CASE \E n \in SpsNals \cup PpsNals : Sends(n) /\ read_nal_unit(Cut(n)) /\ nal' = Cut(n)
  <2>1. PICK n \in SpsNals \cup PpsNals : Sends(n) /\ read_nal_unit(Cut(n)) /\ nal' = Cut(n)
    BY <1>2
  <2>2. \E e, bits, type, ref : n = Unit(type, ref, e, bits)
    <3>1. CASE n \in SpsNals
      BY <3>1, SpsNal
    <3>2. CASE n \in PpsNals
      BY <3>2, PpsNal
    <3> QED BY <3>1, <3>2
  <2>3. PICK e, bits, type, ref : n = Unit(type, ref, e, bits)
    BY <2>2
  <2>4. Cut(n).cut = TRUE
    BY <2>3 DEF Unit, Cut
  <2> QED BY <2>1, <2>4
<1> QED BY <1>1, <1>2, NextSteps

\* A step that reads a sequence parameter set gets its size right.
LEMMA SizeRightStep ==
  ASSUME Shape, Next
  PROVE  SizeRight'
<1> SUFFICES ASSUME Whole', nal'.type = 7, ~UnknownProfile(nal'.e)
             PROVE  /\ h'.size = Size(nal'.e)
                    /\ F(nal'.e, "frame_mbs_only_flag") = 1 =>
                          (SizeTold(Sps') = h'.size
                           <=> \A side \in {"frame_crop_left_offset", "frame_crop_right_offset",
                                            "frame_crop_top_offset", "frame_crop_bottom_offset"} : F(nal'.e, side) = 0)
                    /\ F(nal'.e, "frame_mbs_only_flag") = 0
                       /\ (\A side \in {"frame_crop_left_offset", "frame_crop_right_offset",
                                        "frame_crop_top_offset", "frame_crop_bottom_offset"} : F(nal'.e, side) = 0)
                       => h'.size = <<SizeTold(Sps')[1], 2 * SizeTold(Sps')[2]>>
  BY DEF SizeRight
<1>1. nal' # None /\ nal'.cut = FALSE
  BY DEF None, Whole
<1>2. PICK n \in AllNals : read_nal_unit(n) /\ nal' = n
  BY <1>1, WhichNal
<1>3. n \in SpsNals
  BY <1>2, NalTypes DEF AllNals
<1>4. /\ h'.sps_table[h'.sps] = Stored(n.e) /\ h'.size = Size(n.e) /\ SizeTold(Stored(n.e)) = SizeTold(n.e)
      /\ \A name : name \notin Signed => F(n.e, name) \in Nat
  BY <1>2, <1>3, SpsStored
<1>5. Sps' = Stored(n.e)
  BY <1>4 DEF Sps
<1> QED BY <1>2, <1>4, <1>5, SizeOfFields, SizeNames

\* The size in h->info is that of the pictures, and what the decoder is told is it
\* where they are not cropped.
THEOREM SizeRightAlways == Spec => []SizeRight
<1>1. Init => Shape /\ SizeRight
  BY ShapeInductive DEF Init, SizeRight, Whole, None
<1>2. (Shape /\ SizeRight) /\ [Next]_vars => (Shape /\ SizeRight)'
  <2> SUFFICES ASSUME Shape, SizeRight, [Next]_vars PROVE Shape' /\ SizeRight'
    OBVIOUS
  <2>1. Shape'
    BY ShapeInductive
  <2>2. CASE UNCHANGED vars
    BY <2>1, <2>2 DEF vars, SizeRight, Whole, Sps
  <2>3. CASE Next
    BY <2>1, <2>3, SizeRightStep
  <2> QED BY <2>2, <2>3
<1> QED BY <1>1, <1>2, PTL DEF Spec

\* The names in the pieces of a picture parameter set.
LEMMA PpsNames ==
  /\ <<"pic_parameter_set_id", "seq_parameter_set_id">> \in Seq(Once)
  /\ <<"entropy_coding_mode_flag", "bottom_field_pic_order_in_frame_present_flag">> \in Seq(OfPps)
  /\ <<"num_slice_groups_minus1">> \in Seq(OfPps)
  /\ <<"slice_group_map_type">> \in Seq(OfPps)
  /\ <<"slice_group_change_direction_flag">> \in Seq(OfPps)
  /\ <<"slice_group_change_rate_minus1">> \in Seq(OfPps)
  /\ <<"pic_size_in_map_units_minus1">> \in Seq(OfPps)
  /\ <<"num_ref_idx_l0_active_minus1", "num_ref_idx_l1_active_minus1">> \in Seq(OfPps)
  /\ <<"weighted_pred_flag">> \in Seq(OfPps)
  /\ <<"weighted_bipred_idc">> \in Seq(OfPps)
  /\ <<"pic_init_qp_minus26", "pic_init_qs_minus26", "chroma_qp_index_offset">> \in Seq(OfPps)
  /\ <<"deblocking_filter_control_present_flag", "constrained_intra_pred_flag",
        "redundant_pic_cnt_present_flag">> \in Seq(OfPps)
  /\ <<"transform_8x8_mode_flag">> \in Seq(OfPps)
  /\ <<"second_chroma_qp_index_offset">> \in Seq(OfPps)
  /\ <<"primary_pic_type">> \in Seq(OfPps)
  /\ "pic_scaling_matrix_present_flag" \in Names
<1>1. "pic_scaling_matrix_present_flag" \in Names
  BY Groups DEF OfPps
<1> QED BY <1>1 DEF OfPps, Once

\* When a piece of one element is read, its name is known.
LEMMA KnownOne ==
  ASSUME NEW x, NEW n, NEW K
  PROVE  /\ Known(u(n, <<x>>), K) => {<<x, 0>>} \subseteq K
         /\ Known(ue(<<x>>), K) => {<<x, 0>>} \subseteq K
<1>1. DOMAIN <<x>> = 1 .. 1 /\ <<x>>[1] = x /\ 1 \in Nat
  OBVIOUS
<1>2. /\ Known(u(n, <<x>>), K) => \A i \in 1 .. 1 : <<<<x>>[i], 0>> \in K
      /\ Known(ue(<<x>>), K) => \A i \in 1 .. 1 : <<<<x>>[i], 0>> \in K
  BY <1>1, Told
<1> QED BY <1>1, <1>2

\* intlog2 is the width of a field.
LEMMA Width == \A x \in Int : intlog2(x) \in Nat
<1> TAKE x \in Int
<1>1. IsFiniteSet(0 .. 30) /\ {i \in 0 .. 30 : 2 ^ i < x} \subseteq 0 .. 30
  <2>1. 0 \in Int /\ 30 \in Int
    OBVIOUS
  <2>2. IsFiniteSet(0 .. 30)
    BY ONLY <2>1, FS_Interval
  <2> QED BY <2>2
<1>2. IsFiniteSet({i \in 0 .. 30 : 2 ^ i < x})
  BY <1>1, FS_Subset
<1> QED BY <1>2, FS_CardinalityType DEF intlog2

-----------------------------------------------------------------------------
(* Slice groups *)

GroupsKnown == {<<"num_slice_groups_minus1", 0>>}

\* The slice groups of a picture parameter set are asked for as they are sent.
LEMMA GroupLinks ==
  ASSUME NEW e, NEW d, NEW K, Agree(e, d, K), IntFields(e), IntFields(d)
  PROVE  /\ slice_group_map(e) \in S /\ slice_group_map(d) \in S
         /\ GroupsKnown \subseteq K => Coh(slice_group_map(e), slice_group_map(d), K)
<1> DEFINE t0 == ue(<<"slice_group_map_type">>)
           r == ue(<<"run_length_minus1">>)
           b == ue(<<"top_left", "bottom_right">>)
           c1 == u(1, <<"slice_group_change_direction_flag">>)
           c2 == ue(<<"slice_group_change_rate_minus1">>)
           m == ue(<<"pic_size_in_map_units_minus1">>)
           w(z) == intlog2(F(z, "num_slice_groups_minus1") + 1)
           i(z) == u(w(z), <<"slice_group_id">>)
           R(n) == Joined([k \in 1 .. n |-> Indexed(r, 0 + k - 1)])
           B0(n) == Joined([k \in 1 .. n |-> Indexed(b, 0 + k - 1)])
           I0(z, n) == Joined([k \in 1 .. n |-> Indexed(i(z), 0 + k - 1)])
           groups(z) == F(z, "num_slice_groups_minus1")
           units(z) == F(z, "pic_size_in_map_units_minus1") + 1
           type(z) == F(z, "slice_group_map_type")
           M(z) == m \o I0(z, units(z))
           C == c1 \o c2
           Rest(z) == CASE type(z) = 0 -> R(groups(z) + 1)
                        [] type(z) = 2 -> B0(groups(z))
                        [] type(z) \in 3 .. 5 -> C
                        [] type(z) = 6 -> M(z)
                        [] OTHER -> <<>>
<1>1. \A z : slice_group_map(z) = t0 \o Rest(z)
  BY DEF slice_group_map, Each
<1>2. t0 \in S /\ r \in Loops /\ b \in Loops /\ c1 \in S /\ c2 \in S /\ m \in S
  BY Typed, PpsNames, LoopTyped, LoopNames
<1>3. \A z \in {e, d} : groups(z) \in Int /\ units(z) \in Int /\ i(z) \in Loops
  <2> TAKE z \in {e, d}
  <2>1. F(z, "num_slice_groups_minus1") \in Int /\ F(z, "pic_size_in_map_units_minus1") \in Int
    BY AtInt DEF F
  <2>2. w(z) \in Nat
    BY <2>1, Width
  <2> HIDE DEF w
  <2>3. i(z) \in Loops
    BY <2>2, LoopTyped, LoopNames
  <2> QED BY <2>1, <2>3
<1>4. Known(t0, K) => {<<"slice_group_map_type", 0>>} \subseteq K
  BY KnownOne
<1>5. Known(m, K) => {<<"pic_size_in_map_units_minus1", 0>>} \subseteq K
  BY KnownOne
<1>w. GroupsKnown \subseteq K => groups(e) = groups(d) /\ i(e) = i(d)
  BY AtAgree DEF F, GroupsKnown
<1> HIDE DEF t0, r, b, c1, c2, m, i
<1>6. \A n \in Int : R(n) \in S /\ B0(n) \in S /\ \A z \in {e, d} : I0(z, n) \in S
  <2>1. 0 \in Nat
    OBVIOUS
  <2> QED BY <1>2, <1>3, <2>1, LoopIn, Groups DEF Loops, S
<1> HIDE DEF R, B0, groups
<1>7. C \in S
  BY <1>2, JoinTyped
<1> HIDE DEF C
<1>8. ASSUME NEW c \in S PROVE Coh(c, c, K)
  BY CohSame DEF S, Syntax
<1>9. M(e) \in S /\ M(d) \in S
  <2>1. I0(e, units(e)) \in S /\ I0(d, units(d)) \in S
    BY <1>3, <1>6
  <2> HIDE DEF I0, units
  <2> QED BY <1>2, <2>1, JoinTyped
<1>10. GroupsKnown \subseteq K => Coh(M(e), M(d), K)
  <2> SUFFICES ASSUME GroupsKnown \subseteq K PROVE Coh(M(e), M(d), K)
    OBVIOUS
  <2> DEFINE G == {<<"pic_size_in_map_units_minus1", 0>>}
  <2>1. Links(m, m, G, K)
    BY <1>2, <1>5, Start
  <2>2. G \subseteq K => units(e) = units(d)
    BY AtAgree DEF F
  <2>3. G \subseteq K => I0(e, units(e)) = I0(d, units(d))
    BY <1>w, <2>2
  <2>4. I0(e, units(e)) \in S /\ I0(d, units(d)) \in S
    BY <1>3, <1>6
  <2> HIDE DEF I0, units, G
  <2>5. G \subseteq K => Coh(I0(e, units(e)), I0(d, units(d)), K)
    BY <1>8, <2>3, <2>4
  <2>6. Links(m \o I0(e, units(e)), m \o I0(d, units(d)), G \cup {}, K)
    BY <2>1, <2>4, <2>5, Link
  <2> QED BY <2>6 DEF Links
<1> HIDE DEF M
<1>11. <<>> \in S
  BY DEF S, Syntax
<1>12. Rest(e) \in S /\ Rest(d) \in S
  <2>1. \A z \in {e, d} : R(groups(z) + 1) \in S /\ B0(groups(z)) \in S
    <3> TAKE z \in {e, d}
    <3>1. groups(z) \in Int
      BY <1>3
    <3>2. groups(z) + 1 \in Int
      BY <3>1
    <3> QED BY <1>6, <3>1, <3>2
  <2> QED BY <1>7, <1>9, <1>11, <2>1
<1>13. GroupsKnown \subseteq K /\ {<<"slice_group_map_type", 0>>} \subseteq K => Coh(Rest(e), Rest(d), K)
  <2> SUFFICES ASSUME GroupsKnown \subseteq K, <<"slice_group_map_type", 0>> \in K PROVE Coh(Rest(e), Rest(d), K)
    OBVIOUS
  <2>1. type(e) = type(d)
    BY AtAgree DEF F
  <2> HIDE DEF type
  <2>2. CASE type(e) = 6
    <3>1. Rest(e) = M(e) /\ Rest(d) = M(d)
      BY <2>1, <2>2
    <3> QED BY <1>10, <3>1
  <2>3. CASE type(e) # 6
    <3>1. Rest(e) = Rest(d)
      BY <1>w, <2>1, <2>3
    <3> HIDE DEF Rest
    <3> QED BY <1>8, <1>12, <3>1
  <2> QED BY <2>2, <2>3
<1> HIDE DEF Rest
<1>14. \A z \in {e, d} : t0 \o Rest(z) \in S
  BY <1>2, <1>12, JoinTyped
<1>15. GroupsKnown \subseteq K => Coh(t0 \o Rest(e), t0 \o Rest(d), K)
  <2> SUFFICES ASSUME GroupsKnown \subseteq K PROVE Coh(t0 \o Rest(e), t0 \o Rest(d), K)
    OBVIOUS
  <2> DEFINE G == {<<"slice_group_map_type", 0>>}
  <2>1. Links(t0, t0, G, K)
    BY <1>2, <1>4, Start
  <2>2. G \subseteq K => Coh(Rest(e), Rest(d), K)
    BY <1>13
  <2> HIDE DEF G
  <2>3. Links(t0 \o Rest(e), t0 \o Rest(d), G \cup {}, K)
    BY <1>12, <2>1, <2>2, Link
  <2> QED BY <2>3 DEF Links
<1> QED BY <1>1, <1>14, <1>15

ListFlag == "pic_scaling_list_present_flag"
NoLists(e) == \A i : At(e, ListFlag, i) = 0
PpsRead(d) == pic_parameter_set("read", d)
ListsOf(z, side, n) == Each(0, n, LAMBDA i : OptAt(z, "pic_scaling_list_present_flag", i, scaling_list(side)))
ListFlags(n) == Joined([k \in 1 .. n |-> Indexed(u(1, <<"pic_scaling_list_present_flag">>), 0 + k - 1)])
MoreAgree(e, d) == F(e, "_more_rbsp_data_present") = F(d, "_more_rbsp_data_present")

\* The loop over the scaling lists, where none is sent, or none is read.
LEMMA ListLoop ==
  ASSUME NEW z, NEW side, side = "read" \/ NoLists(z), NEW n \in Int
  PROVE  ListsOf(z, side, n) = ListFlags(n)
<1> DEFINE f == u(1, <<"pic_scaling_list_present_flag">>)
<1>1. \A i : OptAt(z, "pic_scaling_list_present_flag", i, scaling_list(side)) = f
  <2> TAKE i
  <2>1. When(At(z, "pic_scaling_list_present_flag", i) # 0, scaling_list(side)) = <<>>
    BY DEF NoLists, ListFlag, When, scaling_list
  <2>2. f \in Loops
    BY LoopTyped, LoopNames
  <2> HIDE DEF f
  <2>3. f \o <<>> = f
    BY <2>2, ConcatEmptySeq DEF Loops, Syntax
  <2> QED BY <2>1, <2>3 DEF OptAt, f
<1>2. \A k \in 1 .. n : Indexed(OptAt(z, "pic_scaling_list_present_flag", 0 + k - 1, scaling_list(side)), 0 + k - 1)
                        = Indexed(f, 0 + k - 1)
  BY <1>1
<1> QED BY <1>2 DEF Each, ListsOf, ListFlags

\* Picture parameter sets without scaling lists are asked for as they are sent if the
\* guess is right.
LEMMA PpsLinks ==
  ASSUME NEW e, NEW d, NEW K, Agree(e, d, K), IntFields(e), IntFields(d), NoLists(e), MoreAgree(e, d)
  PROVE  Links(PpsSyntax(e), PpsRead(d), {}, K)
<1> DEFINE p1 == ue(<<"pic_parameter_set_id", "seq_parameter_set_id">>)
           p2 == u(1, <<"entropy_coding_mode_flag", "bottom_field_pic_order_in_frame_present_flag">>)
           p3 == ue(<<"num_slice_groups_minus1">>)
           p5 == ue(<<"num_ref_idx_l0_active_minus1", "num_ref_idx_l1_active_minus1">>)
           p6 == u(1, <<"weighted_pred_flag">>)
           p7 == u(2, <<"weighted_bipred_idc">>)
           p8 == se(<<"pic_init_qp_minus26", "pic_init_qs_minus26", "chroma_qp_index_offset">>)
           p9 == u(1, <<"deblocking_filter_control_present_flag", "constrained_intra_pred_flag",
              "redundant_pic_cnt_present_flag">>)
           m1 == u(1, <<"transform_8x8_mode_flag">>)
           m2 == u(1, <<"pic_scaling_list_present_flag">>)
           m3 == se(<<"second_chroma_qp_index_offset">>)
           lists(n) == ListFlags(n)
           many(z) == 6 + 2 * F(z, "transform_8x8_mode_flag")
           M1(z) == m1 \o Opt(z, "pic_scaling_matrix_present_flag", lists(many(z)))
           M(z) == M1(z) \o m3
           X2 == p1 \o p2
           X3 == X2 \o p3
           X4(z) == X3 \o When(F(z, "num_slice_groups_minus1") > 0, slice_group_map(z))
           X5(z) == X4(z) \o p5
           X6(z) == X5(z) \o p6
           X7(z) == X6(z) \o p7
           X8(z) == X7(z) \o p8
           X9(z) == X8(z) \o p9
           X10(z) == X9(z) \o When(F(z, "_more_rbsp_data_present") = 1, M(z))
<1>m. \A z \in {e, d} : many(z) \in Int
  <2>1. F(e, "transform_8x8_mode_flag") \in Int /\ F(d, "transform_8x8_mode_flag") \in Int
    BY AtInt DEF F
  <2> QED BY <2>1
<1>1. PpsSyntax(e) = X10(e) /\ PpsRead(d) = X10(d)
  <2>1. ListsOf(e, "sent", many(e)) = lists(many(e)) /\ ListsOf(d, "read", many(d)) = lists(many(d))
    BY <1>m, ListLoop
  <2> HIDE DEF lists
  <2>2. OrderFlag("sent") = "bottom_field_pic_order_in_frame_present_flag"
        /\ OrderFlag("read") = "bottom_field_pic_order_in_frame_present_flag"
    BY DEF OrderFlag
  <2>3. PpsSyntax(e) = X10(e)
    BY <2>1, <2>2 DEF PpsSyntax, pic_parameter_set, ListsOf
  <2>4. PpsRead(d) = X10(d)
    BY <2>1, <2>2 DEF PpsRead, pic_parameter_set, ListsOf
  <2> QED BY <2>3, <2>4
<1>2. /\ p1 \in S /\ p2 \in S /\ p3 \in S /\ p5 \in S /\ p6 \in S /\ p7 \in S /\ p8 \in S /\ p9 \in S
      /\ m1 \in S /\ m2 \in Loops /\ m3 \in S
  BY Typed, PpsNames, LoopTyped, LoopNames
<1>3. /\ Known(p3, K) => GroupsKnown \subseteq K
      /\ Known(m1, K) => {<<"transform_8x8_mode_flag", 0>>} \subseteq K
  BY KnownOne DEF GroupsKnown
<1> HIDE DEF p1, p2, p3, p5, p6, p7, p8, p9, m1, m2, m3
<1>4. \A n \in Int : lists(n) \in S
  <2>1. 0 \in Nat
    OBVIOUS
  <2> QED BY <1>2, <2>1, LoopIn, Groups DEF Loops, S, ListFlags, m2
<1> HIDE DEF lists
<1>5. ASSUME NEW c \in S PROVE Coh(c, c, K)
  BY CohSame DEF S, Syntax
<1>6. Links(M(e), M(d), {<<"transform_8x8_mode_flag", 0>>}, K)
  <2> DEFINE G == {<<"transform_8x8_mode_flag", 0>>}
             x == Opt(e, "pic_scaling_matrix_present_flag", lists(many(e)))
             y == Opt(d, "pic_scaling_matrix_present_flag", lists(many(d)))
  <2>1. Links(m1, m1, G, K)
    BY <1>2, <1>3, Start
  <2>2. G \subseteq K => many(e) = many(d)
    BY AtAgree DEF F
  <2>3. many(e) \in Int /\ many(d) \in Int
    BY <1>m
  <2> HIDE DEF many, G
  <2>4. lists(many(e)) \in S /\ lists(many(d)) \in S
    BY <1>4, <2>3
  <2>5. x \in S /\ y \in S
    BY <2>4, OptIn, PpsNames DEF S
  <2>6. G \subseteq K => Coh(x, y, K)
    <3> SUFFICES ASSUME G \subseteq K PROVE Coh(x, y, K)
      OBVIOUS
    <3>1. Coh(lists(many(e)), lists(many(d)), K)
      BY <1>5, <2>2, <2>4
    <3> QED BY <2>4, <3>1, CohOpt, PpsNames DEF S
  <2> HIDE DEF x, y
  <2>7. Links(m1 \o x, m1 \o y, G \cup {}, K)
    BY <2>1, <2>5, <2>6, Link
  <2>8. Links((m1 \o x) \o m3, (m1 \o y) \o m3, G \cup {}, K)
    BY <1>2, <2>7, LinkSame
  <2>9. G \cup {} = G
    OBVIOUS
  <2> QED BY <2>8, <2>9 DEF x, y, G
<1> HIDE DEF M
<1>7. Links(X3, X3, {} \cup GroupsKnown, K)
  <2>1. Links(p1, p1, {}, K)
    BY <1>2, Start
  <2>2. Links(X2, X2, {}, K)
    BY <1>2, <2>1, LinkSame
  <2> HIDE DEF X2
  <2> QED BY <1>2, <1>3, <1>5, <2>2, Link
<1> HIDE DEF X3
<1> DEFINE G == {} \cup GroupsKnown
<1>g. G \subseteq K => GroupsKnown \subseteq K
  OBVIOUS
<1>h. G \subseteq K => F(e, "num_slice_groups_minus1") = F(d, "num_slice_groups_minus1")
  <2>1. GroupsKnown \subseteq K => <<"num_slice_groups_minus1", 0>> \in K
    BY DEF GroupsKnown
  <2> QED BY <2>1, AtAgree DEF F
<1> HIDE DEF G
<1>8. Links(X4(e), X4(d), G, K)
  <2>1. Links(X3, X3, G, K)
    BY <1>7 DEF G
  <2>2. slice_group_map(e) \in S /\ slice_group_map(d) \in S
        /\ (G \subseteq K => Coh(slice_group_map(e), slice_group_map(d), K))
    BY <1>g, GroupLinks
  <2> QED BY <1>h, <2>1, <2>2, LinkWhen
<1> HIDE DEF X4
<1>9. Links(X5(e), X5(d), G, K)
  BY <1>2, <1>8, LinkSame
<1> HIDE DEF X5
<1>10. Links(X6(e), X6(d), G, K)
  BY <1>2, <1>9, LinkSame
<1> HIDE DEF X6
<1>11. Links(X7(e), X7(d), G, K)
  BY <1>2, <1>10, LinkSame
<1> HIDE DEF X7
<1>12. Links(X8(e), X8(d), G, K)
  BY <1>2, <1>11, LinkSame
<1> HIDE DEF X8
<1>13. Links(X9(e), X9(d), G, K)
  BY <1>2, <1>12, LinkSame
<1> HIDE DEF X9
<1>14. Links(X10(e), X10(d), G, K)
  <2>1. M(e) \in S /\ M(d) \in S /\ Coh(M(e), M(d), K)
    BY <1>6 DEF Links
  <2>2. F(e, "_more_rbsp_data_present") = 1 <=> F(d, "_more_rbsp_data_present") = 1
    BY DEF MoreAgree
  <2> QED BY <1>13, <2>1, <2>2, LinkWhen
<1> HIDE DEF X10
<1> QED BY <1>1, <1>14 DEF Links

OfPpsRead == [d \in FieldsOf(Names) |-> pic_parameter_set("read", d)]
OfAudRead == [d \in FieldsOf(Names) |-> access_unit_delimiter(d)]

\* The guess the reader starts with is a field.
LEMMA MoreIn ==
  ASSUME NEW more \in {0, 1}
  PROVE  /\ More(more) \in FieldsOf(Names) /\ DOMAIN More(more) = {<<"_more_rbsp_data_present", 0>>}
         /\ F(More(more), "_more_rbsp_data_present") = more
<1>1. /\ DOMAIN More(more) = {<<"_more_rbsp_data_present", 0>>} /\ More(more)[<<"_more_rbsp_data_present", 0>>] = more
      /\ More(more) = [k \in DOMAIN More(more) |-> More(more)[k]]
  BY DEF More, Only
<1>2. <<"_more_rbsp_data_present", 0>> \in Keys(Names)
  BY DEF Keys, Asked
<1> QED BY <1>1, <1>2, InFields DEF F, At

\* The reader of picture parameter sets always asks for elements.
LEMMA PpsReadTyped == OfPpsRead \in [FieldsOf(Names) -> Syntax(Names)]
<1> SUFFICES ASSUME NEW d \in FieldsOf(Names) PROVE PpsRead(d) \in Syntax(Names)
  BY DEF OfPpsRead, PpsRead
<1> DEFINE e == More(F(d, "_more_rbsp_data_present"))
<1>1. IntFields(d)
  BY InFields DEF IntFields
<1>2. F(d, "_more_rbsp_data_present") \in Int
  BY <1>1, AtInt DEF F
<1>3. IntFields(e) /\ MoreAgree(e, d)
  BY <1>2 DEF IntFields, More, Only, MoreAgree, F, At
<1>4. NoLists(e)
  BY DEF NoLists, ListFlag, At, More, Only
<1> HIDE DEF e
<1>5. Agree(e, d, {})
  BY DEF Agree
<1>6. Links(PpsSyntax(e), PpsRead(d), {}, {})
  BY <1>1, <1>3, <1>4, <1>5, PpsLinks
<1> QED BY <1>6 DEF Links, S

\* So does that of access unit delimiters.
LEMMA AudReadTyped == OfAudRead \in [FieldsOf(Names) -> Syntax(Names)]
<1>1. u(3, <<"primary_pic_type">>) \in Syntax(Names)
  BY Typed, PpsNames DEF S
<1> QED BY <1>1 DEF OfAudRead, access_unit_delimiter

\* read_pic_parameter_set_rbsp ends where its steps end.
LEMMA PpsWalk ==
  ASSUME NEW bits, NEW more, NEW s, Walking(Names, OfPpsRead, bits, More(more), MaxElements, s)
  PROVE  PpsReader(bits, more) = [e |-> Fields(s[MaxElements].e), pos |-> s[MaxElements].pos]
<1> DEFINE R(r, k) == IF k = 0 THEN [e |-> More(more), pos |-> 0, done |-> FALSE]
             ELSE LET t == r[k - 1]
                  IN  IF t.done THEN t
                      ELSE LET es == pic_parameter_set("read", t.e)
                           IN  IF k > Len(es) THEN [t EXCEPT !.done = TRUE]
                               ELSE LET el  == es[k]
                                        pos == Behind(el[1], el[2], bits, t.pos)
                                        new == Only(Key(el), ReadCode(el[1], el[2], bits, t.pos))
                                    IN  [t EXCEPT !.e = Before(State(bits, pos), Before(new, @)), !.pos = pos]
           g == CHOOSE r : r = [k \in 0 .. MaxElements |-> R(r, k)]
<1>1. PpsReader(bits, more) = [e |-> Fields(g[MaxElements].e), pos |-> g[MaxElements].pos]
  BY Zenon DEF PpsReader, Read, Walk
<1>2. ASSUME NEW t \in States(Names), NEW k \in Nat \ {0}, NEW r, r[k - 1] = t
      PROVE  R(r, k) = Advance(bits, OfPpsRead[t.e], t, k)
  <2>1. k # 0
    OBVIOUS
  <2>2. OfPpsRead[t.e] = pic_parameter_set("read", t.e)
    BY DEF States, OfPpsRead
  <2> QED BY <1>2, <2>1, <2>2, Zenon DEF Advance, Onto
<1>3. \E r : r = [k \in 0 .. MaxElements |-> R(r, k)]
  <2>1. s = [k \in 0 .. MaxElements |-> s[k]]
    BY DEF Walking
  <2>2. ASSUME NEW k \in 0 .. MaxElements PROVE s[k] = R(s, k)
    <3>1. CASE k = 0
      <4>1. s[0] = From(More(more))
        BY DEF Walking
      <4> QED BY <3>1, <4>1, Zenon DEF From
    <3>2. CASE k # 0
      <4>1. k \in 1 .. MaxElements /\ k \in Nat \ {0} /\ k - 1 \in 0 .. MaxElements
        BY <3>2 DEF Walking
      <4>2. s[k - 1] \in States(Names) /\ s[k] = Advance(bits, OfPpsRead[s[k - 1].e], s[k - 1], k)
        BY <4>1 DEF Walking
      <4> QED BY <1>2, <4>1, <4>2, Zenon
    <3> QED BY <3>1, <3>2
  <2> HIDE DEF R
  <2>3. s = [k \in 0 .. MaxElements |-> R(s, k)]
    BY <2>1, <2>2
  <2> QED BY <2>3
<1>4. g = [k \in 0 .. MaxElements |-> R(g, k)]
  <2> HIDE DEF R
  <2> QED BY <1>3, Zenon
<1> HIDE DEF g
<1>5. MaxElements \in Nat /\ s[0] = From(More(more))
  BY DEF Walking
<1>6. g[0] = From(More(more))
  <2>1. g[0] = R(g, 0)
    <3> HIDE DEF R
    <3>1. 0 \in 0 .. MaxElements
      BY <1>5
    <3> QED BY <1>4, <3>1
  <2> QED BY <2>1 DEF From
<1>7. ASSUME NEW k \in 1 .. MaxElements, g[k - 1] \in States(Names)
      PROVE  g[k] = Advance(bits, OfPpsRead[g[k - 1].e], g[k - 1], k)
  <2>1. k \in 0 .. MaxElements /\ k \in Nat \ {0}
    BY <1>5
  <2>2. g[k] = R(g, k)
    <3> HIDE DEF R
    <3> QED BY <1>4, <2>1
  <2> HIDE DEF R
  <2> QED BY <1>2, <1>7, <2>1, <2>2
<1>8. g[MaxElements] = s[MaxElements]
  BY <1>5, <1>6, <1>7, OneWalk
<1> QED BY <1>1, <1>8

\* So does read_access_unit_delimiter_rbsp.
LEMMA AudWalk ==
  ASSUME NEW bits, NEW s, Walking(Names, OfAudRead, bits, NoFields, MaxElements, s)
  PROVE  AudReader(bits) = [e |-> Fields(s[MaxElements].e), pos |-> s[MaxElements].pos]
<1> DEFINE R(r, k) == IF k = 0 THEN [e |-> NoFields, pos |-> 0, done |-> FALSE]
             ELSE LET t == r[k - 1]
                  IN  IF t.done THEN t
                      ELSE LET es == access_unit_delimiter(t.e)
                           IN  IF k > Len(es) THEN [t EXCEPT !.done = TRUE]
                               ELSE LET el  == es[k]
                                        pos == Behind(el[1], el[2], bits, t.pos)
                                        new == Only(Key(el), ReadCode(el[1], el[2], bits, t.pos))
                                    IN  [t EXCEPT !.e = Before(State(bits, pos), Before(new, @)), !.pos = pos]
           g == CHOOSE r : r = [k \in 0 .. MaxElements |-> R(r, k)]
<1>1. AudReader(bits) = [e |-> Fields(g[MaxElements].e), pos |-> g[MaxElements].pos]
  BY Zenon DEF AudReader, Read, Walk
<1>2. ASSUME NEW t \in States(Names), NEW k \in Nat \ {0}, NEW r, r[k - 1] = t
      PROVE  R(r, k) = Advance(bits, OfAudRead[t.e], t, k)
  <2>1. k # 0
    OBVIOUS
  <2>2. OfAudRead[t.e] = access_unit_delimiter(t.e)
    BY DEF States, OfAudRead
  <2> QED BY <1>2, <2>1, <2>2, Zenon DEF Advance, Onto
<1>3. \E r : r = [k \in 0 .. MaxElements |-> R(r, k)]
  <2>1. s = [k \in 0 .. MaxElements |-> s[k]]
    BY DEF Walking
  <2>2. ASSUME NEW k \in 0 .. MaxElements PROVE s[k] = R(s, k)
    <3>1. CASE k = 0
      <4>1. s[0] = From(NoFields)
        BY DEF Walking
      <4> QED BY <3>1, <4>1, Zenon DEF From
    <3>2. CASE k # 0
      <4>1. k \in 1 .. MaxElements /\ k \in Nat \ {0} /\ k - 1 \in 0 .. MaxElements
        BY <3>2 DEF Walking
      <4>2. s[k - 1] \in States(Names) /\ s[k] = Advance(bits, OfAudRead[s[k - 1].e], s[k - 1], k)
        BY <4>1 DEF Walking
      <4> QED BY <1>2, <4>1, <4>2, Zenon
    <3> QED BY <3>1, <3>2
  <2> HIDE DEF R
  <2>3. s = [k \in 0 .. MaxElements |-> R(s, k)]
    BY <2>1, <2>2
  <2> QED BY <2>3
<1>4. g = [k \in 0 .. MaxElements |-> R(g, k)]
  <2> HIDE DEF R
  <2> QED BY <1>3, Zenon
<1> HIDE DEF g
<1>5. MaxElements \in Nat /\ s[0] = From(NoFields)
  BY DEF Walking
<1>6. g[0] = From(NoFields)
  <2>1. g[0] = R(g, 0)
    <3> HIDE DEF R
    <3>1. 0 \in 0 .. MaxElements
      BY <1>5
    <3> QED BY <1>4, <3>1
  <2> QED BY <2>1 DEF From
<1>7. ASSUME NEW k \in 1 .. MaxElements, g[k - 1] \in States(Names)
      PROVE  g[k] = Advance(bits, OfAudRead[g[k - 1].e], g[k - 1], k)
  <2>1. k \in 0 .. MaxElements /\ k \in Nat \ {0}
    BY <1>5
  <2>2. g[k] = R(g, k)
    <3> HIDE DEF R
    <3> QED BY <1>4, <2>1
  <2> HIDE DEF R
  <2> QED BY <1>2, <1>7, <2>1, <2>2
<1>8. g[MaxElements] = s[MaxElements]
  BY <1>5, <1>6, <1>7, OneWalk
<1> QED BY <1>1, <1>8

\* A structure that is read as it is sent, whole and cut.
LEMMA BothWays ==
  ASSUME NEW E, NEW x, NEW e, NEW known, Same(Names, E, x, e, known), NEW bits, bits = WriteTrailing(Write(x, e))
  PROVE  /\ \E s : /\ Walking(Names, E, bits, known, MaxElements, s) /\ Fields(s[MaxElements].e) = e
                   /\ ~bs_overrun(bits, BehindTrailing(s[MaxElements].pos))
         /\ \E s : /\ Walking(Names, E, CutOff(bits), known, MaxElements, s)
                   /\ bs_overrun(CutOff(bits), BehindTrailing(s[MaxElements].pos))
<1>1. bits \in Words /\ CutOff(bits) \in Words
  <2>1. Write(x, e) \in Seq(Bit)
    BY SameFacts
  <2> QED BY <2>1, Trailing DEF CutOff
<1>2. E \in [FieldsOf(Names) -> Syntax(Names)] /\ known \in FieldsOf(Names)
  BY DEF Same
<1>3. PICK s : Walking(Names, E, bits, known, MaxElements, s)
  BY <1>1, <1>2, MaxElementsAssumption, Walks
<1>4. PICK c : Walking(Names, E, CutOff(bits), known, MaxElements, c)
  BY <1>1, <1>2, MaxElementsAssumption, Walks
<1>5. Fields(s[MaxElements].e) = e /\ ~bs_overrun(bits, BehindTrailing(s[MaxElements].pos))
  BY <1>3, ReadSent
<1>6. bs_overrun(CutOff(bits), BehindTrailing(c[MaxElements].pos))
  BY <1>4, ReadCut DEF CutOff
<1> QED BY <1>3, <1>4, <1>5, <1>6

\* A picture parameter set without scaling lists that is guessed right is asked for as
\* it is sent.
LEMMA PpsSame ==
  ASSUME NEW e, NEW present \in {0, 1}, Legal(PpsSyntax(e), e, More(present)), NoLists(e)
  PROVE  /\ Same(Names, OfPpsRead, PpsSyntax(e), e, More(present))
         /\ F(e, "_more_rbsp_data_present") = present
<1>1. More(present) \in FieldsOf(Names) /\ DOMAIN More(present) = {<<"_more_rbsp_data_present", 0>>}
      /\ F(More(present), "_more_rbsp_data_present") = present
  BY MoreIn
<1>i. IntFields(e)
  BY DEF Legal, IntFields
<1>f. F(e, "_more_rbsp_data_present") = present /\ <<"_more_rbsp_data_present", 0>> \in DOMAIN e
  BY <1>1 DEF Legal, F, At
<1>2. PpsSyntax(e) \in Syntax(Names)
  <2>1. Agree(e, More(present), {}) /\ IntFields(More(present)) /\ MoreAgree(e, More(present))
    BY <1>1, <1>f, InFields DEF Agree, IntFields, MoreAgree
  <2>2. Links(PpsSyntax(e), PpsRead(More(present)), {}, {})
    BY <1>i, <2>1, PpsLinks
  <2> QED BY <2>2 DEF Links, S
<1>3. Lawful(Names, PpsSyntax(e), e)
  <2>1. Sound(Names, PpsSyntax(e), e, More(present))
    BY <1>1, <1>2, NamesOk, LegalLawful
  <2> QED BY <2>1 DEF Sound
<1>4. ASSUME NEW d \in FieldsOf(Names), Knows(e, d, More(present))
      PROVE  Coh(PpsSyntax(e), OfPpsRead[d], DOMAIN d \ Stream)
  <2>1. Agree(e, d, DOMAIN d \ Stream) /\ IntFields(e) /\ IntFields(d)
    BY <1>3, <1>4, KnowsAgree
  <2>2. MoreAgree(e, d)
    <3>1. <<"_more_rbsp_data_present", 0>> \in DOMAIN d \ Stream
      BY <1>1, <1>4 DEF Knows, Stream
    <3> QED BY <2>1, <3>1, AtAgree DEF MoreAgree, F
  <2>3. Links(PpsSyntax(e), PpsRead(d), {}, DOMAIN d \ Stream)
    BY <2>1, <2>2, PpsLinks
  <2> QED BY <2>3 DEF Links, OfPpsRead, PpsRead
<1> QED BY <1>1, <1>2, <1>4, <1>f, NamesOk, PpsReadTyped DEF Same, AlikeFor

\* A picture parameter set without scaling lists is read as it was sent, if its
\* last part is there as the reader guesses, and one that is cut is noticed.
LEMMA PpsArrives ==
  ASSUME NEW e, NEW present \in {0, 1}, Legal(PpsSyntax(e), e, More(present)), NoLists(e)
  PROVE  LET bits == WriteTrailing(Write(PpsSyntax(e), e))
         IN  /\ PpsReader(bits, present).e = e /\ ~bs_overrun(bits, BehindTrailing(PpsReader(bits, present).pos))
             /\ bs_overrun(CutOff(bits), BehindTrailing(PpsReader(CutOff(bits), present).pos))
<1> DEFINE bits == WriteTrailing(Write(PpsSyntax(e), e))
<1>1. Same(Names, OfPpsRead, PpsSyntax(e), e, More(present))
  BY PpsSame
<1>b. bits = WriteTrailing(Write(PpsSyntax(e), e))
  OBVIOUS
<1> HIDE DEF bits
<1>2. PICK s : /\ Walking(Names, OfPpsRead, bits, More(present), MaxElements, s) /\ Fields(s[MaxElements].e) = e
               /\ ~bs_overrun(bits, BehindTrailing(s[MaxElements].pos))
  BY <1>1, <1>b, BothWays
<1>3. PICK c : /\ Walking(Names, OfPpsRead, CutOff(bits), More(present), MaxElements, c)
               /\ bs_overrun(CutOff(bits), BehindTrailing(c[MaxElements].pos))
  BY <1>1, <1>b, BothWays
<1>4. PpsReader(bits, present) = [e |-> Fields(s[MaxElements].e), pos |-> s[MaxElements].pos]
  BY <1>2, PpsWalk
<1>5. PpsReader(CutOff(bits), present) = [e |-> Fields(c[MaxElements].e), pos |-> c[MaxElements].pos]
  BY <1>3, PpsWalk
<1> QED BY <1>2, <1>3, <1>4, <1>5 DEF bits

\* An access unit delimiter is read whole, and not behind its end.
LEMMA AudArrives ==
  ASSUME NEW e, Legal(access_unit_delimiter(e), e, NoFields)
  PROVE  LET bits == WriteTrailing(Write(access_unit_delimiter(e), e))
         IN  AudReader(bits).e = e /\ ~bs_overrun(bits, BehindTrailing(AudReader(bits).pos))
<1> DEFINE bits == WriteTrailing(Write(access_unit_delimiter(e), e))
           x == access_unit_delimiter(e)
<1>1. DOMAIN NoFields = {} /\ NoFields \in FieldsOf(Names)
  BY NoFieldsIn DEF NoFields
<1>2. x \in Syntax(Names)
  BY Typed, PpsNames DEF S, access_unit_delimiter
<1>3. \A d \in FieldsOf(Names) : OfAudRead[d] = x
  BY DEF OfAudRead, access_unit_delimiter
<1>4. \A K : Coh(x, x, K)
  BY <1>2, CohSame DEF Syntax
<1>5. Same(Names, OfAudRead, x, e, NoFields)
  BY <1>1, <1>2, <1>3, <1>4, NamesOk, AudReadTyped DEF Same, AlikeFor
<1>b. bits = WriteTrailing(Write(x, e))
  OBVIOUS
<1> HIDE DEF bits, x
<1>6. PICK s : /\ Walking(Names, OfAudRead, bits, NoFields, MaxElements, s) /\ Fields(s[MaxElements].e) = e
               /\ ~bs_overrun(bits, BehindTrailing(s[MaxElements].pos))
  BY <1>5, <1>b, BothWays
<1>7. AudReader(bits) = [e |-> Fields(s[MaxElements].e), pos |-> s[MaxElements].pos]
  BY <1>6, AudWalk
<1> QED BY <1>6, <1>7 DEF bits

-----------------------------------------------------------------------------
(* User data *)

LEMMA SeiNames ==
  /\ <<"payloadType", "payloadSize">> \in Seq(Looped)
  /\ <<"payload">> \in Seq(Looped) /\ <<"end_bits">> \in Seq(Looped)
BY DEF Looped

\* The pieces of a message.
SeiHead(b) == Joined([k \in 1 .. 1 |-> Indexed(u(8, <<"payloadType", "payloadSize">>), b + k - 1)])
SeiBytes(b, n) == Joined([k \in 1 .. n |-> Indexed(u(8, <<"payload">>), b + k - 1)])
SeiEnd(b) == Joined([k \in 1 .. 1 |-> Indexed(u(8, <<"end_bits">>), b + k - 1)])

\* The pieces of an SEI message.
LEMMA SeiPieces ==
  ASSUME NEW b \in Nat
  PROVE  /\ SeiHead(b) \in S /\ SeiEnd(b) \in S /\ \A n \in Int : SeiBytes(b, n) \in S
         /\ Len(SeiHead(b)) = 2 /\ SeiHead(b)[1] = <<"u", 8, "payloadType", b>>
         /\ SeiHead(b)[2] = <<"u", 8, "payloadSize", b>>
         /\ Len(SeiEnd(b)) = 1 /\ SeiEnd(b)[1] = <<"u", 8, "end_bits", b>>
<1> DEFINE h0 == u(8, <<"payloadType", "payloadSize">>)
           p0 == u(8, <<"payload">>)
           e0 == u(8, <<"end_bits">>)
<1>1. h0 \in Loops /\ p0 \in Loops /\ e0 \in Loops
  BY LoopTyped, SeiNames
<1>2. /\ Len(h0) = 2 /\ h0[1] = <<"u", 8, "payloadType", 0>> /\ h0[2] = <<"u", 8, "payloadSize", 0>>
      /\ Len(e0) = 1 /\ e0[1] = <<"u", 8, "end_bits", 0>>
  BY DEF u
<1>3. \A x \in {h0, p0, e0} : \A n \in Int : Joined([k \in 1 .. n |-> Indexed(x, b + k - 1)]) \in S
  <2> TAKE x \in {h0, p0, e0}
  <2> TAKE n \in Int
  <2>1. x \in Syntax(Looped) /\ Looped \subseteq Names /\ Looped \cap Once = {}
    BY <1>1, Groups DEF Loops
  <2> QED BY <2>1, LoopIn DEF S
<1>4. SeiHead(b) \in S /\ SeiEnd(b) \in S /\ \A n \in Int : SeiBytes(b, n) \in S
  <2>1. 1 \in Int
    OBVIOUS
  <2> QED BY <1>3, <2>1 DEF SeiHead, SeiBytes, SeiEnd
<1>5. SeiHead(b) = Indexed(h0, b) /\ SeiEnd(b) = Indexed(e0, b)
  <2> HIDE DEF h0, p0, e0
  <2>1. \A x \in {h0, e0} : Joined([k \in 1 .. 1 |-> Indexed(x, b + k - 1)]) = Indexed(x, b)
    BY <1>1, LoopOnce, Groups DEF Loops
  <2> QED BY <2>1 DEF SeiHead, SeiEnd, h0, e0
<1> HIDE DEF h0, p0, e0
<1>6. \A x \in {h0, e0} : /\ Len(Indexed(x, b)) = Len(x)
                          /\ \A j \in 1 .. Len(x) : Indexed(x, b)[j] = <<x[j][1], x[j][2], x[j][3], b>>
  BY <1>1, IndexedIn, Groups DEF Loops
<1>7. /\ Len(SeiHead(b)) = 2 /\ SeiHead(b)[1] = <<"u", 8, "payloadType", b>>
      /\ SeiHead(b)[2] = <<"u", 8, "payloadSize", b>>
  <2>1. 1 \in 1 .. Len(h0) /\ 2 \in 1 .. Len(h0)
    BY <1>2
  <2>2. Len(Indexed(h0, b)) = 2 /\ Indexed(h0, b)[1] = <<h0[1][1], h0[1][2], h0[1][3], b>>
        /\ Indexed(h0, b)[2] = <<h0[2][1], h0[2][2], h0[2][3], b>>
    BY <1>2, <1>6, <2>1
  <2> QED BY <1>2, <1>5, <2>2
<1>8. Len(SeiEnd(b)) = 1 /\ SeiEnd(b)[1] = <<"u", 8, "end_bits", b>>
  <2>1. 1 \in 1 .. Len(e0)
    BY <1>2
  <2>2. Len(Indexed(e0, b)) = 1 /\ Indexed(e0, b)[1] = <<e0[1][1], e0[1][2], e0[1][3], b>>
    BY <1>2, <1>6, <2>1
  <2> QED BY <1>2, <1>5, <2>2
<1> QED BY <1>4, <1>7, <1>8

\* A message that is read has one element more than one that is sent.
LEMMA Message ==
  ASSUME NEW e, NEW b
  PROVE  /\ sei_message("sent", e, b) = (SeiHead(b) \o SeiBytes(b, At(e, "payloadSize", b))) \o <<>>
         /\ sei_message("read", e, b) =
              (SeiHead(b) \o When(At(e, "payloadType", b) = 5, SeiBytes(b, At(e, "payloadSize", b)))) \o SeiEnd(b)
<1>1. sei_message("sent", e, b) = (SeiHead(b) \o SeiBytes(b, At(e, "payloadSize", b))) \o <<>>
  BY DEF sei_message, Each, SeiHead, SeiBytes, When
<1>2. sei_message("read", e, b) =
        (SeiHead(b) \o When(At(e, "payloadType", b) = 5, SeiBytes(b, At(e, "payloadSize", b)))) \o SeiEnd(b)
  BY DEF sei_message, Each, SeiHead, SeiBytes, SeiEnd, When
<1> QED BY <1>1, <1>2

\* An SEI message is made of elements.
LEMMA MessageTyped ==
  ASSUME NEW e, IntFields(e), NEW b \in Nat
  PROVE  sei_message("sent", e, b) \in S /\ sei_message("read", e, b) \in S
<1>1. At(e, "payloadSize", b) \in Int
  BY AtInt
<1>2. SeiHead(b) \in S /\ SeiEnd(b) \in S /\ SeiBytes(b, At(e, "payloadSize", b)) \in S
  BY <1>1, SeiPieces
<1>3. When(At(e, "payloadType", b) = 5, SeiBytes(b, At(e, "payloadSize", b))) \in S /\ <<>> \in S
  BY <1>2, WhenIn DEF S, Syntax
<1>4. SeiHead(b) \o SeiBytes(b, At(e, "payloadSize", b)) \in S
      /\ SeiHead(b) \o When(At(e, "payloadType", b) = 5, SeiBytes(b, At(e, "payloadSize", b))) \in S
  BY <1>2, <1>3, JoinTyped
<1> QED BY <1>2, <1>3, <1>4, JoinTyped, Message

\* What is asked for of an SEI message depends on fields read before only.
LEMMA MessageLinks ==
  ASSUME NEW e, NEW d, NEW K, Agree(e, d, K), IntFields(e), IntFields(d)
  PROVE  Links(sei_message("read", e, 0), sei_message("read", d, 0), {}, K)
<1> DEFINE G == {<<"payloadType", 0>>, <<"payloadSize", 0>>}
           n1 == At(e, "payloadSize", 0)
           n2 == At(d, "payloadSize", 0)
<1>0. 0 \in Nat /\ n1 \in Int /\ n2 \in Int
  BY AtInt
<1>1. SeiHead(0) \in S /\ SeiEnd(0) \in S /\ SeiBytes(0, n1) \in S /\ SeiBytes(0, n2) \in S
  BY <1>0, SeiPieces
<1>2. Known(SeiHead(0), K) => G \subseteq K
  <2> SUFFICES ASSUME Known(SeiHead(0), K) PROVE <<"payloadType", 0>> \in K /\ <<"payloadSize", 0>> \in K
    OBVIOUS
  <2>1. Len(SeiHead(0)) = 2 /\ SeiHead(0)[1] = <<"u", 8, "payloadType", 0>> /\ SeiHead(0)[2] = <<"u", 8, "payloadSize", 0>>
    BY <1>0, SeiPieces
  <2>2. Key(SeiHead(0)[1]) \in K /\ Key(SeiHead(0)[2]) \in K
    BY <2>1 DEF Known
  <2> QED BY <2>1, <2>2 DEF Key
<1>3. Links(SeiHead(0), SeiHead(0), G, K)
  BY <1>1, <1>2, Start
<1>4. G \subseteq K => At(e, "payloadType", 0) = At(d, "payloadType", 0) /\ n1 = n2
  BY AtAgree
<1> DEFINE y1 == SeiBytes(0, n1)
           y2 == SeiBytes(0, n2)
           X(a, z) == SeiHead(0) \o When(a = 5, z)
<1>5. y1 \in S /\ y2 \in S
  BY <1>1
<1>6. G \subseteq K => Coh(y1, y2, K)
  <2>1. Coh(y1, y1, K)
    BY <1>5, CohSame DEF S, Syntax
  <2> QED BY <1>4, <2>1
<1>m. /\ sei_message("read", e, 0) = X(At(e, "payloadType", 0), y1) \o SeiEnd(0)
      /\ sei_message("read", d, 0) = X(At(d, "payloadType", 0), y2) \o SeiEnd(0)
  BY Message
<1> HIDE DEF y1, y2, G, n1, n2
<1>7. Links(X(At(e, "payloadType", 0), y1), X(At(d, "payloadType", 0), y2), G, K)
  BY <1>3, <1>4, <1>5, <1>6, LinkWhen
<1> HIDE DEF X
<1>8. Links(X(At(e, "payloadType", 0), y1) \o SeiEnd(0), X(At(d, "payloadType", 0), y2) \o SeiEnd(0), G, K)
  BY <1>1, <1>7, LinkSame
<1> QED BY <1>8, <1>m DEF Links

\* The first of joined sequences is in front.
LEMMA JoinedFirst ==
  ASSUME NEW A, NEW ss \in Seq(Seq(A)), Len(ss) >= 1
  PROVE  /\ Len(Joined(ss)) \in Nat /\ Len(ss[1]) \in Nat /\ Len(ss[1]) <= Len(Joined(ss))
         /\ \A i \in 1 .. Len(ss[1]) : Joined(ss)[i] = ss[1][i]
         /\ Len(ss) = 1 => Len(Joined(ss)) = Len(ss[1])
<1>1. PICK q \in [0 .. Len(ss) -> Nat] :
            /\ q[0] = 0 /\ q[Len(ss)] = Len(Joined(ss))
            /\ \A k \in 1 .. Len(ss) :
                  /\ q[k] = q[k - 1] + Len(ss[k]) /\ q[k] <= Len(Joined(ss))
                  /\ \A i \in 1 .. Len(ss[k]) : Joined(ss)[q[k - 1] + i] = ss[k][i]
  BY Layout, Zenon
<1>2. 1 \in 1 .. Len(ss) /\ Len(ss) \in 0 .. Len(ss) /\ 1 - 1 = 0 /\ ss[1] \in Seq(A)
  OBVIOUS
<1>3. Len(ss[1]) \in Nat
  BY <1>2
<1>4. q[1] = Len(ss[1]) /\ q[1] <= Len(Joined(ss)) /\ \A i \in 1 .. Len(ss[1]) : Joined(ss)[i] = ss[1][i]
  <2>1. /\ q[1] = q[1 - 1] + Len(ss[1]) /\ q[1] <= Len(Joined(ss))
        /\ \A i \in 1 .. Len(ss[1]) : Joined(ss)[q[1 - 1] + i] = ss[1][i]
    BY <1>1, <1>2
  <2> QED BY <1>1, <1>2, <1>3, <2>1
<1> QED BY <1>1, <1>2, <1>3, <1>4

OfSeiRead == [d \in FieldsOf(Names) |-> sei_rbsp("read", d, 0)]

\* SEI messages one behind the other start with the first.
LEMMA Together ==
  ASSUME NEW side \in {"sent", "read"}, NEW e, IntFields(e), NEW n, Messages(side, e, n) \in Nat \ {0}
  PROVE  /\ sei_rbsp(side, e, n) \in S
         /\ Len(sei_message(side, e, 0)) <= Len(sei_rbsp(side, e, n))
         /\ \A i \in 1 .. Len(sei_message(side, e, 0)) : sei_rbsp(side, e, n)[i] = sei_message(side, e, 0)[i]
         /\ Messages(side, e, n) = 1 => sei_rbsp(side, e, n) = sei_message(side, e, 0)
<1> DEFINE m == Messages(side, e, n)
           ss == [k \in 1 .. m |-> sei_message(side, e, (k - 1) * Second)]
           a == sei_message(side, e, 0)
<1>1. \A k \in 1 .. m : sei_message(side, e, (k - 1) * Second) \in S
  <2> TAKE k \in 1 .. m
  <2>1. (k - 1) * Second \in Nat
    BY DEF Second
  <2> QED BY <2>1, MessageTyped
<1>2. ss \in Seq(S) /\ Len(ss) = m
  BY <1>1
<1>3. ss[1] = a
  <2>1. 1 \in 1 .. m /\ (1 - 1) * Second = 0
    BY DEF Second
  <2> QED BY <2>1
<1>j. sei_rbsp(side, e, n) = Joined(ss)
  BY DEF sei_rbsp
<1> HIDE DEF ss, a, m
<1>4. ss \in Seq(Seq(ElOf(Names))) /\ Len(ss) >= 1
  BY <1>2 DEF S, Syntax, m
<1>5. Joined(ss) \in Seq(ElOf(Names))
  BY <1>4, JoinedIn
<1>6. /\ Len(Joined(ss)) \in Nat /\ Len(a) \in Nat /\ Len(a) <= Len(Joined(ss))
      /\ \A i \in 1 .. Len(a) : Joined(ss)[i] = a[i]
      /\ m = 1 => Len(Joined(ss)) = Len(a)
  BY <1>2, <1>3, <1>4, JoinedFirst
<1>7. a \in Seq(ElOf(Names))
  <2>1. 1 \in 1 .. Len(ss)
    BY <1>4
  <2> QED BY <1>3, <1>4, <2>1
<1>8. m = 1 => Joined(ss) = a
  BY <1>5, <1>6, <1>7, SeqEqual
<1> QED BY <1>5, <1>6, <1>8, <1>j DEF a, m, S, Syntax

\* The reader asks for one message at least.
LEMMA ReadMessages == \A d : Messages("read", d, 0) \in Nat \ {0}
<1> TAKE d
<1> DEFINE X == {i \in 0 .. MaxElements : <<"payloadType", i * Second>> \in DOMAIN d}
<1>1. IsFiniteSet(X)
  <2>1. 0 \in Int /\ MaxElements \in Int
    BY MaxElementsAssumption
  <2>2. IsFiniteSet(0 .. MaxElements)
    BY ONLY <2>1, FS_Interval
  <2>3. X \subseteq 0 .. MaxElements
    OBVIOUS
  <2> QED BY <2>2, <2>3, FS_Subset
<1>2. Cardinality(X) \in Nat
  BY <1>1, FS_CardinalityType
<1>3. Messages("read", d, 0) = IF Cardinality(X) = 0 \/ F(d, "more") = 1 THEN Cardinality(X) + 1 ELSE Cardinality(X)
  BY DEF Messages
<1> QED BY <1>2, <1>3

\* The encoder sends as many as there are.
LEMMA SentMessages == \A e, n : Messages("sent", e, n) = n
BY DEF Messages

\* The reader of SEI messages always asks for elements.
LEMMA SeiReadTyped == OfSeiRead \in [FieldsOf(Names) -> Syntax(Names)]
<1> SUFFICES ASSUME NEW d \in FieldsOf(Names) PROVE sei_rbsp("read", d, 0) \in Syntax(Names)
  BY DEF OfSeiRead
<1>1. IntFields(d)
  BY InFields DEF IntFields
<1> QED BY <1>1, ReadMessages, Together DEF S

\* read_sei_rbsp ends where its steps end.
LEMMA SeiWalk ==
  ASSUME NEW bits, NEW s, Walking(Names, OfSeiRead, bits, NoFields, MaxElements, s)
  PROVE  SeiReader(bits) = [e |-> Fields(s[MaxElements].e), pos |-> s[MaxElements].pos]
<1> DEFINE R(r, k) == IF k = 0 THEN [e |-> NoFields, pos |-> 0, done |-> FALSE]
             ELSE LET t == r[k - 1]
                  IN  IF t.done THEN t
                      ELSE LET es == sei_rbsp("read", t.e, 0)
                           IN  IF k > Len(es) THEN [t EXCEPT !.done = TRUE]
                               ELSE LET el  == es[k]
                                        pos == Behind(el[1], el[2], bits, t.pos)
                                        new == Only(Key(el), ReadCode(el[1], el[2], bits, t.pos))
                                    IN  [t EXCEPT !.e = Before(State(bits, pos), Before(new, @)), !.pos = pos]
           g == CHOOSE r : r = [k \in 0 .. MaxElements |-> R(r, k)]
<1>1. SeiReader(bits) = [e |-> Fields(g[MaxElements].e), pos |-> g[MaxElements].pos]
  BY Zenon DEF SeiReader, Read, Walk
<1>2. ASSUME NEW t \in States(Names), NEW k \in Nat \ {0}, NEW r, r[k - 1] = t
      PROVE  R(r, k) = Advance(bits, OfSeiRead[t.e], t, k)
  <2>1. k # 0
    OBVIOUS
  <2>2. OfSeiRead[t.e] = sei_rbsp("read", t.e, 0)
    BY DEF States, OfSeiRead
  <2> QED BY <1>2, <2>1, <2>2, Zenon DEF Advance, Onto
<1>3. \E r : r = [k \in 0 .. MaxElements |-> R(r, k)]
  <2>1. s = [k \in 0 .. MaxElements |-> s[k]]
    BY DEF Walking
  <2>2. ASSUME NEW k \in 0 .. MaxElements PROVE s[k] = R(s, k)
    <3>1. CASE k = 0
      <4>1. s[0] = From(NoFields)
        BY DEF Walking
      <4> QED BY <3>1, <4>1, Zenon DEF From
    <3>2. CASE k # 0
      <4>1. k \in 1 .. MaxElements /\ k \in Nat \ {0} /\ k - 1 \in 0 .. MaxElements
        BY <3>2 DEF Walking
      <4>2. s[k - 1] \in States(Names) /\ s[k] = Advance(bits, OfSeiRead[s[k - 1].e], s[k - 1], k)
        BY <4>1 DEF Walking
      <4> QED BY <1>2, <4>1, <4>2, Zenon
    <3> QED BY <3>1, <3>2
  <2> HIDE DEF R
  <2>3. s = [k \in 0 .. MaxElements |-> R(s, k)]
    BY <2>1, <2>2
  <2> QED BY <2>3
<1>4. g = [k \in 0 .. MaxElements |-> R(g, k)]
  <2> HIDE DEF R
  <2> QED BY <1>3, Zenon
<1> HIDE DEF g
<1>5. MaxElements \in Nat /\ s[0] = From(NoFields)
  BY DEF Walking
<1>6. g[0] = From(NoFields)
  <2>1. g[0] = R(g, 0)
    <3> HIDE DEF R
    <3>1. 0 \in 0 .. MaxElements
      BY <1>5
    <3> QED BY <1>4, <3>1
  <2> QED BY <2>1 DEF From
<1>7. ASSUME NEW k \in 1 .. MaxElements, g[k - 1] \in States(Names)
      PROVE  g[k] = Advance(bits, OfSeiRead[g[k - 1].e], g[k - 1], k)
  <2>1. k \in 0 .. MaxElements /\ k \in Nat \ {0}
    BY <1>5
  <2>2. g[k] = R(g, k)
    <3> HIDE DEF R
    <3> QED BY <1>4, <2>1
  <2> HIDE DEF R
  <2> QED BY <1>2, <1>7, <2>1, <2>2
<1>8. g[MaxElements] = s[MaxElements]
  BY <1>5, <1>6, <1>7, OneWalk
<1> QED BY <1>1, <1>8

\* What a NAL unit of SEI messages is.
LEMMA SeiNal ==
  ASSUME NEW n \in SeiNals
  PROVE  \E e : \E m \in {1, 2} : /\ n = Unit(6, 0, e, Write(sei_rbsp("sent", e, m), e))
                                  /\ Legal(sei_rbsp("sent", e, m), e, NoFields)
<1>1. PICK m \in {1, 2} : n \in Sent(6, 0, LAMBDA e : sei_rbsp("sent", e, m), SeiTold, NoFields)
  BY DEF SeiNals
<1>2. \E e : n = Unit(6, 0, e, Write(sei_rbsp("sent", e, m), e)) /\ Legal(sei_rbsp("sent", e, m), e, NoFields)
  BY <1>1, Zenon DEF Sent
<1> QED BY <1>1, <1>2

\* The elements of two pieces, one behind the other.
LEMMA CatParts ==
  ASSUME NEW a \in S, NEW b \in S
  PROVE  /\ a \o b \in S /\ Len(a) \in Nat /\ Len(b) \in Nat /\ Len(a \o b) = Len(a) + Len(b)
         /\ \A i \in 1 .. Len(a) : (a \o b)[i] = a[i]
         /\ \A i \in 1 .. Len(b) : (a \o b)[Len(a) + i] = b[i]
<1>1. a \in Seq(ElOf(Names)) /\ b \in Seq(ElOf(Names))
  BY DEF S, Syntax
<1> QED BY <1>1, Cat DEF S, Syntax

\* Of two messages the second has fields of its own.
LEMMA TwoMessages ==
  ASSUME NEW e, Legal(sei_rbsp("sent", e, 2), e, NoFields)
  PROVE  <<"payloadType", Second>> \in DOMAIN e
<1> DEFINE ss == [k \in 1 .. 2 |-> sei_message("sent", e, (k - 1) * Second)]
<1>i. IntFields(e)
  BY DEF Legal, IntFields
<1>1. Second \in Nat /\ (2 - 1) * Second = Second /\ 0 \in Nat /\ (1 - 1) * Second = 0
  BY DEF Second
<1>2. sei_message("sent", e, 0) \in S /\ sei_message("sent", e, Second) \in S
  BY <1>i, <1>1, MessageTyped
<1>3. ss = <<sei_message("sent", e, 0), sei_message("sent", e, Second)>>
  BY <1>1
<1>j. sei_rbsp("sent", e, 2) = Joined(ss)
  BY SentMessages DEF sei_rbsp
<1> HIDE DEF ss
<1>4. ss \in Seq(Seq(ElOf(Names))) /\ Len(ss) = 2 /\ ss[2] = sei_message("sent", e, Second)
  BY <1>2, <1>3 DEF S, Syntax
<1>5. Joined(ss) \in Seq(ElOf(Names))
  BY <1>4, JoinedIn
<1>6. PICK q \in [0 .. Len(ss) -> Nat] :
            /\ q[0] = 0 /\ q[Len(ss)] = Len(Joined(ss))
            /\ \A k \in 1 .. Len(ss) :
                  /\ q[k] = q[k - 1] + Len(ss[k]) /\ q[k] <= Len(Joined(ss))
                  /\ \A i \in 1 .. Len(ss[k]) : Joined(ss)[q[k - 1] + i] = ss[k][i]
  <2>1. ss \in Seq(Seq(ElOf(Names)))
    BY <1>4
  <2> QED BY ONLY <2>1, Layout
<1>7. Len(ss[2]) \in Nat /\ Len(ss[2]) >= 1 /\ ss[2][1] = <<"u", 8, "payloadType", Second>>
  <2> DEFINE hd == SeiHead(Second)
             by == SeiBytes(Second, At(e, "payloadSize", Second))
  <2>1. hd \in S /\ Len(hd) = 2 /\ hd[1] = <<"u", 8, "payloadType", Second>>
    BY <1>1, SeiPieces
  <2>2. by \in S
    BY <1>1, <1>i, AtInt, SeiPieces
  <2>3. ss[2] = (hd \o by) \o <<>>
    BY <1>4, Message
  <2> HIDE DEF hd, by
  <2>4. hd \o by \in S /\ Len(hd \o by) >= 1 /\ (hd \o by)[1] = hd[1] /\ Len(hd \o by) \in Nat
    <3>1. 1 \in 1 .. Len(hd)
      BY <2>1
    <3>2. /\ hd \o by \in S /\ Len(hd) \in Nat /\ Len(by) \in Nat /\ Len(hd \o by) = Len(hd) + Len(by)
          /\ \A i \in 1 .. Len(hd) : (hd \o by)[i] = hd[i]
      BY <2>1, <2>2, CatParts
    <3>3. (hd \o by)[1] = hd[1]
      BY <3>1, <3>2
    <3>4. Len(hd \o by) >= 1 /\ Len(hd \o by) \in Nat
      BY <2>1, <3>2
    <3> QED BY <3>2, <3>3, <3>4
  <2>5. ss[2] = hd \o by
    BY <2>3, <2>4, ConcatEmptySeq DEF S, Syntax
  <2> QED BY <2>1, <2>4, <2>5
<1>8. q[1] + 1 \in 1 .. Len(Joined(ss)) /\ Joined(ss)[q[1] + 1] = <<"u", 8, "payloadType", Second>>
  <2>1. 2 \in 1 .. Len(ss) /\ 2 - 1 = 1 /\ 1 \in 0 .. Len(ss)
    BY <1>4
  <2>2. q[2] = q[1] + Len(ss[2]) /\ q[2] <= Len(Joined(ss)) /\ q[1] \in Nat /\ Len(Joined(ss)) \in Nat
    BY <1>5, <1>6, <2>1
  <2>3. \A i \in 1 .. Len(ss[2]) : Joined(ss)[q[1] + i] = ss[2][i]
    BY <1>6, <2>1
  <2>4. 1 \in 1 .. Len(ss[2])
    BY <1>7
  <2> QED BY <1>7, <2>2, <2>3, <2>4
<1>9. Key(Joined(ss)[q[1] + 1]) \in DOMAIN e
  <2>1. DOMAIN e = {Key(Joined(ss)[k]) : k \in DOMAIN Joined(ss)} \cup DOMAIN NoFields
    BY <1>j DEF Legal
  <2>2. DOMAIN Joined(ss) = 1 .. Len(Joined(ss))
    BY <1>5
  <2> QED BY <1>8, <2>1, <2>2
<1> QED BY <1>8, <1>9 DEF Key

\* What is read of a message of user data starts as it was sent; then its reader
\* asks for end_bits.
LEMMA UserData ==
  ASSUME NEW e, IntFields(e), F(e, "payloadType") = 5
  PROVE  LET x == sei_message("sent", e, 0)
             y == sei_message("read", e, 0)
         IN  /\ x \in S /\ y \in S /\ Len(x) \in Nat /\ Len(y) = Len(x) + 1
             /\ \A i \in 1 .. Len(x) : y[i] = x[i]
             /\ y[Len(x) + 1] = <<"u", 8, "end_bits", 0>>
<1> DEFINE hd == SeiHead(0)
           by == SeiBytes(0, At(e, "payloadSize", 0))
           en == SeiEnd(0)
           x == hd \o by
<1>1. 0 \in Nat /\ At(e, "payloadSize", 0) \in Int
  BY AtInt
<1>2. hd \in S /\ by \in S /\ en \in S /\ Len(en) = 1 /\ en[1] = <<"u", 8, "end_bits", 0>>
  BY <1>1, SeiPieces
<1>3. sei_message("sent", e, 0) = (hd \o by) \o <<>>
  BY Message
<1>4. sei_message("read", e, 0) = (hd \o by) \o en
  BY Message DEF When, F
<1> HIDE DEF hd, by, en
<1>5. x \in S
  BY <1>2, JoinTyped
<1> HIDE DEF x
<1>6. x \o <<>> = x
  BY <1>5, ConcatEmptySeq DEF S, Syntax
<1>7. /\ Len(x) \in Nat /\ Len(x \o en) = Len(x) + 1 /\ \A i \in 1 .. Len(x) : (x \o en)[i] = x[i]
      /\ (x \o en)[Len(x) + 1] = en[1] /\ x \o en \in S
  <2>1. 1 \in 1 .. Len(en)
    BY <1>2
  <2>2. /\ x \o en \in S /\ Len(x) \in Nat /\ Len(x \o en) = Len(x) + Len(en)
        /\ \A i \in 1 .. Len(x) : (x \o en)[i] = x[i]
        /\ \A i \in 1 .. Len(en) : (x \o en)[Len(x) + i] = en[i]
    BY <1>2, <1>5, CatParts
  <2>3. (x \o en)[Len(x) + 1] = en[1]
    BY <2>1, <2>2
  <2> QED BY <1>2, <2>2, <2>3
<1>8. sei_message("sent", e, 0) = x /\ sei_message("read", e, 0) = x \o en
  BY <1>3, <1>4, <1>6 DEF x
<1> QED BY <1>2, <1>5, <1>7, <1>8

\* The reader of a message of user data runs into the end of the stream.
LEMMA SeiOverruns ==
  ASSUME NEW e, Legal(sei_rbsp("sent", e, 1), e, NoFields), F(e, "payloadType") = 5
  PROVE  LET bits == WriteTrailing(Write(sei_rbsp("sent", e, 1), e))
         IN  bs_overrun(bits, BehindTrailing(SeiReader(bits).pos))
<1> DEFINE x == sei_message("sent", e, 0)
           y == sei_message("read", e, 0)
           w == Write(x, e)
           bits == WriteTrailing(w)
<1>i. IntFields(e)
  BY DEF Legal, IntFields
<1>x. sei_rbsp("sent", e, 1) = x
  <2>1. Messages("sent", e, 1) = 1
    BY SentMessages
  <2> QED BY <1>i, <2>1, Together
<1>y. /\ x \in S /\ y \in S /\ Len(x) \in Nat /\ Len(y) = Len(x) + 1
      /\ \A i \in 1 .. Len(x) : y[i] = x[i]
      /\ y[Len(x) + 1] = <<"u", 8, "end_bits", 0>>
  BY <1>i, UserData
<1>1. NoFields \in FieldsOf(Names) /\ DOMAIN NoFields = {}
  BY NoFieldsIn DEF NoFields
<1>2. Lawful(Names, x, e) /\ Len(x) < MaxElements
  <2>1. Sound(Names, x, e, NoFields)
    BY <1>1, <1>x, <1>y, NamesOk, LegalLawful DEF S
  <2> QED BY <2>1 DEF Sound
<1>3. ASSUME NEW d \in FieldsOf(Names), Knows(e, d, NoFields), NEW k \in 0 .. Len(x),
             \A i \in 1 .. k : Key(x[i]) \in DOMAIN d
      PROVE  k + 1 <= Len(OfSeiRead[d]) /\ OfSeiRead[d][k + 1] = y[k + 1]
  <2> DEFINE z == sei_message("read", d, 0)
             r == sei_rbsp("read", d, 0)
             K == DOMAIN d \ Stream
  <2>1. Agree(e, d, K) /\ IntFields(d)
    BY <1>2, <1>3, KnowsAgree
  <2>2. Coh(y, z, K) /\ z \in S
    BY <1>i, <2>1, MessageLinks DEF Links
  <2>3. \A i \in 1 .. k : Key(y[i]) \in K
    <3> TAKE i \in 1 .. k
    <3>1. i \in 1 .. Len(x)
      BY <1>y
    <3>2. Key(x[i]) \notin Stream
      BY <1>y, <3>1, NamesOk, KeyIn DEF S
    <3> QED BY <1>3, <1>y, <3>1, <3>2
  <2> HIDE DEF z, K, y, x
  <2>4. k \in 0 .. Len(y) /\ k + 1 <= Len(y)
    BY <1>y
  <2>5. k + 1 <= Len(z) /\ z[k + 1] = y[k + 1]
    BY <2>2, <2>3, <2>4 DEF Coh
  <2>6. Len(z) <= Len(r) /\ \A i \in 1 .. Len(z) : r[i] = z[i]
    BY <2>1, ReadMessages, Together DEF z
  <2>7. r \in S /\ OfSeiRead[d] = r
    BY <2>1, ReadMessages, Together DEF OfSeiRead
  <2> HIDE DEF r
  <2>8. Len(r) \in Nat /\ Len(z) \in Nat
    BY <2>2, <2>7 DEF S, Syntax
  <2>9. k + 1 \in 1 .. Len(z)
    BY <1>3, <1>y, <2>5, <2>8
  <2> QED BY <2>5, <2>6, <2>7, <2>8, <2>9
<1>b. bits \in Words /\ Len(bits) <= Len(w) + 8 /\ Len(bits) > Len(w) /\ \A i \in 1 .. Len(w) : bits[i] = w[i]
  <2>0. <<>> \in Words /\ Len(<<>>) = 0
    BY DEF Words
  <2>1. \A i \in 1 .. Len(Write(x, e)) : i <= Len(<<>>) => <<>>[i] = Write(x, e)[i]
    BY <2>0
  <2>2. w \in Seq(Bit)
    BY <1>2, <2>0, <2>1, Laid
  <2> HIDE DEF w
  <2> QED BY <2>2, Trailing
<1>l. Len(w) \in Nat /\ Len(bits) \in Nat
  <2>1. w \in Seq(Bit)
    <3>1. \A i \in 1 .. Len(Write(x, e)) : i <= Len(bits) => bits[i] = Write(x, e)[i]
      BY <1>b
    <3> HIDE DEF bits
    <3> QED BY <1>2, <1>b, <3>1, Laid
  <2> HIDE DEF w
  <2> QED BY <1>b, <2>1 DEF Words
<1>4. PICK s : Walking(Names, OfSeiRead, bits, NoFields, MaxElements, s)
  <2> HIDE DEF bits
  <2> QED BY <1>1, <1>b, SeiReadTyped, MaxElementsAssumption, Walks
<1>5. PICK q : /\ Placed(x, e, q) /\ Carries(bits, x, e, q) /\ q[Len(x)] = Len(w)
               /\ \A k \in 0 .. Len(x) : q[k] <= Len(w)
  <2>1. \A i \in 1 .. Len(Write(x, e)) : i <= Len(bits) => bits[i] = Write(x, e)[i]
    BY <1>b
  <2> HIDE DEF bits
  <2> QED BY <1>2, <1>b, <2>1, Laid
<1>r. SeiReader(bits) = [e |-> Fields(s[MaxElements].e), pos |-> s[MaxElements].pos]
  BY <1>4, SeiWalk
<1>bits. bits = WriteTrailing(Write(sei_rbsp("sent", e, 1), e))
  BY <1>x
<1>e. Len(bits) <= Len(w) + 8 /\ Len(bits) > Len(w)
  BY <1>b
<1> HIDE DEF x, y, w, bits
<1>6. Asks(Names, OfSeiRead, x, e, NoFields, Len(x))
  <2> SUFFICES ASSUME NEW d \in FieldsOf(Names), NEW k \in 0 .. Len(x) - 1,
                      Knows(e, d, NoFields), \A i \in 1 .. k : Key(x[i]) \in DOMAIN d
               PROVE  k + 1 <= Len(OfSeiRead[d]) /\ OfSeiRead[d][k + 1] = x[k + 1]
    BY DEF Asks
  <2>1. k \in 0 .. Len(x) /\ k + 1 \in 1 .. Len(x)
    BY <1>y
  <2> QED BY <1>3, <1>y, <2>1
<1>7. Reached(Names, x, e, NoFields, q, Len(x), s[Len(x)])
  <2>1. Len(x) \in 0 .. Len(x) /\ Len(x) <= MaxElements
    BY <1>2, <1>y, MaxElementsAssumption
  <2>2. DOMAIN NoFields \subseteq DOMAIN e /\ \A k \in DOMAIN NoFields : NoFields[k] = e[k]
    BY <1>1
  <2>3. \A k \in 1 .. Len(x) : q[k] <= Len(bits)
    <3> TAKE k \in 1 .. Len(x)
    <3>1. k \in 0 .. Len(x)
      OBVIOUS
    <3>2. q[k] <= Len(w) /\ q[k] \in Nat
      BY <1>5, <3>1 DEF Placed
    <3> QED BY <1>e, <1>l, <3>2
  <2>4. \A k \in 0 .. Len(x) : Reached(Names, x, e, NoFields, q, k, s[k])
    BY <1>2, <1>4, <1>5, <1>6, <2>1, <2>2, <2>3, NamesOk, WalkOn
  <2> QED BY <2>1, <2>4
<1> DEFINE n == Len(x) + 1
           t == s[Len(x)]
<1>8. n \in 1 .. MaxElements /\ n - 1 = Len(x) /\ n \in 0 .. MaxElements
  BY <1>2, <1>y, MaxElementsAssumption
<1>9. t \in States(Names) /\ t.done = FALSE /\ t.pos = Len(w) /\ t.e \in FieldsOf(Names)
      /\ Knows(e, t.e, NoFields) /\ \A i \in 1 .. Len(x) : Key(x[i]) \in DOMAIN t.e
  BY <1>5, <1>7 DEF Reached, States
<1>10. s[n] = Advance(bits, OfSeiRead[t.e], t, n)
  BY <1>4, <1>8 DEF Walking
<1>11. n <= Len(OfSeiRead[t.e]) /\ OfSeiRead[t.e][n] = <<"u", 8, "end_bits", 0>>
  <2>1. Len(x) \in 0 .. Len(x)
    BY <1>y
  <2> HIDE DEF t
  <2> QED BY <1>3, <1>9, <1>y, <2>1
<1>12. Len(OfSeiRead[t.e]) \in Nat
  BY <1>9, SeiReadTyped DEF Syntax
<1> HIDE DEF n, t
<1>13. s[n] = Onto(bits, <<"u", 8, "end_bits", 0>>, t)
  <2>1. ~(n > Len(OfSeiRead[t.e]))
    BY <1>8, <1>11, <1>12
  <2> QED BY <1>9, <1>10, <1>11, <2>1 DEF Advance
<1>14. s[n].pos = Len(w) + 8
  <2>1. Onto(bits, <<"u", 8, "end_bits", 0>>, t).pos = t.pos + 8
    BY <1>9 DEF Onto, States, Behind
  <2> QED BY <1>9, <1>13, <2>1
<1>15. s[MaxElements].pos >= s[n].pos
  BY <1>4, <1>8, WalkGoesOn
<1>16. s[MaxElements].pos \in Nat
  BY <1>4, MaxElementsAssumption DEF Walking, States
<1>17. s[MaxElements].pos >= Len(bits)
  BY <1>14, <1>15, <1>16, <1>e, <1>l
<1>18. bs_overrun(bits, BehindTrailing(s[MaxElements].pos))
  BY <1>16, <1>17, <1>b, OverrunBehind DEF bits
<1> QED BY <1>18, <1>r, <1>bits

\* A sequence parameter set that is cut.
LEMMA SpsCut ==
  ASSUME Shape, NEW n \in SpsNals, read_nal_unit(Cut(n)), ~UnknownProfile(n.e)
  PROVE  rc' = -1
<1>1. PICK e : n = Unit(7, 1, e, Write(SpsSyntax(e), e)) /\ Legal(SpsSyntax(e), e, NoFields)
  BY SpsNal
<1> DEFINE bits == WriteTrailing(Write(SpsSyntax(e), e))
<1>2. n.e = e /\ Cut(n).type = 7 /\ Cut(n).bits = CutOff(bits)
  BY <1>1 DEF Unit, Cut, CutOff
<1> HIDE DEF bits
<1>3. bs_overrun(CutOff(bits), BehindTrailing(SpsReader(CutOff(bits)).pos))
  BY <1>1, <1>2, SpsArrives DEF bits
<1>4. h' = SpsInto(SpsReader(CutOff(bits))) /\ rc' = IF bs_overrun(CutOff(bits), h'.end) THEN -1 ELSE 0
  BY <1>2, ReadNal
<1>5. h'.end = BehindTrailing(SpsReader(CutOff(bits)).pos)
  BY <1>4 DEF SpsInto, Shape, HFields
<1> QED BY <1>3, <1>4, <1>5

\* A picture parameter set without scaling lists whose last part is there as guessed.
LEMMA PpsStored ==
  ASSUME Shape, NEW n \in PpsNals, ~HasLists(n.e), NEW m \in {n, Cut(n)}, read_nal_unit(m), ~WrongGuess(n.e)'
  PROVE  /\ Sps' = Sps
         /\ m = n => /\ h'.pps \in PpsIds /\ Pps' = n.e /\ h'.sh = h.sh
                     /\ rc' = 0
         /\ m = Cut(n) => rc' = -1
<1>1. PICK e, present : /\ n = Unit(8, 1, e, Write(PpsSyntax(e), e)) /\ present \in {0, 1}
                        /\ Legal(PpsSyntax(e), e, More(present)) /\ F(e, "pic_parameter_set_id") \in PpsIds
  BY PpsNal
<1> DEFINE bits == WriteTrailing(Write(PpsSyntax(e), e))
<1>2. n.e = e /\ m.type = 8 /\ n.bits = bits /\ Cut(n).bits = CutOff(bits) /\ n.cut = FALSE /\ Cut(n).cut = TRUE
  <2>1. n.e = e /\ n.type = 8 /\ n.bits = bits /\ n.cut = FALSE
    BY <1>1 DEF Unit
  <2>2. Cut(n).type = 8 /\ Cut(n).bits = CutOff(bits) /\ Cut(n).cut = TRUE
    BY <1>1 DEF Unit, Cut, CutOff
  <2> QED BY <2>1, <2>2
<1> HIDE DEF bits
<1>3. NoLists(e)
  <2> SUFFICES ASSUME NEW i PROVE At(e, ListFlag, i) = 0
    BY DEF NoLists
  <2>1. <<ListFlag, i>> \in DOMAIN e => e[<<ListFlag, i>>] = 0
    BY <1>2 DEF HasLists, ListFlag
  <2> QED BY <2>1 DEF At
<1>4. F(e, "_more_rbsp_data_present") = present
  BY <1>1, <1>3, PpsSame
<1>5. h' = PpsInto(PpsReader(m.bits, MoreInPps)) /\ rc' = IF bs_overrun(m.bits, h'.end) THEN -1 ELSE 0
  BY <1>2, ReadNal
<1>6. h'.sps = h.sps /\ h'.sps_table = h.sps_table /\ h'.sh = h.sh
      /\ h'.end = BehindTrailing(PpsReader(m.bits, MoreInPps).pos)
  BY <1>5 DEF PpsInto, Shape, HFields
<1>7. Sps' = Sps
  BY <1>6 DEF Sps
<1>8. F(e, "_more_rbsp_data_present") = 1 <=> more_rbsp_data_in_pps(Sps)
  BY <1>2, <1>7 DEF WrongGuess
<1>9. MoreInPps = present
  BY <1>1, <1>4, <1>8 DEF MoreInPps, Sps
<1>10. /\ PpsReader(bits, present).e = e /\ ~bs_overrun(bits, BehindTrailing(PpsReader(bits, present).pos))
       /\ bs_overrun(CutOff(bits), BehindTrailing(PpsReader(CutOff(bits), present).pos))
  BY <1>1, <1>3, PpsArrives DEF bits
<1>11. m = n => /\ h'.pps \in PpsIds /\ Pps' = n.e /\ rc' = 0
  <2> SUFFICES ASSUME m = n PROVE h'.pps \in PpsIds /\ Pps' = n.e /\ rc' = 0
    OBVIOUS
  <2>1. h' = PpsInto(PpsReader(bits, present)) /\ PpsReader(bits, present).e = e /\ m.bits = bits
    BY <1>2, <1>5, <1>9, <1>10
  <2>2. h'.pps = F(e, "pic_parameter_set_id") /\ h'.pps_table[F(e, "pic_parameter_set_id")] = e
    BY <1>1, <2>1 DEF PpsInto, Shape, HFields
  <2>3. rc' = 0
    BY <1>5, <1>6, <1>9, <1>10, <2>1
  <2> QED BY <1>1, <1>2, <2>2, <2>3 DEF Pps
<1>12. m = Cut(n) => rc' = -1
  <2> SUFFICES ASSUME m = Cut(n) PROVE rc' = -1
    OBVIOUS
  <2>1. m.bits = CutOff(bits)
    BY <1>2
  <2> QED BY <1>5, <1>6, <1>9, <1>10, <2>1
<1> QED BY <1>6, <1>7, <1>11, <1>12

\* What a NAL unit of an access unit delimiter is.
LEMMA AudNal ==
  ASSUME NEW n \in AudNals
  PROVE  \E e : /\ n = Unit(9, 0, e, Write(access_unit_delimiter(e), e))
                /\ Legal(access_unit_delimiter(e), e, NoFields)
BY Zenon DEF AudNals, Sent

\* An access unit delimiter is kept as it was sent.
LEMMA AudStored ==
  ASSUME Shape, NEW n \in AudNals, read_nal_unit(n)
  PROVE  h'.aud = n.e /\ rc' = 0
<1>1. PICK e : /\ n = Unit(9, 0, e, Write(access_unit_delimiter(e), e))
               /\ Legal(access_unit_delimiter(e), e, NoFields)
  BY AudNal
<1> DEFINE bits == WriteTrailing(Write(access_unit_delimiter(e), e))
<1>2. n.e = e /\ n.type = 9 /\ n.bits = bits
  BY <1>1 DEF Unit
<1>3. AudReader(bits).e = e /\ ~bs_overrun(bits, BehindTrailing(AudReader(bits).pos))
  BY <1>1, AudArrives
<1> HIDE DEF bits
<1>4. h' = AudInto(AudReader(bits).e, AudReader(bits).pos) /\ rc' = IF bs_overrun(bits, h'.end) THEN -1 ELSE 0
  BY <1>2, ReadNal
<1>5. h'.aud = e /\ h'.end = BehindTrailing(AudReader(bits).pos)
  BY <1>3, <1>4 DEF AudInto, Shape, HFields
<1> QED BY <1>2, <1>3, <1>4, <1>5

\* A message of user data alone makes read_nal_unit fail.
LEMMA SeiFails ==
  ASSUME Shape, NEW n \in SeiNals, read_nal_unit(n),
         F(n.e, "payloadType") = 5, <<"payloadType", Second>> \notin DOMAIN n.e
  PROVE  rc' = -1
<1>0. PICK e : \E m \in {1, 2} : /\ n = Unit(6, 0, e, Write(sei_rbsp("sent", e, m), e))
                                 /\ Legal(sei_rbsp("sent", e, m), e, NoFields)
  BY SeiNal
<1>1. PICK m \in {1, 2} : /\ n = Unit(6, 0, e, Write(sei_rbsp("sent", e, m), e))
                          /\ Legal(sei_rbsp("sent", e, m), e, NoFields)
  BY <1>0
<1>2. n.e = e /\ n.type = 6 /\ n.bits = WriteTrailing(Write(sei_rbsp("sent", e, m), e))
  BY <1>1 DEF Unit
<1>3. m = 1
  BY <1>1, <1>2, TwoMessages
<1> DEFINE bits == n.bits
<1>4. bs_overrun(bits, BehindTrailing(SeiReader(bits).pos))
  BY <1>1, <1>2, <1>3, SeiOverruns
<1> HIDE DEF bits
<1>5. h' = SeiInto(SeiFields(SeiReader(bits).e), SeiReader(bits).pos) /\ rc' = IF bs_overrun(bits, h'.end) THEN -1 ELSE 0
  BY <1>2, ReadNal DEF bits
<1>6. h'.end = BehindTrailing(SeiReader(bits).pos)
  BY <1>5 DEF SeiInto, Shape, HFields
<1> QED BY <1>4, <1>5, <1>6

\* What is in the unit that was read.
LEMMA CutSame ==
  ASSUME NEW n \in SpsNals \cup PpsNals
  PROVE  Cut(n).type = n.type /\ Cut(n).e = n.e /\ Cut(n).cut = TRUE
<1>1. \E e, bits, type, ref : n = Unit(type, ref, e, bits)
  <2>1. CASE n \in SpsNals
    BY <2>1, SpsNal
  <2>2. CASE n \in PpsNals
    BY <2>2, PpsNal
  <2> QED BY <2>1, <2>2
<1>2. PICK e, bits, type, ref : n = Unit(type, ref, e, bits)
  BY <1>1
<1> QED BY <1>2 DEF Unit, Cut

\* A step that reads a set, a delimiter or user data gets the result right.
LEMMA ResultTellsStep ==
  ASSUME Shape, Next
  PROVE  ResultTells'
<1>1. ASSUME nal'.type = 7, ~UnknownProfile(nal'.e) PROVE rc' = -1 <=> nal'.cut = TRUE
  <2>1. nal' # None
    BY <1>1 DEF None
  <2>2. CASE \E n \in AllNals : read_nal_unit(n) /\ nal' = n /\ Sends(n) /\ nal'.cut = FALSE
    <3>1. PICK n \in AllNals : read_nal_unit(n) /\ nal' = n /\ nal'.cut = FALSE
      BY <2>2
    <3>2. n \in SpsNals
      BY <1>1, <3>1, NalTypes DEF AllNals
    <3>3. rc' = 0
      BY <1>1, <3>1, <3>2, SpsStored
    <3> QED BY <3>1, <3>3
  <2>3. CASE \E n \in SpsNals \cup PpsNals : read_nal_unit(Cut(n)) /\ nal' = Cut(n) /\ nal'.cut = TRUE
    <3>1. PICK n \in SpsNals \cup PpsNals : read_nal_unit(Cut(n)) /\ nal' = Cut(n) /\ nal'.cut = TRUE
      BY <2>3
    <3>2. n.type = 7 /\ n.e = nal'.e
      BY <1>1, <3>1, CutSame
    <3>3. n \in SpsNals
      BY <3>2, NalTypes
    <3>4. rc' = -1
      BY <1>1, <3>1, <3>2, <3>3, SpsCut
    <3> QED BY <3>1, <3>4
  <2> QED BY <2>1, <2>2, <2>3, WhichNal
<1>2. ASSUME nal'.type = 8, ~WrongGuess(nal.e)', ~HasLists(nal'.e) PROVE rc' = -1 <=> nal'.cut = TRUE
  <2>1. nal' # None
    BY <1>2 DEF None
  <2>2. CASE \E n \in AllNals : read_nal_unit(n) /\ nal' = n /\ Sends(n) /\ nal'.cut = FALSE
    <3>1. PICK n \in AllNals : read_nal_unit(n) /\ nal' = n /\ nal'.cut = FALSE
      BY <2>2
    <3>2. n \in PpsNals
      BY <1>2, <3>1, NalTypes DEF AllNals
    <3>w. ~WrongGuess(n.e)'
      BY <1>2, <3>1 DEF WrongGuess
    <3>3. rc' = 0
      BY <1>2, <3>1, <3>2, <3>w, PpsStored
    <3> QED BY <3>1, <3>3
  <2>3. CASE \E n \in SpsNals \cup PpsNals : read_nal_unit(Cut(n)) /\ nal' = Cut(n) /\ nal'.cut = TRUE
    <3>1. PICK n \in SpsNals \cup PpsNals : read_nal_unit(Cut(n)) /\ nal' = Cut(n) /\ nal'.cut = TRUE
      BY <2>3
    <3>2. n.type = 8 /\ n.e = nal'.e
      BY <1>2, <3>1, CutSame
    <3>3. n \in PpsNals
      BY <3>2, NalTypes
    <3>w. ~WrongGuess(n.e)'
      BY <1>2, <3>2 DEF WrongGuess
    <3>4. rc' = -1
      BY <1>2, <3>1, <3>2, <3>3, <3>w, PpsStored
    <3> QED BY <3>1, <3>4
  <2> QED BY <2>1, <2>2, <2>3, WhichNal
<1>3. ASSUME nal'.type \in {6, 9}
      PROVE  \E n \in SeiNals \cup AudNals : read_nal_unit(n) /\ nal' = n /\ nal'.cut = FALSE
  <2>1. nal' # None
    BY <1>3 DEF None
  <2>2. CASE \E n \in SpsNals \cup PpsNals : read_nal_unit(Cut(n)) /\ nal' = Cut(n) /\ nal'.cut = TRUE
    <3>1. PICK n \in SpsNals \cup PpsNals : nal' = Cut(n)
      BY <2>2
    <3>2. nal'.type \in {7, 8}
      BY <3>1, CutSame, NalTypes
    <3> QED BY <1>3, <3>2
  <2>3. CASE \E n \in AllNals : read_nal_unit(n) /\ nal' = n /\ Sends(n) /\ nal'.cut = FALSE
    <3>1. PICK n \in AllNals : read_nal_unit(n) /\ nal' = n /\ nal'.cut = FALSE
      BY <2>3
    <3> QED BY <1>3, <3>1, NalTypes DEF AllNals
  <2> QED BY <2>1, <2>2, <2>3, WhichNal
<1>4. ASSUME nal'.type = 9 PROVE rc' = -1 <=> nal'.cut = TRUE
  <2>1. PICK n \in SeiNals \cup AudNals : read_nal_unit(n) /\ nal' = n /\ nal'.cut = FALSE
    BY <1>3, <1>4
  <2>2. n \in AudNals
    BY <1>4, <2>1, NalTypes
  <2> QED BY <2>1, <2>2, AudStored
<1>5. ASSUME nal'.type = 6, F(nal'.e, "payloadType") = 5, <<"payloadType", Second>> \notin DOMAIN nal'.e PROVE rc' = -1
  <2>1. PICK n \in SeiNals \cup AudNals : read_nal_unit(n) /\ nal' = n /\ nal'.cut = FALSE
    BY <1>3, <1>5
  <2>2. n \in SeiNals
    BY <1>5, <2>1, NalTypes
  <2> QED BY <1>5, <2>1, <2>2, SeiFails
<1>6. nal'.cut \in BOOLEAN
  <2>1. CASE nal' = None
    BY <2>1 DEF None
  <2>2. CASE nal' # None
    BY <2>2, WhichNal
  <2> QED BY <2>1, <2>2
<1> QED BY <1>1, <1>2, <1>4, <1>5, <1>6 DEF ResultTells, WrongGuess

\* read_nal_unit tells of a parameter set that lost its end, of a known profile or
\* guessed right, and only of such; of user data alone it always tells.
THEOREM ResultTellsAlways == Spec => []ResultTells
<1>1. Init => Shape /\ ResultTells
  BY ShapeInductive DEF Init, ResultTells, None
<1>2. (Shape /\ ResultTells) /\ [Next]_vars => (Shape /\ ResultTells)'
  <2> SUFFICES ASSUME Shape, ResultTells, [Next]_vars PROVE Shape' /\ ResultTells'
    OBVIOUS
  <2>1. Shape'
    BY ShapeInductive
  <2>2. CASE UNCHANGED vars
    BY <2>1, <2>2 DEF vars, ResultTells, WrongGuess, Sps
  <2>3. CASE Next
    BY <2>1, <2>3, ResultTellsStep
  <2> QED BY <2>2, <2>3
<1> QED BY <1>1, <1>2, PTL DEF Spec

-----------------------------------------------------------------------------
(* Slice headers *)

\* The fields behind frame_num.
Rest == {"field_pic_flag", "bottom_field_flag", "idr_pic_id", "pic_order_cnt_lsb",
         "delta_pic_order_cnt_bottom", "delta_pic_order_cnt_0", "delta_pic_order_cnt_1",
         "redundant_pic_cnt", "direct_spatial_mv_pred_flag", "num_ref_idx_active_override_flag",
         "num_ref_idx_l0_active_minus1", "num_ref_idx_l1_active_minus1",
         "ref_pic_list_modification_flag_l0", "ref_pic_list_modification_flag_l1",
         "modification_of_pic_nums_idc", "abs_diff_pic_num_minus1", "long_term_pic_num",
         "luma_log2_weight_denom", "chroma_log2_weight_denom", "luma_weight_flag", "luma_weight",
         "luma_offset", "chroma_weight_flag", "chroma_weight_0", "chroma_offset_0",
         "chroma_weight_1", "chroma_offset_1", "no_output_of_prior_pics_flag",
         "long_term_reference_flag", "adaptive_ref_pic_marking_mode_flag",
         "memory_management_control_operation", "difference_of_pic_nums_minus1",
         "long_term_frame_idx", "max_long_term_frame_idx_plus1", "cabac_init_idc",
         "slice_qp_delta", "sp_for_switch_flag", "slice_qs_delta", "disable_deblocking_filter_idc",
         "slice_alpha_c0_offset_div2", "slice_beta_offset_div2", "slice_group_change_cycle"}
R == Syntax(Rest)

\* No field behind frame_num is one of those before it.
LEMMA RestOk ==
  /\ Rest \cap Once = {} /\ "eof" \notin Rest /\ "more" \notin Rest
  /\ "first_mb_in_slice" \notin Rest /\ "slice_type" \notin Rest
  /\ "pic_parameter_set_id" \notin Rest /\ "frame_num" \notin Rest
BY DEF Rest, Once

\* Pieces of these fields are made of elements.
LEMMA RestTyped ==
  ASSUME NEW names \in Seq(Rest), NEW n \in Nat
  PROVE  u(n, names) \in R /\ ue(names) \in R /\ se(names) \in R
BY InSyntax DEF R

\* So are two of them.
LEMMA RestJoin ==
  ASSUME NEW a \in R, NEW b \in R
  PROVE  a \o b \in R
BY KnownCat DEF R, Syntax

\* So is an optional part.
LEMMA RestWhen ==
  ASSUME NEW c, NEW s \in R
  PROVE  When(c, s) \in R
BY WhenIn DEF R, Syntax

\* So is a flag with an optional part.
LEMMA RestOpt ==
  ASSUME NEW e, NEW flag \in Rest, NEW i, NEW s \in R
  PROVE  OptAt(e, flag, i, s) \in R /\ Opt(e, flag, s) \in R
<1>1. <<flag>> \in Seq(Rest) /\ 1 \in Nat
  OBVIOUS
<1>2. u(1, <<flag>>) \in R
  BY <1>1, RestTyped
<1>3. \A j : When(At(e, flag, j) # 0, s) \in R
  BY RestWhen
<1> QED BY <1>2, <1>3, RestJoin DEF OptAt, Opt

\* So is a loop whose turns are.
LEMMA RestLoop ==
  ASSUME NEW f, NEW n \in Int, f = [k \in 1 .. n |-> f[k]], \A k \in 1 .. n : f[k] \in R
  PROVE  Joined(f) \in R
<1>1. f \in Seq(R)
  <2>1. CASE n \in Nat
    BY <2>1
  <2>2. CASE n \notin Nat
    <3>1. 1 .. n = 1 .. 0
      BY <2>2
    <3>2. f = [k \in 1 .. 0 |-> f[k]]
      BY <3>1
    <3>3. f \in [1 .. 0 -> R]
      BY <3>2
    <3> QED BY <3>3
  <2> QED BY <2>1, <2>2
<1> QED BY <1>1, JoinedIn DEF R, Syntax

\* A turn with an index has the same names.
LEMMA RestIndexed ==
  ASSUME NEW t \in R, NEW i \in Nat
  PROVE  Indexed(t, i) \in R
<1>1. Rest \subseteq Rest /\ Rest \cap Once = {} /\ t \in Syntax(Rest)
  BY RestOk DEF R
<1> QED BY <1>1, IndexedIn DEF R

\* The names in the pieces of a slice header behind frame_num.
LEMMA RestNames ==
  /\ <<"bottom_field_flag">> \in Seq(Rest)
  /\ <<"idr_pic_id">> \in Seq(Rest)
  /\ <<"pic_order_cnt_lsb">> \in Seq(Rest)
  /\ <<"delta_pic_order_cnt_bottom">> \in Seq(Rest)
  /\ <<"delta_pic_order_cnt_0">> \in Seq(Rest)
  /\ <<"delta_pic_order_cnt_1">> \in Seq(Rest)
  /\ <<"redundant_pic_cnt">> \in Seq(Rest)
  /\ <<"direct_spatial_mv_pred_flag">> \in Seq(Rest)
  /\ <<"num_ref_idx_l0_active_minus1">> \in Seq(Rest)
  /\ <<"num_ref_idx_l1_active_minus1">> \in Seq(Rest)
  /\ <<"cabac_init_idc">> \in Seq(Rest)
  /\ <<"slice_qp_delta">> \in Seq(Rest)
  /\ <<"sp_for_switch_flag">> \in Seq(Rest)
  /\ <<"slice_qs_delta">> \in Seq(Rest)
  /\ <<"disable_deblocking_filter_idc">> \in Seq(Rest)
  /\ <<"slice_alpha_c0_offset_div2", "slice_beta_offset_div2">> \in Seq(Rest)
  /\ <<"slice_group_change_cycle">> \in Seq(Rest)
  /\ "field_pic_flag" \in Rest /\ "num_ref_idx_active_override_flag" \in Rest
BY DEF Rest

\* The names in the parts of it that have loops.
LEMMA RestNamesOfParts ==
  /\ <<"modification_of_pic_nums_idc">> \in Seq(Rest)
  /\ <<"abs_diff_pic_num_minus1">> \in Seq(Rest)
  /\ <<"long_term_pic_num">> \in Seq(Rest)
  /\ <<"luma_log2_weight_denom">> \in Seq(Rest)
  /\ <<"chroma_log2_weight_denom">> \in Seq(Rest)
  /\ <<"luma_weight", "luma_offset">> \in Seq(Rest)
  /\ <<"chroma_weight_0", "chroma_offset_0", "chroma_weight_1", "chroma_offset_1">> \in Seq(Rest)
  /\ <<"no_output_of_prior_pics_flag", "long_term_reference_flag">> \in Seq(Rest)
  /\ <<"memory_management_control_operation">> \in Seq(Rest)
  /\ <<"difference_of_pic_nums_minus1">> \in Seq(Rest)
  /\ <<"long_term_frame_idx">> \in Seq(Rest)
  /\ <<"max_long_term_frame_idx_plus1">> \in Seq(Rest)
  /\ "ref_pic_list_modification_flag_l0" \in Rest /\ "ref_pic_list_modification_flag_l1" \in Rest
  /\ "luma_weight_flag" \in Rest /\ "chroma_weight_flag" \in Rest
  /\ "adaptive_ref_pic_marking_mode_flag" \in Rest
BY DEF Rest

\* The turns of a do-while loop can be counted.
LEMMA CountOperations ==
  ASSUME NEW e, NEW name, NEW b \in Nat, NEW last
  PROVE  Operations(e, name, b, last) \in Int
<1> DEFINE X == {i \in b .. b + MaxElements - 1 : <<name, i>> \in DOMAIN e}
<1>1. IsFiniteSet(X)
  <2>1. b \in Int /\ b + MaxElements - 1 \in Int
    BY MaxElementsAssumption
  <2>2. IsFiniteSet(b .. b + MaxElements - 1)
    BY ONLY <2>1, FS_Interval
  <2>3. X \subseteq b .. b + MaxElements - 1
    OBVIOUS
  <2> QED BY <2>2, <2>3, FS_Subset
<1>2. Cardinality(X) \in Nat
  BY <1>1, FS_CardinalityType
<1> HIDE DEF X
<1>3. Operations(e, name, b, last) = LET m == Cardinality(X) IN
        IF m = 0 THEN 1 ELSE IF At(e, name, b + m - 1) = last \/ F(e, "eof") = 1 THEN m ELSE m + 1
  BY DEF Operations, X
<1> QED BY <1>2, <1>3

\* One turn of each loop.
ModTurn(e, i) ==
    (ue(<<"modification_of_pic_nums_idc">>)
     \o When(At(e, "modification_of_pic_nums_idc", i) \in {0, 1}, ue(<<"abs_diff_pic_num_minus1">>)))
    \o When(At(e, "modification_of_pic_nums_idc", i) = 2, ue(<<"long_term_pic_num">>))
MarkTurn(e, i) ==
    (((ue(<<"memory_management_control_operation">>)
       \o When(At(e, "memory_management_control_operation", i) \in {1, 3}, ue(<<"difference_of_pic_nums_minus1">>)))
      \o When(At(e, "memory_management_control_operation", i) = 2, ue(<<"long_term_pic_num">>)))
     \o When(At(e, "memory_management_control_operation", i) \in {3, 6}, ue(<<"long_term_frame_idx">>)))
    \o When(At(e, "memory_management_control_operation", i) = 4, ue(<<"max_long_term_frame_idx_plus1">>))
WeightTurn(e, chroma, i) ==
    OptAt(e, "luma_weight_flag", i, se(<<"luma_weight", "luma_offset">>))
    \o When(chroma, OptAt(e, "chroma_weight_flag", i,
                          se(<<"chroma_weight_0", "chroma_offset_0", "chroma_weight_1", "chroma_offset_1">>)))

\* A turn of each loop is made of elements.
LEMMA TurnsTyped ==
  ASSUME NEW e, NEW i, NEW chroma
  PROVE  ModTurn(e, i) \in R /\ MarkTurn(e, i) \in R /\ WeightTurn(e, chroma, i) \in R
<1>0. 1 \in Nat
  OBVIOUS
<1>1. /\ ue(<<"modification_of_pic_nums_idc">>) \in R /\ ue(<<"abs_diff_pic_num_minus1">>) \in R
      /\ ue(<<"long_term_pic_num">>) \in R /\ ue(<<"memory_management_control_operation">>) \in R
      /\ ue(<<"difference_of_pic_nums_minus1">>) \in R /\ ue(<<"long_term_frame_idx">>) \in R
      /\ ue(<<"max_long_term_frame_idx_plus1">>) \in R /\ se(<<"luma_weight", "luma_offset">>) \in R
      /\ se(<<"chroma_weight_0", "chroma_offset_0", "chroma_weight_1", "chroma_offset_1">>) \in R
  BY <1>0, RestNamesOfParts, RestTyped
<1>2. ModTurn(e, i) \in R
  BY <1>1, RestJoin, RestWhen DEF ModTurn
<1>3. MarkTurn(e, i) \in R
  BY <1>1, RestJoin, RestWhen DEF MarkTurn
<1>4. WeightTurn(e, chroma, i) \in R
  <2>1. /\ OptAt(e, "luma_weight_flag", i, se(<<"luma_weight", "luma_offset">>)) \in R
        /\ OptAt(e, "chroma_weight_flag", i,
                 se(<<"chroma_weight_0", "chroma_offset_0", "chroma_weight_1", "chroma_offset_1">>)) \in R
    BY <1>1, RestOpt, RestNamesOfParts
  <2> QED BY <2>1, RestJoin, RestWhen DEF WeightTurn
<1> QED BY <1>2, <1>3, <1>4

\* A loop whose turns consist of fields behind frame_num.
Turn(f, b, n) == [k \in 1 .. n |-> Indexed(f[b + k - 1], b + k - 1)]
\* So is a loop of such turns.
LEMMA TurnLoop ==
  ASSUME NEW f \in [Nat -> R], NEW b \in Nat, NEW n \in Int
  PROVE  Joined(Turn(f, b, n)) \in R
<1>1. \A k \in 1 .. n : Turn(f, b, n)[k] \in R
  <2> TAKE k \in 1 .. n
  <2>1. b + k - 1 \in Nat /\ f[b + k - 1] \in R
    OBVIOUS
  <2> QED BY <2>1, RestIndexed DEF Turn
<1>2. Turn(f, b, n) = [k \in 1 .. n |-> Turn(f, b, n)[k]]
  BY DEF Turn
<1> QED BY <1>1, <1>2, RestLoop

\* The loops of a slice header.
Modifications(e, b, n) ==
    Each(b, n, LAMBDA i : LET idc == At(e, "modification_of_pic_nums_idc", i)
                          IN  ue(<<"modification_of_pic_nums_idc">>)
                              \o When(idc \in {0, 1}, ue(<<"abs_diff_pic_num_minus1">>))
                              \o When(idc = 2, ue(<<"long_term_pic_num">>)))
Markings(e, n) ==
    Each(0, n, LAMBDA i : LET op == At(e, "memory_management_control_operation", i)
                          IN  ue(<<"memory_management_control_operation">>)
                              \o When(op \in {1, 3}, ue(<<"difference_of_pic_nums_minus1">>))
                              \o When(op = 2, ue(<<"long_term_pic_num">>))
                              \o When(op \in {3, 6}, ue(<<"long_term_frame_idx">>))
                              \o When(op = 4, ue(<<"max_long_term_frame_idx_plus1">>)))

\* So are the loops of a slice header.
LEMMA LoopsTyped ==
  ASSUME NEW e, NEW b \in Nat, NEW n \in Int, NEW chroma
  PROVE  Modifications(e, b, n) \in R /\ Markings(e, n) \in R /\ weights(e, chroma, b, n) \in R
<1> DEFINE mod == [i \in Nat |-> ModTurn(e, i)]
           mark == [i \in Nat |-> MarkTurn(e, i)]
           weight == [i \in Nat |-> WeightTurn(e, chroma, i)]
<1>1. mod \in [Nat -> R] /\ mark \in [Nat -> R] /\ weight \in [Nat -> R]
  BY TurnsTyped
<1>k. \A c \in Nat : \A k \in 1 .. n : c + k - 1 \in Nat
  OBVIOUS
<1>2. Modifications(e, b, n) = Joined(Turn(mod, b, n))
  <2>1. \A k \in 1 .. n : mod[b + k - 1] = ModTurn(e, b + k - 1)
    BY <1>k
  <2> HIDE DEF mod
  <2>2. Turn(mod, b, n) = [k \in 1 .. n |-> Indexed(ModTurn(e, b + k - 1), b + k - 1)]
    BY <2>1 DEF Turn
  <2>3. Modifications(e, b, n) = Joined([k \in 1 .. n |-> Indexed(ModTurn(e, b + k - 1), b + k - 1)])
    BY Zenon DEF Modifications, Each, ModTurn
  <2> QED BY <2>2, <2>3
<1>3. Markings(e, n) = Joined(Turn(mark, 0, n))
  <2>1. \A k \in 1 .. n : mark[0 + k - 1] = MarkTurn(e, 0 + k - 1)
    BY <1>k
  <2> HIDE DEF mark
  <2>2. Turn(mark, 0, n) = [k \in 1 .. n |-> Indexed(MarkTurn(e, 0 + k - 1), 0 + k - 1)]
    BY <2>1 DEF Turn
  <2>3. Markings(e, n) = Joined([k \in 1 .. n |-> Indexed(MarkTurn(e, 0 + k - 1), 0 + k - 1)])
    BY Zenon DEF Markings, Each, MarkTurn
  <2> QED BY <2>2, <2>3
<1>4. weights(e, chroma, b, n) = Joined(Turn(weight, b, n))
  <2>1. \A k \in 1 .. n : weight[b + k - 1] = WeightTurn(e, chroma, b + k - 1)
    BY <1>k
  <2> HIDE DEF weight
  <2>2. Turn(weight, b, n) = [k \in 1 .. n |-> Indexed(WeightTurn(e, chroma, b + k - 1), b + k - 1)]
    BY <2>1 DEF Turn
  <2>3. weights(e, chroma, b, n) = Joined([k \in 1 .. n |-> Indexed(WeightTurn(e, chroma, b + k - 1), b + k - 1)])
    BY Zenon DEF weights, Each, WeightTurn
  <2> QED BY <2>2, <2>3
<1>5. 0 \in Nat
  OBVIOUS
<1> HIDE DEF mod, mark, weight
<1> QED BY <1>1, <1>2, <1>3, <1>4, <1>5, TurnLoop

\* The parts of a slice header that have loops in them.
LEMMA PartsTyped ==
  ASSUME NEW side, NEW e, IntFields(e), NEW sps, NEW pps, IntFields(pps), NEW type
  PROVE  /\ ref_pic_list_modification(side, e) \in R
         /\ pred_weight_table(side, e, sps, pps) \in R
         /\ dec_ref_pic_marking(side, e, type) \in R
<1>0. 0 \in Nat /\ Second \in Nat /\ 1 \in Nat
  BY DEF Second
<1>e. <<>> \in R
  BY DEF R, Syntax
<1>1. \A flag \in Rest : \A b \in Nat : modification(e, flag, b) \in R
  <2> TAKE flag \in Rest
  <2> TAKE b \in Nat
  <2>1. Modifications(e, b, Operations(e, "modification_of_pic_nums_idc", b, 3)) \in R
    BY CountOperations, LoopsTyped
  <2>2. modification(e, flag, b) = Opt(e, flag, Modifications(e, b, Operations(e, "modification_of_pic_nums_idc", b, 3)))
    BY Zenon DEF modification, Modifications
  <2> QED BY <2>1, <2>2, RestOpt
<1>2. ref_pic_list_modification(side, e) \in R
  <2>1. /\ modification(e, "ref_pic_list_modification_flag_l0", 0) \in R
        /\ modification(e, "ref_pic_list_modification_flag_l1", Second) \in R
    BY <1>0, <1>1, RestNamesOfParts
  <2>2. /\ When(SliceType(e) \notin {I, SI}, modification(e, "ref_pic_list_modification_flag_l0", 0)) \in R
        /\ When(SliceType(e) = B, modification(e, "ref_pic_list_modification_flag_l1", Second)) \in R
    BY <2>1, RestWhen
  <2> QED BY <2>2, RestJoin, RestWhen DEF ref_pic_list_modification
<1>3. pred_weight_table(side, e, sps, pps) \in R
  <2> DEFINE chroma == HasChroma(side, sps)
             n0 == Refs(side, e, pps, "num_ref_idx_l0_active_minus1") + 1
             n1 == Refs(side, e, pps, "num_ref_idx_l1_active_minus1") + 1
  <2>1. n0 \in Int /\ n1 \in Int
    <3>1. \A name : F(e, name) \in Int /\ F(pps, name) \in Int
      BY AtInt DEF F
    <3>2. \A name : Refs(side, e, pps, name) \in Int
      BY <3>1 DEF Refs
    <3> QED BY <3>2
  <2>2. pred_weight_table(side, e, sps, pps) =
          ((ue(<<"luma_log2_weight_denom">>) \o When(chroma, ue(<<"chroma_log2_weight_denom">>)))
           \o weights(e, chroma, 0, n0)) \o When(SliceType(e) = B, weights(e, chroma, Second, n1))
    BY DEF pred_weight_table
  <2> HIDE DEF chroma, n0, n1
  <2>3. weights(e, chroma, 0, n0) \in R /\ weights(e, chroma, Second, n1) \in R
    BY <1>0, <2>1, LoopsTyped
  <2>4. ue(<<"luma_log2_weight_denom">>) \in R /\ ue(<<"chroma_log2_weight_denom">>) \in R
    BY <1>0, RestNamesOfParts, RestTyped
  <2> QED BY <2>2, <2>3, <2>4, RestJoin, RestWhen
<1>4. dec_ref_pic_marking(side, e, type) \in R
  <2> DEFINE n == Operations(e, "memory_management_control_operation", 0, 0)
  <2>1. Opt(e, "adaptive_ref_pic_marking_mode_flag", Markings(e, n)) \in R
    <3>1. Markings(e, n) \in R
      BY <1>0, CountOperations, LoopsTyped
    <3> QED BY <3>1, RestOpt, RestNamesOfParts
  <2>2. u(1, <<"no_output_of_prior_pics_flag", "long_term_reference_flag">>) \in R
    BY <1>0, RestNamesOfParts, RestTyped
  <2>3. dec_ref_pic_marking(side, e, type) =
          When(side # "written",
               IF type = 5 THEN u(1, <<"no_output_of_prior_pics_flag", "long_term_reference_flag">>)
               ELSE Opt(e, "adaptive_ref_pic_marking_mode_flag", Markings(e, n)))
    BY Zenon DEF dec_ref_pic_marking, Markings
  <2> HIDE DEF n
  <2> QED BY <2>1, <2>2, <2>3, RestWhen
<1> QED BY <1>2, <1>3, <1>4

\* The fields of a slice header.
HN == {"first_mb_in_slice", "slice_type", "pic_parameter_set_id", "frame_num"} \cup Rest
\* The names of the fields of a slice header.
LEMMA HeaderNames ==
  /\ "eof" \notin HN /\ "more" \notin HN /\ Rest \subseteq HN
  /\ <<"first_mb_in_slice", "slice_type", "pic_parameter_set_id">> \in Seq(HN) /\ <<"frame_num">> \in Seq(HN)
BY RestOk DEF HN

\* A header so far: frame_num is its fourth element, of this width.
HasFrameNum(a, n) ==
    /\ a \in Syntax(HN) /\ Len(a) \in Nat /\ Len(a) >= 4
    /\ a[1] = <<"ue", 0, "first_mb_in_slice", 0>> /\ a[2] = <<"ue", 0, "slice_type", 0>>
    /\ a[3] = <<"ue", 0, "pic_parameter_set_id", 0>> /\ a[4] = <<"u", n, "frame_num", 0>>
    /\ \A i \in 5 .. Len(a) : a[i][3] \in Rest

\* The elements of a sequence of three and one of one.
LEMMA CatAt ==
  ASSUME NEW A, NEW a \in Seq(A), NEW b \in Seq(A), Len(a) = 3, Len(b) = 1
  PROVE  /\ a \o b \in Seq(A) /\ Len(a \o b) = 4
         /\ (a \o b)[1] = a[1] /\ (a \o b)[2] = a[2] /\ (a \o b)[3] = a[3] /\ (a \o b)[4] = b[1]
<1>1. a \in Seq(A) /\ b \in Seq(A)
  OBVIOUS
<1>2. /\ a \o b \in Seq(A) /\ Len(a \o b) = Len(a) + Len(b)
      /\ \A i \in 1 .. Len(a) : (a \o b)[i] = a[i]
      /\ \A i \in 1 .. Len(b) : (a \o b)[Len(a) + i] = b[i]
  BY ONLY <1>1, Cat
<1>3. 1 \in 1 .. Len(a) /\ 2 \in 1 .. Len(a) /\ 3 \in 1 .. Len(a) /\ 1 \in 1 .. Len(b) /\ Len(a) + 1 = 4
  OBVIOUS
<1> QED BY <1>2, <1>3

\* A header up to frame_num.
LEMMA TailStart ==
  ASSUME NEW n \in Nat
  PROVE  HasFrameNum((ue(<<"first_mb_in_slice", "slice_type", "pic_parameter_set_id">>) \o <<>>) \o u(n, <<"frame_num">>), n)
<1> DEFINE a == ue(<<"first_mb_in_slice", "slice_type", "pic_parameter_set_id">>)
           b == u(n, <<"frame_num">>)
<1>1. a \in Syntax(HN) /\ b \in Syntax(HN)
  <2>1. HN \subseteq HN /\ <<"first_mb_in_slice", "slice_type", "pic_parameter_set_id">> \in Seq(HN) /\ <<"frame_num">> \in Seq(HN)
    BY HeaderNames
  <2> QED BY <2>1, InSyntax
<1>2. Len(a) = 3 /\ a[1] = <<"ue", 0, "first_mb_in_slice", 0>> /\ a[2] = <<"ue", 0, "slice_type", 0>>
      /\ a[3] = <<"ue", 0, "pic_parameter_set_id", 0>>
  BY DEF ue
<1>3. Len(b) = 1 /\ b[1] = <<"u", n, "frame_num", 0>>
  BY DEF u
<1> HIDE DEF a, b
<1>4. a \o <<>> = a
  BY <1>1 DEF Syntax
<1>5. /\ a \o b \in Syntax(HN) /\ Len(a \o b) = 4
      /\ (a \o b)[1] = a[1] /\ (a \o b)[2] = a[2] /\ (a \o b)[3] = a[3]
      /\ (a \o b)[4] = b[1]
  <2> DEFINE E == ElOf(HN)
  <2>1. a \in Seq(E) /\ b \in Seq(E)
    BY <1>1 DEF Syntax
  <2>l. Len(a) = 3 /\ Len(b) = 1
    BY <1>2, <1>3
  <2> HIDE DEF E
  <2> QED BY <2>1, <2>l, CatAt DEF E, Syntax
<1>6. HasFrameNum(a \o b, n)
  BY <1>2, <1>3, <1>5 DEF HasFrameNum
<1> QED BY <1>4, <1>6 DEF a, b

\* A header stays one with more fields behind frame_num.
LEMMA TailGrows ==
  ASSUME NEW a, NEW n, HasFrameNum(a, n), NEW c \in R
  PROVE  HasFrameNum(a \o c, n)
<1> DEFINE E == ElOf(HN)
<1>1. a \in Seq(E) /\ c \in Seq(E)
  <2>1. ElOf(Rest) \subseteq ElOf(HN)
    BY HeaderNames DEF ElOf
  <2>2. c \in Seq(ElOf(Rest)) /\ a \in Seq(E)
    BY DEF R, Syntax, HasFrameNum
  <2> QED BY <2>1, <2>2
<1>2. \A i \in 1 .. Len(c) : c[i][3] \in Rest
  <2> TAKE i \in 1 .. Len(c)
  <2>1. c[i] \in ElOf(Rest)
    BY DEF R, Syntax
  <2> QED BY <2>1 DEF ElOf
<1> DEFINE b == a \o c
<1> HIDE DEF E
<1>3. /\ b \in Seq(E) /\ Len(b) = Len(a) + Len(c) /\ Len(a) \in Nat /\ Len(c) \in Nat
      /\ \A i \in 1 .. Len(a) : b[i] = a[i]
      /\ \A i \in Len(a) + 1 .. Len(b) : b[i] = c[i - Len(a)]
  BY <1>1
<1> HIDE DEF b
<1>4. Len(b) >= 4 /\ Len(b) \in Nat /\ 1 \in 1 .. Len(a) /\ 2 \in 1 .. Len(a) /\ 3 \in 1 .. Len(a) /\ 4 \in 1 .. Len(a)
  BY <1>3 DEF HasFrameNum
<1>5. \A i \in 5 .. Len(b) : b[i][3] \in Rest
  <2> TAKE i \in 5 .. Len(b)
  <2>1. CASE i \in 5 .. Len(a)
    BY <1>3, <2>1 DEF HasFrameNum
  <2>2. CASE i > Len(a)
    <3>1. i \in Len(a) + 1 .. Len(b) /\ i - Len(a) \in 1 .. Len(c)
      BY <1>3, <2>2
    <3> QED BY <1>2, <1>3, <3>1
  <2> QED BY <1>3, <2>1, <2>2
<1>6. b \in Syntax(HN)
  BY <1>3 DEF E, Syntax
<1>7. HasFrameNum(b, n)
  BY <1>3, <1>4, <1>5, <1>6 DEF HasFrameNum
<1> QED BY <1>7 DEF b

\* The parameter sets a header is read or sent with, such that the header can be.
Uses(side, pps, sps) ==
    /\ side \in {"sent", "read"} /\ IntFields(pps) /\ IntFields(sps)
    /\ F(sps, "separate_colour_plane_flag") = 0
    /\ F(sps, "log2_max_frame_num_minus4") \in Nat /\ F(sps, "log2_max_pic_order_cnt_lsb_minus4") \in Nat
    /\ F(pps, "slice_group_change_rate_minus1") \in Nat

\* slice_group_change_cycle has a width.
LEMMA CycleWidth ==
  ASSUME NEW side, NEW sps, NEW pps, Uses(side, pps, sps)
  PROVE  CycleBits(side, sps, pps) \in Nat
<1> DEFINE rate == F(pps, "slice_group_change_rate_minus1") + 1
           units == (F(sps, "pic_width_in_mbs_minus1") + 1) * (F(sps, "pic_height_in_map_units_minus1") + 1)
<1>1. \A name : F(sps, name) \in Int /\ F(pps, name) \in Int
  BY AtInt DEF F, Uses
<1>2. rate \in Nat \ {0}
  BY DEF Uses
<1>3. units \in Int
  <2>1. F(sps, "pic_width_in_mbs_minus1") \in Int /\ F(sps, "pic_height_in_map_units_minus1") \in Int
    BY <1>1
  <2> QED BY <2>1
<1>4. CycleBits(side, sps, pps) = IF side = "sent" THEN intlog2((units + rate - 1) \div rate + 1)
                                  ELSE intlog2(F(pps, "pic_size_in_map_units_minus1") + rate)
  BY DEF CycleBits
<1> HIDE DEF rate, units
<1>5. (units + rate - 1) \div rate + 1 \in Int
  BY <1>2, <1>3
<1>6. F(pps, "pic_size_in_map_units_minus1") + rate \in Int
  BY <1>1, <1>2
<1> QED BY <1>4, <1>5, <1>6, Width

\* frame_num is the fourth element of a slice header without colour planes.
LEMMA HeaderTail ==
  ASSUME NEW side, NEW e, IntFields(e), NEW type, NEW ref, NEW sps_table, NEW pps_table, NEW pps, NEW sps,
         pps = pps_table[F(e, "pic_parameter_set_id")], sps = sps_table[F(pps, "seq_parameter_set_id")],
         Uses(side, pps, sps)
  PROVE  HasFrameNum(slice_header(side, e, type, ref, sps_table, pps_table), F(sps, "log2_max_frame_num_minus4") + 4)
<1> DEFINE t     == SliceType(e)
           order == F(pps, OrderFlag(side)) = 1 /\ F(e, "field_pic_flag") = 0
           n     == F(sps, "log2_max_frame_num_minus4") + 4
           a0 == (ue(<<"first_mb_in_slice", "slice_type", "pic_parameter_set_id">>) \o <<>>) \o u(n, <<"frame_num">>)
           c1 == When(F(sps, "frame_mbs_only_flag") = 0, Opt(e, "field_pic_flag", u(1, <<"bottom_field_flag">>)))
           c2 == When(type = 5, ue(<<"idr_pic_id">>))
           c3 == When(F(sps, "pic_order_cnt_type") = 0,
                   u(F(sps, "log2_max_pic_order_cnt_lsb_minus4") + 4, <<"pic_order_cnt_lsb">>)
                   \o When(order, se(<<"delta_pic_order_cnt_bottom">>)))
           c4 == When(F(sps, "pic_order_cnt_type") = 1 /\ F(sps, "delta_pic_order_always_zero_flag") = 0,
                   se(<<"delta_pic_order_cnt_0">>) \o When(order, se(<<"delta_pic_order_cnt_1">>)))
           c5 == When(F(pps, "redundant_pic_cnt_present_flag") = 1, ue(<<"redundant_pic_cnt">>))
           c6 == When(t = B, u(1, <<"direct_spatial_mv_pred_flag">>))
           c7 == When(t \in {P, SP, B},
                   Opt(e, "num_ref_idx_active_override_flag",
                       ue(<<"num_ref_idx_l0_active_minus1">>)
                       \o When(t = B, ue(<<"num_ref_idx_l1_active_minus1">>))))
           c8 == ref_pic_list_modification(side, e)
           c9 == When(\/ F(pps, "weighted_pred_flag") = 1 /\ t \in {P, SP}
                      \/ F(pps, "weighted_bipred_idc") = 1 /\ t = B,
                      pred_weight_table(side, e, sps, pps))
           c10 == When(ref # 0, dec_ref_pic_marking(side, e, type))
           c11 == When(F(pps, "entropy_coding_mode_flag") = 1 /\ t \notin {I, SI}, ue(<<"cabac_init_idc">>))
           c12 == se(<<"slice_qp_delta">>)
           c13 == When(t \in {SP, SI}, When(t = SP, u(1, <<"sp_for_switch_flag">>)) \o se(<<"slice_qs_delta">>))
           c14 == When(F(pps, "deblocking_filter_control_present_flag") = 1,
                    ue(<<"disable_deblocking_filter_idc">>)
                    \o When(F(e, "disable_deblocking_filter_idc") # 1,
                            se(<<"slice_alpha_c0_offset_div2", "slice_beta_offset_div2">>)))
           c15 == When(F(pps, "num_slice_groups_minus1") > 0 /\ F(pps, "slice_group_map_type") \in 3 .. 5,
                    u(CycleBits(side, sps, pps), <<"slice_group_change_cycle">>))
           body == a0 \o c1 \o c2 \o c3 \o c4 \o c5 \o c6 \o c7 \o c8 \o c9 \o c10 \o c11 \o c12 \o c13 \o c14 \o c15
<1>1. slice_header(side, e, type, ref, sps_table, pps_table) = body
  <2>1. ~(side # "written" /\ F(sps, "separate_colour_plane_flag") = 1)
    BY DEF Uses
  <2>2. When(side # "written" /\ F(sps, "separate_colour_plane_flag") = 1, u(2, <<"colour_plane_id">>)) = <<>>
    BY <2>1 DEF When
  <2> QED BY <2>2, Zenon DEF slice_header
<1>2. n \in Nat /\ F(sps, "log2_max_pic_order_cnt_lsb_minus4") + 4 \in Nat /\ CycleBits(side, sps, pps) \in Nat /\ 1 \in Nat
  BY CycleWidth DEF Uses
<1>3. c1 \in R
  BY <1>2, RestNames, RestTyped, RestOpt, RestWhen
<1>4. c2 \in R
  BY <1>2, RestNames, RestTyped, RestWhen
<1>5. c3 \in R
  <2>1. u(F(sps, "log2_max_pic_order_cnt_lsb_minus4") + 4, <<"pic_order_cnt_lsb">>) \in R
    BY <1>2, RestNames, RestTyped
  <2>2. se(<<"delta_pic_order_cnt_bottom">>) \in R
    BY <1>2, RestNames, RestTyped
  <2> QED BY <2>1, <2>2, RestJoin, RestWhen
<1>6. c4 \in R
  <2>1. se(<<"delta_pic_order_cnt_0">>) \in R /\ se(<<"delta_pic_order_cnt_1">>) \in R
    BY <1>2, RestNames, RestTyped
  <2> QED BY <2>1, RestJoin, RestWhen
<1>7. c5 \in R
  BY <1>2, RestNames, RestTyped, RestWhen
<1>8. c6 \in R
  BY <1>2, RestNames, RestTyped, RestWhen
<1>9. c7 \in R
  <2>1. ue(<<"num_ref_idx_l0_active_minus1">>) \in R /\ ue(<<"num_ref_idx_l1_active_minus1">>) \in R
    BY <1>2, RestNames, RestTyped
  <2>2. ue(<<"num_ref_idx_l0_active_minus1">>) \o When(t = B, ue(<<"num_ref_idx_l1_active_minus1">>)) \in R
    BY <2>1, RestJoin, RestWhen
  <2> QED BY <2>2, RestNames, RestOpt, RestWhen
<1>10. c8 \in R /\ c9 \in R /\ c10 \in R
  <2>1. ref_pic_list_modification(side, e) \in R /\ pred_weight_table(side, e, sps, pps) \in R
        /\ dec_ref_pic_marking(side, e, type) \in R
    BY PartsTyped DEF Uses
  <2> QED BY <2>1, RestWhen
<1>11. c11 \in R
  BY <1>2, RestNames, RestTyped, RestWhen
<1>12. c12 \in R
  BY <1>2, RestNames, RestTyped
<1>13. c13 \in R
  <2>1. u(1, <<"sp_for_switch_flag">>) \in R /\ se(<<"slice_qs_delta">>) \in R
    BY <1>2, RestNames, RestTyped
  <2> QED BY <2>1, RestJoin, RestWhen
<1>14. c14 \in R
  <2>1. ue(<<"disable_deblocking_filter_idc">>) \in R /\ se(<<"slice_alpha_c0_offset_div2", "slice_beta_offset_div2">>) \in R
    BY <1>2, RestNames, RestTyped
  <2> QED BY <2>1, RestJoin, RestWhen
<1>15. c15 \in R
  BY <1>2, RestNames, RestTyped, RestWhen
<1>16. HasFrameNum(a0, n)
  BY <1>2, TailStart
<1>b. body = a0 \o c1 \o c2 \o c3 \o c4 \o c5 \o c6 \o c7 \o c8 \o c9 \o c10 \o c11 \o c12 \o c13 \o c14 \o c15
  OBVIOUS
<1> HIDE DEF a0, c1, c2, c3, c4, c5, c6, c7, c8, c9, c10, c11, c12, c13, c14, c15, n
<1>17. HasFrameNum(a0 \o c1 \o c2 \o c3 \o c4, n)
  BY <1>3, <1>4, <1>5, <1>6, <1>16, TailGrows
<1>18. HasFrameNum(a0 \o c1 \o c2 \o c3 \o c4 \o c5 \o c6 \o c7 \o c8, n)
  BY <1>7, <1>8, <1>9, <1>10, <1>17, TailGrows
<1>19. HasFrameNum(a0 \o c1 \o c2 \o c3 \o c4 \o c5 \o c6 \o c7 \o c8 \o c9 \o c10 \o c11 \o c12, n)
  BY <1>10, <1>11, <1>12, <1>18, TailGrows
<1>20. HasFrameNum(body, n)
  BY <1>13, <1>14, <1>15, <1>19, TailGrows
<1> QED BY <1>1, <1>20 DEF n

-----------------------------------------------------------------------------
(* The encoder *)

\* Fields that an encoder may send.
Plain(e) == IntFields(e) /\ \A name : name \notin Signed => F(e, name) \in Nat
\* What an encoder may send are numbers, not negative unless signed.
LEMMA LegalPlain ==
  ASSUME NEW x, NEW e, NEW known, Legal(x, e, known)
  PROVE  Plain(e)
<1>1. IntFields(e)
  BY DEF Legal, IntFields
<1>2. ASSUME NEW name, name \notin Signed PROVE F(e, name) \in Nat
  <2>1. <<name, 0>> \in DOMAIN e => e[<<name, 0>>] \in Int /\ ~(e[<<name, 0>>] < 0)
    BY <1>2 DEF Legal
  <2> QED BY <2>1 DEF F, At
<1> QED BY <1>1, <1>2 DEF Plain

\* So is an entry of a table that was never filled.
LEMMA NothingPlain == Plain(NoFields) /\ \A name : F(NoFields, name) = 0
BY DEF Plain, IntFields, NoFields, F, At

\* What the encoder has sent last is a table of fields that it may send.
TableOk(table, ids) == table = [i \in ids |-> table[i]] /\ \A i \in ids : Plain(table[i])
EncoderOk ==
    /\ encoder = [sps_table |-> encoder.sps_table, pps_table |-> encoder.pps_table]
    /\ TableOk(encoder.sps_table, SpsIds) /\ TableOk(encoder.pps_table, PpsIds)

\* Putting such a set into a table of them.
LEMMA TablePut ==
  ASSUME NEW table, NEW ids, TableOk(table, ids), NEW i, NEW e, Plain(e)
  PROVE  TableOk([table EXCEPT ![i] = e], ids)
BY DEF TableOk

\* Sending a unit keeps the tables of the encoder, a slice keeps them as they are.
LEMMA EncoderSends ==
  ASSUME EncoderOk, NEW n \in AllNals, Sends(n)
  PROVE  EncoderOk' /\ (n \in SliceNals => encoder' = encoder)
<1>1. n.type \in {7, 8} => Plain(n.e)
  <2>1. CASE n \in SpsNals
    <3>1. PICK e : n = Unit(7, 1, e, Write(SpsSyntax(e), e)) /\ Legal(SpsSyntax(e), e, NoFields)
      BY <2>1, SpsNal
    <3>2. n.e = e
      BY <3>1 DEF Unit
    <3> QED BY <3>1, <3>2, LegalPlain
  <2>2. CASE n \in PpsNals
    <3>1. PICK e, present : n = Unit(8, 1, e, Write(PpsSyntax(e), e)) /\ Legal(PpsSyntax(e), e, More(present))
      BY <2>2, PpsNal
    <3>2. n.e = e
      BY <3>1 DEF Unit
    <3> QED BY <3>1, <3>2, LegalPlain
  <2>3. CASE n \in SeiNals \cup AudNals \cup SliceNals
    BY <2>3, NalTypes
  <2> QED BY <2>1, <2>2, <2>3 DEF AllNals
<1> DEFINE sps == IF n.type = 7 THEN [encoder.sps_table EXCEPT ![F(n.e, "seq_parameter_set_id")] = n.e] ELSE encoder.sps_table
           pps == IF n.type = 8 THEN [encoder.pps_table EXCEPT ![F(n.e, "pic_parameter_set_id")] = n.e] ELSE encoder.pps_table
<1>2. encoder' = [sps_table |-> sps, pps_table |-> pps]
  <2>1. encoder' = [encoder EXCEPT !.sps_table = sps, !.pps_table = pps]
    BY DEF Sends
  <2>2. DOMAIN encoder = {"sps_table", "pps_table"}
    BY DEF EncoderOk
  <2> HIDE DEF sps, pps
  <2> QED BY <2>1, <2>2
<1>3. TableOk(sps, SpsIds) /\ TableOk(pps, PpsIds)
  BY <1>1, TablePut DEF EncoderOk
<1>4. n \in SliceNals => sps = encoder.sps_table /\ pps = encoder.pps_table
  BY NalTypes
<1> HIDE DEF sps, pps
<1>5. EncoderOk'
  BY <1>2, <1>3 DEF EncoderOk
<1>6. n \in SliceNals => encoder' = encoder
  BY <1>2, <1>4 DEF EncoderOk
<1> QED BY <1>5, <1>6

\* The tables of the encoder are an inductive invariant.
LEMMA EncoderInductive ==
  /\ Init => EncoderOk
  /\ EncoderOk /\ [Next]_vars => EncoderOk'
<1>1. Init => EncoderOk
  <2> SUFFICES ASSUME Init PROVE EncoderOk
    OBVIOUS
  <2>1. encoder = [sps_table |-> [i \in SpsIds |-> NoFields], pps_table |-> [i \in PpsIds |-> NoFields]]
    BY DEF Init
  <2>2. \A ids : TableOk([i \in ids |-> NoFields], ids)
    BY NothingPlain DEF TableOk
  <2> QED BY <2>1, <2>2 DEF EncoderOk
<1>2. ASSUME EncoderOk, [Next]_vars PROVE EncoderOk'
  <2>1. CASE UNCHANGED vars
    BY <1>2, <2>1 DEF EncoderOk, vars
  <2>2. CASE NewStream
    BY <1>2, <2>2 DEF EncoderOk, NewStream
  <2>3. ASSUME NEW n \in AllNals, Sends(n) PROVE EncoderOk'
    BY <1>2, <2>3, EncoderSends
  <2> QED BY <1>2, <2>1, <2>2, <2>3 DEF Next, AllNals, Arrives, IsCut, IsLost
<1> QED BY <1>1, <1>2

-----------------------------------------------------------------------------
(* Fields that stay *)

\* These fields are in d as they are in d0.
Keeps(d, d0, X) == \A k \in X : (k \in DOMAIN d <=> k \in DOMAIN d0) /\ (k \in DOMAIN d0 => d[k] = d0[k])
\* No element behind the first m is one of them.
Leaves(N, E, d0, X, m) ==
    X \cap Stream = {} /\ \A d \in FieldsOf(N) : Keeps(d, d0, X) => \A k \in m + 1 .. Len(E[d]) : Key(E[d][k]) \notin X

\* A step of the reader keeps the fields it does not read.
LEMMA OneStepKeeps ==
  ASSUME NEW N, NEW bits \in Words, NEW t \in States(N), NEW es \in Syntax(N), NEW k \in Nat \ {0},
         NEW X, X \cap Stream = {}, k <= Len(es) => Key(es[k]) \notin X
  PROVE  Keeps(Advance(bits, es, t, k).e, t.e, X)
<1>1. CASE t.done \/ k > Len(es)
  <2>1. Advance(bits, es, t, k).e = t.e
    BY <1>1 DEF Advance, States
  <2> QED BY <2>1 DEF Keeps
<1>2. CASE ~t.done /\ ~(k > Len(es))
  <2> DEFINE el == es[k]
             r == Onto(bits, el, t)
  <2>1. Advance(bits, es, t, k) = r
    BY <1>2 DEF Advance
  <2>2. k <= Len(es) /\ k \in 1 .. Len(es)
    <3>1. Len(es) \in Nat
      BY DEF Syntax
    <3> QED BY <1>2, <3>1
  <2>3. el \in ElOf(N)
    BY <2>2 DEF Syntax
  <2>4. Key(el) \notin X
    BY <2>2
  <2> HIDE DEF el
  <2>5. /\ DOMAIN r.e = DOMAIN t.e \cup {Key(el), <<"eof", 0>>, <<"more", 0>>}
        /\ \A y \in DOMAIN r.e : y # <<"eof", 0>> /\ y # <<"more", 0>> =>
              r.e[y] = IF y = Key(el) THEN ReadCode(el[1], el[2], bits, t.pos) ELSE t.e[y]
    BY <2>3, Onwards
  <2> HIDE DEF r
  <2>6. Keeps(r.e, t.e, X)
    <3> SUFFICES ASSUME NEW y \in X PROVE (y \in DOMAIN r.e <=> y \in DOMAIN t.e) /\ (y \in DOMAIN t.e => r.e[y] = t.e[y])
      BY DEF Keeps
    <3>1. y # <<"eof", 0>> /\ y # <<"more", 0>> /\ y # Key(el)
      BY <2>4 DEF Stream
    <3> QED BY <2>5, <3>1
  <2> QED BY <2>1, <2>6
<1> QED BY <1>1, <1>2

\* A field that none of the elements to come reads is kept to the end.
LEMMA WalkKeeps ==
  ASSUME NEW N, NEW E, NEW bits, NEW known, NEW M, NEW s, Walking(N, E, bits, known, M, s),
         NEW X, NEW m \in 0 .. M, Leaves(N, E, s[m].e, X, m)
  PROVE  \A k \in m .. M : Keeps(s[k].e, s[m].e, X)
<1>walking. /\ E \in [FieldsOf(N) -> Syntax(N)] /\ bits \in Words /\ M \in Nat
            /\ s \in [0 .. M -> States(N)]
            /\ \A k \in 1 .. M : s[k] = Advance(bits, E[s[k - 1].e], s[k - 1], k)
  BY DEF Walking
<1> USE <1>walking
<1> DEFINE T == {k \in Nat : k + m <= M => Keeps(s[k + m].e, s[m].e, X)}
<1>1. 0 \in T
  <2>1. s[0 + m] = s[m]
    OBVIOUS
  <2> QED BY <2>1 DEF Keeps
<1>2. ASSUME NEW k \in Nat, k \in T PROVE k + 1 \in T
  <2>0. SUFFICES ASSUME k + 1 + m <= M PROVE Keeps(s[k + 1 + m].e, s[m].e, X)
    OBVIOUS
  <2>1. k + 1 + m \in 1 .. M /\ (k + 1 + m) - 1 = k + m /\ k + m \in 0 .. M /\ k + 1 + m \in Nat \ {0} /\ k + 1 + m >= m + 1
    BY <2>0
  <2> DEFINE t == s[k + m]
             n == k + 1 + m
             es == E[t.e]
  <2>2. t \in States(N) /\ t.e \in FieldsOf(N)
    BY <2>1 DEF States
  <2>3. s[n] = Advance(bits, es, t, n) /\ es \in Syntax(N) /\ n \in Nat \ {0}
    BY <2>1, <2>2
  <2>4. Keeps(t.e, s[m].e, X)
    BY <1>2, <2>0
  <2>5. n <= Len(es) => Key(es[n]) \notin X
    <3>1. \A j \in m + 1 .. Len(es) : Key(es[j]) \notin X
      BY <2>2, <2>4 DEF Leaves
    <3>2. Len(es) \in Nat
      BY <2>3 DEF Syntax
    <3>3. n <= Len(es) => n \in m + 1 .. Len(es)
      BY <2>1, <3>2
    <3> QED BY <3>1, <3>3
  <2>6. X \cap Stream = {}
    BY DEF Leaves
  <2> HIDE DEF t, n, es
  <2>7. Keeps(s[n].e, t.e, X)
    BY <2>2, <2>3, <2>5, <2>6, OneStepKeeps
  <2>8. Keeps(s[n].e, s[m].e, X)
    BY <2>4, <2>7 DEF Keeps
  <2> QED BY <2>8 DEF n
<1> HIDE DEF T
<1>3. Nat \subseteq T
  BY <1>1, <1>2, Induction
<1>4. ASSUME NEW k \in m .. M PROVE Keeps(s[k].e, s[m].e, X)
  <2>1. k - m \in T /\ (k - m) + m = k /\ (k - m) + m <= M
    BY <1>3
  <2> QED BY <2>1 DEF T
<1> QED BY <1>4

-----------------------------------------------------------------------------
(* Slices *)

SliceSyntax(t, e) == slice_header("sent", e, t.type, t.ref, encoder.sps_table, encoder.pps_table)
\* Slice data are bits, as long as the header says where they begin.
LEMMA SliceDataBits ==
  ASSUME NEW cabac, NEW header, NEW bytes \in Nat, Len(header) \in Nat
  PROVE  SliceData(cabac, header, bytes) \in Seq(Bit)
<1> DEFINE a == IF cabac THEN [i \in 1 .. (8 - (Len(header) % 8)) % 8 |-> 1] ELSE <<>>
           b == [i \in 1 .. 8 * bytes |-> i % 2]
<1>1. a \in Seq(Bit)
  <2>1. (8 - (Len(header) % 8)) % 8 \in Nat
    OBVIOUS
  <2>2. [i \in 1 .. (8 - (Len(header) % 8)) % 8 |-> 1] \in Seq(Bit)
    BY <2>1 DEF Bit
  <2>3. <<>> \in Seq(Bit)
    OBVIOUS
  <2> QED BY <2>2, <2>3
<1>2. b \in Seq(Bit)
  <2>1. 8 * bytes \in Nat /\ \A i \in 1 .. 8 * bytes : i % 2 \in Bit
    BY DEF Bit
  <2> QED BY <2>1
<1>3. SliceData(cabac, header, bytes) = a \o b
  BY DEF SliceData
<1> HIDE DEF a, b
<1> QED BY <1>1, <1>2, <1>3

\* What a NAL unit of a slice is.
LEMMA SliceWasSent ==
  ASSUME NEW n \in SliceNals
  PROVE  \E t : \E e : \E data :
            /\ n.e = e /\ n.type = t.type /\ n.ref = t.ref
            /\ (Len(Write(SliceSyntax(t, e), e)) \in Nat => data \in Seq(Bit))
            /\ n.bits = WriteTrailing(Write(SliceSyntax(t, e), e) \o data)
            /\ Legal(SliceSyntax(t, e), e, NoFields)
            /\ F(e, "pic_parameter_set_id") \in PpsIds /\ F(PpsOf(encoder, e), "seq_parameter_set_id") \in SpsIds
<1>1. PICK t \in SliceTold : n = SliceNal(t)
  BY DEF SliceNals
<1>2. PICK e : \E cabac : n = Unit(t.type, t.ref, e, Write(SliceSyntax(t, e), e)
                                   \o SliceData(cabac, Write(SliceSyntax(t, e), e), t.bytes))
  BY <1>1, Zenon DEF SliceNal, SliceSyntax
<1>3. PICK cabac : n = Unit(t.type, t.ref, e, Write(SliceSyntax(t, e), e)
                            \o SliceData(cabac, Write(SliceSyntax(t, e), e), t.bytes))
  BY <1>2
<1> DEFINE data == SliceData(cabac, Write(SliceSyntax(t, e), e), t.bytes)
<1>4. n.e = e /\ n.type = t.type /\ n.ref = t.ref /\ n.bits = WriteTrailing(Write(SliceSyntax(t, e), e) \o data)
  BY <1>3 DEF Unit
<1>5. Len(Write(SliceSyntax(t, e), e)) \in Nat => data \in Seq(Bit)
  BY SliceTypesAssumption, SliceDataBits
<1>6. /\ F(n.e, "pic_parameter_set_id") \in PpsIds /\ F(PpsOf(encoder, n.e), "seq_parameter_set_id") \in SpsIds
      /\ Legal(slice_header("sent", n.e, n.type, n.ref, encoder.sps_table, encoder.pps_table), n.e, NoFields)
  BY DEF SliceNals
<1>7. Legal(SliceSyntax(t, e), e, NoFields)
  BY <1>4, <1>6 DEF SliceSyntax
<1> HIDE DEF data
<1> QED BY <1>1, <1>4, <1>5, <1>6, <1>7

\* With a new h264_stream_t no field of a parameter set is known.
Fresh == h.sps_table = h264_new.sps_table /\ h.pps_table = h264_new.pps_table
SliceRead(type, ref, d) == slice_header("read", d, type, ref, h.sps_table, h.pps_table)
OfSliceRead(type, ref) ==
    [d \in FieldsOf(HN) |-> IF F(d, "pic_parameter_set_id") \in PpsIds THEN SliceRead(type, ref, d) ELSE <<>>]

\* With empty tables the reader asks for four bits of frame_num as the fourth element.
LEMMA FreshTail ==
  ASSUME Fresh, NEW type, NEW ref, NEW d \in FieldsOf(HN), F(d, "pic_parameter_set_id") \in PpsIds
  PROVE  HasFrameNum(SliceRead(type, ref, d), 4)
<1> DEFINE pps == h.pps_table[F(d, "pic_parameter_set_id")]
           sps == h.sps_table[F(pps, "seq_parameter_set_id")]
<1>1. pps = NoFields /\ sps = NoFields
  <2>1. pps = NoFields
    BY DEF Fresh, h264_new
  <2>2. F(pps, "seq_parameter_set_id") = 0
    BY <2>1, NothingPlain
  <2>3. sps = NoFields
    BY <2>2, IdsAssumption DEF Fresh, h264_new
  <2> QED BY <2>1, <2>3
<1>p. pps = h.pps_table[F(d, "pic_parameter_set_id")] /\ sps = h.sps_table[F(pps, "seq_parameter_set_id")]
  OBVIOUS
<1> HIDE DEF pps, sps
<1>2. Uses("read", pps, sps)
  BY <1>1, NothingPlain DEF Uses, Plain
<1>3. IntFields(d)
  BY InFields DEF IntFields
<1>4. HasFrameNum(slice_header("read", d, type, ref, h.sps_table, h.pps_table), F(sps, "log2_max_frame_num_minus4") + 4)
  BY <1>2, <1>3, <1>p, HeaderTail
<1>5. F(sps, "log2_max_frame_num_minus4") + 4 = 4
  BY <1>1, NothingPlain
<1> QED BY <1>4, <1>5 DEF SliceRead

\* The reader of slice headers always asks for elements.
LEMMA SliceReadTyped ==
  ASSUME Fresh, NEW type, NEW ref
  PROVE  OfSliceRead(type, ref) \in [FieldsOf(HN) -> Syntax(HN)]
<1>1. ASSUME NEW d \in FieldsOf(HN)
      PROVE  (IF F(d, "pic_parameter_set_id") \in PpsIds THEN SliceRead(type, ref, d) ELSE <<>>) \in Syntax(HN)
  <2>1. <<>> \in Syntax(HN)
    BY DEF Syntax
  <2>2. F(d, "pic_parameter_set_id") \in PpsIds => SliceRead(type, ref, d) \in Syntax(HN)
    BY FreshTail DEF HasFrameNum
  <2> QED BY <2>1, <2>2
<1> QED BY <1>1 DEF OfSliceRead

\* The reader walks through the header, as long as the number of the picture
\* parameter set is one of its table.
LEMMA SliceWalk ==
  ASSUME NEW type, NEW ref, NEW bits, NEW s, Walking(HN, OfSliceRead(type, ref), bits, NoFields, MaxElements, s),
         \A k \in 0 .. MaxElements : F(s[k].e, "pic_parameter_set_id") \in PpsIds
  PROVE  SliceReader(bits, type, ref) = [e |-> Fields(s[MaxElements].e), pos |-> s[MaxElements].pos]
<1> DEFINE R0(r, k) == IF k = 0 THEN [e |-> NoFields, pos |-> 0, done |-> FALSE]
             ELSE LET t == r[k - 1]
                  IN  IF t.done THEN t
                      ELSE LET es == slice_header("read", t.e, type, ref, h.sps_table, h.pps_table)
                           IN  IF k > Len(es) THEN [t EXCEPT !.done = TRUE]
                               ELSE LET el  == es[k]
                                        pos == Behind(el[1], el[2], bits, t.pos)
                                        new == Only(Key(el), ReadCode(el[1], el[2], bits, t.pos))
                                    IN  [t EXCEPT !.e = Before(State(bits, pos), Before(new, @)), !.pos = pos]
           g == CHOOSE r : r = [k \in 0 .. MaxElements |-> R0(r, k)]
<1>1. SliceReader(bits, type, ref) = [e |-> Fields(g[MaxElements].e), pos |-> g[MaxElements].pos]
  BY Zenon DEF SliceReader, Read, Walk
<1>2. ASSUME NEW t \in States(HN), F(t.e, "pic_parameter_set_id") \in PpsIds, NEW k \in Nat \ {0}, NEW r, r[k - 1] = t
      PROVE  R0(r, k) = Advance(bits, OfSliceRead(type, ref)[t.e], t, k)
  <2>1. k # 0
    OBVIOUS
  <2>2. OfSliceRead(type, ref)[t.e] = slice_header("read", t.e, type, ref, h.sps_table, h.pps_table)
    BY <1>2 DEF States, OfSliceRead, SliceRead
  <2> QED BY <1>2, <2>1, <2>2, Zenon DEF Advance, Onto
<1>3. \E r : r = [k \in 0 .. MaxElements |-> R0(r, k)]
  <2>1. s = [k \in 0 .. MaxElements |-> s[k]]
    BY DEF Walking
  <2>2. ASSUME NEW k \in 0 .. MaxElements PROVE s[k] = R0(s, k)
    <3>1. CASE k = 0
      <4>1. s[0] = From(NoFields)
        BY DEF Walking
      <4> QED BY <3>1, <4>1, Zenon DEF From
    <3>2. CASE k # 0
      <4>1. k \in 1 .. MaxElements /\ k \in Nat \ {0} /\ k - 1 \in 0 .. MaxElements
        BY <3>2 DEF Walking
      <4>2. s[k - 1] \in States(HN) /\ s[k] = Advance(bits, OfSliceRead(type, ref)[s[k - 1].e], s[k - 1], k)
        BY <4>1 DEF Walking
      <4>3. F(s[k - 1].e, "pic_parameter_set_id") \in PpsIds
        BY <4>1
      <4> QED BY <1>2, <4>1, <4>2, <4>3, Zenon
    <3> QED BY <3>1, <3>2
  <2> HIDE DEF R0
  <2>3. s = [k \in 0 .. MaxElements |-> R0(s, k)]
    BY <2>1, <2>2
  <2> QED BY <2>3
<1>4. g = [k \in 0 .. MaxElements |-> R0(g, k)]
  <2> HIDE DEF R0
  <2> QED BY <1>3, Zenon
<1> HIDE DEF g
<1>5. MaxElements \in Nat /\ s[0] = From(NoFields)
  BY DEF Walking
<1>6. g[0] = From(NoFields)
  <2>1. g[0] = R0(g, 0)
    <3> HIDE DEF R0
    <3>1. 0 \in 0 .. MaxElements
      BY <1>5
    <3> QED BY <1>4, <3>1
  <2> QED BY <2>1 DEF From
<1>7. ASSUME NEW k \in 1 .. MaxElements, g[k - 1] = s[k - 1]
      PROVE  g[k] = Advance(bits, OfSliceRead(type, ref)[g[k - 1].e], g[k - 1], k)
  <2>1. k \in 0 .. MaxElements /\ k \in Nat \ {0} /\ k - 1 \in 0 .. MaxElements
    BY <1>5
  <2>2. g[k] = R0(g, k)
    <3> HIDE DEF R0
    <3> QED BY <1>4, <2>1
  <2>3. g[k - 1] \in States(HN) /\ F(g[k - 1].e, "pic_parameter_set_id") \in PpsIds
    BY <1>7, <2>1 DEF Walking
  <2> HIDE DEF R0
  <2> QED BY <1>2, <2>1, <2>2, <2>3
<1>8. g[MaxElements] = s[MaxElements]
  BY <1>5, <1>6, <1>7, SameWalk
<1> QED BY <1>1, <1>8

PpsKey == <<"pic_parameter_set_id", 0>>
NumKey == <<"frame_num", 0>>

\* A slice that is sent has its header as it should be.
LEMMA SentHeader ==
  ASSUME EncoderOk, NEW t, NEW e, Legal(SliceSyntax(t, e), e, NoFields),
         F(e, "pic_parameter_set_id") \in PpsIds, F(PpsOf(encoder, e), "seq_parameter_set_id") \in SpsIds,
         F(SpsOf(encoder, e), "separate_colour_plane_flag") = 0
  PROVE  /\ F(SpsOf(encoder, e), "log2_max_frame_num_minus4") \in Nat
         /\ HasFrameNum(SliceSyntax(t, e), F(SpsOf(encoder, e), "log2_max_frame_num_minus4") + 4)
         /\ Sound(HN, SliceSyntax(t, e), e, NoFields)
<1> DEFINE pps == encoder.pps_table[F(e, "pic_parameter_set_id")]
           sps == encoder.sps_table[F(pps, "seq_parameter_set_id")]
           x == SliceSyntax(t, e)
<1>1. PpsOf(encoder, e) = pps /\ SpsOf(encoder, e) = sps
  BY DEF PpsOf, SpsOf
<1>2. Plain(pps) /\ Plain(sps)
  BY <1>1 DEF EncoderOk, TableOk
<1>3. Uses("sent", pps, sps)
  <2>1. /\ "log2_max_frame_num_minus4" \notin Signed /\ "log2_max_pic_order_cnt_lsb_minus4" \notin Signed
        /\ "slice_group_change_rate_minus1" \notin Signed
    BY DEF Signed
  <2> HIDE DEF pps, sps
  <2> QED BY <1>1, <1>2, <2>1 DEF Uses, Plain
<1>p. pps = encoder.pps_table[F(e, "pic_parameter_set_id")] /\ sps = encoder.sps_table[F(pps, "seq_parameter_set_id")]
  OBVIOUS
<1> HIDE DEF pps, sps
<1>4. IntFields(e)
  BY LegalPlain DEF Plain
<1>5. HasFrameNum(x, F(sps, "log2_max_frame_num_minus4") + 4)
  BY <1>3, <1>4, <1>p, HeaderTail DEF SliceSyntax
<1>6. Sound(HN, x, e, NoFields)
  <2>1. x \in Syntax(HN)
    BY <1>5 DEF HasFrameNum
  <2>2. DOMAIN NoFields \subseteq {<<"_more_rbsp_data_present", 0>>}
    BY DEF NoFields
  <2>3. "eof" \notin HN /\ "more" \notin HN
    BY HeaderNames
  <2> QED BY <2>1, <2>2, <2>3, LegalLawful
<1> QED BY <1>1, <1>3, <1>5, <1>6 DEF Uses

\* The first three elements are read as they were sent.
LEMMA HeadAsked ==
  ASSUME Fresh, NEW type, NEW ref, NEW x, NEW n, HasFrameNum(x, n), NEW e, Lawful(HN, x, e), F(e, "pic_parameter_set_id") \in PpsIds
  PROVE  Asks(HN, OfSliceRead(type, ref), x, e, NoFields, 3)
<1> SUFFICES ASSUME NEW d \in FieldsOf(HN), NEW k \in 0 .. 2, Knows(e, d, NoFields)
             PROVE  k + 1 <= Len(OfSliceRead(type, ref)[d]) /\ OfSliceRead(type, ref)[d][k + 1] = x[k + 1]
  BY DEF Asks
<1>1. F(d, "pic_parameter_set_id") \in PpsIds
  <2>1. CASE PpsKey \in DOMAIN d
    <3>1. PpsKey \in DOMAIN d \ Stream
      BY <2>1 DEF Stream, PpsKey
    <3>2. PpsKey \in DOMAIN e /\ d[PpsKey] = e[PpsKey]
      BY <3>1 DEF Knows
    <3>3. F(d, "pic_parameter_set_id") = F(e, "pic_parameter_set_id")
      BY <2>1, <3>2 DEF F, At, PpsKey
    <3> QED BY <3>3
  <2>2. CASE PpsKey \notin DOMAIN d
    BY <2>2, IdsAssumption DEF F, At, PpsKey
  <2> QED BY <2>1, <2>2
<1> DEFINE y == SliceRead(type, ref, d)
<1>2. OfSliceRead(type, ref)[d] = y
  BY <1>1 DEF OfSliceRead
<1>3. HasFrameNum(y, 4)
  BY <1>1, FreshTail
<1> HIDE DEF y
<1>4. k \in {0, 1, 2} /\ k + 1 <= Len(y)
  BY <1>3 DEF HasFrameNum
<1>5. y[1] = x[1] /\ y[2] = x[2] /\ y[3] = x[3]
  BY <1>3 DEF HasFrameNum
<1>6. y[k + 1] = x[k + 1]
  BY <1>4, <1>5
<1> QED BY <1>2, <1>4, <1>6

\* Behind frame_num there is neither of these two.
LEMMA RestLeaves ==
  ASSUME Fresh, NEW type, NEW ref, NEW d0, F(d0, "pic_parameter_set_id") \in PpsIds
  PROVE  Leaves(HN, OfSliceRead(type, ref), d0, {PpsKey, NumKey}, 4)
<1>1. {PpsKey, NumKey} \cap Stream = {}
  BY DEF PpsKey, NumKey, Stream
<1>2. ASSUME NEW d \in FieldsOf(HN), Keeps(d, d0, {PpsKey, NumKey}), NEW k \in 4 + 1 .. Len(OfSliceRead(type, ref)[d])
      PROVE  Key(OfSliceRead(type, ref)[d][k]) \notin {PpsKey, NumKey}
  <2>1. F(d, "pic_parameter_set_id") = F(d0, "pic_parameter_set_id")
    BY <1>2 DEF Keeps, F, At, PpsKey
  <2> DEFINE y == SliceRead(type, ref, d)
  <2>2. OfSliceRead(type, ref)[d] = y
    BY <2>1 DEF OfSliceRead
  <2>3. HasFrameNum(y, 4)
    BY <2>1, FreshTail
  <2> HIDE DEF y
  <2>4. k \in 5 .. Len(y)
    BY <1>2, <2>2
  <2>5. y[k][3] \in Rest
    BY <2>3, <2>4 DEF HasFrameNum
  <2>6. Key(y[k]) # PpsKey /\ Key(y[k]) # NumKey
    BY <2>5, RestOk DEF Key, PpsKey, NumKey
  <2> QED BY <2>2, <2>6
<1> QED BY <1>1, <1>2 DEF Leaves

\* What follows a header does not change how it is read.
LEMMA HeaderFirst ==
  ASSUME NEW w \in Seq(Bit), NEW data \in Seq(Bit), NEW bits, bits = WriteTrailing(w \o data)
  PROVE  bits \in Words /\ Len(w) \in Nat /\ Len(bits) \in Nat /\ Len(w) <= Len(bits) /\ \A i \in 1 .. Len(w) : bits[i] = w[i]
<1> DEFINE all == w \o data
<1>1. /\ all \in Seq(Bit) /\ Len(w) \in Nat /\ Len(data) \in Nat /\ Len(all) = Len(w) + Len(data)
      /\ \A i \in 1 .. Len(w) : all[i] = w[i]
  BY Cat
<1>a. bits = WriteTrailing(all)
  OBVIOUS
<1> HIDE DEF all
<1>2. bits \in Words /\ Len(bits) > Len(all) /\ \A i \in 1 .. Len(all) : bits[i] = all[i]
  BY <1>1, <1>a, Trailing
<1>3. Len(bits) \in Nat
  BY <1>2 DEF Words
<1>4. \A i \in 1 .. Len(w) : i \in 1 .. Len(all)
  BY <1>1
<1> QED BY <1>1, <1>2, <1>3, <1>4

\* The walk through a slice header with a new h264_stream_t: the number of the picture
\* parameter set is read, and then the first four bits of frame_num.
LEMMA HeaderWalk ==
  ASSUME Fresh, NEW type, NEW ref, NEW x, NEW l \in Nat, HasFrameNum(x, l + 4),
         NEW e, Sound(HN, x, e, NoFields), F(e, "pic_parameter_set_id") \in PpsIds,
         NEW data \in Seq(Bit), NEW bits, bits = WriteTrailing(Write(x, e) \o data),
         NEW s, Walking(HN, OfSliceRead(type, ref), bits, NoFields, MaxElements, s)
  PROVE  /\ 4 \in 0 .. MaxElements
         /\ \A k \in 0 .. 4 : F(s[k].e, "pic_parameter_set_id") \in PpsIds
         /\ NumKey \in DOMAIN s[4].e /\ s[4].e[NumKey] = F(e, "frame_num") \div 2 ^ l
<1> DEFINE E == OfSliceRead(type, ref)
           w == Write(x, e)
<1>1. /\ Lawful(HN, x, e) /\ Len(x) < MaxElements /\ Len(x) \in Nat /\ Len(x) >= 4 /\ MaxElements \in Nat
      /\ DOMAIN NoFields = {} /\ "eof" \notin HN /\ "more" \notin HN
  BY MaxElementsAssumption, HeaderNames DEF Sound, HasFrameNum, NoFields
<1>2. w \in Seq(Bit) /\ \A b \in Words : (\A i \in 1 .. Len(w) : i <= Len(b) => b[i] = w[i])
         => \E q : /\ Placed(x, e, q) /\ Carries(b, x, e, q) /\ q[Len(x)] = Len(w)
                   /\ \A k \in 0 .. Len(x) : q[k] <= Len(w)
  <2>1. \A b \in Words : (\A i \in 1 .. Len(w) : i <= Len(b) => b[i] = w[i])
         => w \in Seq(Bit) /\ \E q : /\ Placed(x, e, q) /\ Carries(b, x, e, q) /\ q[Len(x)] = Len(w)
                   /\ \A k \in 0 .. Len(x) : q[k] <= Len(w)
    BY <1>1, Laid
  <2>2. w \in Seq(Bit)
    <3>1. Coded(x, e) \in Seq(Seq(Bit)) /\ w = Joined(Coded(x, e))
      BY <1>1, CodedWords
    <3> QED BY <3>1, JoinedIn
  <2> QED BY <2>1, <2>2
<1>b. bits = WriteTrailing(w \o data)
  OBVIOUS
<1>E. E = OfSliceRead(type, ref) /\ Walking(HN, E, bits, NoFields, MaxElements, s)
  OBVIOUS
<1> HIDE DEF w, E
<1>3. bits \in Words /\ Len(w) \in Nat /\ Len(bits) \in Nat /\ Len(w) <= Len(bits) /\ \A i \in 1 .. Len(w) : bits[i] = w[i]
  BY <1>2, <1>b, HeaderFirst
<1>4. PICK q : /\ Placed(x, e, q) /\ Carries(bits, x, e, q) /\ \A k \in 0 .. Len(x) : q[k] <= Len(w)
  BY <1>2, <1>3
<1>5. Asks(HN, E, x, e, NoFields, 3)
  BY <1>1, <1>E, HeadAsked
<1>q. \A k \in 0 .. Len(x) : q[k] \in Nat /\ q[k] <= Len(bits)
  <2> TAKE k \in 0 .. Len(x)
  <2>1. q[k] \in Nat
    BY <1>4 DEF Placed
  <2> QED BY <1>3, <1>4, <2>1
<1>6. \A k \in 0 .. 3 : Reached(HN, x, e, NoFields, q, k, s[k])
  <2>1. 3 \in 0 .. Len(x) /\ 3 <= MaxElements /\ \A k \in 1 .. 3 : k \in 0 .. Len(x)
    BY <1>1
  <2>2. \A k \in 1 .. 3 : q[k] <= Len(bits)
    BY <1>q, <2>1
  <2>3. DOMAIN NoFields \subseteq DOMAIN e /\ \A k \in DOMAIN NoFields : NoFields[k] = e[k]
    BY <1>1
  <2> QED BY <1>1, <1>4, <1>5, <1>E, <2>1, <2>2, <2>3, WalkOn
<1>7. \A k \in 0 .. 3 : F(s[k].e, "pic_parameter_set_id") \in PpsIds
  <2> TAKE k \in 0 .. 3
  <2>1. Knows(e, s[k].e, NoFields)
    BY <1>6 DEF Reached
  <2>2. CASE PpsKey \in DOMAIN s[k].e
    <3>1. PpsKey \in DOMAIN s[k].e \ Stream
      BY <2>2 DEF Stream, PpsKey
    <3>2. PpsKey \in DOMAIN e /\ s[k].e[PpsKey] = e[PpsKey]
      BY <2>1, <3>1 DEF Knows
    <3> QED BY <2>2, <3>2 DEF F, At, PpsKey
  <2>3. CASE PpsKey \notin DOMAIN s[k].e
    BY <2>3, IdsAssumption DEF F, At, PpsKey
  <2> QED BY <2>2, <2>3
<1> DEFINE t == s[3]
           el == <<"u", 4, "frame_num", 0>>
           v == e[NumKey]
<1>8. t \in States(HN) /\ ~t.done /\ t.pos = q[3] /\ t.e \in FieldsOf(HN)
      /\ F(t.e, "pic_parameter_set_id") \in PpsIds
  <2>1. 3 \in 0 .. 3
    OBVIOUS
  <2>2. t \in States(HN) /\ ~t.done /\ t.pos = q[3]
    BY <1>6, <2>1 DEF Reached
  <2> QED BY <1>7, <2>1, <2>2 DEF States
<1>9. s[4] = Onto(bits, el, t)
  <2> DEFINE y == SliceRead(type, ref, t.e)
  <2>1. E[t.e] = y
    BY <1>8, <1>E DEF OfSliceRead
  <2>2. HasFrameNum(y, 4)
    BY <1>8, FreshTail
  <2> HIDE DEF y
  <2>3. y[4] = el /\ ~(4 > Len(y))
    BY <2>2 DEF HasFrameNum
  <2>4. s[4] = Advance(bits, E[t.e], t, 4)
    <3>1. 4 \in 1 .. MaxElements /\ 4 - 1 = 3
      BY <1>1
    <3>2. \A k \in 1 .. MaxElements : s[k] = Advance(bits, E[s[k - 1].e], s[k - 1], k)
      BY <1>E DEF Walking
    <3>3. s[4] = Advance(bits, E[s[4 - 1].e], s[4 - 1], 4)
      BY <3>1, <3>2
    <3> QED BY <3>1, <3>3
  <2> QED BY <1>8, <2>1, <2>3, <2>4 DEF Advance
<1>10. /\ DOMAIN s[4].e = DOMAIN t.e \cup {NumKey, <<"eof", 0>>, <<"more", 0>>}
       /\ s[4].e[NumKey] = ReadCode("u", 4, bits, t.pos)
       /\ F(s[4].e, "pic_parameter_set_id") = F(t.e, "pic_parameter_set_id")
  <2>1. el \in ElOf(HN) /\ Key(el) = NumKey
    BY DEF ElOf, HN, Codes, Key, NumKey
  <2>2. el[1] = "u" /\ el[2] = 4
    OBVIOUS
  <2>b. bits \in Words
    BY <1>3
  <2> HIDE DEF el, t
  <2>3. /\ DOMAIN s[4].e = DOMAIN t.e \cup {NumKey, <<"eof", 0>>, <<"more", 0>>}
        /\ \A y \in DOMAIN s[4].e : y # <<"eof", 0>> /\ y # <<"more", 0>> =>
              s[4].e[y] = IF y = NumKey THEN ReadCode(el[1], el[2], bits, t.pos) ELSE t.e[y]
    BY <1>8, <1>9, <2>1, <2>b, Onwards
  <2>4. NumKey # <<"eof", 0>> /\ NumKey # <<"more", 0>> /\ PpsKey # <<"eof", 0>> /\ PpsKey # <<"more", 0>> /\ PpsKey # NumKey
    BY DEF NumKey, PpsKey
  <2>5. s[4].e[NumKey] = ReadCode("u", 4, bits, t.pos)
    BY <2>2, <2>3, <2>4
  <2>6. (PpsKey \in DOMAIN s[4].e <=> PpsKey \in DOMAIN t.e) /\ (PpsKey \in DOMAIN t.e => s[4].e[PpsKey] = t.e[PpsKey])
    BY <2>3, <2>4
  <2>7. F(s[4].e, "pic_parameter_set_id") = F(t.e, "pic_parameter_set_id")
    BY <2>6 DEF F, At, PpsKey
  <2> QED BY <2>3, <2>5, <2>7
<1>11. x[4] = <<"u", l + 4, "frame_num", 0>>
  BY DEF HasFrameNum
<1>12. /\ NumKey \in DOMAIN e /\ v \in Int /\ Fits("u", l + 4, v)
       /\ Coded(x, e)[4] = WriteCode("u", l + 4, v)
  <2>1. 4 \in 1 .. Len(x)
    BY <1>1
  <2>2. Key(x[4]) = NumKey /\ x[4][1] = "u" /\ x[4][2] = l + 4
    BY <1>11 DEF Key, NumKey
  <2>3. /\ Key(x[4]) \in DOMAIN e /\ e[Key(x[4])] \in Int /\ Fits(x[4][1], x[4][2], e[Key(x[4])])
        /\ Coded(x, e)[4] = WriteCode(x[4][1], x[4][2], e[Key(x[4])])
    BY <1>1, <2>1, CodedWords
  <2> QED BY <2>2, <2>3
<1>13. v \in Nat /\ IsWord(l + 4, v) /\ Coded(x, e)[4] = bs_write_u(l + 4, v)
  <2>1. v \in 0 .. MaxInt /\ (l + 4 < 31 => v < 2 ^ (l + 4))
    BY <1>12 DEF Fits
  <2>2. Coded(x, e)[4] = bs_write_u(l + 4, v)
    BY <1>12 DEF WriteCode
  <2> QED BY <2>1, <2>2, Word31 DEF IsWord
<1> HIDE DEF t, v
<1>14. Holds(bits, q[3], bs_write_u(l + 4, v), 4)
  <2>1. Len(bs_write_u(l + 4, v)) = l + 4 /\ l + 4 \in Nat
    BY <1>13, WriteU
  <2>2. 4 \in 1 .. Len(x) /\ 3 \in 0 .. Len(x) /\ 4 \in 0 .. Len(x) /\ 4 - 1 = 3
    BY <1>1
  <2>3. q[4] = q[3] + Len(Coded(x, e)[4])
    BY <1>4, <2>2 DEF Placed
  <2>4. q[4] <= Len(bits) /\ q[3] \in Nat /\ q[3] + (l + 4) = q[4]
    BY <1>13, <1>q, <2>1, <2>2, <2>3
  <2>5. \A i \in 1 .. 4 : q[3] + i <= Len(bits) /\ i \in 1 .. l + 4
    BY <1>3, <2>4
  <2>6. \A i \in 1 .. 4 : bits[q[3] + i] = bs_write_u(l + 4, v)[i]
    <3>1. \A i \in 1 .. Len(Coded(x, e)[4]) : q[4 - 1] + i <= Len(bits) => bits[q[4 - 1] + i] = Coded(x, e)[4][i]
      BY <1>4, <2>2 DEF Carries
    <3>2. \A i \in 1 .. l + 4 : q[3] + i <= Len(bits) => bits[q[3] + i] = bs_write_u(l + 4, v)[i]
      BY <1>13, <2>1, <2>2, <3>1
    <3> QED BY <2>5, <3>2
  <2>7. q[3] + 4 <= Len(bits)
    BY <2>5
  <2> QED BY <2>6, <2>7 DEF Holds
<1>15. bs_read_u(bits, q[3], 4) = v \div 2 ^ l
  <2>1. l + 4 \in Nat /\ 4 \in 0 .. l + 4 /\ (l + 4) - 4 = l /\ q[3] \in Nat
    BY <1>1, <1>q
  <2>2. bs_read_u(bits, q[3], 4) = v \div 2 ^ ((l + 4) - 4)
    BY <1>3, <1>13, <1>14, <2>1, ReadTop
  <2> QED BY <2>1, <2>2
<1>16. s[4].e[NumKey] = F(e, "frame_num") \div 2 ^ l
  <2>1. F(e, "frame_num") = v
    BY <1>12 DEF F, At, NumKey, v
  <2>2. ReadCode("u", 4, bits, t.pos) = bs_read_u(bits, q[3], 4)
    BY <1>8 DEF ReadCode
  <2> QED BY <1>10, <1>15, <2>1, <2>2
<1>17. \A k \in 0 .. 4 : F(s[k].e, "pic_parameter_set_id") \in PpsIds
  <2> TAKE k \in 0 .. 4
  <2>1. k \in 0 .. 3 \/ k = 4
    OBVIOUS
  <2> QED BY <1>7, <1>8, <1>10, <2>1
<1>18. 4 \in 0 .. MaxElements /\ NumKey \in DOMAIN s[4].e
  BY <1>1, <1>10
<1> QED BY <1>16, <1>17, <1>18

\* A slice header with l more bits of frame_num than four, and data behind it.
HeaderIn(bits, x, e, l, data) ==
    /\ HasFrameNum(x, l + 4) /\ Sound(HN, x, e, NoFields) /\ F(e, "pic_parameter_set_id") \in PpsIds
    /\ data \in Seq(Bit) /\ bits = WriteTrailing(Write(x, e) \o data)

\* What read_slice_layer_rbsp reads of frame_num.
LEMMA HeaderRead ==
  ASSUME Fresh, NEW type, NEW ref, NEW bits, NEW x, NEW e, NEW l \in Nat, NEW data, HeaderIn(bits, x, e, l, data)
  PROVE  F(SliceReader(bits, type, ref).e, "frame_num") = F(e, "frame_num") \div 2 ^ l
<1>0. /\ HasFrameNum(x, l + 4) /\ Sound(HN, x, e, NoFields) /\ F(e, "pic_parameter_set_id") \in PpsIds
      /\ data \in Seq(Bit) /\ bits = WriteTrailing(Write(x, e) \o data)
  BY DEF HeaderIn
<1> DEFINE E == OfSliceRead(type, ref)
<1>1. bits \in Words
  <2>1. Lawful(HN, x, e)
    BY <1>0 DEF Sound
  <2>2. Write(x, e) \in Seq(Bit)
    <3>1. Coded(x, e) \in Seq(Seq(Bit)) /\ Write(x, e) = Joined(Coded(x, e))
      BY <2>1, CodedWords
    <3> QED BY <3>1, JoinedIn
  <2> QED BY <1>0, <2>2, HeaderFirst
<1>2. PICK s : Walking(HN, E, bits, NoFields, MaxElements, s)
  <2>1. E \in [FieldsOf(HN) -> Syntax(HN)] /\ NoFields \in FieldsOf(HN) /\ MaxElements \in Nat
    BY SliceReadTyped, NoFieldsIn, MaxElementsAssumption
  <2> HIDE DEF E
  <2> QED BY <1>1, <2>1, Walks
<1>3. /\ 4 \in 0 .. MaxElements
      /\ \A k \in 0 .. 4 : F(s[k].e, "pic_parameter_set_id") \in PpsIds
      /\ NumKey \in DOMAIN s[4].e /\ s[4].e[NumKey] = F(e, "frame_num") \div 2 ^ l
  BY <1>0, <1>2, HeaderWalk
<1>4. Leaves(HN, E, s[4].e, {PpsKey, NumKey}, 4)
  <2>1. 4 \in 0 .. 4
    OBVIOUS
  <2>2. F(s[4].e, "pic_parameter_set_id") \in PpsIds
    BY <1>3, <2>1
  <2> QED BY <2>2, RestLeaves
<1> HIDE DEF E
<1>5. \A k \in 4 .. MaxElements : Keeps(s[k].e, s[4].e, {PpsKey, NumKey})
  BY <1>2, <1>3, <1>4, WalkKeeps
<1>6. \A k \in 0 .. MaxElements : F(s[k].e, "pic_parameter_set_id") \in PpsIds
  <2> TAKE k \in 0 .. MaxElements
  <2>1. k \in 0 .. 4 \/ k \in 4 .. MaxElements
    BY MaxElementsAssumption
  <2>2. CASE k \in 0 .. 4
    <3>1. \A i \in 0 .. 4 : F(s[i].e, "pic_parameter_set_id") \in PpsIds
      BY ONLY <1>3
    <3> QED BY ONLY <2>2, <3>1
  <2>3. CASE k \in 4 .. MaxElements
    <3>1. F(s[k].e, "pic_parameter_set_id") = F(s[4].e, "pic_parameter_set_id")
      BY <1>5, <2>3 DEF Keeps, F, At, PpsKey
    <3>2. F(s[4].e, "pic_parameter_set_id") \in PpsIds
      <4>1. 4 \in 0 .. 4
        OBVIOUS
      <4> QED BY <1>3, <4>1
    <3> QED BY <3>1, <3>2
  <2> QED BY <2>1, <2>2, <2>3
<1>7. SliceReader(bits, type, ref) = [e |-> Fields(s[MaxElements].e), pos |-> s[MaxElements].pos]
  BY <1>2, <1>6, SliceWalk DEF E
<1>8. NumKey \in DOMAIN s[MaxElements].e /\ s[MaxElements].e[NumKey] = F(e, "frame_num") \div 2 ^ l
  <2>1. MaxElements \in 4 .. MaxElements
    <3>1. 4 \in 0 .. MaxElements
      BY ONLY <1>3
    <3> QED BY ONLY <3>1, MaxElementsAssumption
  <2> QED BY <1>3, <1>5, <2>1 DEF Keeps
<1>9. F(Fields(s[MaxElements].e), "frame_num") = s[MaxElements].e[NumKey]
  <2>1. NumKey \notin {<<"eof", 0>>, <<"more", 0>>}
    BY DEF NumKey
  <2> QED BY <1>8, <2>1 DEF Fields, F, At, NumKey
<1> QED BY <1>7, <1>8, <1>9

\* A step that reads a slice with a new h264_stream_t sees its first four bits of
\* frame_num.
LEMMA FrameNumStep ==
  ASSUME Shape, EncoderOk, Next
  PROVE  FrameNumSeen'
<1> SUFFICES ASSUME nal'.type \in {1, 5}, h'.sps_table = h264_new.sps_table, h'.pps_table = h264_new.pps_table,
                    F(SpsOf(encoder', nal'.e), "separate_colour_plane_flag") = 0
             PROVE  F(h'.sh, "frame_num")
                    = F(nal'.e, "frame_num") \div 2 ^ F(SpsOf(encoder', nal'.e), "log2_max_frame_num_minus4")
  BY DEF FrameNumSeen, IsSlice, h264_new
<1>1. PICK n \in AllNals : read_nal_unit(n) /\ nal' = n /\ Sends(n)
  <2>1. nal' # None
    BY DEF None
  <2>2. ~ \E n \in SpsNals \cup PpsNals : read_nal_unit(Cut(n)) /\ nal' = Cut(n) /\ nal'.cut = TRUE
    <3> SUFFICES ASSUME NEW n \in SpsNals \cup PpsNals, nal' = Cut(n) PROVE FALSE
      OBVIOUS
    <3>1. nal'.type = n.type
      BY CutSame
    <3>2. n.type \in {7, 8}
      BY NalTypes
    <3> QED BY <3>1, <3>2
  <2> QED BY <2>1, <2>2, WhichNal
<1>2. n \in SliceNals
  BY <1>1, NalTypes DEF AllNals
<1>3. encoder' = encoder
  BY <1>1, <1>2, EncoderSends
<1>4. PICK t : \E e : \E data :
            /\ n.e = e /\ n.type = t.type /\ n.ref = t.ref
            /\ (Len(Write(SliceSyntax(t, e), e)) \in Nat => data \in Seq(Bit))
            /\ n.bits = WriteTrailing(Write(SliceSyntax(t, e), e) \o data)
            /\ Legal(SliceSyntax(t, e), e, NoFields)
            /\ F(e, "pic_parameter_set_id") \in PpsIds /\ F(PpsOf(encoder, e), "seq_parameter_set_id") \in SpsIds
  BY <1>2, SliceWasSent
<1>5. PICK data :
            /\ (Len(Write(SliceSyntax(t, n.e), n.e)) \in Nat => data \in Seq(Bit))
            /\ n.bits = WriteTrailing(Write(SliceSyntax(t, n.e), n.e) \o data)
            /\ Legal(SliceSyntax(t, n.e), n.e, NoFields)
            /\ F(n.e, "pic_parameter_set_id") \in PpsIds /\ F(PpsOf(encoder, n.e), "seq_parameter_set_id") \in SpsIds
  BY <1>4
<1> DEFINE l == F(SpsOf(encoder, n.e), "log2_max_frame_num_minus4")
           x == SliceSyntax(t, n.e)
           r == SliceReader(n.bits, n.type, n.ref)
<1>6. h' = SliceInto(r.e, r.pos, SliceEnd(n.bits, r))
  BY <1>1, <1>2, NalTypes, ReadNal
<1> HIDE DEF r
<1>7. h'.sh = r.e /\ h'.sps_table = h.sps_table /\ h'.pps_table = h.pps_table
  BY <1>6 DEF SliceInto, Shape, HFields
<1>8. Fresh
  BY <1>7 DEF Fresh
<1>9. l \in Nat /\ HasFrameNum(x, l + 4) /\ Sound(HN, x, n.e, NoFields)
  BY <1>1, <1>3, <1>5, SentHeader
<1>10. data \in Seq(Bit)
  <2>1. Lawful(HN, x, n.e)
    BY <1>9 DEF Sound
  <2>2. Coded(x, n.e) \in Seq(Seq(Bit)) /\ Write(x, n.e) = Joined(Coded(x, n.e))
    BY <2>1, CodedWords
  <2>3. Write(x, n.e) \in Seq(Bit)
    BY <2>2, JoinedIn
  <2>4. Len(Write(x, n.e)) \in Nat
    BY <2>3
  <2> QED BY <1>5, <2>4
<1>11. F(r.e, "frame_num") = F(n.e, "frame_num") \div 2 ^ l
  <2>1. n.bits = WriteTrailing(Write(x, n.e) \o data) /\ F(n.e, "pic_parameter_set_id") \in PpsIds
    BY <1>5
  <2> HIDE DEF x, l
  <2>2. HeaderIn(n.bits, x, n.e, l, data)
    BY <1>9, <1>10, <2>1 DEF HeaderIn
  <2>3. l \in Nat
    BY <1>9
  <2>4. F(SliceReader(n.bits, n.type, n.ref).e, "frame_num") = F(n.e, "frame_num") \div 2 ^ l
    BY ONLY <1>8, <2>2, <2>3, HeaderRead
  <2> QED BY <2>4 DEF r
<1> QED BY <1>1, <1>3, <1>7, <1>11

\* With a new h264_stream_t for every NAL unit, as decodeFrame has it, only the first
\* four bits of frame_num are seen, whatever its width is.
THEOREM FrameNumSeenAlways == Spec => []FrameNumSeen
<1>1. Init => Shape /\ EncoderOk /\ FrameNumSeen
  BY ShapeInductive, EncoderInductive DEF Init, FrameNumSeen, IsSlice, None
<1>2. (Shape /\ EncoderOk /\ FrameNumSeen) /\ [Next]_vars => (Shape /\ EncoderOk /\ FrameNumSeen)'
  <2> SUFFICES ASSUME Shape, EncoderOk, FrameNumSeen, [Next]_vars PROVE Shape' /\ EncoderOk' /\ FrameNumSeen'
    OBVIOUS
  <2>1. Shape' /\ EncoderOk'
    BY ShapeInductive, EncoderInductive
  <2>2. CASE UNCHANGED vars
    BY <2>1, <2>2 DEF vars, FrameNumSeen, IsSlice
  <2>3. CASE Next
    BY <2>1, <2>3, FrameNumStep
  <2> QED BY <2>2, <2>3
<1> QED BY <1>1, <1>2, PTL DEF Spec

\* What was sent of a parameter set or an access unit delimiter is what h holds
\* after read_nal_unit, if the parser knows the profile, has the HRD parameters it
\* was sent once or alike, guesses the last part of the PPS right and is spared
\* scaling lists: the first half of ParsedAsSent, that nothing is lost but there.
SetsKept ==
    Whole => /\ nal.type = 7 /\ ~UnknownProfile(nal.e) => (Sps = nal.e <=> ~TwoHrds(nal.e))
             /\ nal.type = 8 /\ ~WrongGuess(nal.e) /\ ~HasLists(nal.e) => Pps = nal.e
             /\ nal.type = 9 => h.aud = nal.e

\* A step that reads a parameter set or a delimiter keeps it, where the parser can.
LEMMA SetsKeptStep ==
  ASSUME Shape, Next
  PROVE  SetsKept'
<1> SUFFICES ASSUME Whole'
             PROVE  /\ nal'.type = 7 /\ ~UnknownProfile(nal'.e) => (Sps' = nal'.e <=> ~TwoHrds(nal'.e))
                    /\ nal'.type = 8 /\ ~WrongGuess(nal.e)' /\ ~HasLists(nal'.e) => Pps' = nal'.e
                    /\ nal'.type = 9 => h'.aud = nal'.e
  BY DEF SetsKept, WrongGuess
<1>1. nal' # None /\ nal'.cut = FALSE
  BY DEF None, Whole
<1>2. PICK n \in AllNals : read_nal_unit(n) /\ nal' = n
  BY <1>1, WhichNal
<1>3. ASSUME nal'.type = 7, ~UnknownProfile(nal'.e) PROVE Sps' = nal'.e <=> ~TwoHrds(nal'.e)
  <2>1. n \in SpsNals
    BY <1>2, <1>3, NalTypes DEF AllNals
  <2>2. Sps' = Stored(nal'.e)
    BY <1>2, <1>3, <2>1, SpsStored DEF Sps
  <2> QED BY <1>2, <1>3, <2>1, <2>2, SpsStored
<1>4. ASSUME nal'.type = 8, ~WrongGuess(nal.e)', ~HasLists(nal'.e) PROVE Pps' = nal'.e
  <2>1. n \in PpsNals
    BY <1>2, <1>4, NalTypes DEF AllNals
  <2>2. ~WrongGuess(n.e)'
    BY <1>2, <1>4 DEF WrongGuess
  <2> QED BY <1>2, <1>4, <2>1, <2>2, PpsStored
<1>5. ASSUME nal'.type = 9 PROVE h'.aud = nal'.e
  <2>1. n \in AudNals
    BY <1>2, <1>5, NalTypes DEF AllNals
  <2> QED BY <1>2, <2>1, AudStored
<1> QED BY <1>3, <1>4, <1>5

\* Parameter sets and delimiters are kept as they were sent, where the parser can.
THEOREM SetsKeptAlways == Spec => []SetsKept
<1>1. Init => Shape /\ SetsKept
  BY ShapeInductive DEF Init, SetsKept, Whole, None
<1>2. (Shape /\ SetsKept) /\ [Next]_vars => (Shape /\ SetsKept)'
  <2> SUFFICES ASSUME Shape, SetsKept, [Next]_vars PROVE Shape' /\ SetsKept'
    OBVIOUS
  <2>1. Shape'
    BY ShapeInductive
  <2>2. CASE UNCHANGED vars
    BY <2>1, <2>2 DEF vars, SetsKept, Whole, WrongGuess, Sps, Pps
  <2>3. CASE Next
    BY <2>1, <2>3, SetsKeptStep
  <2> QED BY <2>2, <2>3
<1> QED BY <1>1, <1>2, PTL DEF Spec

-----------------------------------------------------------------------------
(* Written back *)

\* Only what an element is coded with shows in the bits.
LEMMA SameBits ==
  ASSUME NEW x, NEW y, DOMAIN x = DOMAIN y, NEW e,
         \A k \in DOMAIN x : /\ x[k][1] = y[k][1] /\ x[k][2] = y[k][2]
                             /\ At(e, x[k][3], x[k][4]) = At(e, y[k][3], y[k][4])
  PROVE  Write(x, e) = Write(y, e)
<1>1. \A k \in DOMAIN x : WriteCode(x[k][1], x[k][2], At(e, x[k][3], x[k][4]))
                          = WriteCode(y[k][1], y[k][2], At(e, y[k][3], y[k][4]))
  OBVIOUS
<1>2. [k \in DOMAIN x |-> WriteCode(x[k][1], x[k][2], At(e, x[k][3], x[k][4]))]
      = [k \in DOMAIN y |-> WriteCode(y[k][1], y[k][2], At(e, y[k][3], y[k][4]))]
  BY <1>1
<1> QED BY <1>2 DEF Write

\* The writer has the elements of a sequence parameter set that was sent, but for two
\* cases.
LEMMA SpsWrittenAsSent ==
  ASSUME NEW e, ~UnknownProfile(e), ~FourLists(e)
  PROVE  seq_parameter_set("written", e) = SpsSyntax(e)
<1> DEFINE Lists(side) == Joined([k \in 1 .. (IF side # "written" /\ F(e, "chroma_format_idc") = 3 THEN 12 ELSE 8)
                                     |-> Indexed(u(1, <<"seq_scaling_list_present_flag">>), 0 + k - 1)])
           flag == "seq_scaling_matrix_present_flag"
           H(side) == ue(<<"chroma_format_idc">>)
                      \o When(F(e, "chroma_format_idc") = 3, u(1, <<"separate_colour_plane_flag">>))
                      \o ue(<<"bit_depth_luma_minus8", "bit_depth_chroma_minus8">>)
                      \o u(1, <<"qpprime_y_zero_transform_bypass_flag">>) \o Opt(e, flag, Lists(side))
           X(side) == When(F(e, "profile_idc") \in HighProfiles(side), H(side))
<1>1. F(e, "profile_idc") \in HighProfiles("written") <=> F(e, "profile_idc") \in HighProfiles("sent")
  BY DEF UnknownProfile, HighProfiles
<1>2. Opt(e, flag, Lists("written")) = Opt(e, flag, Lists("sent"))
  <2>1. CASE F(e, "chroma_format_idc") = 3
    <3>1. ~(At(e, flag, 0) # 0)
      BY <2>1 DEF FourLists, F
    <3>2. When(At(e, flag, 0) # 0, Lists("written")) = When(At(e, flag, 0) # 0, Lists("sent"))
      BY <3>1 DEF When
    <3> HIDE DEF Lists
    <3> QED BY <3>2 DEF Opt, OptAt
  <2>2. CASE F(e, "chroma_format_idc") # 3
    <3>1. Lists("written") = Lists("sent")
      BY <2>2
    <3> HIDE DEF Lists
    <3> QED BY <3>1
  <2> QED BY <2>1, <2>2
<1> HIDE DEF Lists
<1>3. H("written") = H("sent")
  BY <1>2
<1> HIDE DEF H
<1>4. X("written") = X("sent")
  BY <1>1, <1>3
<1> HIDE DEF X
<1>5. seq_parameter_set("written", e) = seq_parameter_set("sent", e)
  BY <1>4 DEF seq_parameter_set, Each, X, H, Lists
<1> QED BY <1>5 DEF SpsSyntax

\* The two names of the flag are of the same width, and where both are 0 so are the bits.
OtherName == "pic_order_present_flag"
Wider == Seq(ElOf(Names \cup {OtherName}))
SameCoded(x, y, e) ==
    /\ x \in Wider /\ y \in Wider /\ DOMAIN x = DOMAIN y
    /\ \A k \in DOMAIN x : /\ x[k][1] = y[k][1] /\ x[k][2] = y[k][2]
                           /\ At(e, x[k][3], x[k][4]) = At(e, y[k][3], y[k][4])

\* A piece added to both sides.
LEMMA WithMore ==
  ASSUME NEW e, NEW x, NEW y, SameCoded(x, y, e), NEW t \in S
  PROVE  SameCoded(x \o t, y \o t, e)
<1>1. t \in Wider
  BY DEF S, Syntax, Wider, ElOf
<1> DEFINE A == ElOf(Names \cup {OtherName})
<1>2. x \in Seq(A) /\ y \in Seq(A) /\ t \in Seq(A) /\ DOMAIN x = DOMAIN y
  BY <1>1 DEF SameCoded, Wider
<1> HIDE DEF A
<1>3. /\ x \o t \in Seq(A) /\ y \o t \in Seq(A) /\ DOMAIN (x \o t) = DOMAIN (y \o t)
      /\ Len(x) = Len(y)
  BY <1>2
<1>4. ASSUME NEW k \in DOMAIN (x \o t)
      PROVE  \/ k \in DOMAIN x /\ (x \o t)[k] = x[k] /\ (y \o t)[k] = y[k]
             \/ (x \o t)[k] = (y \o t)[k]
  BY <1>2, <1>3
<1>5. ASSUME NEW k \in DOMAIN (x \o t)
      PROVE  LET a == (x \o t)[k]
                 b == (y \o t)[k]
             IN  a[1] = b[1] /\ a[2] = b[2] /\ At(e, a[3], a[4]) = At(e, b[3], b[4])
  BY <1>4 DEF SameCoded
<1> QED BY <1>3, <1>5 DEF SameCoded, Wider, A

\* So are the bits of a picture parameter set, where the flag has the same value under
\* both names.
LEMMA PpsWrittenAsSent ==
  ASSUME NEW e, IntFields(e), NoLists(e), F(e, OrderFlag("sent")) = F(e, OtherName)
  PROVE  Write(pic_parameter_set("written", e), e) = Write(PpsSyntax(e), e)
<1> DEFINE p1 == ue(<<"pic_parameter_set_id", "seq_parameter_set_id">>)
           p2 == u(1, <<"entropy_coding_mode_flag", "bottom_field_pic_order_in_frame_present_flag">>)
           q2 == u(1, <<"entropy_coding_mode_flag", "pic_order_present_flag">>)
           p3 == ue(<<"num_slice_groups_minus1">>)
           p4 == When(F(e, "num_slice_groups_minus1") > 0, slice_group_map(e))
           p5 == ue(<<"num_ref_idx_l0_active_minus1", "num_ref_idx_l1_active_minus1">>)
           p6 == u(1, <<"weighted_pred_flag">>)
           p7 == u(2, <<"weighted_bipred_idc">>)
           p8 == se(<<"pic_init_qp_minus26", "pic_init_qs_minus26", "chroma_qp_index_offset">>)
           p9 == u(1, <<"deblocking_filter_control_present_flag", "constrained_intra_pred_flag",
              "redundant_pic_cnt_present_flag">>)
           m1 == u(1, <<"transform_8x8_mode_flag">>)
           m3 == se(<<"second_chroma_qp_index_offset">>)
           many == 6 + 2 * F(e, "transform_8x8_mode_flag")
           p10 == When(F(e, "_more_rbsp_data_present") = 1,
                       m1 \o Opt(e, "pic_scaling_matrix_present_flag", ListFlags(many)) \o m3)
           All(p) == p1 \o p \o p3 \o p4 \o p5 \o p6 \o p7 \o p8 \o p9 \o p10
<1>m. many \in Int
  BY AtInt DEF F
<1>1. PpsSyntax(e) = All(p2) /\ pic_parameter_set("written", e) = All(q2)
  <2>1. ListsOf(e, "sent", many) = ListFlags(many) /\ ListsOf(e, "written", many) = ListFlags(many)
    BY <1>m, ListLoop
  <2>2. OrderFlag("sent") = "bottom_field_pic_order_in_frame_present_flag"
        /\ OrderFlag("written") = "pic_order_present_flag"
    BY DEF OrderFlag
  <2>3. PpsSyntax(e) = All(p2)
    BY <2>1, <2>2 DEF PpsSyntax, pic_parameter_set, ListsOf
  <2>4. pic_parameter_set("written", e) = All(q2)
    BY <2>1, <2>2 DEF pic_parameter_set, ListsOf
  <2> QED BY <2>3, <2>4
<1>2. /\ p1 \in S /\ p2 \in S /\ p3 \in S /\ p5 \in S /\ p6 \in S /\ p7 \in S /\ p8 \in S /\ p9 \in S
      /\ m1 \in S /\ m3 \in S
  BY Typed, PpsNames
<1>3. p4 \in S
  <2>1. slice_group_map(e) \in S
    <3>1. Agree(e, e, {})
      BY DEF Agree
    <3> QED BY <3>1, GroupLinks
  <2> QED BY <2>1, WhenIn DEF S, Syntax
<1>4. p10 \in S
  <2>1. ListFlags(many) \in S
    <3>1. 0 \in Nat
      OBVIOUS
    <3>2. u(1, <<"pic_scaling_list_present_flag">>) \in Loops
      BY LoopTyped, LoopNames
    <3> HIDE DEF many
    <3> QED BY <1>m, <3>1, <3>2, LoopIn, Groups DEF Loops, S, ListFlags
  <2>2. Opt(e, "pic_scaling_matrix_present_flag", ListFlags(many)) \in S
    BY <2>1, OptIn, PpsNames DEF S
  <2> DEFINE x == Opt(e, "pic_scaling_matrix_present_flag", ListFlags(many))
  <2> HIDE DEF x, m1, m3
  <2>3. m1 \o x \o m3 \in S
    BY <1>2, <2>2 DEF S, Syntax, x
  <2> QED BY <2>3, WhenIn DEF S, Syntax, x
<1>5. SameCoded(p2, q2, e) /\ SameCoded(p1 \o p2, p1 \o q2, e)
  <2>1. /\ p2 = << <<"u", 1, "entropy_coding_mode_flag", 0>>,
                   <<"u", 1, "bottom_field_pic_order_in_frame_present_flag", 0>> >>
        /\ q2 = << <<"u", 1, "entropy_coding_mode_flag", 0>>, <<"u", 1, OtherName, 0>> >>
    BY DEF u, OtherName
  <2>2. At(e, "bottom_field_pic_order_in_frame_present_flag", 0) = At(e, OtherName, 0)
    BY DEF F, OrderFlag
  <2> HIDE DEF p1, p2, q2
  <2>3. p1 \in Wider /\ p2 \in Wider
    BY <1>2 DEF S, Syntax, Wider, ElOf
  <2>4. q2 \in Wider
    <3>1. OtherName \notin Once /\ "entropy_coding_mode_flag" \notin Once /\ "entropy_coding_mode_flag" \in Names
      BY DEF Once, OtherName, Names, OfPps
    <3>2. \A name \in {"entropy_coding_mode_flag", OtherName} : <<"u", 1, name, 0>> \in ElOf(Names \cup {OtherName})
      BY <3>1 DEF ElOf, Codes
    <3> QED BY <2>1, <3>2 DEF Wider
  <2>5. SameCoded(p2, q2, e)
    BY <2>1, <2>2, <2>3, <2>4 DEF SameCoded
  <2> DEFINE A == ElOf(Names \cup {OtherName})
  <2>6. p1 \in Seq(A) /\ p2 \in Seq(A) /\ q2 \in Seq(A) /\ DOMAIN p2 = DOMAIN q2
    BY <2>3, <2>5 DEF SameCoded, Wider
  <2> HIDE DEF A
  <2>7. /\ p1 \o p2 \in Seq(A) /\ p1 \o q2 \in Seq(A) /\ DOMAIN (p1 \o p2) = DOMAIN (p1 \o q2)
    BY <2>6
  <2>8. ASSUME NEW k \in DOMAIN (p1 \o p2)
        PROVE  \/ (p1 \o p2)[k] = (p1 \o q2)[k]
               \/ \E j \in DOMAIN p2 : (p1 \o p2)[k] = p2[j] /\ (p1 \o q2)[k] = q2[j]
    <3>1. CASE k <= Len(p1)
      BY <2>6, <2>8, <3>1
    <3>2. CASE ~(k <= Len(p1))
      <4>1. k - Len(p1) \in DOMAIN p2 /\ (p1 \o p2)[k] = p2[k - Len(p1)] /\ (p1 \o q2)[k] = q2[k - Len(p1)]
        BY <2>6, <2>8, <3>2
      <4> QED BY <4>1
    <3> QED BY <3>1, <3>2
  <2>9. ASSUME NEW k \in DOMAIN (p1 \o p2)
        PROVE  LET a == (p1 \o p2)[k]
                   b == (p1 \o q2)[k]
               IN  a[1] = b[1] /\ a[2] = b[2] /\ At(e, a[3], a[4]) = At(e, b[3], b[4])
    <3>1. CASE (p1 \o p2)[k] = (p1 \o q2)[k]
      BY <3>1
    <3>2. CASE \E j \in DOMAIN p2 : (p1 \o p2)[k] = p2[j] /\ (p1 \o q2)[k] = q2[j]
      <4>1. PICK j \in DOMAIN p2 : (p1 \o p2)[k] = p2[j] /\ (p1 \o q2)[k] = q2[j]
        BY <3>2
      <4>2. p2[j][1] = q2[j][1] /\ p2[j][2] = q2[j][2] /\ At(e, p2[j][3], p2[j][4]) = At(e, q2[j][3], q2[j][4])
        BY <2>5 DEF SameCoded
      <4> QED BY ONLY <4>1, <4>2
    <3> QED BY <2>8, <3>1, <3>2
  <2> QED BY <2>5, <2>7, <2>9 DEF SameCoded, Wider, A
<1> HIDE DEF p1, p2, q2, p3, p4, p5, p6, p7, p8, p9, p10
<1>6. SameCoded(p1 \o p2 \o p3 \o p4 \o p5, p1 \o q2 \o p3 \o p4 \o p5, e)
  <2>1. SameCoded(p1 \o p2 \o p3, p1 \o q2 \o p3, e)
    BY <1>2, <1>5, WithMore
  <2>2. SameCoded(p1 \o p2 \o p3 \o p4, p1 \o q2 \o p3 \o p4, e)
    BY <1>3, <2>1, WithMore
  <2> QED BY <1>2, <2>2, WithMore
<1>7. SameCoded(p1 \o p2 \o p3 \o p4 \o p5 \o p6 \o p7, p1 \o q2 \o p3 \o p4 \o p5 \o p6 \o p7, e)
  <2>1. SameCoded(p1 \o p2 \o p3 \o p4 \o p5 \o p6, p1 \o q2 \o p3 \o p4 \o p5 \o p6, e)
    BY <1>2, <1>6, WithMore
  <2> QED BY <1>2, <2>1, WithMore
<1>8. SameCoded(p1 \o p2 \o p3 \o p4 \o p5 \o p6 \o p7 \o p8, p1 \o q2 \o p3 \o p4 \o p5 \o p6 \o p7 \o p8, e)
  BY <1>2, <1>7, WithMore
<1>9. SameCoded(p1 \o p2 \o p3 \o p4 \o p5 \o p6 \o p7 \o p8 \o p9, p1 \o q2 \o p3 \o p4 \o p5 \o p6 \o p7 \o p8 \o p9, e)
  BY <1>2, <1>8, WithMore
<1>10. SameCoded(All(p2), All(q2), e)
  BY <1>4, <1>9, WithMore
<1> HIDE DEF All
<1> QED BY <1>1, <1>10, SameBits DEF SameCoded

\* The write_ functions give back the RBSP of what was kept, where the encoder sent
\* what they write: reserved bits of 0, no flags of four more scaling lists, and the
\* flag that has another name where it is written not set. It is the first half of
\* WrittenAsRead.
SetsGivenBack ==
    Whole =>
      /\ /\ nal.type = 7 /\ ~UnknownProfile(nal.e) /\ ~TwoHrds(nal.e) /\ ~FourLists(nal.e)
         /\ F(nal.e, "reserved_zero_2bits") = 0
         => WriteTrailing(write_seq_parameter_set_rbsp(Sps)) = nal.bits
      /\ nal.type = 8 /\ ~WrongGuess(nal.e) /\ ~HasLists(nal.e) /\ F(nal.e, OrderFlag("read")) = 0
         => WriteTrailing(write_pic_parameter_set_rbsp(Pps)) = nal.bits
      /\ nal.type = 9 => WriteTrailing(write_access_unit_delimiter_rbsp(h.aud)) = nal.bits

\* A sequence parameter set is written as it was sent.
LEMMA SpsGivenBack ==
  ASSUME NEW n \in SpsNals, ~UnknownProfile(n.e), ~FourLists(n.e), F(n.e, "reserved_zero_2bits") = 0
  PROVE  WriteTrailing(write_seq_parameter_set_rbsp(n.e)) = n.bits
<1>1. PICK e : n = Unit(7, 1, e, Write(SpsSyntax(e), e)) /\ Legal(SpsSyntax(e), e, NoFields)
  BY SpsNal
<1>2. n.e = e /\ n.bits = WriteTrailing(Write(SpsSyntax(e), e))
  BY <1>1 DEF Unit
<1>3. <<"reserved_zero_2bits", 0>> \in DOMAIN e
  BY <1>1, <1>2, SpsSame
<1>4. e[<<"reserved_zero_2bits", 0>>] = 0
  BY <1>2, <1>3 DEF F, At
<1>5. e = [k \in DOMAIN e |-> e[k]]
  BY <1>1 DEF Legal
<1>6. Before(Only(<<"reserved_zero_2bits", 0>>, 0), e) = e
  <2> DEFINE key == <<"reserved_zero_2bits", 0>>
             f == Only(key, 0)
  <2>1. DOMAIN f = {key} /\ f[key] = 0
    BY DEF Only
  <2> HIDE DEF key, f
  <2>2. DOMAIN f \cup DOMAIN e = DOMAIN e
    BY <1>3, <2>1 DEF key
  <2>3. Before(f, e) = [k \in DOMAIN e |-> IF k \in DOMAIN f THEN f[k] ELSE e[k]]
    BY <2>2 DEF Before
  <2>4. \A k \in DOMAIN e : (IF k \in DOMAIN f THEN f[k] ELSE e[k]) = e[k]
    BY <1>4, <2>1 DEF key
  <2>5. Before(f, e) = e
    BY <1>5, <2>3, <2>4
  <2> QED BY <2>5 DEF f, key
<1>7. seq_parameter_set("written", e) = SpsSyntax(e)
  BY <1>2, SpsWrittenAsSent
<1> QED BY <1>2, <1>6, <1>7 DEF write_seq_parameter_set_rbsp

\* A picture parameter set is written as it was sent.
LEMMA PpsGivenBack ==
  ASSUME NEW n \in PpsNals, ~HasLists(n.e), F(n.e, OrderFlag("read")) = 0
  PROVE  WriteTrailing(write_pic_parameter_set_rbsp(n.e)) = n.bits
<1>1. PICK e, present : /\ n = Unit(8, 1, e, Write(PpsSyntax(e), e)) /\ present \in {0, 1}
                        /\ Legal(PpsSyntax(e), e, More(present))
  BY PpsNal
<1>2. n.e = e /\ n.bits = WriteTrailing(Write(PpsSyntax(e), e))
  BY <1>1 DEF Unit
<1>3. NoLists(e)
  <2> SUFFICES ASSUME NEW i PROVE At(e, ListFlag, i) = 0
    BY DEF NoLists
  <2>1. <<ListFlag, i>> \in DOMAIN e => e[<<ListFlag, i>>] = 0
    BY <1>2 DEF HasLists, ListFlag
  <2> QED BY <2>1 DEF At
<1>4. IntFields(e)
  BY <1>1 DEF Legal, IntFields
<1>5. PpsSyntax(e) \in Syntax(Names)
  BY <1>1, <1>3, PpsSame DEF Same
<1>6. F(e, OtherName) = 0
  <2>1. <<OtherName, 0>> \notin DOMAIN More(present)
    BY DEF OtherName, More, Only
  <2>2. ASSUME NEW k \in DOMAIN PpsSyntax(e) PROVE Key(PpsSyntax(e)[k]) # <<OtherName, 0>>
    <3>1. PpsSyntax(e)[k] \in ElOf(Names)
      BY <1>5 DEF Syntax
    <3>2. OtherName \notin Names
      BY DEF OtherName, Names, Once, Looped, OfSps, OfVui, OfPps
    <3> QED BY <3>1, <3>2 DEF ElOf, Key
  <2>3. <<OtherName, 0>> \notin DOMAIN e
    BY <1>1, <2>1, <2>2 DEF Legal
  <2> QED BY <2>3 DEF F, At
<1>7. F(e, OrderFlag("sent")) = F(e, OtherName)
  BY <1>2, <1>6 DEF OrderFlag
<1> QED BY <1>2, <1>3, <1>4, <1>7, PpsWrittenAsSent DEF write_pic_parameter_set_rbsp

\* A step that reads a parameter set or a delimiter leaves it to be written as it was
\* sent.
LEMMA SetsGivenBackStep ==
  ASSUME Shape, Next
  PROVE  SetsGivenBack'
<1> SUFFICES ASSUME Whole'
             PROVE  /\ /\ nal'.type = 7 /\ ~UnknownProfile(nal'.e) /\ ~TwoHrds(nal'.e) /\ ~FourLists(nal'.e)
                       /\ F(nal'.e, "reserved_zero_2bits") = 0
                       => WriteTrailing(write_seq_parameter_set_rbsp(Sps')) = nal'.bits
                    /\ nal'.type = 8 /\ ~WrongGuess(nal.e)' /\ ~HasLists(nal'.e) /\ F(nal'.e, OrderFlag("read")) = 0
                       => WriteTrailing(write_pic_parameter_set_rbsp(Pps')) = nal'.bits
                    /\ nal'.type = 9 => WriteTrailing(write_access_unit_delimiter_rbsp(h'.aud)) = nal'.bits
  BY DEF SetsGivenBack, WrongGuess
<1>1. nal' # None /\ nal'.cut = FALSE
  BY DEF None, Whole
<1>2. PICK n \in AllNals : read_nal_unit(n) /\ nal' = n
  BY <1>1, WhichNal
<1>k. SetsKept'
  BY SetsKeptStep
<1>3. ASSUME nal'.type = 7, ~UnknownProfile(nal'.e), ~TwoHrds(nal'.e), ~FourLists(nal'.e),
             F(nal'.e, "reserved_zero_2bits") = 0
      PROVE  WriteTrailing(write_seq_parameter_set_rbsp(Sps')) = nal'.bits
  <2>1. n \in SpsNals
    BY <1>2, <1>3, NalTypes DEF AllNals
  <2>2. Sps' = nal'.e
    BY <1>3, <1>k DEF SetsKept
  <2> QED BY <1>2, <1>3, <2>1, <2>2, SpsGivenBack
<1>4. ASSUME nal'.type = 8, ~WrongGuess(nal.e)', ~HasLists(nal'.e), F(nal'.e, OrderFlag("read")) = 0
      PROVE  WriteTrailing(write_pic_parameter_set_rbsp(Pps')) = nal'.bits
  <2>1. n \in PpsNals
    BY <1>2, <1>4, NalTypes DEF AllNals
  <2>2. Pps' = nal'.e
    BY <1>4, <1>k DEF SetsKept
  <2> QED BY <1>2, <1>4, <2>1, <2>2, PpsGivenBack
<1>5. ASSUME nal'.type = 9 PROVE WriteTrailing(write_access_unit_delimiter_rbsp(h'.aud)) = nal'.bits
  <2>1. n \in AudNals
    BY <1>2, <1>5, NalTypes DEF AllNals
  <2>2. h'.aud = n.e
    BY <1>2, <2>1, AudStored
  <2>3. PICK e : n = Unit(9, 0, e, Write(access_unit_delimiter(e), e))
    BY <2>1, AudNal
  <2> QED BY <1>2, <2>2, <2>3 DEF Unit, write_access_unit_delimiter_rbsp
<1> QED BY <1>3, <1>4, <1>5

\* Parameter sets and delimiters are written as they were sent, where they can be.
THEOREM SetsGivenBackAlways == Spec => []SetsGivenBack
<1>1. Init => Shape /\ SetsGivenBack
  BY ShapeInductive DEF Init, SetsGivenBack, Whole, None
<1>2. (Shape /\ SetsGivenBack) /\ [Next]_vars => (Shape /\ SetsGivenBack)'
  <2> SUFFICES ASSUME Shape, SetsGivenBack, [Next]_vars PROVE Shape' /\ SetsGivenBack'
    OBVIOUS
  <2>1. Shape'
    BY ShapeInductive
  <2>2. CASE UNCHANGED vars
    BY <2>1, <2>2 DEF vars, SetsGivenBack, Whole, WrongGuess, Sps, Pps
  <2>3. CASE Next
    BY <2>1, <2>3, SetsGivenBackStep
  <2> QED BY <2>2, <2>3
<1> QED BY <1>1, <1>2, PTL DEF Spec

=============================================================================
