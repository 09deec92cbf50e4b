--------------------------- MODULE Client_proofs ----------------------------
(***************************************************************************)
(* Proofs about a client and about the headers it reads:                   *)
(*   - SparseInt, for all 64-bit ids and all 32-bit error codes: the       *)
(*     header of a reply is read back as it was written;                   *)
(*   - Client, for any callers, any number of requests and any socket      *)
(*     buffer: its futures and the client itself live as long as they are  *)
(*     used, no request is orphaned by a close, epoll is told the truth,   *)
(*     only whole requests are sent, and every call is completed as        *)
(*     RpcCall promises.                                                   *)
(***************************************************************************)
EXTENDS Client, SparseInt, FiniteSetTheorems, SequenceTheorems, TLAPS

-----------------------------------------------------------------------------
(* Integers of a reply header: SparseInt                                   *)

\* Induction in the form that the proofs use: a set of numbers has a least one.
LEMMA SmallestNat ==
    ASSUME NEW T, T \subseteq Nat, T # {}
    PROVE  \E x \in T : \A y \in T : x <= y
<1>1. PICK x \in T : \A y \in T : <<y, x>> \notin OpToRel(<, Nat)
    BY NatLessThanWellFounded, WFMin, Zenon
<1>2. ASSUME NEW y \in T PROVE ~(y < x)
    BY <1>1, Zenon DEF OpToRel
<1> QED BY <1>2

\* An integer of w bytes.
Word(w) == [0 .. (w - 1) -> Byte]

\* The powers of two that the bands use.
LEMMA Powers == /\ 2^0 = 1 /\ 2^1 = 2 /\ 2^2 = 4 /\ 2^3 = 8 /\ 2^4 = 16
                /\ 2^5 = 32 /\ 2^6 = 64 /\ 2^7 = 128 /\ 2^8 = 256
OBVIOUS

\* The sign bits that a short band leaves in its first byte.
LEMMA Powers7 == ASSUME NEW n \in 1 .. 7 PROVE 2^(7 - n) \in {1, 2, 4, 8, 16, 32, 64}
<1>1. CASE n = 1
    BY <1>1, Powers
<1>2. CASE n = 2
    BY <1>2, Powers
<1>3. CASE n = 3
    BY <1>3, Powers
<1>4. CASE n = 4
    BY <1>4, Powers
<1>5. CASE n = 5
    BY <1>5, Powers
<1>6. CASE n = 6
    BY <1>6, Powers
<1>7. CASE n = 7
    BY <1>7, Powers
<1> QED BY <1>1, <1>2, <1>3, <1>4, <1>5, <1>6, <1>7

\* Bits of an integer and bits of its bytes.
LEMMA BitOf ==
    ASSUME NEW v, NEW k \in Nat, NEW j \in 0 .. 7
    PROVE  Bit(v, 8 * k + j) = (v[k] \div 2^j) % 2
<1>1. (8 * k + j) \div 8 = k /\ (8 * k + j) % 8 = j
    OBVIOUS
<1> QED BY <1>1 DEF Bit

\* An i32 has 32 bits and an i64 has 64.
LEMMA Widths ==
    ASSUME NEW w \in {4, 8}, NEW v \in Word(w)
    PROVE  Bits(v) = 8 * w /\ DOMAIN v = 0 .. (w - 1)
BY DEF Bits, Word

\* The bits of byte x from p up are all s.
SignFrom(x, p, s) == \A j \in p .. 7 : (x \div 2^j) % 2 = s

\* Such a byte is below 2^p, or less than 2^p below 256.
LEMMA TopBits ==
    ASSUME NEW x \in Byte, NEW p \in 0 .. 7, NEW s \in {0, 1}, SignFrom(x, p, s)
    PROVE  IF s = 0 THEN x < 2^p ELSE x >= 256 - 2^p
<1>1. \A j \in 0 .. 7 : j >= p => (x \div 2^j) % 2 = s
    BY DEF SignFrom
<1>2. x \in Int /\ x >= 0 /\ x <= 255
    BY DEF Byte
<1>3. CASE p = 0
    BY <1>1, <1>2, <1>3, Powers
<1>4. CASE p = 1
    BY <1>1, <1>2, <1>4, Powers
<1>5. CASE p = 2
    BY <1>1, <1>2, <1>5, Powers
<1>6. CASE p = 3
    BY <1>1, <1>2, <1>6, Powers
<1>7. CASE p = 4
    BY <1>1, <1>2, <1>7, Powers
<1>8. CASE p = 5
    BY <1>1, <1>2, <1>8, Powers
<1>9. CASE p = 6
    BY <1>1, <1>2, <1>9, Powers
<1>10. CASE p = 7
    BY <1>1, <1>2, <1>10, Powers
<1> QED BY <1>3, <1>4, <1>5, <1>6, <1>7, <1>8, <1>9, <1>10

\* A value in band n: the bytes above byte n - 1 are the sign, and so are the top
\* bits of that byte.
Fits(v, n, w) ==
    \/ v[n - 1] < 2^(7 - n) /\ \A k \in n .. (w - 1) : v[k] = 0
    \/ v[n - 1] >= 256 - 2^(7 - n) /\ \A k \in n .. (w - 1) : v[k] = 255

\* What val_size tests bit by bit, byte by byte.
LEMMA BandFits ==
    ASSUME NEW w \in {4, 8}, NEW v \in Word(w), NEW n \in 1 .. 7, n <= w, InBand(v, n)
    PROVE  Fits(v, n, w)
<1> DEFINE s == Bit(v, 8 * w - 1)
<1>1. \A k \in (7 * n - 1) .. (8 * w - 1) : Bit(v, k) = s
    BY Widths DEF InBand
<1>2. \A k \in 0 .. (w - 1) : v[k] \in Byte
    BY DEF Word
<1>3. s \in {0, 1}
    <2>1. s = (v[w - 1] \div 2^7) % 2
        <3>1. w - 1 \in Nat /\ 8 * w - 1 = 8 * (w - 1) + 7
            OBVIOUS
        <3>2. Bit(v, 8 * (w - 1) + 7) = (v[w - 1] \div 2^7) % 2
            BY <3>1, BitOf
        <3> QED BY <3>1, <3>2
    <2>2. v[w - 1] \in Byte
        BY <1>2
    <2> QED BY <2>1, <2>2, Powers DEF Byte
<1> HIDE DEF s
<1>4. ASSUME NEW k \in n .. (w - 1) PROVE v[k] = 255 * s
    <2>1. SignFrom(v[k], 0, s)
        <3> SUFFICES ASSUME NEW j \in 0 .. 7 PROVE (v[k] \div 2^j) % 2 = s
            BY DEF SignFrom
        <3>1. 8 * k + j \in (7 * n - 1) .. (8 * w - 1) /\ k \in Nat
            OBVIOUS
        <3> QED BY <1>1, <3>1, BitOf
    <2>2. v[k] \in Byte
        BY <1>2
    <2>3. IF s = 0 THEN v[k] < 2^0 ELSE v[k] >= 256 - 2^0
        BY <1>3, <2>1, <2>2, TopBits
    <2> QED BY <1>3, <2>2, <2>3, Powers DEF Byte
<1>5. IF s = 0 THEN v[n - 1] < 2^(7 - n) ELSE v[n - 1] >= 256 - 2^(7 - n)
    <2>1. SignFrom(v[n - 1], 7 - n, s)
        <3> SUFFICES ASSUME NEW j \in (7 - n) .. 7 PROVE (v[n - 1] \div 2^j) % 2 = s
            BY DEF SignFrom
        <3>1. 8 * (n - 1) + j \in (7 * n - 1) .. (8 * w - 1) /\ n - 1 \in Nat /\ j \in 0 .. 7
            OBVIOUS
        <3> QED BY <1>1, <3>1, BitOf
    <2>2. v[n - 1] \in Byte /\ 7 - n \in 0 .. 7
        BY <1>2
    <2> QED BY <1>3, <2>1, <2>2, TopBits
<1>6. CASE s = 0
    BY <1>4, <1>5, <1>6 DEF Fits
<1>7. CASE s = 1
    BY <1>4, <1>5, <1>7 DEF Fits
<1> QED BY <1>3, <1>6, <1>7

\* The bands of the first byte.
BufBand(n) == (256 - 2^(9 - n)) .. (255 - 2^(8 - n))

\* The bands of the first byte, written out.
LEMMA BufBands ==
    /\ BufBand(1) = 0 .. 127 /\ BufBand(2) = 128 .. 191 /\ BufBand(3) = 192 .. 223
    /\ BufBand(4) = 224 .. 239 /\ BufBand(5) = 240 .. 247 /\ BufBand(6) = 248 .. 251
    /\ BufBand(7) = 252 .. 253 /\ BufBand(8) = 254 .. 254
BY Powers DEF BufBand

\* buf_size finds the band from the first byte.
LEMMA BufSize ==
    ASSUME NEW n \in 1 .. 8, NEW b \in BufBand(n)
    PROVE  buf_size(b) = n
<1>1. \A m \in 1 .. 8 : b \in BufBand(m) => m = n
    <2> SUFFICES ASSUME NEW m \in 1 .. 8, b \in BufBand(m) PROVE m = n
        OBVIOUS
    <2> DEFINE Row(i, l, h) == i = n => b \in l .. h
               Col(i, l, h) == i = m => b \in l .. h
    <2>1. /\ Row(1, 0, 127) /\ Row(2, 128, 191) /\ Row(3, 192, 223) /\ Row(4, 224, 239)
          /\ Row(5, 240, 247) /\ Row(6, 248, 251) /\ Row(7, 252, 253) /\ Row(8, 254, 254)
        BY BufBands
    <2>2. /\ Col(1, 0, 127) /\ Col(2, 128, 191) /\ Col(3, 192, 223) /\ Col(4, 224, 239)
          /\ Col(5, 240, 247) /\ Col(6, 248, 251) /\ Col(7, 252, 253) /\ Col(8, 254, 254)
        BY BufBands
    <2> QED BY <2>1, <2>2
<1>2. b # 255
    <2> DEFINE Row(i, l, h) == i = n => b \in l .. h
    <2>1. /\ Row(1, 0, 127) /\ Row(2, 128, 191) /\ Row(3, 192, 223) /\ Row(4, 224, 239)
          /\ Row(5, 240, 247) /\ Row(6, 248, 251) /\ Row(7, 252, 253) /\ Row(8, 254, 254)
        BY BufBands
    <2> QED BY <2>1
<1>3. (CHOOSE m \in 1 .. 8 : b \in BufBand(m)) = n
    BY <1>1, Zenon
<1>4. buf_size(b) = CHOOSE m \in 1 .. 8 : b \in BufBand(m)
    BY <1>2 DEF buf_size, BufBand
<1> QED BY <1>3, <1>4

\* The first byte of a short band carries the tag, and the top byte of the value.
FirstByte(x, n) == (x % 2^(8 - n)) + (256 - 2^(9 - n))
TopByte(b, n) == LET top == b % 2^(8 - n)
                 IN  IF (top \div 2^(7 - n)) % 2 = 1 THEN 256 - 2^(7 - n) + (top % 2^(7 - n)) ELSE top

\* The top byte of a value in band n survives the tag, with its sign.
LEMMA TopByteBack ==
    ASSUME NEW x \in Byte, NEW n \in 1 .. 7, x < 2^(7 - n) \/ x >= 256 - 2^(7 - n)
    PROVE  /\ FirstByte(x, n) \in BufBand(n) /\ FirstByte(x, n) \in Byte /\ TopByte(FirstByte(x, n), n) = x
           /\ ((FirstByte(x, n) % 2^(8 - n)) \div 2^(7 - n)) % 2 = (IF x < 2^(7 - n) THEN 0 ELSE 1)
<1> USE Powers DEF FirstByte, TopByte, BufBand, Byte
<1>1. CASE n = 1
    BY <1>1
<1>2. CASE n = 2
    BY <1>2
<1>3. CASE n = 3
    BY <1>3
<1>4. CASE n = 4
    BY <1>4
<1>5. CASE n = 5
    BY <1>5
<1>6. CASE n = 6
    BY <1>6
<1>7. CASE n = 7
    BY <1>7
<1> QED BY <1>1, <1>2, <1>3, <1>4, <1>5, <1>6, <1>7

\* val_size is the first band that holds the value; an i32 needs at most five bytes.
LEMMA ValSize ==
    ASSUME NEW w \in {4, 8}, NEW v \in Word(w)
    PROVE  /\ val_size(v) \in 1 .. 9 /\ (val_size(v) < 9 => InBand(v, val_size(v)))
           /\ \A m \in 1 .. 8 : m < val_size(v) => ~InBand(v, m)
           /\ w = 4 => val_size(v) <= 5
<1> DEFINE T == {n \in 1 .. 8 : InBand(v, n)}
           First(n) == n \in 1 .. 8 /\ InBand(v, n) /\ \A m \in 1 .. (n - 1) : ~InBand(v, m)
<1>1. ASSUME w = 4 PROVE InBand(v, 5)
    <2>1. (7 * 5 - 1) .. (Bits(v) - 1) = {}
        BY <1>1, Widths
    <2> QED BY <2>1 DEF InBand
<1>2. CASE T # {}
    <2>1. PICK n \in T : \A m \in T : n <= m
        <3>1. T \subseteq Nat
            OBVIOUS
        <3> HIDE DEF T
        <3> QED BY <1>2, <3>1, SmallestNat
    <2>2. First(n)
        BY <2>1
    <2>3. val_size(v) = CHOOSE m \in 1 .. 8 : InBand(v, m) /\ \A i \in 1 .. (m - 1) : ~InBand(v, i)
        BY <2>1 DEF val_size
    <2>4. First(val_size(v))
        BY <2>2, <2>3, Zenon
    <2> HIDE DEF T
    <2> QED BY <1>1, <2>4
<1>3. CASE T = {}
    <2>1. \A n \in 1 .. 8 : ~InBand(v, n)
        BY <1>3
    <2>2. val_size(v) = 9
        BY <2>1 DEF val_size
    <2> QED BY <1>1, <2>1, <2>2
<1> QED BY <1>2, <1>3

\* The short bands are read back, whatever follows them in the buffer.
LEMMA ShortBack ==
    ASSUME NEW w \in {4, 8}, NEW v \in Word(w), NEW n \in 1 .. 7, n <= w, InBand(v, n), NEW buf,
           \A k \in 1 .. n : buf[k] = Short(v, n)[k]
    PROVE  /\ Short(v, n) \in [1 .. n -> Byte] /\ Short(v, n)[1] \in BufBand(n)
           /\ Extend(buf, n, w) = v
<1> DEFINE x == v[n - 1]
<1>1. x \in Byte /\ \A k \in 0 .. (w - 1) : v[k] \in Byte
    BY DEF Word
<1>2. Fits(v, n, w)
    BY BandFits
<1>3. x < 2^(7 - n) \/ x >= 256 - 2^(7 - n)
    BY <1>2 DEF Fits
<1> HIDE DEF x
<1>4. /\ FirstByte(x, n) \in BufBand(n) /\ FirstByte(x, n) \in Byte /\ TopByte(FirstByte(x, n), n) = x
      /\ ((FirstByte(x, n) % 2^(8 - n)) \div 2^(7 - n)) % 2 = (IF x < 2^(7 - n) THEN 0 ELSE 1)
    BY <1>1, <1>3, TopByteBack
<1>5. Short(v, n) = [k \in 1 .. n |-> IF k = 1 THEN FirstByte(x, n) ELSE v[n - k]]
    BY DEF Short, FirstByte, x
<1>6. Short(v, n) \in [1 .. n -> Byte] /\ Short(v, n)[1] = FirstByte(x, n)
    BY <1>1, <1>4, <1>5
<1>7. buf[1] = FirstByte(x, n) /\ \A k \in 2 .. n : buf[k] = v[n - k]
    BY <1>5
<1> DEFINE neg == x >= 2^(7 - n)
           X == Extend(buf, n, w)
<1>8. X = [k \in 0 .. (w - 1) |->
             IF k < n - 1 THEN buf[n - k]
             ELSE IF k = n - 1 THEN TopByte(buf[1], n)
             ELSE IF ((buf[1] % 2^(8 - n)) \div 2^(7 - n)) % 2 = 1 THEN 255 ELSE 0]
    BY Zenon DEF Extend, TopByte
<1>9. ASSUME NEW k \in 0 .. (w - 1) PROVE X[k] = v[k]
    <2>1. CASE k < n - 1
        <3>1. X[k] = buf[n - k]
            BY <1>8, <2>1
        <3>2. n - k \in 2 .. n /\ n - (n - k) = k
            BY <2>1
        <3> QED BY <1>7, <3>1, <3>2
    <2>2. CASE k = n - 1
        BY <1>4, <1>7, <1>8, <2>2 DEF x
    <2>3. CASE k > n - 1
        <3>1. X[k] = IF x < 2^(7 - n) THEN 0 ELSE 255
            <4>1. X[k] = IF ((buf[1] % 2^(8 - n)) \div 2^(7 - n)) % 2 = 1 THEN 255 ELSE 0
                BY <1>8, <2>3
            <4> QED BY <1>4, <1>7, <4>1
        <3>2. k \in n .. (w - 1)
            BY <2>3
        <3>3. v[k] = IF x < 2^(7 - n) THEN 0 ELSE 255
            <4>1. ~(x < 2^(7 - n) /\ x >= 256 - 2^(7 - n))
                <5>1. 2^(7 - n) \in {1, 2, 4, 8, 16, 32, 64}
                    BY Powers7
                <5> QED BY <1>1, <5>1 DEF Byte
            <4> QED BY <1>2, <3>2, <4>1 DEF Fits, x
        <3> QED BY <3>1, <3>3
    <2> QED BY <2>1, <2>2, <2>3
<1>10. X = v
    <2>1. DOMAIN X = 0 .. (w - 1) /\ v \in [0 .. (w - 1) -> Byte]
        BY <1>8 DEF Word
    <2>2. X = [k \in 0 .. (w - 1) |-> X[k]]
        BY <1>8
    <2> HIDE DEF X
    <2> QED BY <1>9, <2>1, <2>2
<1> QED BY <1>4, <1>6, <1>10

\* A tag byte and the bytes of the value, the most significant first.
LEMMA TaggedIs ==
    ASSUME NEW w \in {4, 8}, NEW v \in Word(w), NEW tag \in Byte
    PROVE  /\ Tagged(tag, v) \in Seq(Byte) /\ Len(Tagged(tag, v)) = w + 1
           /\ Tagged(tag, v)[1] = tag /\ \A k \in 0 .. (w - 1) : Tagged(tag, v)[w + 1 - k] = v[k]
<1> DEFINE t == [k \in 1 .. w |-> v[w - k]]
<1>1. Tagged(tag, v) = <<tag>> \o t
    <2>1. Bits(v) \div 8 = w
        BY Widths
    <2> QED BY <2>1 DEF Tagged
<1>2. t \in Seq(Byte) /\ Len(t) = w
    <2>1. t \in [1 .. w -> Byte]
        BY DEF Word
    <2> QED BY <2>1
<1>3. \A k \in 1 .. w : t[k] = v[w - k]
    OBVIOUS
<1> HIDE DEF t
<1>4. <<tag>> \in Seq(Byte) /\ Len(<<tag>>) = 1
    OBVIOUS
<1>5. /\ Tagged(tag, v) \in Seq(Byte) /\ Len(Tagged(tag, v)) = w + 1 /\ Tagged(tag, v)[1] = tag
      /\ \A i \in 1 .. w : Tagged(tag, v)[i + 1] = t[i]
    BY <1>1, <1>2, <1>4
<1>6. ASSUME NEW k \in 0 .. (w - 1) PROVE Tagged(tag, v)[w + 1 - k] = v[k]
    <2>1. w - k \in 1 .. w /\ (w - k) + 1 = w + 1 - k /\ w - (w - k) = k
        OBVIOUS
    <2> QED BY <1>3, <1>5, <2>1
<1> QED BY <1>5, <1>6

\* What a concatenation of bytes holds.
LEMMA ConcatIs ==
    ASSUME NEW a \in Seq(Byte), NEW b \in Seq(Byte)
    PROVE  /\ Len(a \o b) = Len(a) + Len(b) /\ \A k \in 1 .. Len(a) : (a \o b)[k] = a[k] /\ a[k] \in Byte
           /\ \A k \in 1 .. Len(b) : (a \o b)[Len(a) + k] = b[k] /\ b[k] \in Byte
OBVIOUS

\* The encoding of an i32 is read back from any buffer that begins with it.
LEMMA RoundTrip32 ==
    ASSUME NEW v \in Word(4)
    PROVE  /\ dump_i32(v) \in Seq(Byte) /\ Len(dump_i32(v)) = val_size(v) /\ val_size(v) \in 1 .. 5
           /\ buf_size(dump_i32(v)[1]) = val_size(v)
           /\ \A buf \in [1 .. 5 -> Byte] :
                 (\A k \in 1 .. val_size(v) : buf[k] = dump_i32(v)[k]) => load_i32(buf) = v
<1> DEFINE n == val_size(v)
           b == dump_i32(v)
<1>1. n \in 1 .. 5 /\ InBand(v, n)
    BY ValSize
<1> HIDE DEF n
<1>2. CASE n < 5
    <2>1. b = Short(v, n)
        BY <1>2 DEF dump_i32, n
    <2>2. n \in 1 .. 7 /\ n <= 4
        BY <1>1, <1>2
    <2>3. b \in [1 .. n -> Byte] /\ b[1] \in BufBand(n)
        <3>1. \A k \in 1 .. n : Short(v, n)[k] = Short(v, n)[k]
            OBVIOUS
        <3>2. Short(v, n) \in [1 .. n -> Byte] /\ Short(v, n)[1] \in BufBand(n)
            BY <1>1, <1>2, <2>2, <3>1, ShortBack
        <3> QED BY <2>1, <3>2
    <2>4. b \in Seq(Byte) /\ Len(b) = n /\ 1 \in 1 .. n
        <3> HIDE DEF b
        <3> QED BY <1>1, <2>3
    <2>5. buf_size(b[1]) = n
        BY <1>1, <2>3, BufSize
    <2>6. ASSUME NEW buf \in [1 .. 5 -> Byte], \A k \in 1 .. n : buf[k] = b[k] PROVE load_i32(buf) = v
        <3>1. Extend(buf, n, 4) = v
            BY <1>1, <2>1, <2>2, <2>6, ShortBack
        <3>2. buf_size(buf[1]) = n
            BY <2>4, <2>5, <2>6
        <3> QED BY <1>2, <3>1, <3>2 DEF load_i32
    <2> QED BY <1>1, <2>4, <2>5, <2>6 DEF n
<1>3. CASE n = 5
    <2>1. PICK tag \in {240, 247} : b = Tagged(tag, v)
        BY <1>3 DEF dump_i32, n
    <2>2. tag \in Byte /\ tag \in BufBand(5)
        BY <2>1, BufBands DEF Byte
    <2>3. /\ b \in Seq(Byte) /\ Len(b) = 5 /\ b[1] = tag /\ \A k \in 0 .. 3 : b[5 - k] = v[k]
        BY <2>1, <2>2, TaggedIs
    <2> HIDE DEF b
    <2>4. buf_size(b[1]) = 5
        BY <2>2, <2>3, BufSize
    <2>5. ASSUME NEW buf \in [1 .. 5 -> Byte], \A k \in 1 .. 5 : buf[k] = b[k] PROVE load_i32(buf) = v
        <3>1. load_i32(buf) = [k \in 0 .. 3 |-> buf[5 - k]]
            BY <2>4, <2>5 DEF load_i32
        <3>2. \A k \in 0 .. 3 : buf[5 - k] = v[k]
            BY <2>3, <2>5
        <3> QED BY <3>1, <3>2 DEF Word
    <2> QED BY <1>1, <1>3, <2>3, <2>4, <2>5 DEF n, b
<1> QED BY <1>1, <1>2, <1>3

\* So is that of an i64, but for the low byte of the 8 byte band; the band, and
\* so the size, is read back as well.
LEMMA RoundTrip64 ==
    ASSUME NEW v \in Word(8)
    PROVE  /\ dump_i64(v) \in Seq(Byte) /\ Len(dump_i64(v)) = val_size(v) /\ val_size(v) \in 1 .. 9
           /\ buf_size(dump_i64(v)[1]) = val_size(v)
           /\ \A buf \in [1 .. 9 -> Byte] :
                 (\A k \in 1 .. val_size(v) : buf[k] = dump_i64(v)[k]) =>
                     /\ val_size(load_i64(buf)) = val_size(v)
                     /\ \A k \in 0 .. 7 : k > 0 \/ ~Lossy(v) => load_i64(buf)[k] = v[k]
<1> DEFINE n == val_size(v)
           b == dump_i64(v)
<1>1. n \in 1 .. 9 /\ (n < 9 => InBand(v, n)) /\ \A m \in 1 .. 8 : m < n => ~InBand(v, m)
    BY ValSize
<1> HIDE DEF n
<1>2. CASE n < 8
    <2>1. b = Short(v, n)
        BY <1>2 DEF dump_i64, n
    <2>2. n \in 1 .. 7 /\ n <= 8
        BY <1>1, <1>2
    <2>3. b \in [1 .. n -> Byte] /\ b[1] \in BufBand(n)
        <3>1. \A k \in 1 .. n : Short(v, n)[k] = Short(v, n)[k]
            OBVIOUS
        <3>2. Short(v, n) \in [1 .. n -> Byte] /\ Short(v, n)[1] \in BufBand(n)
            <4>1. InBand(v, n) /\ 8 \in {4, 8}
                BY <1>1, <1>2
            <4> QED BY <2>2, <3>1, <4>1, ShortBack
        <3> QED BY <2>1, <3>2
    <2>4. b \in Seq(Byte) /\ Len(b) = n /\ 1 \in 1 .. n
        <3> HIDE DEF b
        <3> QED BY <1>1, <2>3
    <2>5. buf_size(b[1]) = n
        BY <2>2, <2>3, BufSize
    <2>6. ASSUME NEW buf \in [1 .. 9 -> Byte], \A k \in 1 .. n : buf[k] = b[k] PROVE load_i64(buf) = v
        <3>1. Extend(buf, n, 8) = v
            BY <1>1, <2>1, <2>2, <2>6, ShortBack
        <3>2. buf_size(buf[1]) = n
            BY <2>4, <2>5, <2>6
        <3> QED BY <1>2, <3>1, <3>2 DEF load_i64
    <2> QED BY <1>1, <2>4, <2>5, <2>6 DEF n
<1>3. CASE n = 8
    <2> DEFINE t == Tagged(254, v)
    <2>1. b = SubSeq(t, 1, 8)
        BY <1>3 DEF dump_i64, n
    <2>2. /\ t \in Seq(Byte) /\ Len(t) = 9 /\ t[1] = 254 /\ \A k \in 0 .. 7 : t[9 - k] = v[k]
        <3>1. 254 \in Byte /\ 8 \in {4, 8} /\ 8 + 1 = 9
            BY DEF Byte
        <3> QED BY <3>1, TaggedIs
    <2> HIDE DEF t
    <2>3. b \in Seq(Byte) /\ Len(b) = 8 /\ \A k \in 1 .. 8 : b[k] = t[k]
        <3>1. /\ SubSeq(t, 1, 8) \in Seq(Byte) /\ Len(SubSeq(t, 1, 8)) = 8
              /\ \A k \in 1 .. 8 : SubSeq(t, 1, 8)[k] = t[k]
            <4>1. 8 \in 0 .. Len(t)
                BY <2>2
            <4>2. \A i \in 0 .. Len(t) : /\ SubSeq(t, 1, i) \in Seq(Byte) /\ Len(SubSeq(t, 1, i)) = i
                                        /\ \A k \in 1 .. i : SubSeq(t, 1, i)[k] = t[k]
                <5>1. t \in Seq(Byte)
                    BY <2>2
                <5> QED BY <5>1
            <4> QED BY <4>1, <4>2, Zenon
        <3> HIDE DEF b
        <3> QED BY <2>1, <3>1
    <2> HIDE DEF b
    <2>4. buf_size(b[1]) = 8
        BY <2>2, <2>3, BufBands, BufSize
    <2>5. Lossy(v)
        BY <1>1, <1>3 DEF Lossy
    <2>6. ASSUME NEW buf \in [1 .. 9 -> Byte], \A k \in 1 .. 8 : buf[k] = b[k]
          PROVE  val_size(load_i64(buf)) = 8 /\ \A k \in 1 .. 7 : load_i64(buf)[k] = v[k]
        <3> DEFINE l == load_i64(buf)
        <3>1. l = [k \in 0 .. 7 |-> buf[9 - k]]
            BY <2>4, <2>6 DEF load_i64
        <3>2. l \in Word(8)
            BY <3>1 DEF Word
        <3>3. \A k \in 1 .. 7 : l[k] = v[k]
            BY <2>2, <2>3, <2>6, <3>1
        <3> HIDE DEF l
        <3>4. \A k \in 8 .. 63 : Bit(l, k) = Bit(v, k)
            <4> TAKE k \in 8 .. 63
            <4>1. k \div 8 \in 1 .. 7
                OBVIOUS
            <4> QED BY <3>3, <4>1 DEF Bit
        <3>5. Bits(l) = 64 /\ Bits(v) = 64
            BY <3>2, Widths
        <3>6. InBand(l, 8) /\ ~InBand(l, 7)
            <4>1. InBand(v, 8) /\ ~InBand(v, 7)
                BY <2>5 DEF Lossy
            <4> QED BY <3>4, <3>5, <4>1 DEF InBand
        <3>7. \A m \in 1 .. 7 : ~InBand(l, m)
            BY <3>5, <3>6 DEF InBand
        <3>8. val_size(l) \in 1 .. 9 /\ (val_size(l) < 9 => InBand(l, val_size(l))) /\ ~(8 < val_size(l))
            BY <3>2, <3>6, ValSize
        <3>9. val_size(l) = 8
            BY <3>7, <3>8
        <3> QED BY <3>3, <3>9 DEF l
    <2>7. \A k \in 0 .. 7 : k > 0 \/ ~Lossy(v) => k \in 1 .. 7
        BY <2>5
    <2> QED BY <1>1, <1>3, <2>3, <2>4, <2>6, <2>7 DEF n, b
<1>4. CASE n = 9
    <2>1. b = Tagged(255, v)
        BY <1>4 DEF dump_i64, n
    <2>2. /\ b \in Seq(Byte) /\ Len(b) = 9 /\ b[1] = 255 /\ \A k \in 0 .. 7 : b[9 - k] = v[k]
        <3>1. 255 \in Byte /\ 8 \in {4, 8} /\ 8 + 1 = 9
            BY DEF Byte
        <3> QED BY <2>1, <3>1, TaggedIs
    <2> HIDE DEF b
    <2>3. buf_size(b[1]) = 9
        BY <2>2 DEF buf_size
    <2>4. ASSUME NEW buf \in [1 .. 9 -> Byte], \A k \in 1 .. 9 : buf[k] = b[k] PROVE load_i64(buf) = v
        <3>1. load_i64(buf) = [k \in 0 .. 7 |-> buf[9 - k]]
            BY <2>3, <2>4 DEF load_i64
        <3>2. \A k \in 0 .. 7 : buf[9 - k] = v[k]
            BY <2>2, <2>4
        <3> QED BY <3>1, <3>2 DEF Word
    <2> QED BY <1>1, <1>4, <2>2, <2>3, <2>4 DEF n, b
<1> QED BY <1>1, <1>2, <1>3, <1>4

-----------------------------------------------------------------------------
(* The header                                                              *)

\* The inductive invariant: what is on the stream is the header's encoding, and
\* what was loaded is the header as far as it can be.
HeaderInv ==
    /\ header # NoHeader => header[1] \in Word(8) /\ header[2] \in Word(4)
    /\ stream # <<>> => header # NoHeader /\ stream = dump_i64(header[1]) \o dump_i32(header[2])
    /\ loaded # NoHeader => header # NoHeader /\ stream = <<>>
    /\ HeaderReadBack

\* Every header is written, and read back, as HeaderReadBack says.
LEMMA HeaderStep == HeaderInv /\ [HeaderNext]_headervars => HeaderInv'
<1> SUFFICES ASSUME HeaderInv, [HeaderNext]_headervars PROVE HeaderInv'
    OBVIOUS
<1> DEFINE x == header[1]
           e == header[2]
           d1 == dump_i64(x)
           d2 == dump_i32(e)
           n == val_size(x)
           m == val_size(e)
<1>1. ASSUME header # NoHeader
      PROVE  /\ x \in Word(8) /\ e \in Word(4) /\ n \in 1 .. 9 /\ m \in 1 .. 5
             /\ d1 \in Seq(Byte) /\ Len(d1) = n /\ buf_size(d1[1]) = n
             /\ d2 \in Seq(Byte) /\ Len(d2) = m /\ buf_size(d2[1]) = m
    <2>1. x \in Word(8) /\ e \in Word(4)
        BY <1>1 DEF HeaderInv
    <2> HIDE DEF x, e
    <2> QED BY <2>1, RoundTrip64, RoundTrip32
<1>2. CASE DumpHeader
    <2>1. /\ header # NoHeader /\ loaded = NoHeader /\ header' = header /\ loaded' = loaded
          /\ stream' = d1 \o d2
        BY <1>2 DEF DumpHeader
    <2> HIDE DEF d1, d2, n, m, x, e
    <2>2. Len(stream') = n + m /\ stream' # <<>>
        BY <1>1, <2>1
    <2>3. SizesAgree'
        BY <2>1, <2>2 DEF SizesAgree, n, m, x, e
    <2>4. RoundTripExceptBand8'
        BY <2>1 DEF RoundTripExceptBand8
    <2> QED BY <2>1, <2>3, <2>4 DEF HeaderInv, HeaderReadBack, d1, d2, x, e
<1>3. CASE LoadHeader
    <2>1. header # NoHeader /\ stream = d1 \o d2 /\ stream' = <<>> /\ header' = header
        BY <1>3 DEF LoadHeader, HeaderInv
    <2> HIDE DEF d1, d2, n, m, x, e
    <2>2. /\ \A k \in 1 .. n : stream[k] = d1[k] /\ d1[k] \in Byte
          /\ \A k \in 1 .. m : stream[n + k] = d2[k] /\ d2[k] \in Byte
        <3>1. d1 \in Seq(Byte) /\ Len(d1) = n /\ d2 \in Seq(Byte) /\ Len(d2) = m
            BY <1>1, <2>1
        <3> QED BY <2>1, <3>1, ConcatIs, Zenon
    <2>3. buf_size(stream[1]) = n /\ buf_size(stream[n + 1]) = m
        BY <1>1, <2>1, <2>2
    <2>4. PICK junk \in StackBytes :
             /\ loaded' = <<load_i64([k \in 1 .. 9 |-> IF k <= n THEN stream[k] ELSE junk]),
                            load_i32([k \in 1 .. 5 |-> IF k <= m THEN stream[n + k] ELSE junk])>>
             /\ consumed' = n + m
        BY <1>3, <2>3 DEF LoadHeader
    <2> DEFINE s1 == [k \in 1 .. 9 |-> IF k <= n THEN stream[k] ELSE junk]
               s2 == [k \in 1 .. 5 |-> IF k <= m THEN stream[n + k] ELSE junk]
    <2>b. n \in 1 .. 9 /\ m \in 1 .. 5 /\ junk \in Byte
        BY <1>1, <2>1, SparseAssumption
    <2>5. s1 \in [1 .. 9 -> Byte] /\ \A k \in 1 .. n : s1[k] = d1[k]
        BY <2>b, <2>2
    <2>6. s2 \in [1 .. 5 -> Byte] /\ \A k \in 1 .. m : s2[k] = d2[k]
        BY <2>b, <2>2
    <2>7. loaded' = <<load_i64(s1), load_i32(s2)>>
        BY <2>4
    <2> HIDE DEF s1, s2
    <2>8. /\ val_size(load_i64(s1)) = n
          /\ \A k \in 0 .. 7 : k > 0 \/ ~Lossy(x) => load_i64(s1)[k] = x[k]
        BY <1>1, <2>1, <2>5, RoundTrip64 DEF d1, n
    <2>9. load_i32(s2) = e
        BY <1>1, <2>1, <2>6, RoundTrip32 DEF d2, m
    <2>10. loaded'[1] = load_i64(s1) /\ loaded'[2] = e
        BY <2>7, <2>9
    <2>11. RoundTripExceptBand8'
        BY <2>1, <2>8, <2>10 DEF RoundTripExceptBand8, x, e
    <2>12. SizesAgree'
        BY <2>1, <2>4, <2>8, <2>10 DEF SizesAgree, m
    <2> QED BY <2>1, <2>11, <2>12 DEF HeaderInv, HeaderReadBack
<1>4. CASE DropHeader
    <2>1. header' = NoHeader /\ loaded' = NoHeader /\ stream' = stream
        BY <1>4 DEF DropHeader
    <2>2. stream' = <<>>
        BY <1>4, <2>1 DEF DropHeader, HeaderInv
    <2> QED BY <2>1, <2>2 DEF HeaderInv, HeaderReadBack, RoundTripExceptBand8, SizesAgree
<1>5. CASE UNCHANGED headervars
    BY <1>5 DEF headervars, HeaderInv, HeaderReadBack, RoundTripExceptBand8, SizesAgree
<1> QED BY <1>2, <1>3, <1>4, <1>5 DEF HeaderNext

\* Every xid and every error code that dump_i64 and dump_i32 write into the header
\* of a reply is what load_i64 and load_i32 read from it, whatever the stack holds
\* behind it and but for the low byte of the 8 byte band; each reader consumes
\* exactly what its writer wrote.
THEOREM HeaderRoundTrip == HeaderSpec => []HeaderReadBack
<1>1. HeaderInit => HeaderInv
    BY SparseAssumption DEF HeaderInit, HeaderInv, HeaderReadBack, RoundTripExceptBand8, SizesAgree, NoHeader, Word
<1>2. HeaderInv => HeaderReadBack
    BY DEF HeaderInv
<1> QED BY <1>1, <1>2, HeaderStep, PTL DEF HeaderSpec

-----------------------------------------------------------------------------
(* The inductive invariant, in layers: each part is preserved because of   *)
(* the parts before it                                                     *)

RequestPcs == {"insert", "recheck", "undo", "header", "ref_copy", "args", "end"}
ClosePcs   == {"close", "remove", "close_fd", "set_closed", "take_pending"}
InvalPcs   == {"invalidate", "inval_notify", "inval_release"}
WaitPcs    == {"wait", "expired", "late", "release"}
ReplyPcs   == {"reply", "reply_notify", "reply_release"}
CallerPcs  == RequestPcs \cup WaitPcs \cup ClosePcs \cup InvalPcs
              \cup {"idle", "unref", "end_of_client"}
PollPcs    == ReplyPcs \cup ClosePcs \cup InvalPcs
              \cup {"poll", "read", "read_fd", "parse", "write", "write_fd", "error",
                    "drain", "end_of_client"}
FuPcs      == (RequestPcs \ {"insert", "end"}) \cup WaitPcs \cup ReplyPcs
              \cup {"inval_notify", "inval_release"}

\* Who may be where, who holds out_l_, and which thread has a future at hand.
Control ==
    /\ \A c \in Callers : pc[c] \in CallerPcs
    /\ pc[Poll] \in PollPcs
    /\ \A c \in Callers : pc[c] \in RequestPcs <=> out_l_ = c
    /\ \A c \in Callers : pc[c] = "insert" => xid_counter_ <= MaxXid
    /\ \A t \in Threads : pc[t] \in FuPcs => fu[t] \in Xids
    /\ \A t \in Threads : fu[t] # NoXid => pc[t] \in FuPcs \cup {"end"}
    /\ \A t \in Threads : batch[t] # {} => pc[t] \in InvalPcs

\* status_ against the descriptor: a close sets CLOSED after ::close, and
\* unregisters before it.
Connected ==
    /\ status_ = "NEW" => sock_ # "open" /\ ~registered /\ ~pending_remove_ /\ ~in_epoll
    /\ status_ = "CONNECTED" => sock_ # "none"
    /\ status_ = "CLOSED" => sock_ = "closed"
    /\ sock_ = "none" => \A c \in Callers : pc[c] = "idle"
    /\ sock_ = "none" => pc[Poll] = "poll"
    /\ \A t \in Threads : pc[t] \in {"remove", "close_fd"} => status_ # "NEW"
    /\ \A t \in Threads : pc[t] = "close_fd" => ~registered
    /\ \A t \in Threads : pc[t] = "set_closed" => sock_ = "closed"
    /\ \A c \in Callers : pc[c] \in RequestPcs \ {"end"} => status_ # "NEW"
    /\ registered => sock_ = "open"
    /\ in_epoll => sock_ = "open"

\* The request being written is the last one in out_, and the others have
\* their size; a field is missing only when the descriptor is closed.
Writing(c) == pc[c] \in {"ref_copy", "args"} \/ (pc[c] = "end" /\ fu[c] # NoXid)
Packets ==
    /\ \A c \in Callers : Writing(c) => out_ # <<>>
    /\ \A k \in DOMAIN out_ :
           \/ out_[k].sized
           \/ k = Len(out_) /\ \E c \in Callers : Writing(c)
    /\ \A k \in DOMAIN out_ : out_[k].cut => status_ = "CLOSED"
    /\ \A k \in DOMAIN to_server : to_server[k].sized /\ ~to_server[k].cut
    /\ Len(to_server) <= SockBuf
    /\ status_ = "NEW" => out_ = <<>>

\* A future that is pending when status_ is CLOSED is taken by a close under way
\* or by the begin_request that has just inserted it.
Orphans ==
    status_ = "CLOSED" => \A x \in pending_fu_ :
        \/ \E t \in Threads : pc[t] = "take_pending"
        \/ \E c \in Callers : pc[c] \in {"recheck", "undo"} /\ fu[c] = x

\* Thread t's own request is the one of future x.
UserPcs == (RequestPcs \ {"insert"}) \cup WaitPcs
Uses(t, x) == fu[t] = x /\ pc[t] \in UserPcs

\* Futures are numbered by xid_counter_.
Numbered ==
    /\ \A x \in pending_fu_ : x < xid_counter_
    /\ \A x \in Xids, t \in Threads : Carries(t, x) \/ Uses(t, x) => x < xid_counter_

\* One thread takes a future out of pending_fu_, and one caller uses it.
OneTaker ==
    /\ \A x \in Xids, t \in Threads : Carries(t, x) => x \notin pending_fu_
    /\ \A x \in Xids, t \in Threads, u \in Threads :
           Carries(t, x) /\ Carries(u, x) => t = u
    /\ \A t \in Threads : pc[t] \in {"inval_notify", "inval_release"} => fu[t] \notin batch[t]
OneUser ==
    \A x \in Xids, t \in Threads, u \in Threads : Uses(t, x) /\ Uses(u, x) => t = u

\* A future has a reference for each place that owns it.
Taken(x) == \E t \in Threads : Carries(t, x)
Held(x)  == \E t \in Threads : Holds(t, x)
RefsRight ==
    \A x \in Xids : future[x].ref = (IF x \in pending_fu_ THEN 1 ELSE 0)
                                  + (IF Taken(x) THEN 1 ELSE 0) + (IF Held(x) THEN 1 ELSE 0)

Futures == Numbered /\ OneTaker /\ OneUser /\ RefsRight

\* The client is referred to by the callers that have not released it and by
\* PollMgr; the last release leaves it to one thread, which runs ~Client.
Users == {c \in Callers : pc[c] # "end_of_client"}
InPollMgr == registered \/ pending_remove_
RefCount ==
    /\ ~(registered /\ pending_remove_)
    /\ in_epoll \/ rdy => InPollMgr
    /\ ref_count > 0 =>
           /\ ref_count = Cardinality(Users) + (IF InPollMgr THEN 1 ELSE 0)
           /\ pc[Poll] # "poll" => InPollMgr
    /\ ref_count = 0 =>
           /\ ~InPollMgr
           /\ \A c \in Callers : pc[c] \in InvalPcs \cup {"take_pending", "end_of_client"}
           /\ pc[Poll] \in InvalPcs \cup {"take_pending", "end_of_client", "poll"}

\* What became of the calls: the future of a pending one has no reply, one not
\* yet returned by begin_request has no error either, and one that its caller
\* uses was not refused.
answered == {x \in Xids : future[x].replied \/ (pc[Poll] = "reply" /\ fu[Poll] = x)}
failed   == {x \in Xids : future[x].error # "0" \/ \E t \in Threads : x \in batch[t]}
Outcomes ==
    /\ \A x \in pending_fu_ : ~future[x].replied
    /\ \A x \in Xids, t \in Threads :
           Uses(t, x) /\ x \notin pending_fu_ => x \in answered \cup failed
    /\ \A x \in pending_fu_, t \in Threads :
           fu[t] = x /\ pc[t] \in {"recheck", "undo"} => future[x].error = "0"
    /\ \A x \in Xids, t \in Threads : x \in batch[t] => x \notin answered

IInv == /\ TypeOK /\ Control /\ Connected /\ Packets /\ OnlyWholeRequests
        /\ WriteEventsEnabled /\ Orphans /\ Futures /\ FreedOnlyInBegin
        /\ RefCount /\ Outcomes

USE ClientAssumption DEF Goto, conn, client, pollmgr, net, kernel, stack, local, history,
    vars, Xids, NoXid, RequestPcs, ClosePcs, InvalPcs, WaitPcs, ReplyPcs, CallerPcs, PollPcs,
    FuPcs, UserPcs, Threads

\* Where handle_read goes after reading, and what it leaves alone.
LEMMA ReadFdEffect ==
    ReadFd => /\ pc[Poll] = "read_fd"
              /\ \E l \in {"parse", "write"} : pc' = [pc EXCEPT ![Poll] = l]
              /\ UNCHANGED <<conn, pending_fu_, out_l_, out_, xid_counter_, ref_count, future,
                             pollmgr, to_server, in_epoll, rdy, stack, history>>
BY DEF ReadFd

\* The end of an iteration, with and without a removal to carry out.
LEMMA DrainEffect ==
    Drain => /\ pc[Poll] = "drain" /\ pending_remove_' = FALSE
             /\ \E l \in {"take_pending", "poll"} : pc' = [pc EXCEPT ![Poll] = l]
             /\ in_epoll' => in_epoll
             /\ UNCHANGED <<conn, pending_fu_, out_l_, out_, in_, xid_counter_, future, registered,
                            mode_, net, peer, fu, batch, history>>
BY DEF Drain, DropClient

\* Every step keeps the control state right.
LEMMA NextControl == IInv /\ [Next]_vars => Control'
<1> SUFFICES ASSUME IInv, [Next]_vars PROVE Control'
    OBVIOUS
<1> USE DEF IInv
<1>1. CASE ConnectOk
    BY <1>1 DEF ConnectOk, TypeOK, Control
<1>2. CASE ConnectFails
    BY <1>2 DEF ConnectFails, TypeOK, Control
<1>3. ASSUME NEW c \in Callers, BeginRequest(c) PROVE Control'
    BY <1>3 DEF BeginRequest, TypeOK, Control
<1>4. ASSUME NEW c \in Callers, Expire(c) PROVE Control'
    BY <1>4 DEF Expire, TypeOK, Control
<1>5. ASSUME NEW c \in Callers, CloseAndRelease(c) PROVE Control'
    BY <1>5 DEF CloseAndRelease, TypeOK, Control
<1>6. ASSUME NEW c \in Callers, InsertPending(c) PROVE Control'
    BY <1>6 DEF InsertPending, TypeOK, Control
<1>7. ASSUME NEW c \in Callers, Recheck(c) PROVE Control'
    BY <1>7 DEF Recheck, TypeOK, Control
<1>8. ASSUME NEW c \in Callers, Undo(c) PROVE Control'
    BY <1>8 DEF Undo, AddRef, Touch, TypeOK, Control
<1>9. ASSUME NEW c \in Callers, WriteHeader(c) PROVE Control'
    BY <1>9 DEF WriteHeader, Touch, TypeOK, Control
<1>10. ASSUME NEW c \in Callers, RefCopy(c) PROVE Control'
    BY <1>10 DEF RefCopy, AddRef, Touch, TypeOK, Control
<1>11. ASSUME NEW c \in Callers, WriteArgs(c) PROVE Control'
    BY <1>11 DEF WriteArgs, TypeOK, Control
<1>12. ASSUME NEW c \in Callers, EndRequest(c) PROVE Control'
    BY <1>12 DEF EndRequest, update_mode, TypeOK, Control
<1>13. ASSUME NEW c \in Callers, Wait(c) PROVE Control'
    <2>1. PICK l \in {"late", "release"} : pc' = [pc EXCEPT ![c] = l]
        BY <1>13 DEF Wait
    <2>2. pc[c] = "wait" /\ UNCHANGED <<fu, batch, out_l_, xid_counter_>>
        BY <1>13 DEF Wait
    <2> QED BY <2>1, <2>2 DEF TypeOK, Control
<1>14. ASSUME NEW c \in Callers, SetTimedOut(c) PROVE Control'
    BY <1>14 DEF SetTimedOut, Touch, TypeOK, Control
<1>15. ASSUME NEW c \in Callers, Late(c) PROVE Control'
    BY <1>15 DEF Late, Touch, TypeOK, Control
<1>16. ASSUME NEW c \in Callers, ReleaseFuture(c) PROVE Control'
    BY <1>16 DEF ReleaseFuture, AddRef, Touch, TypeOK, Control
<1>17. ASSUME NEW c \in Callers, Unref(c) PROVE Control'
    BY <1>17 DEF Unref, DropClient, TypeOK, Control
<1>18. ASSUME NEW t \in Threads, CloseTest(t) PROVE Control'
    BY <1>18 DEF CloseTest, TypeOK, Control
<1>19. ASSUME NEW t \in Threads, CloseRemove(t) PROVE Control'
    BY <1>19 DEF CloseRemove, TypeOK, Control
<1>20. ASSUME NEW t \in Threads, CloseFd(t) PROVE Control'
    BY <1>20 DEF CloseFd, TypeOK, Control
<1>21. ASSUME NEW t \in Threads, SetClosed(t) PROVE Control'
    BY <1>21 DEF SetClosed, TypeOK, Control
<1>22. ASSUME NEW t \in Threads, TakePending(t) PROVE Control'
    BY <1>22 DEF TakePending, TypeOK, Control
<1>23. ASSUME NEW t \in Threads, FailOne(t) PROVE Control'
    BY <1>23 DEF FailOne, Touch, TypeOK, Control
<1>24. ASSUME NEW t \in Threads, Invalidated(t) PROVE Control'
    <2>1. CASE ref_count = 0
        BY <1>24, <2>1 DEF Invalidated, TypeOK, Control
    <2>2. CASE ref_count # 0 /\ t = Poll
        BY <1>24, <2>2 DEF Invalidated, TypeOK, Control
    <2>3. CASE ref_count # 0 /\ t # Poll
        BY <1>24, <2>3 DEF Invalidated, TypeOK, Control
    <2> QED BY <2>1, <2>2, <2>3
<1>25. ASSUME NEW t \in Threads, notify_ready(t) PROVE Control'
    <2>1. UNCHANGED <<fu, batch, out_l_, xid_counter_>>
        BY <1>25 DEF notify_ready
    <2>2. CASE pc[t] = "reply_notify" /\ pc' = [pc EXCEPT ![t] = "reply_release"]
        BY <2>1, <2>2 DEF TypeOK, Control
    <2>3. CASE pc[t] = "inval_notify" /\ pc' = [pc EXCEPT ![t] = "inval_release"]
        <3>1. \A u \in Threads : pc'[u] = IF u = t THEN "inval_release" ELSE pc[u]
            BY <2>3 DEF TypeOK
        <3>2. pc[t] = "inval_notify"
            BY <2>3
        <3> QED BY <2>1, <3>1, <3>2 DEF Control
    <2> QED BY <1>25, <2>2, <2>3 DEF notify_ready
<1>26. ASSUME NEW t \in Threads, ReleaseRemoved(t) PROVE Control'
    <2>1. PICK l \in {"parse", "invalidate"} :
              /\ pc' = [pc EXCEPT ![t] = l]
              /\ l = "parse" <=> pc[t] = "reply_release"
        BY <1>26 DEF ReleaseRemoved
    <2>2. /\ pc[t] \in {"reply_release", "inval_release"}
          /\ fu' = [fu EXCEPT ![t] = NoXid]
          /\ UNCHANGED <<batch, out_l_, xid_counter_>>
        BY <1>26 DEF ReleaseRemoved
    <2> QED BY <2>1, <2>2 DEF TypeOK, Control
<1>27. CASE EpollWait
    BY <1>27 DEF EpollWait, Reported, TypeOK, Control
<1>28. CASE HandleRead
    BY <1>28 DEF HandleRead, TypeOK, Control
<1>29. CASE ReadFd
    <2>1. PICK l \in {"parse", "write"} : pc' = [pc EXCEPT ![Poll] = l]
        BY <1>29, ReadFdEffect
    <2> QED BY <1>29, <2>1, ReadFdEffect DEF TypeOK, Control
<1>30. CASE ParseReply
    BY <1>30 DEF ParseReply, TypeOK, Control
<1>31. CASE ParseUnknown
    BY <1>31 DEF ParseUnknown, TypeOK, Control
<1>32. CASE StoreReply
    BY <1>32 DEF StoreReply, Touch, TypeOK, Control
<1>33. CASE NoMorePackets
    BY <1>33 DEF NoMorePackets, TypeOK, Control
<1>34. CASE HandleWrite
    BY <1>34 DEF HandleWrite, TypeOK, Control
<1>35. CASE WriteFd
    BY <1>35 DEF WriteFd, AfterWrite, update_mode, OutLock, TypeOK, Control
<1>36. CASE HandleError
    BY <1>36 DEF HandleError, TypeOK, Control
<1>37. CASE Drain
    <2>1. PICK l \in {"take_pending", "poll"} : pc' = [pc EXCEPT ![Poll] = l]
        BY <1>37, DrainEffect
    <2> QED BY <1>37, <2>1, DrainEffect DEF TypeOK, Control
<1>38. CASE ServerReceives
    BY <1>38 DEF ServerReceives, TypeOK, Control
<1>39. CASE ServerReplies
    BY <1>39 DEF ServerReplies, TypeOK, Control
<1>40. CASE PeerCloses
    BY <1>40 DEF PeerCloses, TypeOK, Control
<1>41. CASE Terminated \/ UNCHANGED vars
    BY <1>41 DEF Terminated, TypeOK, Control
<1> QED
    BY <1>1, <1>2, <1>3, <1>4, <1>5, <1>6, <1>7, <1>8, <1>9, <1>10, <1>11, <1>12, <1>13,
       <1>14, <1>15, <1>16, <1>17, <1>18, <1>19, <1>20, <1>21, <1>22, <1>23, <1>24,
       <1>25, <1>26, <1>27, <1>28, <1>29, <1>30, <1>31, <1>32, <1>33, <1>34, <1>35,
       <1>36, <1>37, <1>38, <1>39, <1>40, <1>41
    DEF Next, InCall, Close, PollLoop, Threads

\* Every step keeps status_ and the descriptor in agreement.
LEMMA NextConnected == IInv /\ [Next]_vars => Connected'
<1> SUFFICES ASSUME IInv, [Next]_vars PROVE Connected'
    OBVIOUS
<1> USE DEF IInv
<1>1. CASE ConnectOk
    BY <1>1 DEF ConnectOk, TypeOK, Control, Connected
<1>2. CASE ConnectFails
    BY <1>2 DEF ConnectFails, TypeOK, Control, Connected
<1>3. ASSUME NEW c \in Callers, BeginRequest(c) PROVE Connected'
    BY <1>3 DEF BeginRequest, TypeOK, Control, Connected
<1>4. ASSUME NEW c \in Callers, Expire(c) PROVE Connected'
    BY <1>4 DEF Expire, TypeOK, Control, Connected
<1>5. ASSUME NEW c \in Callers, CloseAndRelease(c) PROVE Connected'
    BY <1>5 DEF CloseAndRelease, TypeOK, Control, Connected
<1>6. ASSUME NEW c \in Callers, InsertPending(c) PROVE Connected'
    BY <1>6 DEF InsertPending, TypeOK, Control, Connected
<1>7. ASSUME NEW c \in Callers, Recheck(c) PROVE Connected'
    BY <1>7 DEF Recheck, TypeOK, Control, Connected
<1>8. ASSUME NEW c \in Callers, Undo(c) PROVE Connected'
    BY <1>8 DEF Undo, AddRef, Touch, TypeOK, Control, Connected
<1>9. ASSUME NEW c \in Callers, WriteHeader(c) PROVE Connected'
    BY <1>9 DEF WriteHeader, Touch, TypeOK, Control, Connected
<1>10. ASSUME NEW c \in Callers, RefCopy(c) PROVE Connected'
    BY <1>10 DEF RefCopy, AddRef, Touch, TypeOK, Control, Connected
<1>11. ASSUME NEW c \in Callers, WriteArgs(c) PROVE Connected'
    BY <1>11 DEF WriteArgs, TypeOK, Control, Connected
<1>12. ASSUME NEW c \in Callers, EndRequest(c) PROVE Connected'
    BY <1>12 DEF EndRequest, update_mode, TypeOK, Control, Connected
<1>13. ASSUME NEW c \in Callers, Wait(c) PROVE Connected'
    BY <1>13 DEF Wait, Touch, TypeOK, Control, Connected
<1>14. ASSUME NEW c \in Callers, SetTimedOut(c) PROVE Connected'
    BY <1>14 DEF SetTimedOut, Touch, TypeOK, Control, Connected
<1>15. ASSUME NEW c \in Callers, Late(c) PROVE Connected'
    BY <1>15 DEF Late, Touch, TypeOK, Control, Connected
<1>16. ASSUME NEW c \in Callers, ReleaseFuture(c) PROVE Connected'
    BY <1>16 DEF ReleaseFuture, AddRef, Touch, TypeOK, Control, Connected
<1>17. ASSUME NEW c \in Callers, Unref(c) PROVE Connected'
    BY <1>17 DEF Unref, DropClient, TypeOK, Control, Connected
<1>18. ASSUME NEW t \in Threads, CloseTest(t) PROVE Connected'
    BY <1>18 DEF CloseTest, TypeOK, Control, Connected
<1>19. ASSUME NEW t \in Threads, CloseRemove(t) PROVE Connected'
    BY <1>19 DEF CloseRemove, TypeOK, Control, Connected
<1>20. ASSUME NEW t \in Threads, CloseFd(t) PROVE Connected'
    BY <1>20 DEF CloseFd, TypeOK, Control, Connected
<1>21. ASSUME NEW t \in Threads, SetClosed(t) PROVE Connected'
    BY <1>21 DEF SetClosed, TypeOK, Control, Connected
<1>22. ASSUME NEW t \in Threads, TakePending(t) PROVE Connected'
    BY <1>22 DEF TakePending, TypeOK, Control, Connected
<1>23. ASSUME NEW t \in Threads, FailOne(t) PROVE Connected'
    BY <1>23 DEF FailOne, Touch, TypeOK, Control, Connected
<1>24. ASSUME NEW t \in Threads, Invalidated(t) PROVE Connected'
    BY <1>24 DEF Invalidated, TypeOK, Control, Connected
<1>25. ASSUME NEW t \in Threads, notify_ready(t) PROVE Connected'
    BY <1>25 DEF notify_ready, Touch, TypeOK, Control, Connected
<1>26. ASSUME NEW t \in Threads, ReleaseRemoved(t) PROVE Connected'
    BY <1>26 DEF ReleaseRemoved, AddRef, Touch, TypeOK, Control, Connected
<1>27. CASE EpollWait
    BY <1>27 DEF EpollWait, TypeOK, Control, Connected, RefCount, InPollMgr
<1>28. CASE HandleRead
    BY <1>28 DEF HandleRead, TypeOK, Control, Connected
<1>29. CASE ReadFd
    <2>1. PICK l \in {"parse", "write"} : pc' = [pc EXCEPT ![Poll] = l]
        BY <1>29, ReadFdEffect
    <2> QED BY <1>29, <2>1, ReadFdEffect DEF TypeOK, Control, Connected
<1>30. CASE ParseReply
    BY <1>30 DEF ParseReply, TypeOK, Control, Connected
<1>31. CASE ParseUnknown
    BY <1>31 DEF ParseUnknown, TypeOK, Control, Connected
<1>32. CASE StoreReply
    BY <1>32 DEF StoreReply, Touch, TypeOK, Control, Connected
<1>33. CASE NoMorePackets
    BY <1>33 DEF NoMorePackets, TypeOK, Control, Connected
<1>34. CASE HandleWrite
    BY <1>34 DEF HandleWrite, TypeOK, Control, Connected
<1>35. CASE WriteFd
    BY <1>35 DEF WriteFd, AfterWrite, update_mode, OutLock, TypeOK, Control, Connected
<1>36. CASE HandleError
    BY <1>36 DEF HandleError, TypeOK, Control, Connected
<1>37. CASE Drain
    <2>1. PICK l \in {"take_pending", "poll"} : pc' = [pc EXCEPT ![Poll] = l]
        BY <1>37, DrainEffect
    <2> QED BY <1>37, <2>1, DrainEffect DEF TypeOK, Control, Connected
<1>38. CASE ServerReceives
    BY <1>38 DEF ServerReceives, TypeOK, Control, Connected
<1>39. CASE ServerReplies
    BY <1>39 DEF ServerReplies, TypeOK, Control, Connected
<1>40. CASE PeerCloses
    BY <1>40 DEF PeerCloses, TypeOK, Control, Connected
<1>41. CASE Terminated \/ UNCHANGED vars
    BY <1>41 DEF Terminated, TypeOK, Control, Connected
<1> QED
    BY <1>1, <1>2, <1>3, <1>4, <1>5, <1>6, <1>7, <1>8, <1>9, <1>10, <1>11, <1>12, <1>13,
       <1>14, <1>15, <1>16, <1>17, <1>18, <1>19, <1>20, <1>21, <1>22, <1>23, <1>24,
       <1>25, <1>26, <1>27, <1>28, <1>29, <1>30, <1>31, <1>32, <1>33, <1>34, <1>35,
       <1>36, <1>37, <1>38, <1>39, <1>40, <1>41
    DEF Next, InCall, Close, PollLoop, Threads

\* A step of thread t that takes no future and gives none up.
LEMMA OrphansFrame ==
    ASSUME Orphans, NEW t \in Threads,
           pc[t] \notin {"take_pending", "recheck", "undo"},
           \A u \in Threads \ {t} : pc'[u] = pc[u] /\ fu'[u] = fu[u],
           status_' = status_, pending_fu_' \subseteq pending_fu_
    PROVE  Orphans'
<1> SUFFICES ASSUME status_ = "CLOSED", NEW x \in pending_fu_
             PROVE  \/ \E u \in Threads : pc'[u] = "take_pending"
                    \/ \E c \in Callers : pc'[c] \in {"recheck", "undo"} /\ fu'[c] = x
    BY DEF Orphans
<1>1. CASE \E u \in Threads : pc[u] = "take_pending"
    BY <1>1
<1>2. CASE \E c \in Callers : pc[c] \in {"recheck", "undo"} /\ fu[c] = x
    BY <1>2
<1> QED BY <1>1, <1>2 DEF Orphans

\* A step that moves no thread.
LEMMA OrphansSame ==
    ASSUME Orphans, UNCHANGED <<pc, fu, status_, pending_fu_>>
    PROVE  Orphans'
BY DEF Orphans

\* No step orphans a future.
LEMMA NextOrphans == IInv /\ [Next]_vars => Orphans'
<1> SUFFICES ASSUME IInv, [Next]_vars PROVE Orphans'
    OBVIOUS
<1> USE DEF IInv
<1>1. CASE ConnectOk
    BY <1>1 DEF ConnectOk, TypeOK, Orphans
<1>2. CASE ConnectFails
    BY <1>2, OrphansSame DEF ConnectFails
<1>3. ASSUME NEW c \in Callers, BeginRequest(c) PROVE Orphans'
    BY <1>3, OrphansFrame DEF BeginRequest, TypeOK
<1>4. ASSUME NEW c \in Callers, Expire(c) PROVE Orphans'
    BY <1>4, OrphansFrame DEF Expire, TypeOK
<1>5. ASSUME NEW c \in Callers, CloseAndRelease(c) PROVE Orphans'
    BY <1>5, OrphansFrame DEF CloseAndRelease, TypeOK
<1>6. ASSUME NEW c \in Callers, InsertPending(c) PROVE Orphans'
    BY <1>6 DEF InsertPending, TypeOK, Control, Connected, Orphans
<1>7. ASSUME NEW c \in Callers, Recheck(c) PROVE Orphans'
    BY <1>7 DEF Recheck, TypeOK, Control, Connected, Orphans
<1>8. ASSUME NEW c \in Callers, Undo(c) PROVE Orphans'
    <2> SUFFICES ASSUME status_ = "CLOSED", NEW x \in pending_fu_ \ {fu[c]}
                 PROVE  \/ \E u \in Threads : pc'[u] = "take_pending"
                        \/ \E d \in Callers : pc'[d] \in {"recheck", "undo"} /\ fu'[d] = x
        BY <1>8 DEF Undo, Orphans
    <2>1. \A u \in Threads \ {c} : pc'[u] = pc[u] /\ fu'[u] = fu[u]
        BY <1>8 DEF Undo, TypeOK
    <2>2. pc[c] = "undo"
        BY <1>8 DEF Undo
    <2> QED BY <2>1, <2>2 DEF Orphans
<1>9. ASSUME NEW c \in Callers, WriteHeader(c) PROVE Orphans'
    BY <1>9, OrphansFrame DEF WriteHeader, Touch, TypeOK
<1>10. ASSUME NEW c \in Callers, RefCopy(c) PROVE Orphans'
    BY <1>10, OrphansFrame DEF RefCopy, AddRef, Touch, TypeOK
<1>11. ASSUME NEW c \in Callers, WriteArgs(c) PROVE Orphans'
    BY <1>11, OrphansFrame DEF WriteArgs, TypeOK
<1>12. ASSUME NEW c \in Callers, EndRequest(c) PROVE Orphans'
    BY <1>12, OrphansFrame DEF EndRequest, update_mode, TypeOK
<1>13. ASSUME NEW c \in Callers, Wait(c) PROVE Orphans'
    BY <1>13, OrphansFrame DEF Wait, Touch, TypeOK
<1>14. ASSUME NEW c \in Callers, SetTimedOut(c) PROVE Orphans'
    BY <1>14, OrphansFrame DEF SetTimedOut, Touch, TypeOK
<1>15. ASSUME NEW c \in Callers, Late(c) PROVE Orphans'
    BY <1>15, OrphansFrame DEF Late, Touch, TypeOK
<1>16. ASSUME NEW c \in Callers, ReleaseFuture(c) PROVE Orphans'
    BY <1>16, OrphansFrame DEF ReleaseFuture, AddRef, Touch, TypeOK
<1>17. ASSUME NEW c \in Callers, Unref(c) PROVE Orphans'
    BY <1>17, OrphansFrame DEF Unref, DropClient, TypeOK
<1>18. ASSUME NEW t \in Threads, CloseTest(t) PROVE Orphans'
    BY <1>18, OrphansFrame DEF CloseTest, TypeOK
<1>19. ASSUME NEW t \in Threads, CloseRemove(t) PROVE Orphans'
    BY <1>19, OrphansFrame DEF CloseRemove, TypeOK
<1>20. ASSUME NEW t \in Threads, CloseFd(t) PROVE Orphans'
    BY <1>20, OrphansFrame DEF CloseFd, TypeOK
<1>21. ASSUME NEW t \in Threads, SetClosed(t) PROVE Orphans'
    BY <1>21 DEF SetClosed, TypeOK, Orphans
<1>22. ASSUME NEW t \in Threads, TakePending(t) PROVE Orphans'
    BY <1>22 DEF TakePending, TypeOK, Orphans
<1>23. ASSUME NEW t \in Threads, FailOne(t) PROVE Orphans'
    <2>1. PICK x : fu' = [fu EXCEPT ![t] = x]
        BY <1>23 DEF FailOne
    <2> QED BY <1>23, <2>1, OrphansFrame DEF FailOne, TypeOK
<1>24. ASSUME NEW t \in Threads, Invalidated(t) PROVE Orphans'
    BY <1>24, OrphansFrame DEF Invalidated, TypeOK
<1>25. ASSUME NEW t \in Threads, notify_ready(t) PROVE Orphans'
    BY <1>25, OrphansFrame DEF notify_ready, Touch, TypeOK
<1>26. ASSUME NEW t \in Threads, ReleaseRemoved(t) PROVE Orphans'
    BY <1>26, OrphansFrame DEF ReleaseRemoved, AddRef, Touch, TypeOK
<1>27. CASE EpollWait
    BY <1>27, OrphansFrame DEF EpollWait, Reported, TypeOK
<1>28. CASE HandleRead
    BY <1>28, OrphansFrame DEF HandleRead, TypeOK
<1>29. CASE ReadFd
    <2>1. PICK l \in {"parse", "write"} : pc' = [pc EXCEPT ![Poll] = l]
        BY <1>29, ReadFdEffect
    <2> QED BY <1>29, <2>1, OrphansFrame, ReadFdEffect DEF TypeOK
<1>30. CASE ParseReply
    BY <1>30, OrphansFrame DEF ParseReply, TypeOK
<1>31. CASE ParseUnknown
    BY <1>31, OrphansSame DEF ParseUnknown
<1>32. CASE StoreReply
    BY <1>32, OrphansFrame DEF StoreReply, Touch, TypeOK
<1>33. CASE NoMorePackets
    BY <1>33, OrphansFrame DEF NoMorePackets, TypeOK
<1>34. CASE HandleWrite
    BY <1>34, OrphansFrame DEF HandleWrite, TypeOK
<1>35. CASE WriteFd
    BY <1>35, OrphansFrame DEF WriteFd, AfterWrite, update_mode, OutLock, TypeOK
<1>36. CASE HandleError
    BY <1>36, OrphansFrame DEF HandleError, TypeOK
<1>37. CASE Drain
    <2>1. PICK l \in {"take_pending", "poll"} : pc' = [pc EXCEPT ![Poll] = l]
        BY <1>37, DrainEffect
    <2> QED BY <1>37, <2>1, OrphansFrame, DrainEffect DEF TypeOK
<1>38. CASE ServerReceives
    BY <1>38, OrphansSame DEF ServerReceives
<1>39. CASE ServerReplies
    BY <1>39, OrphansSame DEF ServerReplies
<1>40. CASE PeerCloses
    BY <1>40, OrphansSame DEF PeerCloses
<1>41. CASE Terminated \/ UNCHANGED vars
    BY <1>41, OrphansSame DEF Terminated
<1> QED
    BY <1>1, <1>2, <1>3, <1>4, <1>5, <1>6, <1>7, <1>8, <1>9, <1>10, <1>11, <1>12, <1>13,
       <1>14, <1>15, <1>16, <1>17, <1>18, <1>19, <1>20, <1>21, <1>22, <1>23, <1>24,
       <1>25, <1>26, <1>27, <1>28, <1>29, <1>30, <1>31, <1>32, <1>33, <1>34, <1>35,
       <1>36, <1>37, <1>38, <1>39, <1>40, <1>41
    DEF Next, InCall, Close, PollLoop, Threads

-----------------------------------------------------------------------------
(* Futures                                                                 *)

\* The step changes nobody's part in any future.
SameRoles ==
    \A x \in Xids, t \in Threads : /\ Carries(t, x)' <=> Carries(t, x)
                                   /\ Uses(t, x)' <=> Uses(t, x)
                                   /\ Holds(t, x)' <=> Holds(t, x)

\* A step that leaves the futures and who refers to them alone.
LEMMA FuturesFrame ==
    ASSUME Futures, SameRoles,
           UNCHANGED <<pending_fu_, xid_counter_>>,
           \A x \in Xids : future'[x].ref = future[x].ref,
           \A t \in Threads : pc'[t] \in {"inval_notify", "inval_release"}
                                  => fu'[t] \notin batch'[t]
    PROVE  Futures'
<1>1. Numbered'
    BY DEF Futures, Numbered, SameRoles
<1>2. OneTaker' /\ OneUser'
    BY DEF Futures, OneTaker, OneUser, SameRoles
<1>3. \A x \in Xids : (Taken(x)' <=> Taken(x)) /\ (Held(x)' <=> Held(x))
    BY DEF SameRoles, Taken, Held
<1>4. RefsRight'
    BY <1>3 DEF Futures, RefsRight
<1> QED BY <1>1, <1>2, <1>4 DEF Futures

\* begin_request makes a new future, which nobody knows yet.
LEMMA InsertPendingFutures ==
    ASSUME IInv, NEW c \in Callers, InsertPending(c)
    PROVE  Futures'
<1> DEFINE n == xid_counter_
<1>1. n \in Xids /\ xid_counter_' = n + 1 /\ pending_fu_' = pending_fu_ \cup {n}
    BY DEF IInv, InsertPending, TypeOK, Control
<1>2. /\ future'[n].ref = 1
      /\ \A x \in Xids : x # n => future'[x] = future[x]
    BY <1>1 DEF IInv, InsertPending, TypeOK, NewFuture
<1>3. \A x \in Xids, t \in Threads :
          /\ Carries(t, x)' <=> Carries(t, x)
          /\ Holds(t, x)' <=> Holds(t, x)
          /\ Uses(t, x)' <=> Uses(t, x) \/ (t = c /\ x = n)
    BY DEF IInv, InsertPending, TypeOK, Control, Carries, Holds, Uses
<1>4. /\ n \notin pending_fu_
      /\ \A t \in Threads : ~Carries(t, n) /\ ~Uses(t, n) /\ ~Holds(t, n)
    BY <1>1 DEF IInv, Futures, Numbered, TypeOK, Holds, Uses
<1>5. Numbered'
    BY <1>1, <1>3 DEF IInv, TypeOK, Futures, Numbered
<1>6. \A t \in Threads : pc'[t] \in {"inval_notify", "inval_release"} => fu'[t] \notin batch'[t]
    BY DEF IInv, InsertPending, TypeOK, Futures, OneTaker
<1>7. OneTaker' /\ OneUser'
    BY <1>1, <1>3, <1>4, <1>6 DEF IInv, Futures, OneTaker, OneUser
<1>8. \A x \in Xids : (Taken(x)' <=> Taken(x)) /\ (Held(x)' <=> Held(x))
    BY <1>3 DEF Taken, Held
<1>9. ~Taken(n) /\ ~Held(n)
    BY <1>4 DEF Taken, Held
<1>10. RefsRight'
    BY <1>1, <1>2, <1>4, <1>8, <1>9 DEF IInv, Futures, RefsRight
<1> QED BY <1>5, <1>7, <1>10 DEF Futures

\* A caller gives up its part in its future: begin_request takes it back.
LEMMA UndoFutures ==
    ASSUME IInv, NEW c \in Callers, Undo(c)
    PROVE  Futures'
<1> DEFINE n == fu[c]
<1>1. n \in Xids /\ UNCHANGED xid_counter_ /\ pending_fu_' = pending_fu_ \ {n}
    BY DEF IInv, Undo, TypeOK, Control
<1>2. /\ future'[n].ref = future[n].ref - (IF n \in pending_fu_ THEN 1 ELSE 0)
      /\ \A x \in Xids : x # n => future'[x] = future[x]
    <2>1. future \in [Xids -> FutureType]
        BY DEF IInv, TypeOK
    <2>2. CASE n \in pending_fu_
        <3>1. future' = [future EXCEPT ![n].ref = @ + (-1)]
            BY <2>2 DEF Undo, AddRef
        <3> QED BY <1>1, <2>1, <2>2, <3>1 DEF FutureType
    <2>3. CASE n \notin pending_fu_
        <3>1. future' = future
            BY <2>3 DEF Undo
        <3> QED BY <1>1, <2>1, <2>3, <3>1 DEF FutureType
    <2> QED BY <2>2, <2>3
<1>3. \A x \in Xids, t \in Threads :
          /\ Carries(t, x)' <=> Carries(t, x)
          /\ Holds(t, x)' <=> Holds(t, x)
          /\ Uses(t, x)' => Uses(t, x)
    BY DEF IInv, Undo, TypeOK, Control, Carries, Holds, Uses
<1>4. \A t \in Threads : pc'[t] \in {"inval_notify", "inval_release"} => fu'[t] \notin batch'[t]
    BY DEF IInv, Undo, TypeOK, Futures, OneTaker
<1>5. Numbered' /\ OneTaker' /\ OneUser'
    BY <1>1, <1>3, <1>4 DEF IInv, Futures, Numbered, OneTaker, OneUser
<1>6. \A x \in Xids : (Taken(x)' <=> Taken(x)) /\ (Held(x)' <=> Held(x))
    BY <1>3 DEF Taken, Held
<1>7. RefsRight'
    BY <1>1, <1>2, <1>6 DEF IInv, Futures, RefsRight
<1> QED BY <1>5, <1>7 DEF Futures

\* ref_copy: the caller owns a reference from now on.
LEMMA RefCopyFutures ==
    ASSUME IInv, NEW c \in Callers, RefCopy(c)
    PROVE  Futures'
<1> DEFINE n == fu[c]
<1>1. n \in Xids /\ UNCHANGED <<xid_counter_, pending_fu_>>
    BY DEF IInv, RefCopy, TypeOK, Control
<1>2. /\ future'[n].ref = future[n].ref + 1
      /\ \A x \in Xids : x # n => future'[x] = future[x]
    BY <1>1 DEF IInv, RefCopy, AddRef, TypeOK, FutureType
<1>3. \A x \in Xids, t \in Threads :
          /\ Carries(t, x)' <=> Carries(t, x)
          /\ Holds(t, x)' <=> Holds(t, x) \/ (t = c /\ x = n)
          /\ Uses(t, x)' <=> Uses(t, x)
    BY DEF IInv, RefCopy, TypeOK, Control, Carries, Holds, Uses
<1>4. \A t \in Threads : pc'[t] \in {"inval_notify", "inval_release"} => fu'[t] \notin batch'[t]
    BY DEF IInv, RefCopy, TypeOK, Futures, OneTaker
<1>5. Numbered' /\ OneTaker' /\ OneUser'
    BY <1>1, <1>3, <1>4 DEF IInv, Futures, Numbered, OneTaker, OneUser
<1>6. \A x \in Xids : (Taken(x)' <=> Taken(x)) /\ (Held(x)' <=> Held(x) \/ x = n)
    BY <1>3 DEF Taken, Held
<1>7. ~Held(n)
    <2>1. Uses(c, n) /\ ~Holds(c, n)
        BY DEF RefCopy, Uses, Holds
    <2>2. \A t \in Threads : Holds(t, n) => Uses(t, n)
        BY DEF Uses, Holds
    <2> QED BY <1>1, <2>1, <2>2 DEF IInv, Futures, OneUser, Held
<1>8. RefsRight'
    <2>1. RefsRight /\ pending_fu_' = pending_fu_ /\ \A x \in Xids : future[x].ref \in Int
        BY DEF IInv, Futures, RefCopy, TypeOK, FutureType
    <2> QED BY <1>1, <1>2, <1>6, <1>7, <2>1 DEF RefsRight
<1> QED BY <1>5, <1>8 DEF Futures

\* The caller's release.
LEMMA ReleaseFutureFutures ==
    ASSUME IInv, NEW c \in Callers, ReleaseFuture(c)
    PROVE  Futures'
<1> DEFINE n == fu[c]
<1>1. n \in Xids /\ UNCHANGED <<xid_counter_, pending_fu_>>
    BY DEF IInv, ReleaseFuture, TypeOK, Control
<1>2. /\ future'[n].ref = future[n].ref - 1
      /\ \A x \in Xids : x # n => future'[x] = future[x]
    BY <1>1 DEF IInv, ReleaseFuture, AddRef, TypeOK, FutureType
<1>3. \A x \in Xids, t \in Threads :
          /\ Carries(t, x)' <=> Carries(t, x)
          /\ Holds(t, x)' <=> Holds(t, x) /\ t # c
          /\ Uses(t, x)' => Uses(t, x)
    BY DEF IInv, ReleaseFuture, TypeOK, Control, Carries, Holds, Uses
<1>4. \A t \in Threads : pc'[t] \in {"inval_notify", "inval_release"} => fu'[t] \notin batch'[t]
    BY DEF IInv, ReleaseFuture, TypeOK, Futures, OneTaker
<1>5. Numbered' /\ OneTaker' /\ OneUser'
    BY <1>1, <1>3, <1>4 DEF IInv, Futures, Numbered, OneTaker, OneUser
<1>6. Holds(c, n) /\ \A t \in Threads : Holds(t, n) => t = c
    <2>1. Uses(c, n) /\ Holds(c, n)
        BY DEF ReleaseFuture, Uses, Holds
    <2>2. \A t \in Threads : Holds(t, n) => Uses(t, n)
        BY DEF Uses, Holds
    <2> QED BY <1>1, <2>1, <2>2 DEF IInv, Futures, OneUser
<1>7. \A x \in Xids : x # n => ~Holds(c, x)
    BY DEF Holds
<1>8. \A x \in Xids : (Taken(x)' <=> Taken(x)) /\ (Held(x)' <=> Held(x) /\ x # n)
    BY <1>3, <1>6, <1>7 DEF Taken, Held
<1>9. Held(n)
    BY <1>6 DEF Held
<1>10. RefsRight'
    BY <1>1, <1>2, <1>8, <1>9 DEF IInv, Futures, RefsRight
<1> QED BY <1>5, <1>10 DEF Futures

\* A close takes everything that is pending.
LEMMA TakePendingFutures ==
    ASSUME IInv, NEW t \in Threads, TakePending(t)
    PROVE  Futures'
<1>1. UNCHANGED <<xid_counter_, future>> /\ pending_fu_' = {}
    BY DEF TakePending
<1>2. \A x \in Xids, u \in Threads :
          /\ Carries(u, x)' <=> Carries(u, x) \/ (u = t /\ x \in pending_fu_)
          /\ Holds(u, x)' <=> Holds(u, x)
          /\ Uses(u, x)' <=> Uses(u, x)
    BY DEF IInv, TakePending, TypeOK, Control, Carries, Holds, Uses
<1>3. \A u \in Threads : pc'[u] \in {"inval_notify", "inval_release"} => fu'[u] \notin batch'[u]
    BY DEF IInv, TakePending, TypeOK, Futures, OneTaker
<1>4. Numbered' /\ OneTaker' /\ OneUser'
    BY <1>1, <1>2, <1>3 DEF IInv, Futures, Numbered, OneTaker, OneUser
<1>5. \A x \in Xids : /\ Taken(x)' <=> Taken(x) \/ x \in pending_fu_
                      /\ Held(x)' <=> Held(x)
                      /\ x \in pending_fu_ => ~Taken(x)
    BY <1>2 DEF IInv, Futures, OneTaker, Taken, Held
<1>6. RefsRight'
    BY <1>1, <1>5 DEF IInv, Futures, RefsRight
<1> QED BY <1>4, <1>6 DEF Futures

\* One of those is failed: it stays with the thread that took it.
LEMMA FailOneFutures ==
    ASSUME IInv, NEW t \in Threads, FailOne(t)
    PROVE  Futures'
<1>1. PICK n \in batch[t] : /\ future' = [future EXCEPT ![n].error = "ENOTCONN"]
                            /\ fu' = [fu EXCEPT ![t] = n]
                            /\ batch' = [batch EXCEPT ![t] = @ \ {n}]
    BY DEF FailOne
<1>2. n \in Xids /\ pc[t] = "invalidate" /\ pc' = [pc EXCEPT ![t] = "inval_notify"]
    BY DEF IInv, FailOne, TypeOK
<1>3. SameRoles
    BY <1>1, <1>2 DEF IInv, TypeOK, Control, SameRoles, Carries, Holds, Uses
<1>4. \A x \in Xids : future'[x].ref = future[x].ref
    BY <1>1, <1>2 DEF IInv, TypeOK, FutureType
<1>5. \A u \in Threads : pc'[u] \in {"inval_notify", "inval_release"} => fu'[u] \notin batch'[u]
    BY <1>1, <1>2 DEF IInv, TypeOK, Futures, OneTaker
<1> QED BY <1>3, <1>4, <1>5, FuturesFrame DEF IInv, FailOne

\* The release by the thread that took the future out of pending_fu_.
LEMMA ReleaseRemovedFutures ==
    ASSUME IInv, NEW t \in Threads, ReleaseRemoved(t)
    PROVE  Futures'
<1> DEFINE n == fu[t]
<1>1. n \in Xids /\ UNCHANGED <<xid_counter_, pending_fu_>>
    BY DEF IInv, ReleaseRemoved, TypeOK, Control
<1>2. /\ future'[n].ref = future[n].ref - 1
      /\ \A x \in Xids : x # n => future'[x] = future[x]
    BY <1>1 DEF IInv, ReleaseRemoved, AddRef, TypeOK, FutureType
<1>3. n \notin batch[t]
    BY DEF IInv, ReleaseRemoved, TypeOK, Control, Futures, OneTaker
<1>4. \A x \in Xids, u \in Threads :
          /\ Carries(u, x)' <=> Carries(u, x) /\ ~(u = t /\ x = n)
          /\ Holds(u, x)' <=> Holds(u, x)
          /\ Uses(u, x)' <=> Uses(u, x)
    BY <1>3 DEF IInv, ReleaseRemoved, TypeOK, Control, Carries, Holds, Uses
<1>5. \A u \in Threads : pc'[u] \in {"inval_notify", "inval_release"} => fu'[u] \notin batch'[u]
    BY DEF IInv, ReleaseRemoved, TypeOK, Futures, OneTaker
<1>6. Numbered' /\ OneTaker' /\ OneUser'
    BY <1>1, <1>4, <1>5 DEF IInv, Futures, Numbered, OneTaker, OneUser
<1>7. Carries(t, n) /\ \A u \in Threads : Carries(u, n) => u = t
    <2>1. Carries(t, n)
        BY DEF ReleaseRemoved, Carries
    <2> QED BY <1>1, <2>1 DEF IInv, Futures, OneTaker
<1>8. \A x \in Xids : (Taken(x)' <=> Taken(x) /\ x # n) /\ (Held(x)' <=> Held(x))
    BY <1>4, <1>7 DEF Taken, Held
<1>9. Taken(n)
    BY <1>7 DEF Taken
<1>10. RefsRight'
    BY <1>1, <1>2, <1>8, <1>9 DEF IInv, Futures, RefsRight
<1> QED BY <1>6, <1>10 DEF Futures

\* handle_read takes the future of a reply.
LEMMA ParseReplyFutures ==
    ASSUME IInv, ParseReply
    PROVE  Futures'
<1> DEFINE n == Head(in_)
<1>1. /\ n \in pending_fu_ /\ n \in Xids
      /\ UNCHANGED <<xid_counter_, future>> /\ pending_fu_' = pending_fu_ \ {n}
    BY DEF IInv, ParseReply, TypeOK
<1>2. \A x \in Xids, u \in Threads :
          /\ Carries(u, x)' <=> Carries(u, x) \/ (u = Poll /\ x = n)
          /\ Holds(u, x)' <=> Holds(u, x)
          /\ Uses(u, x)' <=> Uses(u, x)
    BY DEF IInv, ParseReply, TypeOK, Control, Carries, Holds, Uses
<1>3. \A u \in Threads : pc'[u] \in {"inval_notify", "inval_release"} => fu'[u] \notin batch'[u]
    BY DEF IInv, ParseReply, TypeOK, Futures, OneTaker
<1>4. Numbered' /\ OneTaker' /\ OneUser'
    BY <1>1, <1>2, <1>3 DEF IInv, Futures, Numbered, OneTaker, OneUser
<1>5. \A x \in Xids : /\ Taken(x)' <=> Taken(x) \/ x = n
                      /\ Held(x)' <=> Held(x)
                      /\ x \in pending_fu_ => ~Taken(x)
    BY <1>2 DEF IInv, Futures, OneTaker, Taken, Held
<1>6. RefsRight'
    BY <1>1, <1>5 DEF IInv, Futures, RefsRight
<1> QED BY <1>4, <1>6 DEF Futures

\* Every step keeps the futures right.
LEMMA NextFutures == IInv /\ [Next]_vars => Futures'
<1> SUFFICES ASSUME IInv, [Next]_vars PROVE Futures'
    OBVIOUS
<1> USE DEF IInv
<1>1. CASE ConnectOk
    <2>1. SameRoles
        BY <1>1 DEF ConnectOk, SameRoles, Carries, Uses, Holds, TypeOK, Control
    <2> QED BY <1>1, <2>1, FuturesFrame DEF ConnectOk, TypeOK, Futures, OneTaker
<1>2. CASE ConnectFails
    <2>1. SameRoles
        BY <1>2 DEF ConnectFails, SameRoles, Carries, Uses, Holds, TypeOK, Control
    <2> QED BY <1>2, <2>1, FuturesFrame DEF ConnectFails, TypeOK, Futures, OneTaker
<1>3. ASSUME NEW c \in Callers, BeginRequest(c) PROVE Futures'
    <2>1. SameRoles
        BY <1>3 DEF BeginRequest, SameRoles, Carries, Uses, Holds, TypeOK, Control
    <2> QED BY <1>3, <2>1, FuturesFrame DEF BeginRequest, TypeOK, Futures, OneTaker
<1>4. ASSUME NEW c \in Callers, Expire(c) PROVE Futures'
    <2>1. SameRoles
        BY <1>4 DEF Expire, SameRoles, Carries, Uses, Holds, TypeOK, Control
    <2> QED BY <1>4, <2>1, FuturesFrame DEF Expire, TypeOK, Futures, OneTaker
<1>5. ASSUME NEW c \in Callers, CloseAndRelease(c) PROVE Futures'
    <2>1. SameRoles
        BY <1>5 DEF CloseAndRelease, SameRoles, Carries, Uses, Holds, TypeOK, Control
    <2> QED BY <1>5, <2>1, FuturesFrame DEF CloseAndRelease, TypeOK, Futures, OneTaker
<1>6. ASSUME NEW c \in Callers, InsertPending(c) PROVE Futures'
    BY <1>6, InsertPendingFutures
<1>7. ASSUME NEW c \in Callers, Recheck(c) PROVE Futures'
    <2>1. SameRoles
        BY <1>7 DEF Recheck, SameRoles, Carries, Uses, Holds, TypeOK, Control
    <2> QED BY <1>7, <2>1, FuturesFrame DEF Recheck, TypeOK, Futures, OneTaker
<1>8. ASSUME NEW c \in Callers, Undo(c) PROVE Futures'
    BY <1>8, UndoFutures
<1>9. ASSUME NEW c \in Callers, WriteHeader(c) PROVE Futures'
    <2>1. SameRoles
        BY <1>9 DEF WriteHeader, Touch, SameRoles, Carries, Uses, Holds, TypeOK, Control
    <2> QED BY <1>9, <2>1, FuturesFrame DEF WriteHeader, Touch, TypeOK, Futures, OneTaker
<1>10. ASSUME NEW c \in Callers, RefCopy(c) PROVE Futures'
    BY <1>10, RefCopyFutures
<1>11. ASSUME NEW c \in Callers, WriteArgs(c) PROVE Futures'
    <2>1. SameRoles
        BY <1>11 DEF WriteArgs, SameRoles, Carries, Uses, Holds, TypeOK, Control
    <2> QED BY <1>11, <2>1, FuturesFrame DEF WriteArgs, TypeOK, Futures, OneTaker
<1>12. ASSUME NEW c \in Callers, EndRequest(c) PROVE Futures'
    <2>1. SameRoles
        BY <1>12 DEF EndRequest, update_mode, SameRoles, Carries, Uses, Holds, TypeOK,
           Control
    <2> QED BY <1>12, <2>1, FuturesFrame DEF EndRequest, update_mode, TypeOK, Futures,
        OneTaker
<1>13. ASSUME NEW c \in Callers, Wait(c) PROVE Futures'
    <2>1. SameRoles
        BY <1>13 DEF Wait, Touch, SameRoles, Carries, Uses, Holds, TypeOK, Control
    <2> QED BY <1>13, <2>1, FuturesFrame DEF Wait, Touch, TypeOK, Futures, OneTaker
<1>14. ASSUME NEW c \in Callers, SetTimedOut(c) PROVE Futures'
    <2>1. SameRoles
        BY <1>14 DEF SetTimedOut, Touch, SameRoles, Carries, Uses, Holds, TypeOK, Control
    <2> QED BY <1>14, <2>1, FuturesFrame DEF SetTimedOut, Touch, TypeOK, Futures, OneTaker
<1>15. ASSUME NEW c \in Callers, Late(c) PROVE Futures'
    <2>1. SameRoles
        BY <1>15 DEF Late, Touch, SameRoles, Carries, Uses, Holds, TypeOK, Control
    <2> QED BY <1>15, <2>1, FuturesFrame DEF Late, Touch, TypeOK, Futures, OneTaker
<1>16. ASSUME NEW c \in Callers, ReleaseFuture(c) PROVE Futures'
    BY <1>16, ReleaseFutureFutures
<1>17. ASSUME NEW c \in Callers, Unref(c) PROVE Futures'
    <2>1. SameRoles
        BY <1>17 DEF Unref, DropClient, SameRoles, Carries, Uses, Holds, TypeOK, Control
    <2> QED BY <1>17, <2>1, FuturesFrame DEF Unref, DropClient, TypeOK, Futures, OneTaker
<1>18. ASSUME NEW t \in Threads, CloseTest(t) PROVE Futures'
    <2>1. SameRoles
        BY <1>18 DEF CloseTest, SameRoles, Carries, Uses, Holds, TypeOK, Control
    <2> QED BY <1>18, <2>1, FuturesFrame DEF CloseTest, TypeOK, Futures, OneTaker
<1>19. ASSUME NEW t \in Threads, CloseRemove(t) PROVE Futures'
    <2>1. SameRoles
        BY <1>19 DEF CloseRemove, SameRoles, Carries, Uses, Holds, TypeOK, Control
    <2> QED BY <1>19, <2>1, FuturesFrame DEF CloseRemove, TypeOK, Futures, OneTaker
<1>20. ASSUME NEW t \in Threads, CloseFd(t) PROVE Futures'
    <2>1. SameRoles
        BY <1>20 DEF CloseFd, SameRoles, Carries, Uses, Holds, TypeOK, Control
    <2> QED BY <1>20, <2>1, FuturesFrame DEF CloseFd, TypeOK, Futures, OneTaker
<1>21. ASSUME NEW t \in Threads, SetClosed(t) PROVE Futures'
    <2>1. SameRoles
        BY <1>21 DEF SetClosed, SameRoles, Carries, Uses, Holds, TypeOK, Control
    <2> QED BY <1>21, <2>1, FuturesFrame DEF SetClosed, TypeOK, Futures, OneTaker
<1>22. ASSUME NEW t \in Threads, TakePending(t) PROVE Futures'
    BY <1>22, TakePendingFutures
<1>23. ASSUME NEW t \in Threads, FailOne(t) PROVE Futures'
    BY <1>23, FailOneFutures
<1>24. ASSUME NEW t \in Threads, Invalidated(t) PROVE Futures'
    <2>1. SameRoles
        BY <1>24 DEF Invalidated, SameRoles, Carries, Uses, Holds, TypeOK, Control
    <2> QED BY <1>24, <2>1, FuturesFrame DEF Invalidated, TypeOK, Futures, OneTaker
<1>25. ASSUME NEW t \in Threads, notify_ready(t) PROVE Futures'
    <2>1. SameRoles
        BY <1>25 DEF notify_ready, Touch, SameRoles, Carries, Uses, Holds, TypeOK, Control
    <2> QED BY <1>25, <2>1, FuturesFrame DEF notify_ready, Touch, TypeOK, Futures,
        OneTaker
<1>26. ASSUME NEW t \in Threads, ReleaseRemoved(t) PROVE Futures'
    BY <1>26, ReleaseRemovedFutures
<1>27. CASE EpollWait
    <2>1. SameRoles
        BY <1>27 DEF EpollWait, Reported, SameRoles, Carries, Uses, Holds, TypeOK, Control
    <2> QED BY <1>27, <2>1, FuturesFrame DEF EpollWait, Reported, TypeOK, Futures,
        OneTaker
<1>28. CASE HandleRead
    <2>1. SameRoles
        BY <1>28 DEF HandleRead, SameRoles, Carries, Uses, Holds, TypeOK, Control
    <2> QED BY <1>28, <2>1, FuturesFrame DEF HandleRead, TypeOK, Futures, OneTaker
<1>29. CASE ReadFd
    <2>1. PICK l \in {"parse", "write"} : pc' = [pc EXCEPT ![Poll] = l]
        BY <1>29, ReadFdEffect
    <2>2. SameRoles
        BY <1>29, <2>1, ReadFdEffect DEF SameRoles, Carries, Uses, Holds, TypeOK, Control
    <2> QED BY <1>29, <2>1, <2>2, ReadFdEffect, FuturesFrame DEF TypeOK, Futures, OneTaker
<1>30. CASE ParseReply
    BY <1>30, ParseReplyFutures
<1>31. CASE ParseUnknown
    <2>1. SameRoles
        BY <1>31 DEF ParseUnknown, SameRoles, Carries, Uses, Holds, TypeOK, Control
    <2> QED BY <1>31, <2>1, FuturesFrame DEF ParseUnknown, TypeOK, Futures, OneTaker
<1>32. CASE StoreReply
    <2>1. SameRoles
        BY <1>32 DEF StoreReply, Touch, SameRoles, Carries, Uses, Holds, TypeOK, Control
    <2> QED BY <1>32, <2>1, FuturesFrame DEF StoreReply, Touch, TypeOK, Futures, OneTaker
<1>33. CASE NoMorePackets
    <2>1. SameRoles
        BY <1>33 DEF NoMorePackets, SameRoles, Carries, Uses, Holds, TypeOK, Control
    <2> QED BY <1>33, <2>1, FuturesFrame DEF NoMorePackets, TypeOK, Futures, OneTaker
<1>34. CASE HandleWrite
    <2>1. SameRoles
        BY <1>34 DEF HandleWrite, SameRoles, Carries, Uses, Holds, TypeOK, Control
    <2> QED BY <1>34, <2>1, FuturesFrame DEF HandleWrite, TypeOK, Futures, OneTaker
<1>35. CASE WriteFd
    <2>1. SameRoles
        BY <1>35 DEF WriteFd, AfterWrite, update_mode, OutLock, SameRoles, Carries,
           Uses, Holds, TypeOK, Control
    <2> QED BY <1>35, <2>1, FuturesFrame DEF WriteFd, AfterWrite, update_mode, OutLock,
        TypeOK, Futures, OneTaker
<1>36. CASE HandleError
    <2>1. SameRoles
        BY <1>36 DEF HandleError, SameRoles, Carries, Uses, Holds, TypeOK, Control
    <2> QED BY <1>36, <2>1, FuturesFrame DEF HandleError, TypeOK, Futures, OneTaker
<1>37. CASE Drain
    <2>1. PICK l \in {"take_pending", "poll"} : pc' = [pc EXCEPT ![Poll] = l]
        BY <1>37, DrainEffect
    <2>2. SameRoles
        BY <1>37, <2>1, DrainEffect DEF SameRoles, Carries, Uses, Holds, TypeOK, Control
    <2> QED BY <1>37, <2>1, <2>2, DrainEffect, FuturesFrame DEF TypeOK, Futures, OneTaker
<1>38. CASE ServerReceives
    <2>1. SameRoles
        BY <1>38 DEF ServerReceives, SameRoles, Carries, Uses, Holds, TypeOK, Control
    <2> QED BY <1>38, <2>1, FuturesFrame DEF ServerReceives, TypeOK, Futures, OneTaker
<1>39. CASE ServerReplies
    <2>1. SameRoles
        BY <1>39 DEF ServerReplies, SameRoles, Carries, Uses, Holds, TypeOK, Control
    <2> QED BY <1>39, <2>1, FuturesFrame DEF ServerReplies, TypeOK, Futures, OneTaker
<1>40. CASE PeerCloses
    <2>1. SameRoles
        BY <1>40 DEF PeerCloses, SameRoles, Carries, Uses, Holds, TypeOK, Control
    <2> QED BY <1>40, <2>1, FuturesFrame DEF PeerCloses, TypeOK, Futures, OneTaker
<1>41. CASE Terminated \/ UNCHANGED vars
    <2>1. SameRoles
        BY <1>41 DEF Terminated, SameRoles, Carries, Uses, Holds
    <2> QED BY <1>41, <2>1, FuturesFrame DEF Terminated, Futures, OneTaker
<1> QED
    BY <1>1, <1>2, <1>3, <1>4, <1>5, <1>6, <1>7, <1>8, <1>9, <1>10, <1>11, <1>12, <1>13,
       <1>14, <1>15, <1>16, <1>17, <1>18, <1>19, <1>20, <1>21, <1>22, <1>23, <1>24,
       <1>25, <1>26, <1>27, <1>28, <1>29, <1>30, <1>31, <1>32, <1>33, <1>34, <1>35,
       <1>36, <1>37, <1>38, <1>39, <1>40, <1>41
    DEF Next, InCall, Close, PollLoop, Threads

\* Whoever carries or holds a future owns a reference.
LEMMA OwnedIsAlive ==
    ASSUME IInv, NEW x \in Xids, NEW t \in Threads, Carries(t, x) \/ Holds(t, x)
    PROVE  future[x].ref # 0
<1>1. Taken(x) \/ Held(x)
    BY DEF Taken, Held
<1> QED BY <1>1 DEF IInv, Futures, RefsRight

\* Only begin_request may use a deleted future.
LEMMA NextFreed == IInv /\ [Next]_vars => FreedOnlyInBegin'
<1> SUFFICES ASSUME IInv, [Next]_vars PROVE FreedOnlyInBegin'
    OBVIOUS
<1> USE DEF IInv
<1>1. CASE ConnectOk
    BY <1>1 DEF ConnectOk, FreedOnlyInBegin
<1>2. CASE ConnectFails
    BY <1>2 DEF ConnectFails, FreedOnlyInBegin
<1>3. ASSUME NEW c \in Callers, BeginRequest(c) PROVE FreedOnlyInBegin'
    BY <1>3 DEF BeginRequest, FreedOnlyInBegin
<1>4. ASSUME NEW c \in Callers, Expire(c) PROVE FreedOnlyInBegin'
    BY <1>4 DEF Expire, FreedOnlyInBegin
<1>5. ASSUME NEW c \in Callers, CloseAndRelease(c) PROVE FreedOnlyInBegin'
    BY <1>5 DEF CloseAndRelease, FreedOnlyInBegin
<1>6. ASSUME NEW c \in Callers, InsertPending(c) PROVE FreedOnlyInBegin'
    BY <1>6 DEF InsertPending, FreedOnlyInBegin
<1>7. ASSUME NEW c \in Callers, Recheck(c) PROVE FreedOnlyInBegin'
    BY <1>7 DEF Recheck, FreedOnlyInBegin
<1>8. ASSUME NEW c \in Callers, Undo(c) PROVE FreedOnlyInBegin'
    BY <1>8 DEF Undo, AddRef, Touch, FreedOnlyInBegin
<1>9. ASSUME NEW c \in Callers, WriteHeader(c) PROVE FreedOnlyInBegin'
    BY <1>9 DEF WriteHeader, Touch, FreedOnlyInBegin
<1>10. ASSUME NEW c \in Callers, RefCopy(c) PROVE FreedOnlyInBegin'
    BY <1>10 DEF RefCopy, AddRef, Touch, FreedOnlyInBegin
<1>11. ASSUME NEW c \in Callers, WriteArgs(c) PROVE FreedOnlyInBegin'
    BY <1>11 DEF WriteArgs, FreedOnlyInBegin
<1>12. ASSUME NEW c \in Callers, EndRequest(c) PROVE FreedOnlyInBegin'
    BY <1>12 DEF EndRequest, update_mode, FreedOnlyInBegin
<1>13. ASSUME NEW c \in Callers, Wait(c) PROVE FreedOnlyInBegin'
    <2>1. fu[c] \in Xids /\ Holds(c, fu[c])
        BY <1>13 DEF Wait, Holds, TypeOK, Control
    <2> QED BY <1>13, <2>1, OwnedIsAlive DEF Wait, Touch, FreedOnlyInBegin
<1>14. ASSUME NEW c \in Callers, SetTimedOut(c) PROVE FreedOnlyInBegin'
    <2>1. fu[c] \in Xids /\ Holds(c, fu[c])
        BY <1>14 DEF SetTimedOut, Holds, TypeOK, Control
    <2> QED BY <1>14, <2>1, OwnedIsAlive DEF SetTimedOut, Touch, FreedOnlyInBegin
<1>15. ASSUME NEW c \in Callers, Late(c) PROVE FreedOnlyInBegin'
    <2>1. fu[c] \in Xids /\ Holds(c, fu[c])
        BY <1>15 DEF Late, Holds, TypeOK, Control
    <2> QED BY <1>15, <2>1, OwnedIsAlive DEF Late, Touch, FreedOnlyInBegin
<1>16. ASSUME NEW c \in Callers, ReleaseFuture(c) PROVE FreedOnlyInBegin'
    <2>1. fu[c] \in Xids /\ Holds(c, fu[c])
        BY <1>16 DEF ReleaseFuture, Holds, TypeOK, Control
    <2> QED BY <1>16, <2>1, OwnedIsAlive DEF ReleaseFuture, Touch, FreedOnlyInBegin
<1>17. ASSUME NEW c \in Callers, Unref(c) PROVE FreedOnlyInBegin'
    BY <1>17 DEF Unref, DropClient, FreedOnlyInBegin
<1>18. ASSUME NEW t \in Threads, CloseTest(t) PROVE FreedOnlyInBegin'
    BY <1>18 DEF CloseTest, FreedOnlyInBegin
<1>19. ASSUME NEW t \in Threads, CloseRemove(t) PROVE FreedOnlyInBegin'
    BY <1>19 DEF CloseRemove, FreedOnlyInBegin
<1>20. ASSUME NEW t \in Threads, CloseFd(t) PROVE FreedOnlyInBegin'
    BY <1>20 DEF CloseFd, FreedOnlyInBegin
<1>21. ASSUME NEW t \in Threads, SetClosed(t) PROVE FreedOnlyInBegin'
    BY <1>21 DEF SetClosed, FreedOnlyInBegin
<1>22. ASSUME NEW t \in Threads, TakePending(t) PROVE FreedOnlyInBegin'
    BY <1>22 DEF TakePending, FreedOnlyInBegin
<1>23. ASSUME NEW t \in Threads, FailOne(t) PROVE FreedOnlyInBegin'
    <2>1. PICK n \in batch[t] : Touch(t, n)
        BY <1>23 DEF FailOne
    <2>2. n \in Xids /\ Carries(t, n)
        BY <2>1 DEF Carries, TypeOK
    <2> QED BY <2>1, <2>2, OwnedIsAlive DEF Touch, FreedOnlyInBegin
<1>24. ASSUME NEW t \in Threads, Invalidated(t) PROVE FreedOnlyInBegin'
    BY <1>24 DEF Invalidated, FreedOnlyInBegin
<1>25. ASSUME NEW t \in Threads, notify_ready(t) PROVE FreedOnlyInBegin'
    <2>1. fu[t] \in Xids /\ Carries(t, fu[t])
        BY <1>25 DEF notify_ready, Carries, TypeOK, Control
    <2> QED BY <1>25, <2>1, OwnedIsAlive DEF notify_ready, Touch, FreedOnlyInBegin
<1>26. ASSUME NEW t \in Threads, ReleaseRemoved(t) PROVE FreedOnlyInBegin'
    <2>1. fu[t] \in Xids /\ Carries(t, fu[t])
        BY <1>26 DEF ReleaseRemoved, Carries, TypeOK, Control
    <2> QED BY <1>26, <2>1, OwnedIsAlive DEF ReleaseRemoved, Touch, FreedOnlyInBegin
<1>27. CASE EpollWait
    BY <1>27 DEF EpollWait, Reported, FreedOnlyInBegin
<1>28. CASE HandleRead
    BY <1>28 DEF HandleRead, FreedOnlyInBegin
<1>29. CASE ReadFd
    BY <1>29, ReadFdEffect DEF FreedOnlyInBegin
<1>30. CASE ParseReply
    BY <1>30 DEF ParseReply, FreedOnlyInBegin
<1>31. CASE ParseUnknown
    BY <1>31 DEF ParseUnknown, FreedOnlyInBegin
<1>32. CASE StoreReply
    <2>1. fu[Poll] \in Xids /\ Carries(Poll, fu[Poll])
        BY <1>32 DEF StoreReply, Carries, TypeOK, Control
    <2> QED BY <1>32, <2>1, OwnedIsAlive DEF StoreReply, Touch, FreedOnlyInBegin
<1>33. CASE NoMorePackets
    BY <1>33 DEF NoMorePackets, FreedOnlyInBegin
<1>34. CASE HandleWrite
    BY <1>34 DEF HandleWrite, FreedOnlyInBegin
<1>35. CASE WriteFd
    BY <1>35 DEF WriteFd, AfterWrite, update_mode, OutLock, FreedOnlyInBegin
<1>36. CASE HandleError
    BY <1>36 DEF HandleError, FreedOnlyInBegin
<1>37. CASE Drain
    BY <1>37, DrainEffect DEF FreedOnlyInBegin
<1>38. CASE ServerReceives
    BY <1>38 DEF ServerReceives, FreedOnlyInBegin
<1>39. CASE ServerReplies
    BY <1>39 DEF ServerReplies, FreedOnlyInBegin
<1>40. CASE PeerCloses
    BY <1>40 DEF PeerCloses, FreedOnlyInBegin
<1>41. CASE Terminated \/ UNCHANGED vars
    BY <1>41 DEF Terminated, FreedOnlyInBegin
<1> QED
    BY <1>1, <1>2, <1>3, <1>4, <1>5, <1>6, <1>7, <1>8, <1>9, <1>10, <1>11, <1>12, <1>13,
       <1>14, <1>15, <1>16, <1>17, <1>18, <1>19, <1>20, <1>21, <1>22, <1>23, <1>24,
       <1>25, <1>26, <1>27, <1>28, <1>29, <1>30, <1>31, <1>32, <1>33, <1>34, <1>35,
       <1>36, <1>37, <1>38, <1>39, <1>40, <1>41
    DEF Next, InCall, Close, PollLoop, Threads

-----------------------------------------------------------------------------
(* The client's own reference count                                        *)

\* Leaving the callers counted by Users as they are.
LEMMA RefCountFrame ==
    ASSUME RefCount, Users' = Users, UNCHANGED ref_count,
           InPollMgr' <=> InPollMgr, ~(registered' /\ pending_remove_'),
           in_epoll' \/ rdy' => InPollMgr,
           pc'[Poll] # "poll" /\ pc[Poll] = "poll" => InPollMgr,
           ref_count = 0 =>
               /\ \A c \in Callers : pc'[c] \in InvalPcs \cup {"take_pending", "end_of_client"}
               /\ pc'[Poll] \in InvalPcs \cup {"take_pending", "end_of_client", "poll"}
    PROVE  RefCount'
BY DEF RefCount

\* The users are finitely many; one more or one less changes their number by 1.
LEMMA UsersFacts ==
    /\ IsFiniteSet(Users) /\ Cardinality(Users) \in Nat
    /\ Cardinality(Users) = 0 => \A c \in Callers : pc[c] = "end_of_client"
    /\ \A c \in Users : Cardinality(Users \ {c}) = Cardinality(Users) - 1
<1>1. IsFiniteSet(Users) /\ Cardinality(Users) \in Nat
    BY FS_Subset, FS_CardinalityType DEF Users
<1>2. Cardinality(Users) = 0 => Users = {}
    BY <1>1, FS_EmptySet
<1>3. \A c \in Users : Cardinality(Users \ {c}) = Cardinality(Users) - 1
    BY <1>1, FS_RemoveElement
<1> QED BY <1>1, <1>2, <1>3 DEF Users

\* Every step keeps the client's references counted.
LEMMA NextRefCount == IInv /\ [Next]_vars => RefCount'
<1> SUFFICES ASSUME IInv, [Next]_vars PROVE RefCount'
    OBVIOUS
<1> USE DEF IInv
<1>1. CASE ConnectOk
    <2>1. Users' = Users /\ \A c \in Callers : pc[c] = "idle"
        BY <1>1 DEF ConnectOk, Users, Connected
    <2>2. ~InPollMgr
        BY <1>1 DEF ConnectOk, Connected, InPollMgr
    <2>3. ref_count # 0
        <3>1. PICK c \in Callers : TRUE
            OBVIOUS
        <3> QED BY <2>1, <3>1 DEF RefCount
    <2>4. ref_count = Cardinality(Users)
        BY <2>2, <2>3, UsersFacts DEF RefCount, TypeOK
    <2> QED BY <1>1, <2>1, <2>2, <2>3, <2>4, UsersFacts DEF ConnectOk, RefCount,
        InPollMgr, TypeOK
<1>2. CASE ConnectFails
    <2>1. Users' = Users
        BY <1>2 DEF ConnectFails, Users, TypeOK, Control
    <2> QED BY <1>2, <2>1, RefCountFrame DEF ConnectFails, TypeOK, Control, Connected,
        RefCount, InPollMgr
<1>3. ASSUME NEW c \in Callers, BeginRequest(c) PROVE RefCount'
    <2>1. Users' = Users
        BY <1>3 DEF BeginRequest, Users, TypeOK, Control
    <2> QED BY <1>3, <2>1, RefCountFrame DEF BeginRequest, TypeOK, Control, Connected,
        RefCount, InPollMgr
<1>4. ASSUME NEW c \in Callers, Expire(c) PROVE RefCount'
    <2>1. Users' = Users
        BY <1>4 DEF Expire, Users, TypeOK, Control
    <2> QED BY <1>4, <2>1, RefCountFrame DEF Expire, TypeOK, Control, Connected,
        RefCount, InPollMgr
<1>5. ASSUME NEW c \in Callers, CloseAndRelease(c) PROVE RefCount'
    <2>1. Users' = Users
        BY <1>5 DEF CloseAndRelease, Users, TypeOK, Control
    <2> QED BY <1>5, <2>1, RefCountFrame DEF CloseAndRelease, TypeOK, Control,
        Connected, RefCount, InPollMgr
<1>6. ASSUME NEW c \in Callers, InsertPending(c) PROVE RefCount'
    <2>1. Users' = Users
        BY <1>6 DEF InsertPending, Users, TypeOK, Control
    <2> QED BY <1>6, <2>1, RefCountFrame DEF InsertPending, TypeOK, Control, Connected,
        RefCount, InPollMgr
<1>7. ASSUME NEW c \in Callers, Recheck(c) PROVE RefCount'
    <2>1. Users' = Users
        BY <1>7 DEF Recheck, Users, TypeOK, Control
    <2> QED BY <1>7, <2>1, RefCountFrame DEF Recheck, TypeOK, Control, Connected,
        RefCount, InPollMgr
<1>8. ASSUME NEW c \in Callers, Undo(c) PROVE RefCount'
    <2>1. Users' = Users
        BY <1>8 DEF Undo, AddRef, Touch, Users, TypeOK, Control
    <2> QED BY <1>8, <2>1, RefCountFrame DEF Undo, AddRef, Touch, TypeOK, Control,
        Connected, RefCount, InPollMgr
<1>9. ASSUME NEW c \in Callers, WriteHeader(c) PROVE RefCount'
    <2>1. Users' = Users
        BY <1>9 DEF WriteHeader, Touch, Users, TypeOK, Control
    <2> QED BY <1>9, <2>1, RefCountFrame DEF WriteHeader, Touch, TypeOK, Control,
        Connected, RefCount, InPollMgr
<1>10. ASSUME NEW c \in Callers, RefCopy(c) PROVE RefCount'
    <2>1. Users' = Users
        BY <1>10 DEF RefCopy, AddRef, Touch, Users, TypeOK, Control
    <2> QED BY <1>10, <2>1, RefCountFrame DEF RefCopy, AddRef, Touch, TypeOK, Control,
        Connected, RefCount, InPollMgr
<1>11. ASSUME NEW c \in Callers, WriteArgs(c) PROVE RefCount'
    <2>1. Users' = Users
        BY <1>11 DEF WriteArgs, Users, TypeOK, Control
    <2> QED BY <1>11, <2>1, RefCountFrame DEF WriteArgs, TypeOK, Control, Connected,
        RefCount, InPollMgr
<1>12. ASSUME NEW c \in Callers, EndRequest(c) PROVE RefCount'
    <2>1. Users' = Users
        BY <1>12 DEF EndRequest, update_mode, Users, TypeOK, Control
    <2> QED BY <1>12, <2>1, RefCountFrame DEF EndRequest, update_mode, TypeOK, Control,
        Connected, RefCount, InPollMgr
<1>13. ASSUME NEW c \in Callers, Wait(c) PROVE RefCount'
    <2>1. Users' = Users
        BY <1>13 DEF Wait, Touch, Users, TypeOK, Control
    <2> QED BY <1>13, <2>1, RefCountFrame DEF Wait, Touch, TypeOK, Control, Connected,
        RefCount, InPollMgr
<1>14. ASSUME NEW c \in Callers, SetTimedOut(c) PROVE RefCount'
    <2>1. Users' = Users
        BY <1>14 DEF SetTimedOut, Touch, Users, TypeOK, Control
    <2> QED BY <1>14, <2>1, RefCountFrame DEF SetTimedOut, Touch, TypeOK, Control,
        Connected, RefCount, InPollMgr
<1>15. ASSUME NEW c \in Callers, Late(c) PROVE RefCount'
    <2>1. Users' = Users
        BY <1>15 DEF Late, Touch, Users, TypeOK, Control
    <2> QED BY <1>15, <2>1, RefCountFrame DEF Late, Touch, TypeOK, Control, Connected,
        RefCount, InPollMgr
<1>16. ASSUME NEW c \in Callers, ReleaseFuture(c) PROVE RefCount'
    <2>1. Users' = Users
        BY <1>16 DEF ReleaseFuture, AddRef, Touch, Users, TypeOK, Control
    <2> QED BY <1>16, <2>1, RefCountFrame DEF ReleaseFuture, AddRef, Touch, TypeOK,
        Control, Connected, RefCount, InPollMgr
<1>17. ASSUME NEW c \in Callers, Unref(c) PROVE RefCount'
    <2>1. ref_count > 0 /\ c \in Users /\ Poll # c
        <3>1. ref_count # 0
            BY <1>17 DEF Unref, RefCount
        <3> QED BY <1>17, <3>1 DEF Unref, Users, TypeOK
    <2>2. ref_count = Cardinality(Users) + (IF InPollMgr THEN 1 ELSE 0)
        BY <2>1 DEF RefCount
    <2>3. CASE ref_count = 1
        <3>1. ref_count' = 0 /\ pc' = [pc EXCEPT ![c] = "take_pending"]
            BY <1>17, <2>3 DEF Unref, DropClient
        <3>2. Cardinality(Users \ {c}) = 0 /\ ~InPollMgr
            <4>1. Cardinality(Users \ {c}) \in Nat
                BY UsersFacts, FS_Subset, FS_CardinalityType
            <4>2. Cardinality(Users) = Cardinality(Users \ {c}) + 1
                BY <2>1, <4>1, UsersFacts
            <4> QED BY <2>2, <2>3, <4>1, <4>2
        <3>3. Users \ {c} = {}
            BY <3>2, UsersFacts, FS_RemoveElement, FS_EmptySet
        <3>4. \A d \in Callers : d # c => pc[d] = "end_of_client"
            BY <3>3 DEF Users
        <3> QED BY <1>17, <2>1, <3>1, <3>2, <3>4 DEF Unref, RefCount, InPollMgr, TypeOK
    <2>4. CASE ref_count # 1
        <3>1. ref_count' = ref_count - 1 /\ pc' = [pc EXCEPT ![c] = "end_of_client"]
            BY <1>17, <2>1, <2>4 DEF Unref, DropClient
        <3>2. Users' = Users \ {c}
            BY <3>1 DEF Users, TypeOK
        <3>3. ref_count' = Cardinality(Users') + (IF InPollMgr THEN 1 ELSE 0)
            BY <2>1, <2>2, <3>1, <3>2, UsersFacts
        <3>4. ref_count' > 0
            BY <2>1, <2>4, <3>1 DEF TypeOK
        <3> QED BY <1>17, <2>1, <3>1, <3>3, <3>4 DEF Unref, RefCount, InPollMgr, TypeOK
    <2> QED BY <2>3, <2>4
<1>18. ASSUME NEW t \in Threads, CloseTest(t) PROVE RefCount'
    <2>1. Users' = Users
        BY <1>18 DEF CloseTest, Users, TypeOK, Control
    <2> QED BY <1>18, <2>1, RefCountFrame DEF CloseTest, TypeOK, Control, Connected,
        RefCount, InPollMgr
<1>19. ASSUME NEW t \in Threads, CloseRemove(t) PROVE RefCount'
    <2>1. Users' = Users
        BY <1>19 DEF CloseRemove, Users, TypeOK, Control
    <2> QED BY <1>19, <2>1, RefCountFrame DEF CloseRemove, TypeOK, Control, Connected,
        RefCount, InPollMgr
<1>20. ASSUME NEW t \in Threads, CloseFd(t) PROVE RefCount'
    <2>1. Users' = Users
        BY <1>20 DEF CloseFd, Users, TypeOK, Control
    <2> QED BY <1>20, <2>1, RefCountFrame DEF CloseFd, TypeOK, Control, Connected,
        RefCount, InPollMgr
<1>21. ASSUME NEW t \in Threads, SetClosed(t) PROVE RefCount'
    <2>1. Users' = Users
        BY <1>21 DEF SetClosed, Users, TypeOK, Control
    <2> QED BY <1>21, <2>1, RefCountFrame DEF SetClosed, TypeOK, Control, Connected,
        RefCount, InPollMgr
<1>22. ASSUME NEW t \in Threads, TakePending(t) PROVE RefCount'
    <2>1. Users' = Users
        BY <1>22 DEF TakePending, Users, TypeOK, Control
    <2> QED BY <1>22, <2>1, RefCountFrame DEF TakePending, TypeOK, Control, Connected,
        RefCount, InPollMgr
<1>23. ASSUME NEW t \in Threads, FailOne(t) PROVE RefCount'
    <2>1. Users' = Users
        BY <1>23 DEF FailOne, Touch, Users, TypeOK, Control
    <2> QED BY <1>23, <2>1, RefCountFrame DEF FailOne, Touch, TypeOK, Control,
        Connected, RefCount, InPollMgr
<1>24. ASSUME NEW t \in Threads, Invalidated(t) PROVE RefCount'
    <2>1. CASE ref_count = 0
        <3>1. pc' = [pc EXCEPT ![t] = "end_of_client"]
            BY <1>24, <2>1 DEF Invalidated
        <3> QED BY <1>24, <2>1, <3>1 DEF Invalidated, RefCount, InPollMgr, TypeOK
    <2>2. CASE ref_count # 0
        <3>1. PICK l \in {"drain", "unref"} : pc' = [pc EXCEPT ![t] = l]
            BY <1>24, <2>2 DEF Invalidated
        <3>2. Users' = Users
            BY <1>24, <3>1 DEF Invalidated, Users, TypeOK
        <3> QED BY <1>24, <2>2, <3>1, <3>2, RefCountFrame DEF Invalidated, RefCount,
            InPollMgr, TypeOK
    <2> QED BY <2>1, <2>2
<1>25. ASSUME NEW t \in Threads, notify_ready(t) PROVE RefCount'
    <2>1. Users' = Users
        BY <1>25 DEF notify_ready, Touch, Users, TypeOK, Control
    <2> QED BY <1>25, <2>1, RefCountFrame DEF notify_ready, Touch, TypeOK, Control,
        Connected, RefCount, InPollMgr
<1>26. ASSUME NEW t \in Threads, ReleaseRemoved(t) PROVE RefCount'
    <2>1. Users' = Users
        BY <1>26 DEF ReleaseRemoved, AddRef, Touch, Users, TypeOK, Control
    <2> QED BY <1>26, <2>1, RefCountFrame DEF ReleaseRemoved, AddRef, Touch, TypeOK,
        Control, Connected, RefCount, InPollMgr
<1>27. CASE EpollWait
    <2>1. Users' = Users
        BY <1>27 DEF EpollWait, Reported, Users, TypeOK, Control
    <2> QED BY <1>27, <2>1, RefCountFrame DEF EpollWait, Reported, TypeOK, Control,
        Connected, RefCount, InPollMgr
<1>28. CASE HandleRead
    <2>1. Users' = Users
        BY <1>28 DEF HandleRead, Users, TypeOK, Control
    <2> QED BY <1>28, <2>1, RefCountFrame DEF HandleRead, TypeOK, Control, Connected,
        RefCount, InPollMgr
<1>29. CASE ReadFd
    <2>1. PICK l \in {"parse", "write"} : pc' = [pc EXCEPT ![Poll] = l]
        BY <1>29, ReadFdEffect
    <2>2. Users' = Users
        BY <1>29, <2>1, ReadFdEffect DEF Users, TypeOK
    <2> QED BY <1>29, <2>1, <2>2, ReadFdEffect, RefCountFrame DEF TypeOK, RefCount,
        InPollMgr
<1>30. CASE ParseReply
    <2>1. Users' = Users
        BY <1>30 DEF ParseReply, Users, TypeOK, Control
    <2> QED BY <1>30, <2>1, RefCountFrame DEF ParseReply, TypeOK, Control, Connected,
        RefCount, InPollMgr
<1>31. CASE ParseUnknown
    <2>1. Users' = Users
        BY <1>31 DEF ParseUnknown, Users, TypeOK, Control
    <2> QED BY <1>31, <2>1, RefCountFrame DEF ParseUnknown, TypeOK, Control, Connected,
        RefCount, InPollMgr
<1>32. CASE StoreReply
    <2>1. Users' = Users
        BY <1>32 DEF StoreReply, Touch, Users, TypeOK, Control
    <2> QED BY <1>32, <2>1, RefCountFrame DEF StoreReply, Touch, TypeOK, Control,
        Connected, RefCount, InPollMgr
<1>33. CASE NoMorePackets
    <2>1. Users' = Users
        BY <1>33 DEF NoMorePackets, Users, TypeOK, Control
    <2> QED BY <1>33, <2>1, RefCountFrame DEF NoMorePackets, TypeOK, Control, Connected,
        RefCount, InPollMgr
<1>34. CASE HandleWrite
    <2>1. Users' = Users
        BY <1>34 DEF HandleWrite, Users, TypeOK, Control
    <2> QED BY <1>34, <2>1, RefCountFrame DEF HandleWrite, TypeOK, Control, Connected,
        RefCount, InPollMgr
<1>35. CASE WriteFd
    <2>1. Users' = Users
        BY <1>35 DEF WriteFd, AfterWrite, update_mode, OutLock, Users, TypeOK, Control
    <2> QED BY <1>35, <2>1, RefCountFrame DEF WriteFd, AfterWrite, update_mode, OutLock,
        TypeOK, Control, Connected, RefCount, InPollMgr
<1>36. CASE HandleError
    <2>1. Users' = Users
        BY <1>36 DEF HandleError, Users, TypeOK, Control
    <2> QED BY <1>36, <2>1, RefCountFrame DEF HandleError, TypeOK, Control, Connected,
        RefCount, InPollMgr
<1>37. CASE Drain
    <2>1. Users' = Users
        BY <1>37 DEF Drain, DropClient, Users, TypeOK
    <2>2. ref_count > 0
        BY <1>37 DEF Drain, RefCount, TypeOK
    <2>3. CASE pending_remove_
        <3>1. /\ in_epoll' = FALSE /\ rdy' = FALSE /\ ref_count' = ref_count - 1
              /\ pc' = [pc EXCEPT ![Poll] = IF ref_count = 1 THEN "take_pending" ELSE "poll"]
            BY <1>37, <2>3 DEF Drain, DropClient
        <3>2. InPollMgr /\ ~InPollMgr'
            BY <1>37, <2>3 DEF Drain, InPollMgr, RefCount
        <3>3. ref_count' = Cardinality(Users)
            BY <2>2, <3>1, <3>2, UsersFacts DEF RefCount
        <3>4. CASE ref_count = 1
            <4>1. \A c \in Callers : pc[c] = "end_of_client"
                BY <3>1, <3>3, <3>4, UsersFacts
            <4> QED BY <3>1, <3>2, <3>4, <4>1 DEF RefCount, InPollMgr, TypeOK
        <3>5. CASE ref_count # 1
            BY <2>1, <2>2, <3>1, <3>2, <3>3, <3>5 DEF RefCount, InPollMgr, TypeOK
        <3> QED BY <3>4, <3>5
    <2>4. CASE ~pending_remove_
        <3>1. UNCHANGED <<in_epoll, rdy, ref_count>> /\ pc' = [pc EXCEPT ![Poll] = "poll"]
            BY <1>37, <2>4 DEF Drain
        <3> QED BY <1>37, <2>1, <2>2, <2>4, <3>1, RefCountFrame DEF Drain, RefCount,
            InPollMgr, TypeOK
    <2> QED BY <2>3, <2>4
<1>38. CASE ServerReceives
    <2>1. Users' = Users
        BY <1>38 DEF ServerReceives, Users, TypeOK, Control
    <2> QED BY <1>38, <2>1, RefCountFrame DEF ServerReceives, TypeOK, Control,
        Connected, RefCount, InPollMgr
<1>39. CASE ServerReplies
    <2>1. Users' = Users
        BY <1>39 DEF ServerReplies, Users, TypeOK, Control
    <2> QED BY <1>39, <2>1, RefCountFrame DEF ServerReplies, TypeOK, Control, Connected,
        RefCount, InPollMgr
<1>40. CASE PeerCloses
    <2>1. Users' = Users
        BY <1>40 DEF PeerCloses, Users, TypeOK, Control
    <2> QED BY <1>40, <2>1, RefCountFrame DEF PeerCloses, TypeOK, Control, Connected,
        RefCount, InPollMgr
<1>41. CASE Terminated \/ UNCHANGED vars
    <2>1. Users' = Users
        BY <1>41 DEF Terminated, Users
    <2> QED BY <1>41, <2>1, RefCountFrame DEF Terminated, RefCount, InPollMgr
<1> QED
    BY <1>1, <1>2, <1>3, <1>4, <1>5, <1>6, <1>7, <1>8, <1>9, <1>10, <1>11, <1>12, <1>13,
       <1>14, <1>15, <1>16, <1>17, <1>18, <1>19, <1>20, <1>21, <1>22, <1>23, <1>24,
       <1>25, <1>26, <1>27, <1>28, <1>29, <1>30, <1>31, <1>32, <1>33, <1>34, <1>35,
       <1>36, <1>37, <1>38, <1>39, <1>40, <1>41
    DEF Next, InCall, Close, PollLoop, Threads

-----------------------------------------------------------------------------
(* Packets                                                                 *)

\* A step that leaves the packets as they are.
PacketsFrame ==
    /\ UNCHANGED <<out_, to_server>>
    /\ \A c \in Callers : Writing(c)' <=> Writing(c)
    /\ status_ = "CLOSED" => status_' = "CLOSED"
    /\ status_' = "NEW" => status_ = "NEW"

\* A step that leaves the buffers and the writer alone.
LEMMA PacketsSame ==
    ASSUME Packets, PacketsFrame
    PROVE  Packets'
BY DEF Packets, PacketsFrame

\* The last packet of out_ and the others, when a field of the last one is set.
LEMMA LastPacket ==
    ASSUME out_ \in Seq(Packet), out_ # <<>>, NEW p \in Packet,
           out_' = [out_ EXCEPT ![Len(out_)] = p]
    PROVE  /\ Len(out_) \in Nat \ {0} /\ out_' \in Seq(Packet)
           /\ DOMAIN out_ = 1 .. Len(out_) /\ DOMAIN out_' = 1 .. Len(out_)
           /\ Len(out_') = Len(out_) /\ out_' # <<>>
           /\ \A k \in 1 .. Len(out_) : out_'[k] = IF k = Len(out_) THEN p ELSE out_[k]
<1>1. Len(out_) \in Nat \ {0}
    BY EmptySeq
<1>2. Len(out_) \in 1 .. Len(out_)
    BY <1>1
<1>3. /\ out_' \in Seq(Packet) /\ Len(out_') = Len(out_)
      /\ \A k \in 1 .. Len(out_) : out_'[k] = IF k = Len(out_) THEN p ELSE out_[k]
    BY <1>2, ExceptSeq
<1>4. out_' # <<>>
    BY <1>1, <1>3, EmptySeq
<1> QED BY <1>1, <1>3, <1>4, LenProperties

\* begin_request writes a packet's header, ...
LEMMA WriteHeaderPackets ==
    ASSUME IInv, NEW c \in Callers, WriteHeader(c)
    PROVE  Packets' /\ out_' \in Seq(Packet)
<1> DEFINE p == [xid |-> fu[c], sized |-> FALSE, cut |-> status_ # "CONNECTED"]
           n == Len(out_)
<1>1. p \in Packet /\ p.cut = (status_ # "CONNECTED") /\ out_' = Append(out_, p)
    BY DEF IInv, WriteHeader, Control, Packet
<1>2. out_ \in Seq(Packet) /\ n \in Nat /\ DOMAIN out_ = 1 .. n
    BY LenProperties DEF IInv, TypeOK
<1> HIDE DEF p
<1>3. /\ out_' \in Seq(Packet) /\ out_' # <<>> /\ Len(out_') = n + 1
      /\ \A k \in 1 .. n : out_'[k] = out_[k]
      /\ out_'[n + 1] = p
    BY <1>1, <1>2, AppendProperties
<1>4. DOMAIN out_' = 1 .. (n + 1)
    BY <1>3, LenProperties
<1>5. Writing(c)' /\ UNCHANGED <<status_, to_server>>
    BY DEF WriteHeader, Writing, IInv, TypeOK
<1>6. \A d \in Callers : ~Writing(d)
    BY DEF Writing, IInv, Control, WriteHeader
<1>7. \A k \in DOMAIN out_' : out_'[k].cut => status_' = "CLOSED"
    <2> SUFFICES ASSUME NEW k \in 1 .. (n + 1), out_'[k].cut PROVE status_' = "CLOSED"
        BY <1>4
    <2>1. CASE k = n + 1
        BY <1>1, <1>3, <1>5, <2>1 DEF IInv, WriteHeader, Connected, TypeOK
    <2>2. CASE k # n + 1
        <3>1. k \in 1 .. n
            BY <1>2, <2>2
        <3> QED BY <1>2, <1>3, <1>5, <3>1 DEF IInv, Packets
    <2> QED BY <2>1, <2>2
<1>8. \A k \in DOMAIN out_' : out_'[k].sized \/ k = Len(out_')
    <2> SUFFICES ASSUME NEW k \in 1 .. (n + 1), k # n + 1 PROVE out_'[k].sized
        BY <1>3, <1>4
    <2>1. k \in 1 .. n
        BY <1>2
    <2> QED BY <1>2, <1>3, <1>6, <2>1 DEF IInv, Packets
<1>9. status_' # "NEW"
    BY <1>5 DEF IInv, WriteHeader, Connected
<1> QED BY <1>3, <1>5, <1>7, <1>8, <1>9 DEF IInv, Packets

\* ... the caller its arguments, ...
LEMMA WriteArgsPackets ==
    ASSUME IInv, NEW c \in Callers, WriteArgs(c)
    PROVE  Packets' /\ out_' \in Seq(Packet)
<1> DEFINE n == Len(out_)
           p == [out_[n] EXCEPT !.cut = @ \/ status_ # "CONNECTED"]
<1>1. Writing(c) /\ Writing(c)' /\ UNCHANGED <<status_, to_server>>
    <2>1. fu[c] \in Xids
        BY DEF IInv, WriteArgs, Control
    <2> QED BY <2>1 DEF IInv, WriteArgs, Writing, TypeOK
<1>2. out_ \in Seq(Packet) /\ out_ # <<>> /\ n \in Nat \ {0}
    BY <1>1, EmptySeq DEF IInv, TypeOK, Packets
<1>3. DOMAIN out_ = 1 .. n /\ n \in 1 .. n /\ out_[n] \in Packet
    BY <1>2, LenProperties, ElementOfSeq
<1>4. /\ p \in Packet /\ p.sized = out_[n].sized
      /\ p.cut => out_[n].cut \/ status_ # "CONNECTED"
    BY <1>3 DEF Packet
<1>5. out_' = [out_ EXCEPT ![n] = p]
    BY <1>3 DEF WriteArgs
<1> HIDE DEF p
<1>6. /\ out_' \in Seq(Packet) /\ out_' # <<>> /\ Len(out_') = n /\ DOMAIN out_' = 1 .. n
      /\ \A k \in 1 .. n : out_'[k] = IF k = n THEN p ELSE out_[k]
    BY <1>2, <1>4, <1>5, LastPacket
<1>7. \A k \in 1 .. n : out_'[k].cut => status_' = "CLOSED"
    BY <1>1, <1>3, <1>4, <1>6 DEF IInv, Packets, Connected, WriteArgs, TypeOK
<1>8. \A k \in 1 .. n : out_'[k].sized \/ k = n
    BY <1>3, <1>4, <1>6 DEF IInv, Packets
<1>9. status_' # "NEW"
    BY <1>1 DEF IInv, WriteArgs, Connected
<1> QED BY <1>1, <1>6, <1>7, <1>8, <1>9 DEF IInv, Packets

\* ... and end_request completes it.
LEMMA EndRequestPackets ==
    ASSUME IInv, NEW c \in Callers, EndRequest(c)
    PROVE  Packets' /\ out_' \in Seq(Packet)
<1>1. UNCHANGED <<status_, to_server>> /\ \A d \in Callers : ~Writing(d)'
    BY DEF IInv, EndRequest, Writing, TypeOK, Control
<1>2. \A d \in Callers : Writing(d) => d = c
    BY DEF IInv, EndRequest, Writing, TypeOK, Control
<1>3. CASE fu[c] = NoXid
    <2>1. out_' = out_ /\ ~Writing(c)
        BY <1>3 DEF EndRequest, Writing
    <2> QED BY <1>1, <1>2, <2>1 DEF IInv, TypeOK, Packets
<1>4. CASE fu[c] # NoXid
    <2> DEFINE n == Len(out_)
               p == [out_[n] EXCEPT !.sized = TRUE]
    <2>1. Writing(c)
        BY <1>4 DEF EndRequest, Writing
    <2>2. out_ \in Seq(Packet) /\ out_ # <<>> /\ n \in Nat \ {0}
        BY <2>1, EmptySeq DEF IInv, TypeOK, Packets
    <2>3. DOMAIN out_ = 1 .. n /\ n \in 1 .. n /\ out_[n] \in Packet
        BY <2>2, LenProperties, ElementOfSeq
    <2>4. p \in Packet /\ p.sized /\ p.cut = out_[n].cut
        BY <2>3 DEF Packet
    <2>5. out_' = [out_ EXCEPT ![n] = p]
        BY <1>4, <2>3 DEF EndRequest
    <2> HIDE DEF p
    <2>6. /\ out_' \in Seq(Packet) /\ out_' # <<>> /\ Len(out_') = n /\ DOMAIN out_' = 1 .. n
          /\ \A k \in 1 .. n : out_'[k] = IF k = n THEN p ELSE out_[k]
        BY <2>2, <2>4, <2>5, LastPacket
    <2>7. \A k \in 1 .. n : out_'[k].cut => status_' = "CLOSED"
        BY <1>1, <2>3, <2>4, <2>6 DEF IInv, Packets
    <2>8. \A k \in 1 .. n : out_'[k].sized
        BY <2>3, <2>4, <2>6 DEF IInv, Packets
    <2>9. status_' # "NEW"
        BY <1>1, <2>2 DEF IInv, Packets
    <2> QED BY <1>1, <2>6, <2>7, <2>8, <2>9 DEF IInv, Packets
<1> QED BY <1>3, <1>4

\* What write_to_fd moves from out_ to the socket: nothing once it is closed.
LEMMA WriteFdEffect ==
    ASSUME IInv, WriteFd
    PROVE  \E n \in 0 .. Len(out_) :
               /\ n > 0 => sock_ = "open"
               /\ n <= SockBuf - Len(to_server)
               /\ to_server' = to_server \o SubSeq(out_, 1, n)
               /\ out_' = SubSeq(out_, n + 1, Len(out_))
<1> DEFINE room == IF sock_ = "open" /\ peer = "up" THEN SockBuf - Len(to_server) ELSE 0
           n    == IF Len(out_) <= room THEN Len(out_) ELSE room
<1>1. Len(out_) \in Nat /\ Len(to_server) \in Nat /\ SockBuf - Len(to_server) \in Nat
    BY LenProperties DEF IInv, TypeOK, Packets
<1>2. room \in Nat /\ room <= SockBuf - Len(to_server) /\ (room > 0 => sock_ = "open")
    BY <1>1
<1>3. to_server' = to_server \o SubSeq(out_, 1, n) /\ out_' = SubSeq(out_, n + 1, Len(out_))
    BY DEF WriteFd
<1> HIDE DEF room
<1>4. /\ n \in 0 .. Len(out_) /\ (n > 0 => sock_ = "open")
      /\ n <= SockBuf - Len(to_server)
    BY <1>1, <1>2
<1> QED BY <1>3, <1>4

\* handle_write sends complete packets.
LEMMA WriteFdPackets ==
    ASSUME IInv, WriteFd
    PROVE  Packets' /\ out_' \in Seq(Packet) /\ to_server' \in Seq(Packet)
<1> DEFINE L == Len(out_)
           M == Len(to_server)
<1>1. PICK n \in 0 .. L :
          /\ n > 0 => sock_ = "open"
          /\ n <= SockBuf - M
          /\ to_server' = to_server \o SubSeq(out_, 1, n)
          /\ out_' = SubSeq(out_, n + 1, L)
    BY WriteFdEffect
<1>2. /\ L \in Nat /\ M \in Nat /\ DOMAIN out_ = 1 .. L /\ DOMAIN to_server = 1 .. M
      /\ out_ \in Seq(Packet) /\ to_server \in Seq(Packet)
      /\ \A k \in 1 .. L : out_[k] \in Packet
    BY LenProperties, ElementOfSeq DEF IInv, TypeOK
<1>3. \A c \in Callers : ~Writing(c) /\ ~Writing(c)'
    BY DEF IInv, Control, WriteFd, OutLock, Writing, TypeOK
<1>4. UNCHANGED status_ /\ \A k \in 1 .. L : out_[k].sized
    BY <1>2, <1>3 DEF IInv, Packets, WriteFd
<1>5. n > 0 => \A k \in 1 .. L : ~out_[k].cut
    BY <1>1, <1>2 DEF IInv, Packets, Connected
<1> DEFINE sent == SubSeq(out_, 1, n)
<1>6. /\ sent \in Seq(Packet) /\ Len(sent) = n
      /\ \A i \in 1 .. n : sent[i] = out_[i]
    <2>1. \A i \in 1 .. n : out_[i] \in Packet
        BY <1>2
    <2>2. /\ sent \in Seq(Packet)
          /\ Len(sent) = IF 1 <= n THEN n - 1 + 1 ELSE 0
          /\ \A i \in 1 .. (n - 1 + 1) : sent[i] = out_[1 + i - 1]
        BY <1>2, <2>1, SubSeqProperties
    <2> QED BY <1>2, <2>2
<1>7. /\ out_' \in Seq(Packet) /\ Len(out_') = L - n
      /\ \A i \in 1 .. (L - n) : out_'[i] = out_[n + i]
    <2>1. \A i \in (n + 1) .. L : out_[i] \in Packet
        BY <1>2
    <2>2. /\ out_' \in Seq(Packet)
          /\ Len(out_') = IF n + 1 <= L THEN L - (n + 1) + 1 ELSE 0
          /\ \A i \in 1 .. (L - (n + 1) + 1) : out_'[i] = out_[(n + 1) + i - 1]
        BY <1>1, <1>2, <2>1, SubSeqProperties
    <2>3. Len(out_') = L - n
        <3>1. (IF n + 1 <= L THEN L - (n + 1) + 1 ELSE 0) = L - n
            <4> HIDE DEF L
            <4>1. n \in Int /\ 0 <= n /\ n <= L /\ L \in Nat
                BY <1>1, <1>2
            <4> QED BY <4>1
        <3> QED BY <2>2, <3>1
    <2>4. L - (n + 1) + 1 = L - n /\ \A i \in 1 .. (L - n) : (n + 1) + i - 1 = n + i
        BY <1>2
    <2> QED BY <2>2, <2>3, <2>4
<1>8. to_server' = to_server \o sent
    BY <1>1
<1> HIDE DEF sent
<1>9. /\ to_server' \in Seq(Packet) /\ Len(to_server') = M + n
      /\ \A i \in 1 .. (M + n) : to_server'[i] = IF i <= M THEN to_server[i] ELSE sent[i - M]
    <2>1. to_server' \in Seq(Packet) /\ Len(to_server') = Len(to_server) + Len(sent)
        BY <1>2, <1>6, <1>8, ConcatProperties
    <2>2. \A i \in 1 .. (Len(to_server) + Len(sent)) :
              to_server'[i] = IF i <= Len(to_server) THEN to_server[i]
                              ELSE sent[i - Len(to_server)]
        BY <1>2, <1>6, <1>8, ConcatProperties
    <2> QED BY <1>6, <2>1, <2>2
<1>10. \A i \in 1 .. (M + n) : to_server'[i].sized /\ ~to_server'[i].cut
    <2> TAKE i \in 1 .. (M + n)
    <2>1. CASE i <= M
        <3>1. i \in DOMAIN to_server /\ to_server'[i] = to_server[i]
            BY <1>2, <1>9, <2>1
        <3> QED BY <3>1 DEF IInv, Packets
    <2>2. CASE ~(i <= M)
        <3>1. i - M \in 1 .. n /\ i - M \in 1 .. L /\ n > 0
            BY <1>2, <2>2
        <3>2. to_server'[i] = out_[i - M]
            BY <1>6, <1>9, <2>2, <3>1
        <3> QED BY <1>4, <1>5, <3>1, <3>2
    <2> QED BY <2>1, <2>2
<1>11. \A i \in 1 .. (L - n) : out_'[i].sized /\ (out_'[i].cut => status_' = "CLOSED")
    <2> TAKE i \in 1 .. (L - n)
    <2>1. n + i \in 1 .. L /\ out_'[i] = out_[n + i]
        BY <1>2, <1>7
    <2> QED BY <1>2, <1>4, <2>1 DEF IInv, Packets
<1>12. status_' = "NEW" => out_' = <<>>
    BY <1>2, <1>4, <1>7, EmptySeq DEF IInv, Packets
<1>13. DOMAIN out_' = 1 .. (L - n) /\ DOMAIN to_server' = 1 .. (M + n) /\ M + n <= SockBuf
    <2>1. DOMAIN out_' = 1 .. (L - n)
        BY <1>7, LenProperties
    <2>2. DOMAIN to_server' = 1 .. (M + n)
        BY <1>9, LenProperties
    <2>3. M + n <= SockBuf
        BY <1>1, <1>2
    <2> QED BY <2>1, <2>2, <2>3
<1> QED BY <1>3, <1>7, <1>9, <1>10, <1>11, <1>12, <1>13 DEF Packets

\* The server takes a whole packet off the socket.
LEMMA ServerReceivesPackets ==
    ASSUME IInv, ServerReceives
    PROVE  /\ Packets' /\ OnlyWholeRequests' /\ to_server' \in Seq(Packet)
           /\ at_server' \subseteq Xids /\ received' \subseteq Packet
<1>1. /\ to_server \in Seq(Packet) /\ to_server # <<>> /\ to_server' = Tail(to_server)
      /\ Len(to_server) \in Nat \ {0}
    BY EmptySeq DEF IInv, TypeOK, ServerReceives
<1>2. DOMAIN to_server = 1 .. Len(to_server) /\ Head(to_server) = to_server[1]
    BY <1>1, LenProperties
<1>3. /\ to_server' \in Seq(Packet) /\ Len(to_server') = Len(to_server) - 1
      /\ \A i \in 1 .. Len(to_server') : to_server'[i] = to_server[i + 1]
      /\ Head(to_server) \in Packet
    BY <1>1, HeadTailProperties
<1>4. DOMAIN to_server' = 1 .. (Len(to_server) - 1)
    BY <1>3, LenProperties
<1>5. \A k \in DOMAIN to_server' : to_server'[k].sized /\ ~to_server'[k].cut
    <2> TAKE k \in DOMAIN to_server'
    <2>1. k + 1 \in DOMAIN to_server /\ to_server'[k] = to_server[k + 1]
        BY <1>1, <1>2, <1>3, <1>4
    <2> QED BY <2>1 DEF IInv, Packets
<1>6. UNCHANGED <<out_, status_, pc, fu>> /\ Len(to_server') <= SockBuf
    <2>1. Len(to_server) <= SockBuf
        BY DEF IInv, Packets
    <2>2. Len(to_server') <= SockBuf
        BY <1>1, <1>3, <2>1
    <2> QED BY <2>2 DEF ServerReceives
<1>7. Packets'
    BY <1>5, <1>6 DEF IInv, Packets, Writing
<1>8. 1 \in DOMAIN to_server
    BY <1>1, <1>2
<1>9. OnlyWholeRequests'
    BY <1>2, <1>8 DEF IInv, Packets, OnlyWholeRequests, ServerReceives
<1>10. at_server' \subseteq Xids /\ received' \subseteq Packet
    BY <1>3 DEF IInv, TypeOK, ServerReceives, Packet
<1> QED BY <1>3, <1>7, <1>9, <1>10

\* Every step keeps the packets right.
LEMMA NextPackets == IInv /\ [Next]_vars => Packets'
<1> SUFFICES ASSUME IInv, [Next]_vars PROVE Packets'
    OBVIOUS
<1> USE DEF IInv
<1>1. CASE ConnectOk
    BY <1>1 DEF ConnectOk, Packets, Connected, Writing
<1>2. CASE ConnectFails
    BY <1>2, PacketsSame DEF ConnectFails, PacketsFrame, Writing, TypeOK, Control
<1>3. ASSUME NEW c \in Callers, BeginRequest(c) PROVE Packets'
    BY <1>3, PacketsSame DEF BeginRequest, PacketsFrame, Writing, TypeOK, Control
<1>4. ASSUME NEW c \in Callers, Expire(c) PROVE Packets'
    BY <1>4, PacketsSame DEF Expire, PacketsFrame, Writing, TypeOK, Control
<1>5. ASSUME NEW c \in Callers, CloseAndRelease(c) PROVE Packets'
    BY <1>5, PacketsSame DEF CloseAndRelease, PacketsFrame, Writing, TypeOK, Control
<1>6. ASSUME NEW c \in Callers, InsertPending(c) PROVE Packets'
    BY <1>6, PacketsSame DEF InsertPending, PacketsFrame, Writing, TypeOK, Control
<1>7. ASSUME NEW c \in Callers, Recheck(c) PROVE Packets'
    BY <1>7, PacketsSame DEF Recheck, PacketsFrame, Writing, TypeOK, Control
<1>8. ASSUME NEW c \in Callers, Undo(c) PROVE Packets'
    BY <1>8, PacketsSame DEF Undo, AddRef, Touch, PacketsFrame, Writing, TypeOK, Control
<1>9. ASSUME NEW c \in Callers, WriteHeader(c) PROVE Packets'
    BY <1>9, WriteHeaderPackets
<1>10. ASSUME NEW c \in Callers, RefCopy(c) PROVE Packets'
    BY <1>10, PacketsSame DEF RefCopy, AddRef, Touch, PacketsFrame, Writing, TypeOK,
       Control
<1>11. ASSUME NEW c \in Callers, WriteArgs(c) PROVE Packets'
    BY <1>11, WriteArgsPackets
<1>12. ASSUME NEW c \in Callers, EndRequest(c) PROVE Packets'
    BY <1>12, EndRequestPackets
<1>13. ASSUME NEW c \in Callers, Wait(c) PROVE Packets'
    BY <1>13, PacketsSame DEF Wait, Touch, PacketsFrame, Writing, TypeOK, Control
<1>14. ASSUME NEW c \in Callers, SetTimedOut(c) PROVE Packets'
    BY <1>14, PacketsSame DEF SetTimedOut, Touch, PacketsFrame, Writing, TypeOK, Control
<1>15. ASSUME NEW c \in Callers, Late(c) PROVE Packets'
    BY <1>15, PacketsSame DEF Late, Touch, PacketsFrame, Writing, TypeOK, Control
<1>16. ASSUME NEW c \in Callers, ReleaseFuture(c) PROVE Packets'
    BY <1>16, PacketsSame DEF ReleaseFuture, AddRef, Touch, PacketsFrame, Writing,
       TypeOK, Control
<1>17. ASSUME NEW c \in Callers, Unref(c) PROVE Packets'
    BY <1>17, PacketsSame DEF Unref, DropClient, PacketsFrame, Writing, TypeOK, Control
<1>18. ASSUME NEW t \in Threads, CloseTest(t) PROVE Packets'
    BY <1>18, PacketsSame DEF CloseTest, PacketsFrame, Writing, TypeOK, Control
<1>19. ASSUME NEW t \in Threads, CloseRemove(t) PROVE Packets'
    BY <1>19, PacketsSame DEF CloseRemove, PacketsFrame, Writing, TypeOK, Control
<1>20. ASSUME NEW t \in Threads, CloseFd(t) PROVE Packets'
    BY <1>20, PacketsSame DEF CloseFd, PacketsFrame, Writing, TypeOK, Control
<1>21. ASSUME NEW t \in Threads, SetClosed(t) PROVE Packets'
    BY <1>21, PacketsSame DEF SetClosed, PacketsFrame, Writing, TypeOK, Control
<1>22. ASSUME NEW t \in Threads, TakePending(t) PROVE Packets'
    BY <1>22, PacketsSame DEF TakePending, PacketsFrame, Writing, TypeOK, Control
<1>23. ASSUME NEW t \in Threads, FailOne(t) PROVE Packets'
    <2>1. PICK x : fu' = [fu EXCEPT ![t] = x]
        BY <1>23 DEF FailOne
    <2> QED BY <1>23, <2>1, PacketsSame DEF FailOne, PacketsFrame, Writing, TypeOK
<1>24. ASSUME NEW t \in Threads, Invalidated(t) PROVE Packets'
    BY <1>24, PacketsSame DEF Invalidated, PacketsFrame, Writing, TypeOK, Control
<1>25. ASSUME NEW t \in Threads, notify_ready(t) PROVE Packets'
    BY <1>25, PacketsSame DEF notify_ready, Touch, PacketsFrame, Writing, TypeOK, Control
<1>26. ASSUME NEW t \in Threads, ReleaseRemoved(t) PROVE Packets'
    BY <1>26, PacketsSame DEF ReleaseRemoved, AddRef, Touch, PacketsFrame, Writing,
       TypeOK, Control
<1>27. CASE EpollWait
    BY <1>27, PacketsSame DEF EpollWait, Reported, PacketsFrame, Writing, TypeOK, Control
<1>28. CASE HandleRead
    BY <1>28, PacketsSame DEF HandleRead, PacketsFrame, Writing, TypeOK, Control
<1>29. CASE ReadFd
    <2>1. PICK l \in {"parse", "write"} : pc' = [pc EXCEPT ![Poll] = l]
        BY <1>29, ReadFdEffect
    <2> QED BY <1>29, <2>1, ReadFdEffect, PacketsSame DEF PacketsFrame, Writing, TypeOK
<1>30. CASE ParseReply
    BY <1>30, PacketsSame DEF ParseReply, PacketsFrame, Writing, TypeOK, Control
<1>31. CASE ParseUnknown
    BY <1>31, PacketsSame DEF ParseUnknown, PacketsFrame, Writing, TypeOK, Control
<1>32. CASE StoreReply
    BY <1>32, PacketsSame DEF StoreReply, Touch, PacketsFrame, Writing, TypeOK, Control
<1>33. CASE NoMorePackets
    BY <1>33, PacketsSame DEF NoMorePackets, PacketsFrame, Writing, TypeOK, Control
<1>34. CASE HandleWrite
    BY <1>34, PacketsSame DEF HandleWrite, PacketsFrame, Writing, TypeOK, Control
<1>35. CASE WriteFd
    BY <1>35, WriteFdPackets
<1>36. CASE HandleError
    BY <1>36, PacketsSame DEF HandleError, PacketsFrame, Writing, TypeOK, Control
<1>37. CASE Drain
    <2>1. PICK l \in {"take_pending", "poll"} : pc' = [pc EXCEPT ![Poll] = l]
        BY <1>37, DrainEffect
    <2> QED BY <1>37, <2>1, DrainEffect, PacketsSame DEF PacketsFrame, Writing, TypeOK
<1>38. CASE ServerReceives
    BY <1>38, ServerReceivesPackets
<1>39. CASE ServerReplies
    BY <1>39, PacketsSame DEF ServerReplies, PacketsFrame, Writing, TypeOK, Control
<1>40. CASE PeerCloses
    BY <1>40, PacketsSame DEF PeerCloses, PacketsFrame, Writing, TypeOK, Control
<1>41. CASE Terminated \/ UNCHANGED vars
    BY <1>41, PacketsSame DEF Terminated, PacketsFrame, Writing
<1> QED
    BY <1>1, <1>2, <1>3, <1>4, <1>5, <1>6, <1>7, <1>8, <1>9, <1>10, <1>11, <1>12, <1>13,
       <1>14, <1>15, <1>16, <1>17, <1>18, <1>19, <1>20, <1>21, <1>22, <1>23, <1>24,
       <1>25, <1>26, <1>27, <1>28, <1>29, <1>30, <1>31, <1>32, <1>33, <1>34, <1>35,
       <1>36, <1>37, <1>38, <1>39, <1>40, <1>41
    DEF Next, InCall, Close, PollLoop, Threads

\* The peer receives only whole requests.
LEMMA NextWhole == IInv /\ [Next]_vars => OnlyWholeRequests'
<1> SUFFICES ASSUME IInv, [Next]_vars PROVE OnlyWholeRequests'
    OBVIOUS
<1> USE DEF IInv
<1>1. CASE ConnectOk
    BY <1>1 DEF ConnectOk, OnlyWholeRequests
<1>2. CASE ConnectFails
    BY <1>2 DEF ConnectFails, OnlyWholeRequests
<1>3. ASSUME NEW c \in Callers, BeginRequest(c) PROVE OnlyWholeRequests'
    BY <1>3 DEF BeginRequest, OnlyWholeRequests
<1>4. ASSUME NEW c \in Callers, Expire(c) PROVE OnlyWholeRequests'
    BY <1>4 DEF Expire, OnlyWholeRequests
<1>5. ASSUME NEW c \in Callers, CloseAndRelease(c) PROVE OnlyWholeRequests'
    BY <1>5 DEF CloseAndRelease, OnlyWholeRequests
<1>6. ASSUME NEW c \in Callers, InsertPending(c) PROVE OnlyWholeRequests'
    BY <1>6 DEF InsertPending, OnlyWholeRequests
<1>7. ASSUME NEW c \in Callers, Recheck(c) PROVE OnlyWholeRequests'
    BY <1>7 DEF Recheck, OnlyWholeRequests
<1>8. ASSUME NEW c \in Callers, Undo(c) PROVE OnlyWholeRequests'
    BY <1>8 DEF Undo, AddRef, Touch, OnlyWholeRequests
<1>9. ASSUME NEW c \in Callers, WriteHeader(c) PROVE OnlyWholeRequests'
    BY <1>9 DEF WriteHeader, Touch, OnlyWholeRequests
<1>10. ASSUME NEW c \in Callers, RefCopy(c) PROVE OnlyWholeRequests'
    BY <1>10 DEF RefCopy, AddRef, Touch, OnlyWholeRequests
<1>11. ASSUME NEW c \in Callers, WriteArgs(c) PROVE OnlyWholeRequests'
    BY <1>11 DEF WriteArgs, OnlyWholeRequests
<1>12. ASSUME NEW c \in Callers, EndRequest(c) PROVE OnlyWholeRequests'
    BY <1>12 DEF EndRequest, update_mode, OnlyWholeRequests
<1>13. ASSUME NEW c \in Callers, Wait(c) PROVE OnlyWholeRequests'
    BY <1>13 DEF Wait, Touch, OnlyWholeRequests
<1>14. ASSUME NEW c \in Callers, SetTimedOut(c) PROVE OnlyWholeRequests'
    BY <1>14 DEF SetTimedOut, Touch, OnlyWholeRequests
<1>15. ASSUME NEW c \in Callers, Late(c) PROVE OnlyWholeRequests'
    BY <1>15 DEF Late, Touch, OnlyWholeRequests
<1>16. ASSUME NEW c \in Callers, ReleaseFuture(c) PROVE OnlyWholeRequests'
    BY <1>16 DEF ReleaseFuture, AddRef, Touch, OnlyWholeRequests
<1>17. ASSUME NEW c \in Callers, Unref(c) PROVE OnlyWholeRequests'
    BY <1>17 DEF Unref, DropClient, OnlyWholeRequests
<1>18. ASSUME NEW t \in Threads, CloseTest(t) PROVE OnlyWholeRequests'
    BY <1>18 DEF CloseTest, OnlyWholeRequests
<1>19. ASSUME NEW t \in Threads, CloseRemove(t) PROVE OnlyWholeRequests'
    BY <1>19 DEF CloseRemove, OnlyWholeRequests
<1>20. ASSUME NEW t \in Threads, CloseFd(t) PROVE OnlyWholeRequests'
    BY <1>20 DEF CloseFd, OnlyWholeRequests
<1>21. ASSUME NEW t \in Threads, SetClosed(t) PROVE OnlyWholeRequests'
    BY <1>21 DEF SetClosed, OnlyWholeRequests
<1>22. ASSUME NEW t \in Threads, TakePending(t) PROVE OnlyWholeRequests'
    BY <1>22 DEF TakePending, OnlyWholeRequests
<1>23. ASSUME NEW t \in Threads, FailOne(t) PROVE OnlyWholeRequests'
    BY <1>23 DEF FailOne, Touch, OnlyWholeRequests
<1>24. ASSUME NEW t \in Threads, Invalidated(t) PROVE OnlyWholeRequests'
    BY <1>24 DEF Invalidated, OnlyWholeRequests
<1>25. ASSUME NEW t \in Threads, notify_ready(t) PROVE OnlyWholeRequests'
    BY <1>25 DEF notify_ready, Touch, OnlyWholeRequests
<1>26. ASSUME NEW t \in Threads, ReleaseRemoved(t) PROVE OnlyWholeRequests'
    BY <1>26 DEF ReleaseRemoved, AddRef, Touch, OnlyWholeRequests
<1>27. CASE EpollWait
    BY <1>27 DEF EpollWait, Reported, OnlyWholeRequests
<1>28. CASE HandleRead
    BY <1>28 DEF HandleRead, OnlyWholeRequests
<1>29. CASE ReadFd
    BY <1>29, ReadFdEffect DEF OnlyWholeRequests
<1>30. CASE ParseReply
    BY <1>30 DEF ParseReply, OnlyWholeRequests
<1>31. CASE ParseUnknown
    BY <1>31 DEF ParseUnknown, OnlyWholeRequests
<1>32. CASE StoreReply
    BY <1>32 DEF StoreReply, Touch, OnlyWholeRequests
<1>33. CASE NoMorePackets
    BY <1>33 DEF NoMorePackets, OnlyWholeRequests
<1>34. CASE HandleWrite
    BY <1>34 DEF HandleWrite, OnlyWholeRequests
<1>35. CASE WriteFd
    BY <1>35 DEF WriteFd, AfterWrite, update_mode, OutLock, OnlyWholeRequests
<1>36. CASE HandleError
    BY <1>36 DEF HandleError, OnlyWholeRequests
<1>37. CASE Drain
    BY <1>37, DrainEffect DEF OnlyWholeRequests
<1>38. CASE ServerReceives
    BY <1>38, ServerReceivesPackets
<1>39. CASE ServerReplies
    BY <1>39 DEF ServerReplies, OnlyWholeRequests
<1>40. CASE PeerCloses
    BY <1>40 DEF PeerCloses, OnlyWholeRequests
<1>41. CASE Terminated \/ UNCHANGED vars
    BY <1>41 DEF Terminated, OnlyWholeRequests
<1> QED
    BY <1>1, <1>2, <1>3, <1>4, <1>5, <1>6, <1>7, <1>8, <1>9, <1>10, <1>11, <1>12, <1>13,
       <1>14, <1>15, <1>16, <1>17, <1>18, <1>19, <1>20, <1>21, <1>22, <1>23, <1>24,
       <1>25, <1>26, <1>27, <1>28, <1>29, <1>30, <1>31, <1>32, <1>33, <1>34, <1>35,
       <1>36, <1>37, <1>38, <1>39, <1>40, <1>41
    DEF Next, InCall, Close, PollLoop, Threads

\* What waits in out_ keeps write events enabled.
LEMMA NextWriteEvents == IInv /\ [Next]_vars => WriteEventsEnabled'
<1> SUFFICES ASSUME IInv, [Next]_vars PROVE WriteEventsEnabled'
    OBVIOUS
<1> USE DEF IInv
<1>1. CASE ConnectOk
    BY <1>1 DEF ConnectOk, Packets, WriteEventsEnabled
<1>2. CASE ConnectFails
    BY <1>2 DEF ConnectFails, WriteEventsEnabled, TypeOK, Control
<1>3. ASSUME NEW c \in Callers, BeginRequest(c) PROVE WriteEventsEnabled'
    BY <1>3 DEF BeginRequest, WriteEventsEnabled, TypeOK, Control
<1>4. ASSUME NEW c \in Callers, Expire(c) PROVE WriteEventsEnabled'
    BY <1>4 DEF Expire, WriteEventsEnabled, TypeOK, Control
<1>5. ASSUME NEW c \in Callers, CloseAndRelease(c) PROVE WriteEventsEnabled'
    BY <1>5 DEF CloseAndRelease, WriteEventsEnabled, TypeOK, Control
<1>6. ASSUME NEW c \in Callers, InsertPending(c) PROVE WriteEventsEnabled'
    BY <1>6 DEF InsertPending, WriteEventsEnabled, TypeOK, Control
<1>7. ASSUME NEW c \in Callers, Recheck(c) PROVE WriteEventsEnabled'
    BY <1>7 DEF Recheck, WriteEventsEnabled, TypeOK, Control
<1>8. ASSUME NEW c \in Callers, Undo(c) PROVE WriteEventsEnabled'
    BY <1>8 DEF Undo, AddRef, Touch, WriteEventsEnabled, TypeOK, Control
<1>9. ASSUME NEW c \in Callers, WriteHeader(c) PROVE WriteEventsEnabled'
    BY <1>9 DEF WriteHeader, Touch, WriteEventsEnabled, TypeOK, Control
<1>10. ASSUME NEW c \in Callers, RefCopy(c) PROVE WriteEventsEnabled'
    BY <1>10 DEF RefCopy, AddRef, Touch, WriteEventsEnabled, TypeOK, Control
<1>11. ASSUME NEW c \in Callers, WriteArgs(c) PROVE WriteEventsEnabled'
    BY <1>11 DEF WriteArgs, WriteEventsEnabled, TypeOK, Control
<1>12. ASSUME NEW c \in Callers, EndRequest(c) PROVE WriteEventsEnabled'
    BY <1>12 DEF EndRequest, update_mode, WriteEventsEnabled, TypeOK, Control
<1>13. ASSUME NEW c \in Callers, Wait(c) PROVE WriteEventsEnabled'
    BY <1>13 DEF Wait, Touch, WriteEventsEnabled, TypeOK, Control
<1>14. ASSUME NEW c \in Callers, SetTimedOut(c) PROVE WriteEventsEnabled'
    BY <1>14 DEF SetTimedOut, Touch, WriteEventsEnabled, TypeOK, Control
<1>15. ASSUME NEW c \in Callers, Late(c) PROVE WriteEventsEnabled'
    BY <1>15 DEF Late, Touch, WriteEventsEnabled, TypeOK, Control
<1>16. ASSUME NEW c \in Callers, ReleaseFuture(c) PROVE WriteEventsEnabled'
    BY <1>16 DEF ReleaseFuture, AddRef, Touch, WriteEventsEnabled, TypeOK, Control
<1>17. ASSUME NEW c \in Callers, Unref(c) PROVE WriteEventsEnabled'
    BY <1>17 DEF Unref, DropClient, WriteEventsEnabled, TypeOK, Control
<1>18. ASSUME NEW t \in Threads, CloseTest(t) PROVE WriteEventsEnabled'
    BY <1>18 DEF CloseTest, WriteEventsEnabled, TypeOK, Control
<1>19. ASSUME NEW t \in Threads, CloseRemove(t) PROVE WriteEventsEnabled'
    BY <1>19 DEF CloseRemove, WriteEventsEnabled, TypeOK, Control
<1>20. ASSUME NEW t \in Threads, CloseFd(t) PROVE WriteEventsEnabled'
    BY <1>20 DEF CloseFd, WriteEventsEnabled, TypeOK, Control
<1>21. ASSUME NEW t \in Threads, SetClosed(t) PROVE WriteEventsEnabled'
    BY <1>21 DEF SetClosed, WriteEventsEnabled, TypeOK, Control
<1>22. ASSUME NEW t \in Threads, TakePending(t) PROVE WriteEventsEnabled'
    BY <1>22 DEF TakePending, WriteEventsEnabled, TypeOK, Control
<1>23. ASSUME NEW t \in Threads, FailOne(t) PROVE WriteEventsEnabled'
    BY <1>23 DEF FailOne, Touch, WriteEventsEnabled, TypeOK, Control
<1>24. ASSUME NEW t \in Threads, Invalidated(t) PROVE WriteEventsEnabled'
    BY <1>24 DEF Invalidated, WriteEventsEnabled, TypeOK, Control
<1>25. ASSUME NEW t \in Threads, notify_ready(t) PROVE WriteEventsEnabled'
    BY <1>25 DEF notify_ready, Touch, WriteEventsEnabled, TypeOK, Control
<1>26. ASSUME NEW t \in Threads, ReleaseRemoved(t) PROVE WriteEventsEnabled'
    BY <1>26 DEF ReleaseRemoved, AddRef, Touch, WriteEventsEnabled, TypeOK, Control
<1>27. CASE EpollWait
    BY <1>27 DEF EpollWait, Reported, WriteEventsEnabled, TypeOK, Control
<1>28. CASE HandleRead
    BY <1>28 DEF HandleRead, WriteEventsEnabled, TypeOK, Control
<1>29. CASE ReadFd
    BY <1>29, ReadFdEffect DEF WriteEventsEnabled
<1>30. CASE ParseReply
    BY <1>30 DEF ParseReply, WriteEventsEnabled, TypeOK, Control
<1>31. CASE ParseUnknown
    BY <1>31 DEF ParseUnknown, WriteEventsEnabled, TypeOK, Control
<1>32. CASE StoreReply
    BY <1>32 DEF StoreReply, Touch, WriteEventsEnabled, TypeOK, Control
<1>33. CASE NoMorePackets
    BY <1>33 DEF NoMorePackets, WriteEventsEnabled, TypeOK, Control
<1>34. CASE HandleWrite
    BY <1>34 DEF HandleWrite, WriteEventsEnabled, TypeOK, Control
<1>35. CASE WriteFd
    <2>1. PICK n \in 0 .. Len(out_) : out_' = SubSeq(out_, n + 1, Len(out_))
        BY <1>35, WriteFdEffect
    <2>2. Len(out_) \in Nat
        BY LenProperties DEF TypeOK
    <2>3. out_ = <<>> => out_' = <<>>
        <3>1. out_ = <<>> => Len(out_) < n + 1
            BY <2>2, EmptySeq
        <3> QED BY <2>1, <2>2, <3>1, SubSeqEmpty
    <2>4. CASE out_' = <<>>
        BY <2>4 DEF WriteEventsEnabled
    <2>5. CASE out_' # <<>>
        BY <1>35, <2>3, <2>5 DEF WriteFd, AfterWrite, OutLock, WriteEventsEnabled
    <2> QED BY <2>4, <2>5
<1>36. CASE HandleError
    BY <1>36 DEF HandleError, WriteEventsEnabled, TypeOK, Control
<1>37. CASE Drain
    BY <1>37, DrainEffect DEF WriteEventsEnabled
<1>38. CASE ServerReceives
    BY <1>38 DEF ServerReceives, WriteEventsEnabled, TypeOK, Control
<1>39. CASE ServerReplies
    BY <1>39 DEF ServerReplies, WriteEventsEnabled, TypeOK, Control
<1>40. CASE PeerCloses
    BY <1>40 DEF PeerCloses, WriteEventsEnabled, TypeOK, Control
<1>41. CASE Terminated \/ UNCHANGED vars
    BY <1>41 DEF Terminated, WriteEventsEnabled, TypeOK, Control
<1> QED
    BY <1>1, <1>2, <1>3, <1>4, <1>5, <1>6, <1>7, <1>8, <1>9, <1>10, <1>11, <1>12, <1>13,
       <1>14, <1>15, <1>16, <1>17, <1>18, <1>19, <1>20, <1>21, <1>22, <1>23, <1>24,
       <1>25, <1>26, <1>27, <1>28, <1>29, <1>30, <1>31, <1>32, <1>33, <1>34, <1>35,
       <1>36, <1>37, <1>38, <1>39, <1>40, <1>41
    DEF Next, InCall, Close, PollLoop, Threads

-----------------------------------------------------------------------------
(* Types                                                                   *)

\* Setting a field of a future.
LEMMA FutureFields ==
    ASSUME future \in [Xids -> FutureType], NEW x \in Xids
    PROVE  /\ [future EXCEPT ![x].ref = @ + 1] \in [Xids -> FutureType]
           /\ [future EXCEPT ![x].ref = @ + (-1)] \in [Xids -> FutureType]
           /\ [future EXCEPT ![x].ready = @ \/ ~future[x].timed_out] \in [Xids -> FutureType]
           /\ [future EXCEPT ![x].timed_out = TRUE] \in [Xids -> FutureType]
           /\ [future EXCEPT ![x].error = "ETIMEDOUT"] \in [Xids -> FutureType]
           /\ [future EXCEPT ![x].error = "ENOTCONN"] \in [Xids -> FutureType]
           /\ [future EXCEPT ![x].error = "0", ![x].replied = TRUE] \in [Xids -> FutureType]
           /\ [future EXCEPT ![x] = NewFuture] \in [Xids -> FutureType]
<1>1. /\ [future EXCEPT ![x].ref = @ + 1] \in [Xids -> FutureType]
      /\ [future EXCEPT ![x].ref = @ + (-1)] \in [Xids -> FutureType]
    <2>1. future[x].ref + 1 \in Int /\ future[x].ref + (-1) \in Int
        BY DEF FutureType
    <2> QED BY <2>1 DEF FutureType
<1>2. /\ [future EXCEPT ![x].ready = @ \/ ~future[x].timed_out] \in [Xids -> FutureType]
      /\ [future EXCEPT ![x].timed_out = TRUE] \in [Xids -> FutureType]
    BY DEF FutureType
<1>3. /\ [future EXCEPT ![x].error = "ETIMEDOUT"] \in [Xids -> FutureType]
      /\ [future EXCEPT ![x].error = "ENOTCONN"] \in [Xids -> FutureType]
    BY DEF FutureType
<1>4. [future EXCEPT ![x].error = "0", ![x].replied = TRUE] \in [Xids -> FutureType]
    BY DEF FutureType
<1>5. [future EXCEPT ![x] = NewFuture] \in [Xids -> FutureType]
    BY DEF FutureType, NewFuture
<1> QED BY <1>1, <1>2, <1>3, <1>4, <1>5

\* The types of what a close changes in failing a future.
LEMMA FailOneType ==
    ASSUME TypeOK, NEW t \in Threads, FailOne(t)
    PROVE  /\ future' \in [Xids -> FutureType]
           /\ fu' \in [Threads -> Xids \cup {NoXid}] /\ batch' \in [Threads -> SUBSET Xids]
<1>1. PICK x \in batch[t] : /\ future' = [future EXCEPT ![x].error = "ENOTCONN"]
                            /\ fu' = [fu EXCEPT ![t] = x]
                            /\ batch' = [batch EXCEPT ![t] = @ \ {x}]
    BY DEF FailOne
<1>2. x \in Xids
    BY <1>1 DEF TypeOK
<1>3. future' \in [Xids -> FutureType]
    BY <1>1, <1>2, FutureFields DEF TypeOK
<1> QED BY <1>1, <1>2, <1>3 DEF TypeOK

\* ... and begin_request in taking one back.
LEMMA UndoType ==
    ASSUME TypeOK, NEW c \in Callers, Undo(c), fu[c] \in Xids
    PROVE  future' \in [Xids -> FutureType]
<1>1. future \in [Xids -> FutureType]
    BY DEF TypeOK
<1>2. CASE fu[c] \in pending_fu_
    <2>1. AddRef(fu[c], -1)
        BY <1>2 DEF Undo
    <2> QED BY <1>1, <2>1, FutureFields DEF AddRef
<1>3. CASE fu[c] \notin pending_fu_
    BY <1>1, <1>3 DEF Undo
<1> QED BY <1>2, <1>3

\* A step that changes nothing.
LEMMA TypeSame == ASSUME TypeOK, UNCHANGED vars PROVE TypeOK'
BY DEF TypeOK

\* Every step keeps the types.
LEMMA NextType == IInv /\ [Next]_vars => TypeOK'
<1> SUFFICES ASSUME IInv, [Next]_vars PROVE TypeOK'
    OBVIOUS
<1> USE DEF IInv
<1>1. CASE ConnectOk
    BY <1>1 DEF ConnectOk, TypeOK
<1>2. CASE ConnectFails
    BY <1>2 DEF ConnectFails, TypeOK
<1>3. ASSUME NEW c \in Callers, BeginRequest(c) PROVE TypeOK'
    <2>1. pc' \in [Threads -> Labels]
        BY <1>3 DEF BeginRequest, TypeOK, Labels
    <2> QED BY <1>3, <2>1 DEF BeginRequest, TypeOK
<1>4. ASSUME NEW c \in Callers, Expire(c) PROVE TypeOK'
    <2>1. pc' \in [Threads -> Labels]
        BY <1>4 DEF Expire, TypeOK, Labels
    <2> QED BY <1>4, <2>1 DEF Expire, TypeOK
<1>5. ASSUME NEW c \in Callers, CloseAndRelease(c) PROVE TypeOK'
    <2>1. pc' \in [Threads -> Labels]
        BY <1>5 DEF CloseAndRelease, TypeOK, Labels
    <2> QED BY <1>5, <2>1 DEF CloseAndRelease, TypeOK
<1>6. ASSUME NEW c \in Callers, InsertPending(c) PROVE TypeOK'
    <2>1. xid_counter_ \in Xids
        BY <1>6 DEF InsertPending, Control, TypeOK
    <2>2. future' \in [Xids -> FutureType]
        BY <1>6, <2>1, FutureFields DEF InsertPending, TypeOK
    <2>3. pc' \in [Threads -> Labels]
        BY <1>6 DEF InsertPending, TypeOK, Labels
    <2> QED BY <1>6, <2>1, <2>2, <2>3 DEF InsertPending, TypeOK
<1>7. ASSUME NEW c \in Callers, Recheck(c) PROVE TypeOK'
    <2>1. pc' \in [Threads -> Labels]
        BY <1>7 DEF Recheck, TypeOK, Labels
    <2> QED BY <1>7, <2>1 DEF Recheck, TypeOK
<1>8. ASSUME NEW c \in Callers, Undo(c) PROVE TypeOK'
    <2>1. fu[c] \in Xids
        BY <1>8 DEF Undo, Control, TypeOK
    <2>2. future' \in [Xids -> FutureType]
        BY <1>8, <2>1, UndoType
    <2>3. freed_access' \subseteq Labels
        BY <1>8 DEF Undo, Touch, TypeOK
    <2>4. pc' \in [Threads -> Labels]
        BY <1>8 DEF Undo, TypeOK, Labels
    <2>5. pending_fu_' \subseteq Xids /\ fu' \in [Threads -> Xids \cup {NoXid}]
        BY <1>8 DEF Undo, TypeOK
    <2>6. UNCHANGED <<conn, out_l_, out_, in_, xid_counter_, ref_count, pollmgr, kernel,
                      batch, events, received>>
        BY <1>8 DEF Undo
    <2> QED BY <2>2, <2>3, <2>4, <2>5, <2>6 DEF TypeOK
<1>9. ASSUME NEW c \in Callers, WriteHeader(c) PROVE TypeOK'
    <2>1. freed_access' \subseteq Labels
        BY <1>9 DEF WriteHeader, Touch, TypeOK
    <2>2. out_' \in Seq(Packet)
        BY <1>9, WriteHeaderPackets
    <2>3. pc' \in [Threads -> Labels]
        BY <1>9 DEF WriteHeader, TypeOK, Labels
    <2> QED BY <1>9, <2>1, <2>2, <2>3 DEF WriteHeader, TypeOK
<1>10. ASSUME NEW c \in Callers, RefCopy(c) PROVE TypeOK'
    <2>1. fu[c] \in Xids
        BY <1>10 DEF RefCopy, Control, TypeOK
    <2>2. future' \in [Xids -> FutureType]
        BY <1>10, <2>1, FutureFields DEF RefCopy, AddRef, TypeOK
    <2>3. freed_access' \subseteq Labels
        BY <1>10 DEF RefCopy, Touch, TypeOK
    <2>4. pc' \in [Threads -> Labels]
        BY <1>10 DEF RefCopy, TypeOK, Labels
    <2> QED BY <1>10, <2>1, <2>2, <2>3, <2>4 DEF RefCopy, TypeOK
<1>11. ASSUME NEW c \in Callers, WriteArgs(c) PROVE TypeOK'
    <2>1. out_' \in Seq(Packet)
        BY <1>11, WriteArgsPackets
    <2>2. pc' \in [Threads -> Labels]
        BY <1>11 DEF WriteArgs, TypeOK, Labels
    <2> QED BY <1>11, <2>1, <2>2 DEF WriteArgs, TypeOK
<1>12. ASSUME NEW c \in Callers, EndRequest(c) PROVE TypeOK'
    <2>1. out_' \in Seq(Packet)
        BY <1>12, EndRequestPackets
    <2>2. mode_' \in {"R", "RW"} /\ rdy' \in BOOLEAN
        BY <1>12 DEF EndRequest, update_mode, TypeOK
    <2>3. pc' \in [Threads -> Labels]
        BY <1>12 DEF EndRequest, TypeOK, Labels
    <2> QED BY <1>12, <2>1, <2>2, <2>3 DEF EndRequest, TypeOK
<1>13. ASSUME NEW c \in Callers, Wait(c) PROVE TypeOK'
    <2>1. freed_access' \subseteq Labels
        BY <1>13 DEF Wait, Touch, TypeOK
    <2>2. pc' \in [Threads -> Labels]
        BY <1>13 DEF Wait, TypeOK, Labels
    <2> QED BY <1>13, <2>1, <2>2 DEF Wait, TypeOK
<1>14. ASSUME NEW c \in Callers, SetTimedOut(c) PROVE TypeOK'
    <2>1. fu[c] \in Xids
        BY <1>14 DEF SetTimedOut, Control, TypeOK
    <2>2. future' \in [Xids -> FutureType]
        BY <1>14, <2>1, FutureFields DEF SetTimedOut, TypeOK
    <2>3. freed_access' \subseteq Labels
        BY <1>14 DEF SetTimedOut, Touch, TypeOK
    <2>4. pc' \in [Threads -> Labels]
        BY <1>14 DEF SetTimedOut, TypeOK, Labels
    <2> QED BY <1>14, <2>1, <2>2, <2>3, <2>4 DEF SetTimedOut, TypeOK
<1>15. ASSUME NEW c \in Callers, Late(c) PROVE TypeOK'
    <2>1. fu[c] \in Xids
        BY <1>15 DEF Late, Control, TypeOK
    <2>2. future' \in [Xids -> FutureType]
        BY <1>15, <2>1, FutureFields DEF Late, TypeOK
    <2>3. freed_access' \subseteq Labels
        BY <1>15 DEF Late, Touch, TypeOK
    <2>4. pc' \in [Threads -> Labels]
        BY <1>15 DEF Late, TypeOK, Labels
    <2> QED BY <1>15, <2>1, <2>2, <2>3, <2>4 DEF Late, TypeOK
<1>16. ASSUME NEW c \in Callers, ReleaseFuture(c) PROVE TypeOK'
    <2>1. fu[c] \in Xids
        BY <1>16 DEF ReleaseFuture, Control, TypeOK
    <2>2. future' \in [Xids -> FutureType]
        BY <1>16, <2>1, FutureFields DEF ReleaseFuture, AddRef, TypeOK
    <2>3. freed_access' \subseteq Labels
        BY <1>16 DEF ReleaseFuture, Touch, TypeOK
    <2>4. pc' \in [Threads -> Labels]
        BY <1>16 DEF ReleaseFuture, TypeOK, Labels
    <2> QED BY <1>16, <2>1, <2>2, <2>3, <2>4 DEF ReleaseFuture, TypeOK
<1>17. ASSUME NEW c \in Callers, Unref(c) PROVE TypeOK'
    <2>1. ref_count # 0
        BY <1>17 DEF Unref, RefCount
    <2>2. ref_count' \in Nat
        BY <1>17, <2>1 DEF Unref, DropClient, TypeOK
    <2>3. pc' \in [Threads -> Labels]
        BY <1>17 DEF Unref, DropClient, TypeOK, Labels
    <2> QED BY <1>17, <2>1, <2>2, <2>3 DEF Unref, TypeOK
<1>18. ASSUME NEW t \in Threads, CloseTest(t) PROVE TypeOK'
    <2>1. pc' \in [Threads -> Labels]
        BY <1>18 DEF CloseTest, TypeOK, Labels
    <2> QED BY <1>18, <2>1 DEF CloseTest, TypeOK
<1>19. ASSUME NEW t \in Threads, CloseRemove(t) PROVE TypeOK'
    <2>1. pc' \in [Threads -> Labels]
        BY <1>19 DEF CloseRemove, TypeOK, Labels
    <2> QED BY <1>19, <2>1 DEF CloseRemove, TypeOK
<1>20. ASSUME NEW t \in Threads, CloseFd(t) PROVE TypeOK'
    <2>1. pc' \in [Threads -> Labels]
        BY <1>20 DEF CloseFd, TypeOK, Labels
    <2> QED BY <1>20, <2>1 DEF CloseFd, TypeOK
<1>21. ASSUME NEW t \in Threads, SetClosed(t) PROVE TypeOK'
    <2>1. pc' \in [Threads -> Labels]
        BY <1>21 DEF SetClosed, TypeOK, Labels
    <2> QED BY <1>21, <2>1 DEF SetClosed, TypeOK
<1>22. ASSUME NEW t \in Threads, TakePending(t) PROVE TypeOK'
    <2>1. pc' \in [Threads -> Labels]
        BY <1>22 DEF TakePending, TypeOK, Labels
    <2> QED BY <1>22, <2>1 DEF TakePending, TypeOK
<1>23. ASSUME NEW t \in Threads, FailOne(t) PROVE TypeOK'
    <2>1. /\ future' \in [Xids -> FutureType]
          /\ fu' \in [Threads -> Xids \cup {NoXid}] /\ batch' \in [Threads -> SUBSET Xids]
        BY <1>23, FailOneType
    <2>2. freed_access' \subseteq Labels
        BY <1>23 DEF FailOne, Touch, TypeOK
    <2>3. pc' \in [Threads -> Labels]
        BY <1>23 DEF FailOne, TypeOK, Labels
    <2> QED BY <1>23, <2>1, <2>2, <2>3 DEF FailOne, TypeOK
<1>24. ASSUME NEW t \in Threads, Invalidated(t) PROVE TypeOK'
    <2>1. pc' \in [Threads -> Labels]
        BY <1>24 DEF Invalidated, TypeOK, Labels
    <2> QED BY <1>24, <2>1 DEF Invalidated, TypeOK
<1>25. ASSUME NEW t \in Threads, notify_ready(t) PROVE TypeOK'
    <2>1. fu[t] \in Xids
        BY <1>25 DEF notify_ready, Control, TypeOK
    <2>2. future' \in [Xids -> FutureType]
        BY <1>25, <2>1, FutureFields DEF notify_ready, TypeOK
    <2>3. freed_access' \subseteq Labels
        BY <1>25 DEF notify_ready, Touch, TypeOK
    <2>4. pc' \in [Threads -> Labels]
        BY <1>25 DEF notify_ready, TypeOK, Labels
    <2> QED BY <1>25, <2>1, <2>2, <2>3, <2>4 DEF notify_ready, TypeOK
<1>26. ASSUME NEW t \in Threads, ReleaseRemoved(t) PROVE TypeOK'
    <2>1. fu[t] \in Xids
        BY <1>26 DEF ReleaseRemoved, Control, TypeOK
    <2>2. future' \in [Xids -> FutureType]
        BY <1>26, <2>1, FutureFields DEF ReleaseRemoved, AddRef, TypeOK
    <2>3. freed_access' \subseteq Labels
        BY <1>26 DEF ReleaseRemoved, Touch, TypeOK
    <2>4. pc' \in [Threads -> Labels]
        BY <1>26 DEF ReleaseRemoved, TypeOK, Labels
    <2> QED BY <1>26, <2>1, <2>2, <2>3, <2>4 DEF ReleaseRemoved, TypeOK
<1>27. CASE EpollWait
    <2>1. events' \subseteq {"IN", "OUT", "HUP"}
        BY <1>27 DEF EpollWait, Reported
    <2>2. pc' \in [Threads -> Labels]
        BY <1>27 DEF EpollWait, TypeOK, Labels
    <2> QED BY <1>27, <2>1, <2>2 DEF EpollWait, TypeOK
<1>28. CASE HandleRead
    <2>1. pc' \in [Threads -> Labels]
        BY <1>28 DEF HandleRead, TypeOK, Labels
    <2> QED BY <1>28, <2>1 DEF HandleRead, TypeOK
<1>29. CASE ReadFd
    <2>1. in_ \o to_client \in Seq(Xids) /\ <<>> \in Seq(Xids)
        BY ConcatProperties, EmptySeq DEF TypeOK
    <2>2. in_' \in Seq(Xids) /\ to_client' \in Seq(Xids)
        BY <1>29, <2>1 DEF ReadFd, TypeOK
    <2>3. UNCHANGED <<at_server, peer>>
        BY <1>29 DEF ReadFd
    <2>4. PICK l \in {"parse", "write"} : pc' = [pc EXCEPT ![Poll] = l]
        BY <1>29, ReadFdEffect
    <2>5. pc' \in [Threads -> Labels]
        BY <2>4 DEF TypeOK, Labels
    <2>6. UNCHANGED <<conn, pending_fu_, out_l_, out_, xid_counter_, ref_count, future,
                      pollmgr, to_server, in_epoll, rdy, stack, history>>
        BY <1>29, ReadFdEffect
    <2> QED BY <2>2, <2>3, <2>5, <2>6 DEF TypeOK
<1>30. CASE ParseReply
    <2>1. Head(in_) \in Xids /\ Tail(in_) \in Seq(Xids) /\ <<>> \in Seq(Xids)
        BY <1>30, HeadTailProperties, EmptySeq DEF ParseReply, TypeOK
    <2>2. in_' \in Seq(Xids)
        BY <1>30, <2>1 DEF ParseReply
    <2>3. pc' \in [Threads -> Labels]
        BY <1>30 DEF ParseReply, TypeOK, Labels
    <2>4. pending_fu_' \subseteq Xids /\ fu' \in [Threads -> Xids \cup {NoXid}]
        BY <1>30, <2>1 DEF ParseReply, TypeOK
    <2>5. UNCHANGED <<conn, out_l_, out_, xid_counter_, ref_count, future, pollmgr, kernel,
                      batch, events, history>>
        BY <1>30 DEF ParseReply
    <2> QED BY <2>2, <2>3, <2>4, <2>5 DEF TypeOK
<1>31. CASE ParseUnknown
    <2>1. Head(in_) \in Xids /\ Tail(in_) \in Seq(Xids) /\ <<>> \in Seq(Xids)
        BY <1>31, HeadTailProperties, EmptySeq DEF ParseUnknown, TypeOK
    <2>2. in_' \in Seq(Xids)
        BY <1>31, <2>1 DEF ParseUnknown
    <2>3. UNCHANGED <<conn, pending_fu_, out_l_, out_, xid_counter_, ref_count, future,
                      pollmgr, kernel, local, history>>
        BY <1>31 DEF ParseUnknown
    <2> QED BY <2>2, <2>3 DEF TypeOK
<1>32. CASE StoreReply
    <2>1. fu[Poll] \in Xids
        BY <1>32 DEF StoreReply, Control, TypeOK
    <2>2. future' \in [Xids -> FutureType]
        BY <1>32, <2>1, FutureFields DEF StoreReply, TypeOK
    <2>3. freed_access' \subseteq Labels
        BY <1>32 DEF StoreReply, Touch, TypeOK
    <2>4. pc' \in [Threads -> Labels]
        BY <1>32 DEF StoreReply, TypeOK, Labels
    <2> QED BY <1>32, <2>1, <2>2, <2>3, <2>4 DEF StoreReply, TypeOK
<1>33. CASE NoMorePackets
    <2>1. pc' \in [Threads -> Labels]
        BY <1>33 DEF NoMorePackets, TypeOK, Labels
    <2> QED BY <1>33, <2>1 DEF NoMorePackets, TypeOK
<1>34. CASE HandleWrite
    <2>1. pc' \in [Threads -> Labels]
        BY <1>34 DEF HandleWrite, TypeOK, Labels
    <2> QED BY <1>34, <2>1 DEF HandleWrite, TypeOK
<1>35. CASE WriteFd
    <2>1. out_' \in Seq(Packet) /\ to_server' \in Seq(Packet)
        BY <1>35, WriteFdPackets
    <2>2. mode_' \in {"R", "RW"} /\ rdy' \in BOOLEAN
        BY <1>35 DEF WriteFd, AfterWrite, update_mode, OutLock, TypeOK
    <2>3. pc' \in [Threads -> Labels]
        BY <1>35 DEF WriteFd, TypeOK, Labels
    <2> QED BY <1>35, <2>1, <2>2, <2>3 DEF WriteFd, TypeOK
<1>36. CASE HandleError
    <2>1. pc' \in [Threads -> Labels]
        BY <1>36 DEF HandleError, TypeOK, Labels
    <2> QED BY <1>36, <2>1 DEF HandleError, TypeOK
<1>37. CASE Drain
    <2>1. ref_count # 0
        BY <1>37 DEF Drain, RefCount
    <2>2. ref_count' \in Nat
        BY <1>37, <2>1 DEF Drain, DropClient, TypeOK
    <2>3. in_epoll' \in BOOLEAN /\ rdy' \in BOOLEAN /\ events' = {}
        BY <1>37 DEF Drain, TypeOK
    <2>4. PICK l \in {"take_pending", "poll"} : pc' = [pc EXCEPT ![Poll] = l]
        BY <1>37, DrainEffect
    <2>5. pc' \in [Threads -> Labels]
        BY <2>4 DEF TypeOK, Labels
    <2> QED BY <1>37, <2>1, <2>2, <2>3, <2>4, <2>5, DrainEffect DEF TypeOK
<1>38. CASE ServerReceives
    <2>1. /\ to_server' \in Seq(Packet) /\ at_server' \subseteq Xids
          /\ received' \subseteq Packet
        BY <1>38, ServerReceivesPackets
    <2> QED BY <1>38, <2>1 DEF ServerReceives, TypeOK
<1>39. CASE ServerReplies
    <2>1. PICK x \in at_server : /\ at_server' = at_server \ {x}
                                 /\ to_client' = Append(to_client, x)
        BY <1>39 DEF ServerReplies
    <2>2. to_client' \in Seq(Xids) /\ at_server' \subseteq Xids
        BY <2>1, AppendProperties DEF TypeOK
    <2> QED BY <1>39, <2>1, <2>2 DEF ServerReplies, TypeOK
<1>40. CASE PeerCloses
    BY <1>40 DEF PeerCloses, TypeOK
<1>41. CASE Terminated \/ UNCHANGED vars
    BY <1>41, TypeSame DEF Terminated
<1> QED
    BY <1>1, <1>2, <1>3, <1>4, <1>5, <1>6, <1>7, <1>8, <1>9, <1>10, <1>11, <1>12, <1>13,
       <1>14, <1>15, <1>16, <1>17, <1>18, <1>19, <1>20, <1>21, <1>22, <1>23, <1>24,
       <1>25, <1>26, <1>27, <1>28, <1>29, <1>30, <1>31, <1>32, <1>33, <1>34, <1>35,
       <1>36, <1>37, <1>38, <1>39, <1>40, <1>41
    DEF Next, InCall, Close, PollLoop, Threads

-----------------------------------------------------------------------------
(* Outcomes                                                                *)

\* The step decides nothing about any call.
SameFate ==
    /\ UNCHANGED <<pending_fu_, xid_counter_, batch>>
    /\ \A x \in Xids : /\ future'[x].replied = future[x].replied
                       /\ future'[x].error = future[x].error
    /\ pc'[Poll] = "reply" <=> pc[Poll] = "reply"
    /\ pc[Poll] = "reply" => fu'[Poll] = fu[Poll]
    /\ \A x \in Xids, t \in Threads : Uses(t, x)' => Uses(t, x)
    /\ \A t \in Threads : pc'[t] \in {"recheck", "undo"}
                              => pc[t] \in {"recheck", "undo"} /\ fu'[t] = fu[t]

\* The steps that do.
Decides == \/ \E c \in Callers : InsertPending(c) \/ Undo(c) \/ Late(c)
           \/ \E t \in Threads : TakePending(t) \/ FailOne(t)
           \/ ParseReply \/ StoreReply

\* Only those steps decide about a call.
LEMMA WhoDecides == IInv /\ [Next]_vars => SameFate \/ Decides
<1> SUFFICES ASSUME IInv, [Next]_vars PROVE SameFate \/ Decides
    OBVIOUS
<1> USE DEF IInv
<1>1. CASE ConnectOk
    BY <1>1 DEF ConnectOk, SameFate, Uses, TypeOK, Control
<1>2. CASE ConnectFails
    BY <1>2 DEF ConnectFails, SameFate, Uses, TypeOK, Control
<1>3. ASSUME NEW c \in Callers, BeginRequest(c) PROVE SameFate \/ Decides
    <2>1. PICK l \in {"insert", "end"} : pc' = [pc EXCEPT ![c] = l]
        BY <1>3 DEF BeginRequest
    <2>2. UNCHANGED <<pending_fu_, xid_counter_, batch, future, fu>> /\ fu[c] = NoXid
        BY <1>3 DEF BeginRequest, Control
    <2> QED BY <2>1, <2>2 DEF SameFate, Uses, TypeOK
<1>4. ASSUME NEW c \in Callers, Expire(c) PROVE SameFate \/ Decides
    BY <1>4 DEF Expire, SameFate, Uses, TypeOK, Control
<1>5. ASSUME NEW c \in Callers, CloseAndRelease(c) PROVE SameFate \/ Decides
    BY <1>5 DEF CloseAndRelease, SameFate, Uses, TypeOK, Control
<1>6. ASSUME NEW c \in Callers, InsertPending(c) PROVE SameFate \/ Decides
    BY <1>6 DEF Decides
<1>7. ASSUME NEW c \in Callers, Recheck(c) PROVE SameFate \/ Decides
    BY <1>7 DEF Recheck, SameFate, Uses, TypeOK, Control
<1>8. ASSUME NEW c \in Callers, Undo(c) PROVE SameFate \/ Decides
    BY <1>8 DEF Decides
<1>9. ASSUME NEW c \in Callers, WriteHeader(c) PROVE SameFate \/ Decides
    BY <1>9 DEF WriteHeader, SameFate, Uses, TypeOK, Control
<1>10. ASSUME NEW c \in Callers, RefCopy(c) PROVE SameFate \/ Decides
    <2>1. fu[c] \in Xids
        BY <1>10 DEF RefCopy, Control, TypeOK
    <2>2. \A x \in Xids : /\ future'[x].replied = future[x].replied
                          /\ future'[x].error = future[x].error
        BY <1>10, <2>1 DEF RefCopy, AddRef, TypeOK, FutureType
    <2> QED BY <1>10, <2>2 DEF RefCopy, SameFate, Uses, TypeOK, Control
<1>11. ASSUME NEW c \in Callers, WriteArgs(c) PROVE SameFate \/ Decides
    BY <1>11 DEF WriteArgs, SameFate, Uses, TypeOK, Control
<1>12. ASSUME NEW c \in Callers, EndRequest(c) PROVE SameFate \/ Decides
    BY <1>12 DEF EndRequest, SameFate, Uses, TypeOK, Control
<1>13. ASSUME NEW c \in Callers, Wait(c) PROVE SameFate \/ Decides
    BY <1>13 DEF Wait, SameFate, Uses, TypeOK, Control
<1>14. ASSUME NEW c \in Callers, SetTimedOut(c) PROVE SameFate \/ Decides
    <2>1. fu[c] \in Xids
        BY <1>14 DEF SetTimedOut, Control, TypeOK
    <2>2. \A x \in Xids : /\ future'[x].replied = future[x].replied
                          /\ future'[x].error = future[x].error
        BY <1>14, <2>1 DEF SetTimedOut, TypeOK, FutureType
    <2> QED BY <1>14, <2>2 DEF SetTimedOut, SameFate, Uses, TypeOK, Control
<1>15. ASSUME NEW c \in Callers, Late(c) PROVE SameFate \/ Decides
    BY <1>15 DEF Decides
<1>16. ASSUME NEW c \in Callers, ReleaseFuture(c) PROVE SameFate \/ Decides
    <2>1. fu[c] \in Xids
        BY <1>16 DEF ReleaseFuture, Control, TypeOK
    <2>2. \A x \in Xids : /\ future'[x].replied = future[x].replied
                          /\ future'[x].error = future[x].error
        BY <1>16, <2>1 DEF ReleaseFuture, AddRef, TypeOK, FutureType
    <2> QED BY <1>16, <2>2 DEF ReleaseFuture, SameFate, Uses, TypeOK, Control
<1>17. ASSUME NEW c \in Callers, Unref(c) PROVE SameFate \/ Decides
    BY <1>17 DEF Unref, DropClient, SameFate, Uses, TypeOK, Control
<1>18. ASSUME NEW t \in Threads, CloseTest(t) PROVE SameFate \/ Decides
    BY <1>18 DEF CloseTest, SameFate, Uses, TypeOK, Control
<1>19. ASSUME NEW t \in Threads, CloseRemove(t) PROVE SameFate \/ Decides
    BY <1>19 DEF CloseRemove, SameFate, Uses, TypeOK, Control
<1>20. ASSUME NEW t \in Threads, CloseFd(t) PROVE SameFate \/ Decides
    BY <1>20 DEF CloseFd, SameFate, Uses, TypeOK, Control
<1>21. ASSUME NEW t \in Threads, SetClosed(t) PROVE SameFate \/ Decides
    BY <1>21 DEF SetClosed, SameFate, Uses, TypeOK, Control
<1>22. ASSUME NEW t \in Threads, TakePending(t) PROVE SameFate \/ Decides
    BY <1>22 DEF Decides
<1>23. ASSUME NEW t \in Threads, FailOne(t) PROVE SameFate \/ Decides
    BY <1>23 DEF Decides
<1>24. ASSUME NEW t \in Threads, Invalidated(t) PROVE SameFate \/ Decides
    BY <1>24 DEF Invalidated, SameFate, Uses, TypeOK, Control
<1>25. ASSUME NEW t \in Threads, notify_ready(t) PROVE SameFate \/ Decides
    <2>1. fu[t] \in Xids
        BY <1>25 DEF notify_ready, Control, TypeOK
    <2>2. \A x \in Xids : /\ future'[x].replied = future[x].replied
                          /\ future'[x].error = future[x].error
        BY <1>25, <2>1 DEF notify_ready, TypeOK, FutureType
    <2> QED BY <1>25, <2>2 DEF notify_ready, SameFate, Uses, TypeOK, Control
<1>26. ASSUME NEW t \in Threads, ReleaseRemoved(t) PROVE SameFate \/ Decides
    <2>1. fu[t] \in Xids
        BY <1>26 DEF ReleaseRemoved, Control, TypeOK
    <2>2. \A x \in Xids : /\ future'[x].replied = future[x].replied
                          /\ future'[x].error = future[x].error
        BY <1>26, <2>1 DEF ReleaseRemoved, AddRef, TypeOK, FutureType
    <2> QED BY <1>26, <2>2 DEF ReleaseRemoved, SameFate, Uses, TypeOK, Control
<1>27. CASE EpollWait
    BY <1>27 DEF EpollWait, SameFate, Uses, TypeOK, Control
<1>28. CASE HandleRead
    BY <1>28 DEF HandleRead, SameFate, Uses, TypeOK, Control
<1>29. CASE ReadFd
    <2>1. PICK l \in {"parse", "write"} : pc' = [pc EXCEPT ![Poll] = l]
        BY <1>29, ReadFdEffect
    <2> QED BY <1>29, <2>1, ReadFdEffect DEF SameFate, Uses, TypeOK, FutureType
<1>30. CASE ParseReply
    BY <1>30 DEF Decides
<1>31. CASE ParseUnknown
    BY <1>31 DEF ParseUnknown, SameFate, Uses, TypeOK, Control
<1>32. CASE StoreReply
    BY <1>32 DEF Decides
<1>33. CASE NoMorePackets
    BY <1>33 DEF NoMorePackets, SameFate, Uses, TypeOK, Control
<1>34. CASE HandleWrite
    BY <1>34 DEF HandleWrite, SameFate, Uses, TypeOK, Control
<1>35. CASE WriteFd
    BY <1>35 DEF WriteFd, SameFate, Uses, TypeOK, Control
<1>36. CASE HandleError
    BY <1>36 DEF HandleError, SameFate, Uses, TypeOK, Control
<1>37. CASE Drain
    <2>1. PICK l \in {"take_pending", "poll"} : pc' = [pc EXCEPT ![Poll] = l]
        BY <1>37, DrainEffect
    <2> QED BY <1>37, <2>1, DrainEffect DEF SameFate, Uses, TypeOK, FutureType
<1>38. CASE ServerReceives
    BY <1>38 DEF ServerReceives, SameFate, Uses, TypeOK, Control
<1>39. CASE ServerReplies
    BY <1>39 DEF ServerReplies, SameFate, Uses, TypeOK, Control
<1>40. CASE PeerCloses
    BY <1>40 DEF PeerCloses, SameFate, Uses, TypeOK, Control
<1>41. CASE Terminated \/ UNCHANGED vars
    BY <1>41 DEF Terminated, SameFate, Uses
<1> QED
    BY <1>1, <1>2, <1>3, <1>4, <1>5, <1>6, <1>7, <1>8, <1>9, <1>10, <1>11, <1>12, <1>13,
       <1>14, <1>15, <1>16, <1>17, <1>18, <1>19, <1>20, <1>21, <1>22, <1>23, <1>24,
       <1>25, <1>26, <1>27, <1>28, <1>29, <1>30, <1>31, <1>32, <1>33, <1>34, <1>35,
       <1>36, <1>37, <1>38, <1>39, <1>40, <1>41
    DEF Next, InCall, Close, PollLoop, Threads

\* What the client shows of its calls.
calls == [x \in Xids |-> Outcome(x)]

Fate(x, begun, pending, replied, lost) ==
    IF x >= begun THEN "none"
    ELSE IF x \in pending THEN "pending"
    ELSE IF x \in replied THEN "replied"
    ELSE IF x \in lost THEN "failed"
    ELSE "refused"

\* The refinement mapping, by request.
LEMMA CallsAre ==
    /\ \A x \in Xids : calls[x] = Fate(x, xid_counter_, pending_fu_, answered, failed)
    /\ \A x \in Xids : calls'[x] = Fate(x, xid_counter_', pending_fu_', answered', failed')
BY DEF calls, Outcome, Fate, answered, failed

\* A step that leaves what the mapping looks at alone.
LEMMA SameFateSame ==
    ASSUME IInv, SameFate
    PROVE  Outcomes' /\ calls' = calls
<1>1. \A x \in Xids : /\ x \in answered' <=> x \in answered
                      /\ x \in failed' <=> x \in failed
    BY DEF SameFate, answered, failed
<1>2. Outcomes'
    <2>1. \A x \in pending_fu_' : ~future'[x].replied
        BY <1>1 DEF IInv, TypeOK, Outcomes, SameFate
    <2>2. \A x \in Xids, t \in Threads :
              Uses(t, x)' /\ x \notin pending_fu_' => x \in answered' \cup failed'
        BY <1>1 DEF IInv, Outcomes, SameFate
    <2>3. \A x \in pending_fu_', t \in Threads :
              fu'[t] = x /\ pc'[t] \in {"recheck", "undo"} => future'[x].error = "0"
        <3> SUFFICES ASSUME NEW x \in pending_fu_', NEW t \in Threads,
                            fu'[t] = x, pc'[t] \in {"recheck", "undo"}
                     PROVE  future'[x].error = "0"
            OBVIOUS
        <3>1. x \in pending_fu_ /\ x \in Xids /\ future'[x].error = future[x].error
            BY <1>1 DEF IInv, TypeOK, SameFate
        <3>2. fu[t] = x /\ pc[t] \in {"recheck", "undo"}
            BY <1>1 DEF IInv, SameFate
        <3> QED BY <3>1, <3>2 DEF IInv, Outcomes
    <2>4. \A x \in Xids, t \in Threads : x \in batch'[t] => x \notin answered'
        BY <1>1 DEF IInv, Outcomes, SameFate
    <2> QED BY <2>1, <2>2, <2>3, <2>4 DEF Outcomes
<1>3. \A x \in Xids : calls'[x] = calls[x]
    BY <1>1, CallsAre DEF Fate, SameFate
<1> QED BY <1>2, <1>3 DEF calls

\* One call changes its outcome.
LEMMA OneCall ==
    ASSUME NEW n \in Xids, NEW from, NEW to, calls[n] = from, calls'[n] = to,
           \A x \in Xids : x # n => calls'[x] = calls[x]
    PROVE  Promise!Becomes(n, from, to)
<1>1. calls' = [calls EXCEPT ![n] = to]
    BY DEF calls
<1> QED BY <1>1 DEF Promise!Becomes, calls

\* A call is pending as soon as it has a future.
LEMMA InsertDecides ==
    ASSUME IInv, NEW c \in Callers, InsertPending(c)
    PROVE  Outcomes' /\ Promise!Next
<1>0. PICK n : n = xid_counter_
    OBVIOUS
<1>1. /\ n \in Xids /\ xid_counter_' = n + 1 /\ pending_fu_' = pending_fu_ \cup {n}
      /\ UNCHANGED batch /\ fu' = [fu EXCEPT ![c] = n] /\ pc' = [pc EXCEPT ![c] = "recheck"]
    BY <1>0 DEF IInv, InsertPending, TypeOK, Control
<1>2. /\ future'[n].error = "0" /\ ~future'[n].replied
      /\ \A x \in Xids : x # n => future'[x] = future[x]
    BY <1>1 DEF IInv, InsertPending, TypeOK, NewFuture
<1>3. /\ n \notin pending_fu_
      /\ \A t \in Threads : ~Carries(t, n) /\ ~Uses(t, n)
    BY <1>0, <1>1 DEF IInv, Futures, Numbered, TypeOK
<1>4. pc'[Poll] = pc[Poll] /\ fu'[Poll] = fu[Poll]
    BY <1>1 DEF IInv, TypeOK
<1>5. \A x \in Xids : x # n => /\ x \in answered' <=> x \in answered
                               /\ x \in failed' <=> x \in failed
    BY <1>1, <1>2, <1>4 DEF answered, failed
<1>6. n \notin answered' /\ n \notin failed'
    BY <1>1, <1>2, <1>3, <1>4 DEF answered, failed, Carries
<1>7. \A x \in Xids, t \in Threads : Uses(t, x)' => Uses(t, x) \/ (t = c /\ x = n)
    BY <1>1 DEF IInv, TypeOK, Uses
<1>8. \A x \in pending_fu_' : ~future'[x].replied
    BY <1>1, <1>2 DEF IInv, TypeOK, Outcomes
<1>9. \A x \in Xids, t \in Threads :
          Uses(t, x)' /\ x \notin pending_fu_' => x \in answered' \cup failed'
    BY <1>1, <1>5, <1>7 DEF IInv, Outcomes
<1>10. \A x \in pending_fu_', t \in Threads :
          fu'[t] = x /\ pc'[t] \in {"recheck", "undo"} => future'[x].error = "0"
    <2> SUFFICES ASSUME NEW x \in pending_fu_', NEW t \in Threads,
                        fu'[t] = x, pc'[t] \in {"recheck", "undo"}
                 PROVE  future'[x].error = "0"
        OBVIOUS
    <2>1. CASE x = n
        BY <1>2, <2>1
    <2>2. CASE x # n
        <3>1. x \in pending_fu_ /\ x \in Xids /\ future'[x] = future[x]
            BY <1>1, <1>2, <2>2 DEF IInv, TypeOK
        <3>2. fu[t] = x /\ pc[t] \in {"recheck", "undo"}
            BY <1>1, <2>2 DEF IInv, TypeOK
        <3> QED BY <3>1, <3>2 DEF IInv, Outcomes
    <2> QED BY <2>1, <2>2
<1>11. \A x \in Xids, t \in Threads : x \in batch'[t] => x \notin answered'
    BY <1>1, <1>5, <1>6 DEF IInv, Outcomes
<1>12. calls[n] = "none" /\ calls'[n] = "pending"
    BY <1>0, <1>1, CallsAre DEF Fate, IInv, TypeOK
<1>13. \A x \in Xids : x # n => calls'[x] = calls[x]
    <2> TAKE x \in Xids
    <2> HAVE x # n
    <2>1. x >= n + 1 <=> x >= n
        BY <1>1
    <2> QED BY <1>0, <1>1, <1>5, <2>1, CallsAre DEF Fate
<1>14. Promise!Begin(n)
    BY <1>1, <1>12, <1>13, OneCall DEF Promise!Begin
<1> QED BY <1>1, <1>8, <1>9, <1>10, <1>11, <1>14 DEF Outcomes, Promise!Next

\* begin_request refuses a call, unless a close has already failed it.
LEMMA UndoDecides ==
    ASSUME IInv, NEW c \in Callers, Undo(c)
    PROVE  Outcomes' /\ [Promise!Next]_calls
<1>0. PICK n : n = fu[c]
    OBVIOUS
<1>1. /\ n \in Xids /\ UNCHANGED <<xid_counter_, batch>> /\ pending_fu_' = pending_fu_ \ {n}
      /\ fu' = [fu EXCEPT ![c] = NoXid] /\ pc[c] = "undo" /\ pc' = [pc EXCEPT ![c] = "end"]
    BY <1>0 DEF IInv, Undo, TypeOK, Control
<1>2. \A x \in Xids : /\ future'[x].replied = future[x].replied
                      /\ future'[x].error = future[x].error
    <2>1. UNCHANGED future \/ AddRef(n, -1)
        BY <1>0 DEF Undo
    <2>2. CASE AddRef(n, -1)
        BY <1>1, <2>2 DEF IInv, AddRef, TypeOK, FutureType
    <2> QED BY <2>1, <2>2
<1>3. pc'[Poll] = pc[Poll] /\ fu'[Poll] = fu[Poll]
    BY <1>1 DEF IInv, TypeOK
<1>4. \A x \in Xids : /\ x \in answered' <=> x \in answered
                      /\ x \in failed' <=> x \in failed
    BY <1>1, <1>2, <1>3 DEF answered, failed
<1>5. \A x \in Xids, t \in Threads : Uses(t, x)' => Uses(t, x) /\ x # n
    <2>1. Uses(c, n)
        BY <1>0, <1>1 DEF Uses
    <2>2. \A x \in Xids, t \in Threads : Uses(t, x)' => Uses(t, x) /\ t # c
        BY <1>1 DEF IInv, TypeOK, Uses
    <2> QED BY <1>1, <2>1, <2>2 DEF IInv, Futures, OneUser
<1>6. \A t \in Threads : pc'[t] \in {"recheck", "undo"}
                             => pc[t] \in {"recheck", "undo"} /\ fu'[t] = fu[t]
    BY <1>1 DEF IInv, TypeOK
<1>7. Outcomes'
    <2>1. \A x \in pending_fu_' : ~future'[x].replied
        BY <1>1, <1>2, <1>4, <1>5, <1>6 DEF IInv, TypeOK, Outcomes
    <2>2. \A x \in Xids, t \in Threads :
              Uses(t, x)' /\ x \notin pending_fu_' => x \in answered' \cup failed'
        BY <1>1, <1>2, <1>4, <1>5, <1>6 DEF IInv, Outcomes
    <2>3. \A x \in pending_fu_', t \in Threads :
              fu'[t] = x /\ pc'[t] \in {"recheck", "undo"} => future'[x].error = "0"
        <3> SUFFICES ASSUME NEW x \in pending_fu_', NEW t \in Threads,
                            fu'[t] = x, pc'[t] \in {"recheck", "undo"}
                     PROVE  future'[x].error = "0"
            OBVIOUS
        <3>1. x \in pending_fu_ /\ x \in Xids /\ future'[x].error = future[x].error
            BY <1>1, <1>2, <1>4, <1>5, <1>6 DEF IInv, TypeOK
        <3>2. fu[t] = x /\ pc[t] \in {"recheck", "undo"}
            BY <1>1, <1>2, <1>4, <1>5, <1>6 DEF IInv
        <3> QED BY <3>1, <3>2 DEF IInv, Outcomes
    <2>4. \A x \in Xids, t \in Threads : x \in batch'[t] => x \notin answered'
        BY <1>1, <1>2, <1>4, <1>5, <1>6 DEF IInv, Outcomes
    <2> QED BY <2>1, <2>2, <2>3, <2>4 DEF Outcomes
<1>8. \A x \in Xids : x # n => calls'[x] = calls[x]
    BY <1>1, <1>4, CallsAre DEF Fate
<1>9. CASE n \in pending_fu_
    <2>1. future[n].error = "0" /\ ~future[n].replied
        BY <1>0, <1>1, <1>9 DEF IInv, Outcomes
    <2>2. \A t \in Threads : ~Carries(t, n)
        BY <1>1, <1>9 DEF IInv, Futures, OneTaker
    <2>3. n \notin answered /\ n \notin failed
        BY <2>1, <2>2 DEF answered, failed, Carries
    <2>4. n < xid_counter_ /\ ~(n >= xid_counter_)
        BY <1>1, <1>9 DEF IInv, Futures, Numbered, TypeOK
    <2>5. calls[n] = "pending"
        BY <1>1, <1>9, <2>4, CallsAre DEF Fate
    <2>6. calls'[n] = "refused"
        BY <1>1, <1>4, <2>3, <2>4, CallsAre DEF Fate
    <2>7. Promise!Refuse(n)
        BY <1>1, <1>8, <2>5, <2>6, OneCall DEF Promise!Refuse
    <2> QED BY <1>1, <1>7, <2>7 DEF Promise!Next
<1>10. CASE n \notin pending_fu_
    <2>1. calls'[n] = calls[n]
        BY <1>1, <1>4, <1>10, CallsAre DEF Fate
    <2> QED BY <1>7, <1>8, <2>1 DEF calls
<1> QED BY <1>9, <1>10

\* A timeout changes the code of a call, never its outcome.
LEMMA LateDecides ==
    ASSUME IInv, NEW c \in Callers, Late(c)
    PROVE  Outcomes' /\ calls' = calls
<1>0. PICK n : n = fu[c]
    OBVIOUS
<1>1. /\ n \in Xids /\ UNCHANGED <<xid_counter_, pending_fu_, batch, fu>>
      /\ pc[c] = "late" /\ pc' = [pc EXCEPT ![c] = "release"]
      /\ future' = [future EXCEPT ![n].error = "ETIMEDOUT"]
    BY <1>0 DEF IInv, Late, TypeOK, Control
<1>2. /\ future'[n].error = "ETIMEDOUT" /\ future'[n].replied = future[n].replied
      /\ \A x \in Xids : x # n => future'[x] = future[x]
    BY <1>1 DEF IInv, TypeOK, FutureType
<1>3. Uses(c, n) /\ \A x \in Xids, t \in Threads : Uses(t, x)' => Uses(t, x)
    BY <1>0, <1>1 DEF IInv, TypeOK, Uses
<1>4. /\ \A x \in Xids : x \in answered' <=> x \in answered
      /\ \A x \in Xids : x # n => (x \in failed' <=> x \in failed)
      /\ n \in failed'
    BY <1>1, <1>2 DEF IInv, TypeOK, answered, failed
<1>5. n \notin pending_fu_ => n \in answered \cup failed
    BY <1>1, <1>3 DEF IInv, Outcomes
<1>6. \A t \in Threads : pc'[t] \in {"recheck", "undo"}
                             => pc[t] \in {"recheck", "undo"} /\ fu'[t] # n
    <2>1. \A t \in Threads : pc'[t] \in {"recheck", "undo"}
                                => pc[t] \in {"recheck", "undo"} /\ t # c
        BY <1>1 DEF IInv, TypeOK
    <2>2. \A t \in Threads : pc[t] \in {"recheck", "undo"} /\ fu[t] = n => Uses(t, n)
        BY DEF Uses
    <2> QED BY <1>1, <1>3, <2>1, <2>2 DEF IInv, Futures, OneUser
<1>7. \A x \in pending_fu_' : ~future'[x].replied
    BY <1>1, <1>2 DEF IInv, TypeOK, Outcomes
<1>8. \A x \in Xids, t \in Threads :
          Uses(t, x)' /\ x \notin pending_fu_' => x \in answered' \cup failed'
    BY <1>1, <1>3, <1>4 DEF IInv, Outcomes
<1>9. \A x \in pending_fu_', t \in Threads :
          fu'[t] = x /\ pc'[t] \in {"recheck", "undo"} => future'[x].error = "0"
    BY <1>1, <1>2, <1>6 DEF IInv, TypeOK, Outcomes
<1>10. \A x \in Xids, t \in Threads : x \in batch'[t] => x \notin answered'
    BY <1>1, <1>4 DEF IInv, Outcomes
<1>11. \A x \in Xids : calls'[x] = calls[x]
    BY <1>1, <1>4, <1>5, CallsAre DEF Fate
<1> QED BY <1>7, <1>8, <1>9, <1>10, <1>11 DEF Outcomes, calls

\* A close fails what is pending.
LEMMA TakeDecides ==
    ASSUME IInv, NEW t \in Threads, TakePending(t)
    PROVE  Outcomes' /\ Promise!Next
<1>1. /\ UNCHANGED <<xid_counter_, future, fu>> /\ pending_fu_' = {}
      /\ pc[t] = "take_pending" /\ pc' = [pc EXCEPT ![t] = "invalidate"]
      /\ batch' = [batch EXCEPT ![t] = pending_fu_] /\ batch[t] = {}
    BY DEF IInv, TakePending, TypeOK, Control
<1>2. \A x \in Xids : x \in answered' <=> x \in answered
    BY <1>1 DEF IInv, TypeOK, answered
<1>3. \A x \in Xids : (\E u \in Threads : x \in batch'[u])
                        <=> (x \in pending_fu_ \/ \E u \in Threads : x \in batch[u])
    BY <1>1 DEF IInv, TypeOK
<1>4. \A x \in Xids : x \in failed' <=> x \in failed \/ x \in pending_fu_
    BY <1>1, <1>3 DEF failed
<1>5. \A x \in pending_fu_ : x \notin answered
    <2> TAKE x \in pending_fu_
    <2>1. x \in Xids /\ ~future[x].replied /\ ~Carries(Poll, x)
        BY DEF IInv, TypeOK, Outcomes, Futures, OneTaker
    <2> QED BY <2>1 DEF answered, Carries
<1>6. \A x \in Xids, u \in Threads : Uses(u, x)' => Uses(u, x)
    BY <1>1 DEF IInv, TypeOK, Uses
<1>7. \A x \in Xids, u \in Threads :
          Uses(u, x)' /\ x \notin pending_fu_' => x \in answered' \cup failed'
    BY <1>2, <1>4, <1>6 DEF IInv, Outcomes
<1>8. \A x \in Xids, u \in Threads : x \in batch'[u] => x \notin answered'
    <2> SUFFICES ASSUME NEW x \in Xids, NEW u \in Threads, x \in batch'[u]
                 PROVE  x \notin answered
        BY <1>2
    <2>1. x \in pending_fu_ \/ \E v \in Threads : x \in batch[v]
        BY <1>3
    <2> QED BY <1>5, <2>1 DEF IInv, Outcomes
<1>9. Outcomes'
    BY <1>1, <1>7, <1>8 DEF Outcomes
<1>10. \A x \in pending_fu_ : x \in Xids /\ ~(x >= xid_counter_)
    BY DEF IInv, TypeOK, Futures, Numbered
<1>11. \A x \in Xids : calls'[x] = IF calls[x] = "pending" THEN "failed" ELSE calls[x]
    <2> TAKE x \in Xids
    <2>1. CASE x \in pending_fu_
        <3>1. calls[x] = "pending"
            BY <1>10, <2>1, CallsAre DEF Fate
        <3>2. x \notin answered' /\ x \in failed'
            BY <1>2, <1>4, <1>5, <2>1
        <3>3. calls'[x] = "failed"
            BY <1>1, <1>10, <2>1, <3>2, CallsAre DEF Fate
        <3> QED BY <3>1, <3>3
    <2>2. CASE x \notin pending_fu_
        <3>1. calls[x] # "pending"
            BY <2>2, CallsAre DEF Fate
        <3>2. calls'[x] = calls[x]
            BY <1>1, <1>2, <1>4, <2>2, CallsAre DEF Fate
        <3> QED BY <3>1, <3>2
    <2> QED BY <2>1, <2>2
<1>12. Promise!Close
    <2>1. calls' = [x \in Xids |-> IF calls[x] = "pending" THEN "failed" ELSE calls[x]]
        BY <1>11 DEF calls
    <2> QED BY <2>1 DEF Promise!Close, calls
<1> QED BY <1>9, <1>12 DEF Promise!Next

\* Storing ENOTCONN: the call has failed already.
LEMMA FailDecides ==
    ASSUME IInv, NEW t \in Threads, FailOne(t)
    PROVE  Outcomes' /\ calls' = calls
<1>1. PICK n \in batch[t] : /\ future' = [future EXCEPT ![n].error = "ENOTCONN"]
                            /\ fu' = [fu EXCEPT ![t] = n]
                            /\ batch' = [batch EXCEPT ![t] = @ \ {n}]
    BY DEF FailOne
<1>2. /\ n \in Xids /\ UNCHANGED <<xid_counter_, pending_fu_>>
      /\ pc[t] = "invalidate" /\ pc' = [pc EXCEPT ![t] = "inval_notify"]
    BY <1>1 DEF IInv, FailOne, TypeOK
<1>3. /\ future'[n].error = "ENOTCONN" /\ future'[n].replied = future[n].replied
      /\ \A x \in Xids : x # n => future'[x] = future[x]
    BY <1>1, <1>2 DEF IInv, TypeOK, FutureType
<1>4. Carries(t, n) /\ n \notin pending_fu_
    BY <1>1, <1>2 DEF IInv, Carries, Futures, OneTaker
<1>5. \A x \in Xids : x \in answered' <=> x \in answered
    BY <1>1, <1>2, <1>3 DEF IInv, TypeOK, answered
<1>6. \A x \in Xids : x # n => ((\E u \in Threads : x \in batch'[u])
                                  <=> (\E u \in Threads : x \in batch[u]))
    BY <1>1, <1>2 DEF IInv, TypeOK
<1>7. \A x \in Xids : x \in failed' <=> x \in failed
    BY <1>1, <1>2, <1>3, <1>6 DEF failed
<1>8. \A x \in Xids, u \in Threads : Uses(u, x)' => Uses(u, x)
    BY <1>1, <1>2 DEF IInv, TypeOK, Uses
<1>9. \A u \in Threads : pc'[u] \in {"recheck", "undo"}
                             => pc[u] \in {"recheck", "undo"} /\ fu'[u] = fu[u]
    BY <1>1, <1>2 DEF IInv, TypeOK
<1>10. \A x \in pending_fu_' : x \in Xids /\ x \in pending_fu_ /\ future'[x] = future[x]
    BY <1>2, <1>3, <1>4 DEF IInv, TypeOK
<1>11. \A x \in Xids, u \in Threads : x \in batch'[u] => x \notin answered'
    <2>1. \A x \in Xids, u \in Threads : x \in batch'[u] => x \in batch[u]
        BY <1>1 DEF IInv, TypeOK
    <2> QED BY <1>5, <2>1 DEF IInv, Outcomes
<1>12. \A x \in Xids, u \in Threads :
           Uses(u, x)' /\ x \notin pending_fu_' => x \in answered' \cup failed'
    BY <1>2, <1>5, <1>7, <1>8 DEF IInv, Outcomes
<1>13. \A x \in pending_fu_', u \in Threads :
          fu'[u] = x /\ pc'[u] \in {"recheck", "undo"} => future'[x].error = "0"
    BY <1>9, <1>10 DEF IInv, Outcomes
<1>14. \A x \in pending_fu_' : ~future'[x].replied
    BY <1>10 DEF IInv, Outcomes
<1>15. Outcomes'
    BY <1>11, <1>12, <1>13, <1>14 DEF Outcomes
<1>16. \A x \in Xids : calls'[x] = calls[x]
    BY <1>2, <1>5, <1>7, CallsAre DEF Fate
<1> QED BY <1>15, <1>16 DEF calls

\* handle_read takes the future of a reply: the call is answered.
LEMMA ParseDecides ==
    ASSUME IInv, ParseReply
    PROVE  Outcomes' /\ Promise!Next
<1>0. PICK n : n = Head(in_)
    OBVIOUS
<1>1. /\ n \in pending_fu_ /\ n \in Xids /\ pending_fu_' = pending_fu_ \ {n}
      /\ UNCHANGED <<xid_counter_, future, batch>>
      /\ pc[Poll] = "parse" /\ pc' = [pc EXCEPT ![Poll] = "reply"]
      /\ fu' = [fu EXCEPT ![Poll] = n]
    BY <1>0 DEF IInv, ParseReply, TypeOK
<1>2. /\ n \in answered'
      /\ \A x \in Xids : x # n => (x \in answered' <=> x \in answered)
      /\ \A x \in Xids : x \in failed' <=> x \in failed
    BY <1>1 DEF IInv, TypeOK, answered, failed
<1>3. \A x \in Xids, t \in Threads : Uses(t, x)' => Uses(t, x)
    BY <1>1 DEF IInv, TypeOK, Uses
<1>4. \A t \in Threads : pc'[t] \in {"recheck", "undo"}
                             => pc[t] \in {"recheck", "undo"} /\ fu'[t] = fu[t]
    BY <1>1 DEF IInv, TypeOK
<1>5. \A x \in Xids, t \in Threads : x \in batch'[t] => x # n /\ x \notin answered
    BY <1>1 DEF IInv, Outcomes, Futures, OneTaker, Carries
<1>6. \A x \in Xids, t \in Threads : x \in batch'[t] => x \notin answered'
    BY <1>2, <1>5
<1>7. \A x \in Xids, t \in Threads :
           Uses(t, x)' /\ x \notin pending_fu_' => x \in answered' \cup failed'
    BY <1>1, <1>2, <1>3 DEF IInv, Outcomes
<1>8. \A x \in pending_fu_', t \in Threads :
          fu'[t] = x /\ pc'[t] \in {"recheck", "undo"} => future'[x].error = "0"
    <2>1. \A x \in pending_fu_, t \in Threads :
              fu[t] = x /\ pc[t] \in {"recheck", "undo"} => future[x].error = "0"
        BY DEF IInv, Outcomes
    <2>2. pending_fu_' \subseteq pending_fu_ /\ \A x \in pending_fu_' : future'[x] = future[x]
        BY <1>1
    <2> QED BY <1>4, <2>1, <2>2
<1>9. \A x \in pending_fu_' : ~future'[x].replied
    BY <1>1 DEF IInv, Outcomes
<1>10. Outcomes'
    BY <1>6, <1>7, <1>8, <1>9 DEF Outcomes
<1>11. ~(n >= xid_counter_)
    BY <1>1 DEF IInv, TypeOK, Futures, Numbered
<1>12. calls[n] = "pending" /\ calls'[n] = "replied"
    BY <1>1, <1>2, <1>11, CallsAre DEF Fate
<1>13. \A x \in Xids : x # n => calls'[x] = calls[x]
    BY <1>1, <1>2, CallsAre DEF Fate
<1>14. Promise!Reply(n)
    BY <1>1, <1>12, <1>13, OneCall DEF Promise!Reply
<1> QED BY <1>1, <1>10, <1>14 DEF Promise!Next

\* Storing the reply's code: the call has been answered already.
LEMMA StoreDecides ==
    ASSUME IInv, StoreReply
    PROVE  Outcomes' /\ calls' = calls
<1>0. PICK n : n = fu[Poll]
    OBVIOUS
<1>1. /\ n \in Xids /\ UNCHANGED <<xid_counter_, pending_fu_, batch, fu>>
      /\ pc[Poll] = "reply" /\ pc' = [pc EXCEPT ![Poll] = "reply_notify"]
      /\ future' = [future EXCEPT ![n].error = "0", ![n].replied = TRUE]
    BY <1>0 DEF IInv, StoreReply, TypeOK, Control
<1>2. /\ future'[n].error = "0" /\ future'[n].replied
      /\ \A x \in Xids : x # n => future'[x] = future[x]
    BY <1>1 DEF IInv, TypeOK, FutureType
<1>3. Carries(Poll, n) /\ n \notin pending_fu_
    BY <1>0, <1>1 DEF IInv, Carries, Futures, OneTaker
<1>4. /\ n \in answered /\ n \in answered'
      /\ \A x \in Xids : x # n => /\ x \in answered' <=> x \in answered
                                  /\ x \in failed' <=> x \in failed
    BY <1>0, <1>1, <1>2 DEF IInv, TypeOK, answered, failed
<1>5. \A x \in Xids : x \in answered' <=> x \in answered
    BY <1>4
<1>6. \A x \in Xids, t \in Threads : Uses(t, x)' => Uses(t, x)
    BY <1>1 DEF IInv, TypeOK, Uses
<1>7. \A t \in Threads : pc'[t] \in {"recheck", "undo"}
                             => pc[t] \in {"recheck", "undo"} /\ fu'[t] = fu[t]
    BY <1>1 DEF IInv, TypeOK
<1>8. \A x \in pending_fu_' : x \in Xids /\ x \in pending_fu_ /\ future'[x] = future[x]
    BY <1>1, <1>2, <1>3 DEF IInv, TypeOK
<1>9. \A x \in Xids, t \in Threads : x \in batch'[t] => x \notin answered'
    BY <1>1, <1>5 DEF IInv, Outcomes
<1>10. \A x \in Xids, t \in Threads :
           Uses(t, x)' /\ x \notin pending_fu_' => x \in answered' \cup failed'
    BY <1>1, <1>4, <1>6 DEF IInv, Outcomes
<1>11. \A x \in pending_fu_', t \in Threads :
          fu'[t] = x /\ pc'[t] \in {"recheck", "undo"} => future'[x].error = "0"
    BY <1>7, <1>8 DEF IInv, Outcomes
<1>12. \A x \in pending_fu_' : ~future'[x].replied
    BY <1>8 DEF IInv, Outcomes
<1>13. Outcomes'
    BY <1>9, <1>10, <1>11, <1>12 DEF Outcomes
<1>14. \A x \in Xids : calls'[x] = calls[x]
    BY <1>1, <1>4, CallsAre DEF Fate
<1> QED BY <1>13, <1>14 DEF calls

\* Every step keeps the outcomes right, and is one that RpcCall allows.
LEMMA NextOutcomes == IInv /\ [Next]_vars => Outcomes' /\ [Promise!Next]_calls
<1> SUFFICES ASSUME IInv, [Next]_vars PROVE Outcomes' /\ [Promise!Next]_calls
    OBVIOUS
<1>1. CASE SameFate
    BY <1>1, SameFateSame
<1>2. ASSUME NEW c \in Callers, InsertPending(c) PROVE Outcomes' /\ [Promise!Next]_calls
    BY <1>2, InsertDecides
<1>3. ASSUME NEW c \in Callers, Undo(c) PROVE Outcomes' /\ [Promise!Next]_calls
    BY <1>3, UndoDecides
<1>4. ASSUME NEW c \in Callers, Late(c) PROVE Outcomes' /\ [Promise!Next]_calls
    BY <1>4, LateDecides
<1>5. ASSUME NEW t \in Threads, TakePending(t) PROVE Outcomes' /\ [Promise!Next]_calls
    BY <1>5, TakeDecides
<1>6. ASSUME NEW t \in Threads, FailOne(t) PROVE Outcomes' /\ [Promise!Next]_calls
    BY <1>6, FailDecides
<1>7. CASE ParseReply
    BY <1>7, ParseDecides
<1>8. CASE StoreReply
    BY <1>8, StoreDecides
<1> QED BY <1>1, <1>2, <1>3, <1>4, <1>5, <1>6, <1>7, <1>8, WhoDecides DEF Decides

-----------------------------------------------------------------------------
(* The theorems                                                            *)

\* A client that was just made satisfies the invariant.
LEMMA InitIInv == Init => IInv
<1> SUFFICES ASSUME Init PROVE IInv
    OBVIOUS
<1>1. Cardinality(Callers) \in Nat /\ Cardinality(Callers) # 0
    BY FS_CardinalityType, FS_EmptySet
<1>2. TypeOK
    <2>1. out_ \in Seq(Packet) /\ in_ \in Seq(Xids) /\ to_server \in Seq(Packet)
          /\ to_client \in Seq(Xids)
        BY EmptySeq DEF Init
    <2>2. future \in [Xids -> FutureType]
        <3>1. [NewFuture EXCEPT !.ref = 0] \in FutureType
            <4>1. NewFuture \in FutureType
                BY DEF NewFuture, FutureType
            <4> QED BY <4>1 DEF FutureType
        <3> QED BY <3>1 DEF Init
    <2>3. pc \in [Threads -> Labels]
        BY DEF Init, Labels
    <2>4. /\ fu \in [Threads -> Xids \cup {NoXid}] /\ batch \in [Threads -> SUBSET Xids]
          /\ xid_counter_ \in 1 .. (MaxXid + 1) /\ ref_count \in Nat
        BY <1>1 DEF Init
    <2>5. /\ pending_fu_ \subseteq Xids /\ at_server \subseteq Xids
          /\ events \subseteq {"IN", "OUT", "HUP"} /\ freed_access \subseteq Labels
          /\ received \subseteq Packet
        BY DEF Init
    <2> QED BY <2>1, <2>2, <2>3, <2>4, <2>5 DEF Init, TypeOK
<1>3. Control /\ Connected
    BY DEF Init, Control, Connected
<1>4. Packets /\ OnlyWholeRequests /\ WriteEventsEnabled /\ Orphans
    <2>1. Len(to_server) = 0 /\ DOMAIN out_ = {} /\ DOMAIN to_server = {}
        BY DEF Init
    <2> QED BY <2>1 DEF Init, Packets, Writing, OnlyWholeRequests, WriteEventsEnabled,
        Orphans
<1>5. \A x \in Xids, t \in Threads : ~Carries(t, x) /\ ~Uses(t, x) /\ ~Holds(t, x)
    BY DEF Init, Carries, Uses, Holds
<1>6. Futures
    <2>1. Numbered /\ OneTaker /\ OneUser
        BY <1>5 DEF Init, Numbered, OneTaker, OneUser
    <2>2. RefsRight
        BY <1>5 DEF Init, RefsRight, Taken, Held, NewFuture
    <2> QED BY <2>1, <2>2 DEF Futures
<1>7. FreedOnlyInBegin
    BY DEF Init, FreedOnlyInBegin
<1>8. RefCount
    <2>1. Users = Callers
        BY DEF Init, Users
    <2> QED BY <1>1, <2>1 DEF Init, RefCount, InPollMgr
<1>9. Outcomes
    BY <1>5 DEF Init, Outcomes
<1> QED BY <1>2, <1>3, <1>4, <1>6, <1>7, <1>8, <1>9 DEF IInv

\* Every step of the client, its callers and its server keeps the invariant.
LEMMA NextIInv == IInv /\ [Next]_vars => IInv'
BY NextType, NextControl, NextConnected, NextPackets, NextWhole, NextWriteEvents,
   NextOrphans,
   NextFutures, NextFreed, NextRefCount, NextOutcomes DEF IInv

\* The inductive invariant holds in every reachable state.
THEOREM Invariance == Spec => []IInv
BY InitIInv, NextIInv, PTL DEF Spec

\* A set whose members are all equal.
LEMMA AtMostOne ==
    ASSUME NEW S, \A t \in S, u \in S : t = u
    PROVE  Cardinality(S) = IF S = {} THEN 0 ELSE 1
<1>1. CASE S = {}
    BY <1>1, FS_EmptySet
<1>2. CASE S # {}
    <2>1. PICK t : S = {t}
        BY <1>2
    <2> QED BY <2>1, FS_Singleton
<1> QED BY <1>1, <1>2

\* The futures' references are accounted for.
LEMMA Accounted == IInv => RefsAccounted
<1> SUFFICES ASSUME IInv, NEW x \in Xids
             PROVE  future[x].ref = (IF x \in pending_fu_ THEN 1 ELSE 0)
                                    + Cardinality({t \in Threads : Carries(t, x)})
                                    + Cardinality({t \in Threads : Holds(t, x)})
    BY DEF RefsAccounted
<1> DEFINE C == {t \in Threads : Carries(t, x)}
           H == {t \in Threads : Holds(t, x)}
<1>1. Cardinality(C) = IF Taken(x) THEN 1 ELSE 0
    <2>1. \A t \in C, u \in C : t = u
        BY DEF IInv, Futures, OneTaker
    <2>2. C = {} <=> ~Taken(x)
        BY DEF Taken
    <2> HIDE DEF C
    <2> QED BY <2>1, <2>2, AtMostOne
<1>2. Cardinality(H) = IF Held(x) THEN 1 ELSE 0
    <2>1. \A t \in Threads : Holds(t, x) => Uses(t, x)
        BY DEF Holds, Uses
    <2>2. \A t \in H, u \in H : t = u
        BY <2>1 DEF IInv, Futures, OneUser
    <2>3. H = {} <=> ~Held(x)
        BY DEF Held
    <2> HIDE DEF H
    <2> QED BY <2>2, <2>3, AtMostOne
<1> HIDE DEF C, H
<1>3. future[x].ref = (IF x \in pending_fu_ THEN 1 ELSE 0) + Cardinality(C) + Cardinality(H)
    BY <1>1, <1>2 DEF IInv, Futures, RefsRight
<1> QED BY <1>3 DEF C, H

\* Nobody is inside a method of a deleted client.
LEMMA Outlives == IInv => ClientOutlivesCalls
<1> SUFFICES ASSUME IInv PROVE ClientOutlivesCalls
    OBVIOUS
<1>1. ref_count \in Nat /\ (ref_count > 0 <=> ref_count # 0)
    BY DEF IInv, TypeOK
<1> QED BY <1>1 DEF IInv, RefCount, InPollMgr, ClientOutlivesCalls

\* Futures and client live as long as they are used and no longer: every reference
\* of a future is owned by pending_fu_, by the thread that took it from there or by
\* the caller, only begin_request uses a future it does not own, and no thread is
\* in a method of a deleted client, whoever closes, times out or answers.
THEOREM LifetimesCorrect == Spec => []Lifetimes
<1>1. IInv => Lifetimes
    BY Accounted, Outlives DEF IInv, Lifetimes
<1> QED BY <1>1, Invariance, PTL

\* No request is orphaned: after a close pending_fu_ is empty, although
\* begin_request may insert a future between close()'s two steps.
THEOREM NothingOrphaned == Spec => []NothingPendingAfterClose
<1>1. IInv => NothingPendingAfterClose
    <2> SUFFICES ASSUME IInv, status_ = "CLOSED",
                        \A t \in Threads : ~InClose(t) /\ ~InBegin(t), NEW x \in pending_fu_
                 PROVE  FALSE
        BY DEF NothingPendingAfterClose
    <2>1. CASE \E t \in Threads : pc[t] = "take_pending"
        BY <2>1 DEF InClose
    <2>2. CASE \E c \in Callers : pc[c] \in {"recheck", "undo"} /\ fu[c] = x
        BY <2>2 DEF InBegin
    <2> QED BY <2>1, <2>2 DEF IInv, Orphans
<1> QED BY <1>1, Invariance, PTL

\* epoll_ctl(EPOLL_CTL_MOD) is called on open descriptors only, and requests
\* waiting in out_ have write events enabled.
THEOREM EpollCorrect == Spec => []EpollConsistent
<1>1. IInv => EpollConsistent
    BY DEF IInv, Connected, EpollConsistent, ModAlwaysValid
<1> QED BY <1>1, Invariance, PTL

\* The peer receives only complete requests, for any socket buffer and whatever
\* operator<< drops after a close.
THEOREM WholeRequests == Spec => []OnlyWholeRequests
<1>1. IInv => OnlyWholeRequests
    BY DEF IInv
<1> QED BY <1>1, Invariance, PTL

\* The client implements RpcCall: every call is completed once, by its reply, by a
\* close or by the undo of begin_request, and keeps its outcome.
THEOREM Refinement == Spec => ImplementsRpcCall
<1>1. Init => Promise!Init
    <2> SUFFICES ASSUME Init PROVE Promise!Init
        OBVIOUS
    <2>1. \A x \in Xids : Outcome(x) = "none"
        BY DEF Init, Outcome
    <2> QED BY <2>1 DEF Promise!Init
<1>2. IInv /\ [Next]_vars => [Promise!Next]_calls
    BY NextOutcomes
<1> QED BY <1>1, <1>2, Invariance, PTL DEF Spec, ImplementsRpcCall, Promise!Spec, calls

=============================================================================
