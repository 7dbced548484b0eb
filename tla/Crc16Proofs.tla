----------------------------- MODULE Crc16Proofs -----------------------------
(***************************************************************************)
(* The checksum checks itself: it is a number of 16 bits, and with its own *)
(* two bytes behind them, the low one first, every sequence of bytes has   *)
(* the checksum 0.  An exclusive or of equal numbers is 0, and the table   *)
(* has 0 for 0: so the first of the two bytes leaves the high byte of the  *)
(* checksum, and the second one leaves nothing.                            *)
(***************************************************************************)
EXTENDS Crc16, SequenceFacts

word_max == 65535

Word == 0..word_max

\* The numbers of 16 bits.
LEMMA WordFacts ==
  /\ \A n \in Nat : n <= 65535 => n \in Word
  /\ \A n \in Word : n \in Nat /\ n <= 65535
<1>1. word_max \in Nat
  BY SMT DEF word_max
<1>2. ASSUME NEW n \in Nat, n <= 65535 PROVE n \in Word
  <2>1. n <= word_max
    BY <1>2, SMT DEF word_max
  <2> QED
    BY <1>1, <2>1 DEF Word
<1>3. ASSUME NEW n \in Word PROVE n \in Nat /\ n <= 65535
  <2>1. n \in Nat /\ n <= word_max
    BY <1>1 DEF Word
  <2> QED
    BY <2>1 DEF word_max
<1> QED
  BY <1>2, <1>3

-----------------------------------------------------------------------------
(* The exclusive or: its range, and what it does with equal numbers and    *)
(* with 0, from the width of one bit to that of 16.                        *)

LEMMA Xor1Facts ==
  ASSUME NEW a \in 0..1, NEW b \in 0..1
  PROVE  xor1(a, b) \in 0..1 /\ xor1(a, a) = 0 /\ xor1(0, b) = b
BY SMT DEF xor1

LEMMA Xor2Facts ==
  ASSUME NEW a \in 0..3, NEW b \in 0..3
  PROVE  xor2(a, b) \in 0..3 /\ xor2(a, a) = 0 /\ xor2(0, b) = b
<1>1. /\ a % 2 \in 0..1 /\ a \div 2 \in 0..1 /\ b % 2 \in 0..1 /\ b \div 2 \in 0..1
      /\ b = (b % 2) + 2 * (b \div 2) /\ 0 % 2 = 0 /\ 0 \div 2 = 0
  BY SMT
<1>2. /\ xor1(a % 2, b % 2) \in 0..1 /\ xor1(a \div 2, b \div 2) \in 0..1
      /\ xor1(a % 2, a % 2) = 0 /\ xor1(a \div 2, a \div 2) = 0
      /\ xor1(0, b % 2) = b % 2 /\ xor1(0, b \div 2) = b \div 2
  BY <1>1, Xor1Facts
<1>3. xor2(a, b) \in 0..3
  <2>1. \A low, high \in 0..1 : low + 2 * high \in 0..3
    BY SMT
  <2> QED
    BY <1>2, <2>1, Zenon DEF xor2
<1>4. xor2(a, a) = 0
  <2>1. 0 + 2 * 0 = 0
    BY SMT
  <2> QED
    BY <1>2, <2>1, Zenon DEF xor2
<1>5. xor2(0, b) = b
  BY <1>1, <1>2, Zenon DEF xor2
<1> QED
  BY <1>3, <1>4, <1>5

LEMMA Xor4Facts ==
  ASSUME NEW a \in 0..15, NEW b \in 0..15
  PROVE  xor4(a, b) \in 0..15 /\ xor4(a, a) = 0 /\ xor4(0, b) = b
<1>1. /\ a % 4 \in 0..3 /\ a \div 4 \in 0..3 /\ b % 4 \in 0..3 /\ b \div 4 \in 0..3
      /\ b = (b % 4) + 4 * (b \div 4) /\ 0 % 4 = 0 /\ 0 \div 4 = 0
  BY SMT
<1>2. /\ xor2(a % 4, b % 4) \in 0..3 /\ xor2(a \div 4, b \div 4) \in 0..3
      /\ xor2(a % 4, a % 4) = 0 /\ xor2(a \div 4, a \div 4) = 0
      /\ xor2(0, b % 4) = b % 4 /\ xor2(0, b \div 4) = b \div 4
  BY <1>1, Xor2Facts
<1>3. xor4(a, b) \in 0..15
  <2>1. \A low, high \in 0..3 : low + 4 * high \in 0..15
    BY SMT
  <2> QED
    BY <1>2, <2>1, Zenon DEF xor4
<1>4. xor4(a, a) = 0
  <2>1. 0 + 4 * 0 = 0
    BY SMT
  <2> QED
    BY <1>2, <2>1, Zenon DEF xor4
<1>5. xor4(0, b) = b
  BY <1>1, <1>2, Zenon DEF xor4
<1> QED
  BY <1>3, <1>4, <1>5

LEMMA Xor8Facts ==
  ASSUME NEW a \in 0..255, NEW b \in 0..255
  PROVE  xor8(a, b) \in 0..255 /\ xor8(a, a) = 0 /\ xor8(0, b) = b
<1>1. /\ a % 16 \in 0..15 /\ a \div 16 \in 0..15
      /\ b % 16 \in 0..15 /\ b \div 16 \in 0..15
      /\ b = (b % 16) + 16 * (b \div 16) /\ 0 % 16 = 0 /\ 0 \div 16 = 0
  BY SMT
<1>2. /\ xor4(a % 16, b % 16) \in 0..15 /\ xor4(a \div 16, b \div 16) \in 0..15
      /\ xor4(a % 16, a % 16) = 0 /\ xor4(a \div 16, a \div 16) = 0
      /\ xor4(0, b % 16) = b % 16 /\ xor4(0, b \div 16) = b \div 16
  BY <1>1, Xor4Facts
<1>3. xor8(a, b) \in 0..255
  <2>1. \A low, high \in 0..15 : low + 16 * high \in 0..255
    BY SMT
  <2> QED
    BY <1>2, <2>1, Zenon DEF xor8
<1>4. xor8(a, a) = 0
  <2>1. 0 + 16 * 0 = 0
    BY SMT
  <2> QED
    BY <1>2, <2>1, Zenon DEF xor8
<1>5. xor8(0, b) = b
  BY <1>1, <1>2, Zenon DEF xor8
<1> QED
  BY <1>3, <1>4, <1>5

\* A number of 16 bits is two bytes.
LEMMA HalvesFacts ==
  ASSUME NEW n \in Word
  PROVE  /\ n % 256 \in 0..255 /\ n \div 256 \in 0..255
         /\ n = (n % 256) + 256 * (n \div 256)
<1>1. n \in Nat /\ n <= 65535
  BY WordFacts
<1>2. n \div 256 \in Nat /\ n \div 256 <= 255
  BY <1>1, SMT
<1> QED
  BY <1>1, <1>2, SMT

LEMMA Xor16Facts ==
  ASSUME NEW a \in Word, NEW b \in Word
  PROVE  xor16(a, b) \in Word /\ xor16(a, a) = 0 /\ xor16(0, b) = b
<1>1. PICK al, ah : al = a % 256 /\ ah = a \div 256
  OBVIOUS
<1>2. PICK bl, bh : bl = b % 256 /\ bh = b \div 256
  OBVIOUS
<1>3. al \in 0..255 /\ ah \in 0..255
  BY <1>1, HalvesFacts
<1>4. bl \in 0..255 /\ bh \in 0..255 /\ b = bl + 256 * bh
  <2>1. /\ b % 256 \in 0..255 /\ b \div 256 \in 0..255
        /\ b = (b % 256) + 256 * (b \div 256)
    BY HalvesFacts
  <2> QED
    BY <1>2, <2>1, Zenon
<1>5. 0 % 256 = 0 /\ 0 \div 256 = 0 /\ 0 + 256 * 0 = 0
  BY SMT
<1>6. /\ xor8(al, bl) \in 0..255 /\ xor8(al, al) = 0 /\ xor8(0, bl) = bl
      /\ xor8(ah, bh) \in 0..255 /\ xor8(ah, ah) = 0 /\ xor8(0, bh) = bh
  BY <1>3, <1>4, Xor8Facts
<1>7. xor16(a, b) \in Word
  <2>1. PICK low, high \in 0..255 : low = xor8(al, bl) /\ high = xor8(ah, bh)
    BY <1>6
  <2>2. low + 256 * high \in Nat /\ low + 256 * high <= 65535
    BY SMT
  <2>3. low + 256 * high \in Word
    BY <2>2, WordFacts
  <2> QED
    BY <1>1, <1>2, <2>1, <2>3, Zenon DEF xor16
<1>8. xor16(a, a) = 0
  <2>1. xor16(a, a) = xor8(al, al) + 256 * xor8(ah, ah)
    BY <1>1, Zenon DEF xor16
  <2> QED
    BY <1>5, <1>6, <2>1
<1>9. xor16(0, b) = b
  <2>1. xor16(0, b) = xor8(0 % 256, bl) + 256 * xor8(0 \div 256, bh)
    BY <1>2, Zenon DEF xor16
  <2>2. xor16(0, b) = xor8(0, bl) + 256 * xor8(0, bh)
    BY <1>5, <2>1
  <2> QED
    BY <1>4, <1>6, <2>2
<1> QED
  BY <1>7, <1>8, <1>9

\* A shift keeps the width, and makes nothing out of 0.
LEMMA ShiftFacts ==
  /\ \A value \in Word : Shift(value) \in Word
  /\ Shift(0) = 0
<1>1. ASSUME NEW value \in Word PROVE Shift(value) \in Word
  <2>1. (2 * value) % 65536 \in Word /\ 4129 \in Word
    <3>1. value \in Nat
      BY WordFacts
    <3>2. (2 * value) % 65536 \in Nat /\ (2 * value) % 65536 <= 65535
      BY <3>1, SMT
    <3>3. 4129 \in Nat /\ 4129 <= 65535
      BY SMT
    <3> QED
      BY <3>2, <3>3, WordFacts
  <2>2. xor16((2 * value) % 65536, 4129) \in Word
    BY <2>1, Xor16Facts
  <2>3. CASE value >= 32768
    BY <2>2, <2>3 DEF Shift
  <2>4. CASE ~(value >= 32768)
    BY <2>1, <2>4 DEF Shift
  <2> QED
    BY <2>3, <2>4
<1>2. Shift(0) = 0
  <2>1. (2 * 0) % 65536 = 0 /\ ~(0 >= 32768)
    BY SMT
  <2>2. Shift(0) = (2 * 0) % 65536
    BY <2>1 DEF Shift
  <2> QED
    BY <2>1, <2>2
<1> QED
  BY <1>1, <1>2

-----------------------------------------------------------------------------
\* The table has a number of 16 bits for each byte, and 0 for 0.
LEMMA TableFacts ==
  ASSUME NEW low \in 0..255
  PROVE  TableValue[low] \in Word /\ (low = 0 => TableValue[low] = 0)
<1> DEFINE body(f) == [bit \in 0..8 |->
                         IF bit = 0 THEN 256 * low ELSE Shift(f[bit - 1])]
           step == [bit \in 1..8 |-> [value \in Word |-> Shift(value)]]
           own == CHOOSE f : f = body(f)
           S == {bit \in 0..8 : own[bit] \in Word /\ (low = 0 => own[bit] = 0)}
<1>1. 256 * low \in Word /\ (low = 0 => 256 * low = 0)
  <2>1. 256 * low \in Nat /\ 256 * low <= 65535 /\ (low = 0 => 256 * low = 0)
    BY SMT
  <2> QED
    BY <2>1, WordFacts
<1>2. PICK F : Follows(F, step, 256 * low, 8, Word)
  <2>1. step \in [1..8 -> [Word -> Word]]
    BY ShiftFacts, Zenon
  <2> HIDE DEF step
  <2> QED
    BY <1>1, <2>1, RecursionExists
<1>3. F = body(F)
  <2>1. /\ F \in [0..8 -> Word] /\ F[0] = 256 * low
        /\ \A bit \in 1..8 : F[bit] = step[bit][F[bit - 1]]
    BY <1>2, Zenon DEF Follows
  <2>2. ASSUME NEW bit \in 0..8 PROVE F[bit] = body(F)[bit]
    <3>1. CASE bit = 0
      BY <2>1, <3>1, Zenon
    <3>2. CASE bit # 0
      <4>1. bit \in 1..8 /\ bit - 1 \in 0..8
        BY <3>2
      <4>2. F[bit] = Shift(F[bit - 1])
        BY <2>1, <4>1, Zenon
      <4> QED
        BY <3>2, <4>2, Zenon
    <3> QED
      BY <3>1, <3>2
  <2> QED
    BY <2>1, <2>2, Zenon
<1>4. own = body(own)
  <2> HIDE DEF body
  <2> QED
    BY <1>3
<1>5. TableValue[low] = own[8]
  BY Zenon DEF TableValue
<1> HIDE DEF own
<1>6. own[0] = 256 * low /\ \A bit \in 1..8 : own[bit] = Shift(own[bit - 1])
  <2>1. own[0] = 256 * low
    BY <1>4, SMT
  <2>2. ASSUME NEW bit \in 1..8 PROVE own[bit] = Shift(own[bit - 1])
    <3>1. bit \in 0..8 /\ bit # 0
      OBVIOUS
    <3>2. body(own)[bit] = Shift(own[bit - 1])
      BY <3>1, Zenon
    <3> HIDE DEF body
    <3> QED
      BY <1>4, <3>2
  <2> QED
    BY <2>1, <2>2
<1>7. \A bit \in 0..8 : bit \in S
  <2>1. 0 \in S
    BY <1>1, <1>6
  <2>2. ASSUME NEW bit \in 0..(8 - 1), bit \in S PROVE bit + 1 \in S
    <3>1. bit + 1 \in 1..8 /\ bit + 1 \in 0..8 /\ (bit + 1) - 1 = bit
      OBVIOUS
    <3>2. own[bit + 1] = Shift(own[bit])
      BY <1>6, <3>1
    <3> QED
      BY <2>2, <3>1, <3>2, ShiftFacts
  <2> HIDE DEF S
  <2> QED
    BY <2>1, <2>2, UpTo
<1> QED
  BY <1>5, <1>7

LEMMA AbsorbFacts ==
  ASSUME NEW crc \in Word, NEW byte \in 0..255
  PROVE  /\ Absorb(crc, byte) \in Word
         /\ byte = crc % 256 => Absorb(crc, byte) = crc \div 256
<1>1. PICK low, high : low = crc % 256 /\ high = crc \div 256
  OBVIOUS
<1>2. low \in 0..255 /\ high \in Word
  <2>1. low \in 0..255 /\ high \in 0..255
    BY <1>1, HalvesFacts
  <2>2. high \in Nat /\ high <= 65535
    BY <2>1
  <2> QED
    BY <2>1, <2>2, WordFacts
<1>3. PICK index : index = xor8(low, byte)
  OBVIOUS
<1>4. index \in 0..255 /\ (byte = low => index = 0)
  BY <1>2, <1>3, Xor8Facts
<1>5. TableValue[index] \in Word /\ (index = 0 => TableValue[index] = 0)
  BY <1>4, TableFacts
<1>6. Absorb(crc, byte) = xor16(TableValue[index], high)
  BY <1>1, <1>3, Zenon DEF Absorb
<1>7. Absorb(crc, byte) \in Word
  BY <1>2, <1>5, <1>6, Xor16Facts
<1>8. ASSUME byte = crc % 256 PROVE Absorb(crc, byte) = high
  <2>1. TableValue[index] = 0
    BY <1>1, <1>4, <1>5, <1>8
  <2> QED
    BY <1>2, <1>5, <1>6, <2>1, Xor16Facts
<1> QED
  BY <1>1, <1>7, <1>8

-----------------------------------------------------------------------------
\* The loop of crc16(): crc has the checksum after each number of bytes.
Rounds(crc, data) ==
  /\ crc[0] = initial_crc
  /\ \A n \in 0..Len(data) : crc[n] \in Word
  /\ \A n \in 1..Len(data) : crc[n] = Absorb(crc[n - 1], data[n])

\* The recursive function exists, and its last value is the checksum.
LEMMA CrcIsLastRound ==
  ASSUME NEW data \in Seq(0..255)
  PROVE  \E crc : Rounds(crc, data) /\ crc16(data) = crc[Len(data)]
<1> DEFINE N == Len(data)
           body(f) == [offset \in 0..Len(data) |->
                         IF offset = 0 THEN initial_crc
                         ELSE Absorb(f[offset - 1], data[offset])]
           step == [n \in 1..N |-> [crc \in Word |-> Absorb(crc, data[n])]]
           own == CHOOSE f : f = body(f)
           S == {n \in 0..N : own[n] \in Word}
<1>1. N \in Nat /\ \A n \in 1..N : data[n] \in 0..255
  BY LenProperties, ElementOfSeq
<1>2. initial_crc \in Word
  <2>1. initial_crc \in Nat /\ initial_crc <= 65535
    BY SMT DEF initial_crc
  <2> QED
    BY <2>1, WordFacts
<1>3. PICK F : Follows(F, step, initial_crc, N, Word)
  <2>1. step \in [1..N -> [Word -> Word]]
    <3>1. \A n \in 1..N : \A crc \in Word : Absorb(crc, data[n]) \in Word
      BY <1>1, AbsorbFacts
    <3> QED
      BY <3>1, Zenon
  <2> HIDE DEF step, N
  <2> QED
    BY <1>1, <1>2, <2>1, RecursionExists
<1>4. F = body(F)
  <2>1. /\ F \in [0..N -> Word] /\ F[0] = initial_crc
        /\ \A n \in 1..N : F[n] = step[n][F[n - 1]]
    BY <1>3, Zenon DEF Follows
  <2>2. ASSUME NEW n \in 0..N PROVE F[n] = body(F)[n]
    <3>1. CASE n = 0
      BY <2>1, <3>1, Zenon
    <3>2. CASE n # 0
      <4>1. n \in 1..N /\ n - 1 \in 0..N
        BY <1>1, <3>2
      <4>2. F[n] = Absorb(F[n - 1], data[n])
        BY <2>1, <4>1, Zenon
      <4> QED
        BY <3>2, <4>2, Zenon
    <3> QED
      BY <3>1, <3>2
  <2> QED
    BY <2>1, <2>2, Zenon
<1>5. own = body(own)
  <2> HIDE DEF body
  <2> QED
    BY <1>4
<1>6. crc16(data) = own[N]
  BY Zenon DEF crc16
<1> HIDE DEF own
<1>7. /\ own[0] = initial_crc
      /\ \A n \in 1..N : own[n] = Absorb(own[n - 1], data[n])
  <2>1. own[0] = initial_crc
    <3>1. 0 \in 0..N
      BY <1>1
    <3>2. body(own)[0] = initial_crc
      BY <3>1, Zenon
    <3> HIDE DEF body
    <3> QED
      BY <1>5, <3>2
  <2>2. ASSUME NEW n \in 1..N PROVE own[n] = Absorb(own[n - 1], data[n])
    <3>1. n \in 0..N /\ n # 0
      BY <1>1
    <3>2. body(own)[n] = Absorb(own[n - 1], data[n])
      BY <3>1, Zenon
    <3> HIDE DEF body
    <3> QED
      BY <1>5, <3>2
  <2> QED
    BY <2>1, <2>2
<1>8. \A n \in 0..N : n \in S
  <2>1. 0 \in S
    BY <1>1, <1>2, <1>7
  <2>2. ASSUME NEW n \in 0..(N - 1), n \in S PROVE n + 1 \in S
    <3>1. n + 1 \in 1..N /\ n + 1 \in 0..N /\ (n + 1) - 1 = n
      BY <1>1
    <3>2. own[n + 1] = Absorb(own[n], data[n + 1]) /\ data[n + 1] \in 0..255
      BY <1>1, <1>7, <3>1
    <3>3. own[n] \in Word
      BY <2>2
    <3>4. own[n + 1] \in Word
      BY <3>2, <3>3, AbsorbFacts
    <3> QED
      BY <3>1, <3>4
  <2> HIDE DEF S, N
  <2> QED
    BY <1>1, <2>1, <2>2, UpTo
<1>9. Rounds(own, data)
  BY <1>7, <1>8 DEF Rounds
<1> QED
  BY <1>6, <1>9

\* What comes behind n bytes does not change their checksum.
LEMMA RoundsAgree ==
  ASSUME NEW data \in Seq(0..255), NEW more \in Seq(0..255),
         Len(data) <= Len(more),
         \A n \in 1..Len(data) : more[n] = data[n],
         NEW crc, Rounds(crc, data), NEW longer, Rounds(longer, more)
  PROVE  longer[Len(data)] = crc[Len(data)]
<1> DEFINE N == Len(data)
           S == {n \in 0..N : longer[n] = crc[n]}
<1>1. N \in Nat /\ Len(more) \in Nat
  BY LenProperties
<1>2. 0 \in S
  BY <1>1 DEF Rounds
<1>3. ASSUME NEW n \in 0..(N - 1), n \in S PROVE n + 1 \in S
  <2>1. /\ n + 1 \in 1..N /\ n + 1 \in 0..N /\ (n + 1) - 1 = n
        /\ n + 1 \in 1..Len(more)
    BY <1>1
  <2>2. /\ crc[n + 1] = Absorb(crc[n], data[n + 1])
        /\ longer[n + 1] = Absorb(longer[n], more[n + 1])
    BY <2>1 DEF Rounds
  <2> QED
    BY <1>3, <2>1, <2>2
<1>4. \A n \in 0..N : n \in S
  <2> HIDE DEF S, N
  <2> QED
    BY <1>1, <1>2, <1>3, UpTo
<1> QED
  BY <1>1, <1>4

\* What crc16() promises (test_transport.cpp l.247): the checksum is a number
\* of 16 bits, and the bytes with their checksum behind them have the
\* checksum 0, whatever the bytes are.
THEOREM ChecksumChecksItself ==
  ASSUME NEW data \in Seq(0..255), NEW crc, crc = crc16(data)
  PROVE  /\ crc \in Word
         /\ crc16(data \o <<crc % 256, crc \div 256>>) = 0
<1>1. PICK before : Rounds(before, data) /\ crc = before[Len(data)]
  BY CrcIsLastRound
<1>2. Len(data) \in Nat
  BY LenProperties
<1>3. crc \in Word
  BY <1>1, <1>2 DEF Rounds
<1>4. PICK low, high : low = crc % 256 /\ high = crc \div 256
  OBVIOUS
<1>5. low \in 0..255 /\ high \in 0..255
  BY <1>3, <1>4, HalvesFacts
<1>6. PICK whole : whole = data \o <<low, high>>
  OBVIOUS
<1>7. /\ whole \in Seq(0..255) /\ Len(whole) = Len(data) + 2
      /\ \A n \in 1..Len(data) : whole[n] = data[n]
      /\ whole[Len(data) + 1] = low /\ whole[Len(data) + 2] = high
  <2>1. <<low, high>> \in Seq(0..255) /\ Len(<<low, high>>) = 2
    BY <1>5
  <2>2. /\ whole \in Seq(0..255) /\ Len(whole) = Len(data) + 2
        /\ \A n \in 1..(Len(data) + 2) :
             whole[n] = IF n <= Len(data) THEN data[n]
                        ELSE <<low, high>>[n - Len(data)]
    BY <1>6, <2>1, ConcatProperties
  <2>3. /\ Len(data) + 1 \in 1..(Len(data) + 2) /\ (Len(data) + 1) - Len(data) = 1
        /\ Len(data) + 2 \in 1..(Len(data) + 2) /\ (Len(data) + 2) - Len(data) = 2
        /\ ~(Len(data) + 1 <= Len(data)) /\ ~(Len(data) + 2 <= Len(data))
    BY <1>2
  <2>4. whole[Len(data) + 1] = low /\ whole[Len(data) + 2] = high
    BY <2>2, <2>3
  <2>5. ASSUME NEW n \in 1..Len(data) PROVE whole[n] = data[n]
    <3>1. n \in 1..(Len(data) + 2) /\ n <= Len(data)
      BY <1>2
    <3> QED
      BY <2>2, <3>1
  <2> QED
    BY <2>2, <2>4, <2>5
<1>8. PICK after : Rounds(after, whole) /\ crc16(whole) = after[Len(whole)]
  BY <1>7, CrcIsLastRound
<1>9. after[Len(data)] = crc
  BY <1>1, <1>2, <1>7, <1>8, RoundsAgree
<1>10. /\ after[Len(data) + 1] = Absorb(crc, low)
       /\ after[Len(data) + 2] = Absorb(after[Len(data) + 1], high)
  <2>1. /\ Len(data) + 1 \in 1..Len(whole) /\ (Len(data) + 1) - 1 = Len(data)
        /\ Len(data) + 2 \in 1..Len(whole)
        /\ (Len(data) + 2) - 1 = Len(data) + 1
    BY <1>2, <1>7
  <2> QED
    BY <1>7, <1>8, <1>9, <2>1 DEF Rounds
<1>11. after[Len(data) + 1] = high
  BY <1>3, <1>4, <1>5, <1>10, AbsorbFacts
<1>12. after[Len(data) + 2] = 0
  <2>1. high \in Nat /\ high <= 65535
    BY <1>5
  <2>2. high % 256 = high /\ high \div 256 = 0
    BY <1>5, SMT
  <2> QED
    <3>1. high \in Word
      BY <2>1, WordFacts
    <3>2. Absorb(high, high) = high \div 256
      BY <1>5, <2>2, <3>1, AbsorbFacts
    <3> QED
      BY <1>10, <1>11, <2>2, <3>2
<1>13. crc16(whole) = 0
  BY <1>7, <1>8, <1>12
<1> QED
  BY <1>3, <1>4, <1>6, <1>13
=============================================================================
