---------------------------- MODULE StripProofs ----------------------------
(* Theorems about LedSegment, for strips of any length.                     *)
EXTENDS LedSegment, TLAPS

\* The bit index while ConvertNeoToSpi runs: three bits for every bit of colour
\* already done, of an LED that exists.
IndexInv ==
  pc = "encode" => led \in 0 .. N - 1 /\ bitNum = 72 * led + 3 * i

BoundsInv == TypeOK /\ IndexInv

\* An LED's 72 SPI bits are nine whole bytes; two bytes of padding follow.
LEMMA DataLenIs == DataLen = 9 * N + 2 /\ DataLen \in Nat
BY NAssumption, SMT DEF DataLen, ColorBitsPerPixel, SpiBitsPerPixel, PaddingBits

\* Setting a bit turns a buffer into a buffer.
LEMMA SetBitType ==
  ASSUME NEW buf \in Buffers, NEW n \in Nat
  PROVE  SetBit(buf, n) \in Buffers
<1>1. 7 - (n % 8) \in 0..7
  BY SMT
<1> QED
  BY <1>1 DEF SetBit, Buffers

\* The start of ConvertNeoToSpi, called by Refresh or by the destructor, sets the
\* index to the first bit of the first LED.
LEMMA BeginBounds ==
  ASSUME BoundsInv, NEW frame \in Frames, Begin(frame), alive' \in BOOLEAN
  PROVE  BoundsInv'
<1>1. spiBuf' \in Buffers
  BY DEF Begin, Buffers
<1> QED
  BY <1>1, NAssumption DEF BoundsInv, TypeOK, IndexInv, Begin, ColorBitsPerPixel

\* The types and the bit index, inductively over every step of Refresh.
LEMMA BoundsStep == BoundsInv /\ [Next]_vars => BoundsInv'
<1> SUFFICES ASSUME BoundsInv, [Next]_vars PROVE BoundsInv'
  OBVIOUS
<1> USE NAssumption
<1>1. CASE ConvertNeoToSpi
  <2>1. spiBuf' \in Buffers
    <3>1. spiBuf \in Buffers /\ bitNum \in Nat /\ bitNum + 1 \in Nat
      BY DEF BoundsInv, TypeOK
    <3>2. SetBit(spiBuf, bitNum) \in Buffers
      BY <3>1, SetBitType
    <3>3. SetBit(SetBit(spiBuf, bitNum), bitNum + 1) \in Buffers
      BY <3>1, <3>2, SetBitType
    <3> QED
      BY <1>1, <3>2, <3>3 DEF ConvertNeoToSpi
  <2>2. led \in 0 .. N - 1 /\ i \in 0..23 /\ bitNum = 72 * led + 3 * i
    BY <1>1 DEF BoundsInv, TypeOK, IndexInv, ConvertNeoToSpi, ColorBitsPerPixel
  <2>3. CASE i < 23
    <3>1. i' = i + 1 /\ led' = led /\ bitNum' = 72 * led' + 3 * i'
      BY <1>1, <2>2, <2>3 DEF ConvertNeoToSpi, ColorBitsPerPixel
    <3> QED
      BY <1>1, <2>1, <2>2, <2>3, <3>1
      DEF BoundsInv, TypeOK, IndexInv, ConvertNeoToSpi, ColorBitsPerPixel
  <2>4. CASE i = 23
    <3>1. i' = 0 /\ led' = led + 1 /\ bitNum' = 72 * led' + 3 * i'
      BY <1>1, <2>2, <2>4 DEF ConvertNeoToSpi, ColorBitsPerPixel
    <3> QED
      BY <1>1, <2>1, <2>2, <2>4, <3>1
      DEF BoundsInv, TypeOK, IndexInv, ConvertNeoToSpi, ColorBitsPerPixel
  <2> QED
    BY <2>2, <2>3, <2>4
<1>2. CASE Transfer
  BY <1>2 DEF BoundsInv, TypeOK, IndexInv, Transfer
<1>3. CASE Destroy
  <2>1. [l \in 0 .. N - 1 |-> Black] \in Frames
    BY ColoursAssumption DEF Frames
  <2> QED
    BY <1>3, <2>1, BeginBounds DEF Destroy
<1>4. ASSUME NEW frame \in Frames, Refresh(frame) PROVE BoundsInv'
  BY <1>4, BeginBounds DEF Refresh, BoundsInv, TypeOK
<1>5. CASE UNCHANGED vars
  BY <1>5 DEF BoundsInv, TypeOK, IndexInv, vars
<1> QED
  BY <1>1, <1>2, <1>3, <1>4, <1>5 DEF Next

LEMMA BoundsInit == Init => BoundsInv
<1> SUFFICES ASSUME Init PROVE BoundsInv
  OBVIOUS
<1>1. spiBuf \in Buffers
  BY DEF Init, Buffers
<1> QED
  BY <1>1, NAssumption DEF Init, BoundsInv, TypeOK, IndexInv, ColorBitsPerPixel

\* The driver is well typed: the LED, the bit of colour and the buffer it works on
\* exist, in every step of ConvertNeoToSpi.
THEOREM TypeCorrect == Spec => []TypeOK
<1>1. BoundsInv => TypeOK
  BY DEF BoundsInv
<1> QED
  BY <1>1, BoundsInit, BoundsStep, PTL DEF Spec

\* For every length of strip, ConvertNeoToSpi writes neither behind _spiBuf nor
\* into the padding at its end.
THEOREM StaysInBuffer == Spec => []WritesInBounds
<1>1. BoundsInv => WritesInBounds
  <2> SUFFICES ASSUME BoundsInv, pc = "encode"
               PROVE  (bitNum + 2) \div 8 < DataLen - PaddingBits \div 8
    BY DEF WritesInBounds
  <2>1. led \in 0 .. N - 1 /\ i \in 0..23 /\ bitNum = 72 * led + 3 * i
    BY DEF BoundsInv, TypeOK, IndexInv, ColorBitsPerPixel
  <2>2. bitNum + 2 \in Nat /\ bitNum + 2 < 8 * (9 * N)
    BY <2>1, NAssumption
  <2>3. (bitNum + 2) \div 8 < 9 * N
    BY <2>2, NAssumption
  <2> QED
    BY <2>3, DataLenIs, NAssumption DEF PaddingBits
<1> QED
  BY <1>1, BoundsInit, BoundsStep, PTL DEF Spec

-----------------------------------------------------------------------------
(* What the strip is sent.                                                  *)

\* Bit n of a buffer, in the order in which it is sent.
Bit(buf, n) == 7 - (n % 8) \in buf[n \div 8]

\* The bit of colour that belongs to the SPI bits 3 * q to 3 * q + 2.
ColourBit(q) == BitOf(FullColorBits(data[q \div 24]), 23 - (q % 24))

\* The stream for the frame: a one, the bit of colour and a zero, over and over.
Expected(n) == n % 3 = 0 \/ (n % 3 = 1 /\ ColourBit(n \div 3) = 1)

\* The buffer holds the stream up to the index and zeros from there on; what was
\* sent last holds the whole stream.
StreamInv ==
  /\ pc = "transfer" => bitNum = 72 * N
  /\ pc \in {"encode", "transfer"} =>
       \A n \in 0 .. 8 * DataLen - 1 : Bit(spiBuf, n) <=> n < bitNum /\ Expected(n)
  /\ pc = "idle" /\ sent # <<>> =>
       \A n \in 0 .. 8 * DataLen - 1 : Bit(sent, n) <=> n < 72 * N /\ Expected(n)

FrameInv == BoundsInv /\ StreamInv

\* SetBit sets that bit and no other.
LEMMA SetsOneBit ==
  ASSUME NEW buf \in Buffers, NEW n \in 0 .. 8 * DataLen - 1, NEW m \in 0 .. 8 * DataLen - 1
  PROVE  Bit(SetBit(buf, n), m) <=> Bit(buf, m) \/ m = n
<1>1. /\ n \div 8 \in 0 .. DataLen - 1 /\ m \div 8 \in 0 .. DataLen - 1
      /\ n = 8 * (n \div 8) + (n % 8) /\ m = 8 * (m \div 8) + (m % 8)
      /\ n % 8 \in 0..7 /\ m % 8 \in 0..7
  BY DataLenIs
<1>2. CASE m \div 8 # n \div 8
  BY <1>1, <1>2 DEF Bit, SetBit, Buffers
<1>3. CASE m \div 8 = n \div 8
  <2>1. SetBit(buf, n)[m \div 8] = buf[m \div 8] \cup {7 - (n % 8)}
    BY <1>1, <1>3 DEF SetBit, Buffers
  <2>2. m = n <=> 7 - (m % 8) = 7 - (n % 8)
    BY <1>1, <1>3
  <2> QED BY <2>1, <2>2 DEF Bit
<1> QED BY <1>2, <1>3

\* Where the index stands, the bit of colour at hand is the one to be sent.
Index(l, j) == 72 * l + 3 * j
LEMMA ExpectedAtIndex ==
  ASSUME NEW l \in Nat, NEW j \in 0..23
  PROVE  /\ Expected(Index(l, j))
         /\ Expected(Index(l, j) + 1) <=> BitOf(FullColorBits(data[l]), 23 - j) = 1
         /\ ~Expected(Index(l, j) + 2)
<1> DEFINE q == 24 * l + j
<1>1. q \in Nat /\ q \div 24 = l /\ q % 24 = j /\ Index(l, j) = 3 * q
  BY DEF Index
<1> HIDE DEF q
<1>2. /\ (3 * q) % 3 = 0 /\ (3 * q + 1) % 3 = 1 /\ (3 * q + 2) % 3 = 2 /\ (3 * q + 1) \div 3 = q
  BY <1>1
<1>3. ColourBit(q) = BitOf(FullColorBits(data[l]), 23 - j)
  BY <1>1 DEF ColourBit
<1> HIDE DEF ColourBit
<1> QED BY <1>1, <1>2, <1>3 DEF Expected

\* One step of ConvertNeoToSpi takes the stream three bits further.
LEMMA ConvertStream ==
  ASSUME FrameInv, BoundsInv', ConvertNeoToSpi
  PROVE  StreamInv'
<1> USE NAssumption
<1>1. led \in 0 .. N - 1 /\ i \in 0..23 /\ bitNum = 72 * led + 3 * i /\ spiBuf \in Buffers
  BY DEF FrameInv, BoundsInv, TypeOK, IndexInv, ConvertNeoToSpi, ColorBitsPerPixel
<1>2. /\ pc = "encode" /\ bitNum' = bitNum + 3 /\ data' = data
      /\ pc' = IF led' = N THEN "transfer" ELSE "encode"
      /\ spiBuf' = IF BitOf(FullColorBits(data[led]), 23 - i) = 1
                   THEN SetBit(SetBit(spiBuf, bitNum), bitNum + 1)
                   ELSE SetBit(spiBuf, bitNum)
  BY DEF ConvertNeoToSpi
<1>3. /\ bitNum \in 0 .. 8 * DataLen - 1 /\ bitNum + 1 \in 0 .. 8 * DataLen - 1
      /\ DataLen \in Nat
  BY <1>1, DataLenIs
<1>4. pc' = "transfer" => bitNum' = 72 * N
  <2>1. led' = IF i = 23 THEN led + 1 ELSE led
    BY DEF ConvertNeoToSpi, ColorBitsPerPixel
  <2> QED BY <1>1, <1>2, <2>1
<1>5. ASSUME NEW n \in 0 .. 8 * DataLen - 1
      PROVE  Bit(spiBuf', n) <=> n < bitNum + 3 /\ Expected(n)
  <2>1. Bit(spiBuf, n) <=> n < bitNum /\ Expected(n)
    BY <1>2 DEF FrameInv, StreamInv
  <2>2. Bit(spiBuf', n) <=> \/ Bit(spiBuf, n) \/ n = bitNum
                            \/ n = bitNum + 1 /\ BitOf(FullColorBits(data[led]), 23 - i) = 1
    <3>1. Bit(SetBit(spiBuf, bitNum), n) <=> Bit(spiBuf, n) \/ n = bitNum
      BY <1>1, <1>3, SetsOneBit
    <3>2. SetBit(spiBuf, bitNum) \in Buffers
      BY <1>1, <1>3, SetBitType
    <3>3. Bit(SetBit(SetBit(spiBuf, bitNum), bitNum + 1), n)
            <=> Bit(SetBit(spiBuf, bitNum), n) \/ n = bitNum + 1
      BY <1>3, <3>2, SetsOneBit
    <3> HIDE DEF Bit, SetBit
    <3> QED BY <1>2, <3>1, <3>3
  <2>3. /\ Expected(bitNum) /\ ~Expected(bitNum + 2)
        /\ Expected(bitNum + 1) <=> BitOf(FullColorBits(data[led]), 23 - i) = 1
    <3>1. led \in Nat /\ bitNum = Index(led, i)
      BY <1>1 DEF Index
    <3> HIDE DEF Expected
    <3> QED BY <1>1, <3>1, ExpectedAtIndex
  <2>4. n < bitNum + 3 <=> n < bitNum \/ n = bitNum \/ n = bitNum + 1 \/ n = bitNum + 2
    BY <1>3
  <2>5. n < bitNum => n # bitNum /\ n # bitNum + 1 /\ n # bitNum + 2
    BY <1>3
  <2> HIDE DEF Bit, Expected
  <2> QED BY <2>1, <2>2, <2>3, <2>4, <2>5
<1>6. \A n : Expected(n)' = Expected(n)
  BY <1>2 DEF Expected, ColourBit
<1>7. \A n \in 0 .. 8 * DataLen - 1 : Bit(spiBuf', n) <=> n < bitNum' /\ Expected(n)'
  BY <1>2, <1>5, <1>6
<1>8. pc' # "idle"
  BY <1>2
<1> HIDE DEF Bit, Expected
<1> QED BY <1>4, <1>7, <1>8 DEF StreamInv, Bit

\* A fresh buffer is all zeros, so whatever the last frame left is gone.
LEMMA BeginStream ==
  ASSUME NEW frame, Begin(frame)
  PROVE  StreamInv'
<1>1. pc' = "encode" /\ bitNum' = 0 /\ spiBuf' = [n \in 0 .. DataLen - 1 |-> {}]
  BY DEF Begin
<1>2. ASSUME NEW n \in 0 .. 8 * DataLen - 1 PROVE ~Bit(spiBuf', n) /\ ~(n < bitNum')
  <2>1. n \div 8 \in 0 .. DataLen - 1 /\ ~(n < 0)
    BY DataLenIs
  <2> QED BY <1>1, <2>1 DEF Bit
<1> QED BY <1>1, <1>2 DEF StreamInv, Bit

\* The stream, inductively over every step of Refresh.
LEMMA FrameStep == FrameInv /\ [Next]_vars => FrameInv'
<1> SUFFICES ASSUME FrameInv, [Next]_vars PROVE StreamInv'
  BY BoundsStep DEF FrameInv
<1>1. CASE ConvertNeoToSpi
  BY <1>1, BoundsStep, ConvertStream DEF FrameInv
<1>2. CASE Transfer
  <2>1. /\ pc = "transfer" /\ sent' = spiBuf /\ pc' = "idle" /\ data' = data /\ bitNum = 72 * N
    BY <1>2 DEF Transfer, FrameInv, StreamInv
  <2>2. \A n : Expected(n)' = Expected(n)
    BY <2>1 DEF Expected, ColourBit
  <2> HIDE DEF Expected
  <2> QED BY <2>1, <2>2 DEF FrameInv, StreamInv, Bit
<1>3. CASE Destroy
  BY <1>3, BeginStream DEF Destroy
<1>4. ASSUME NEW frame \in Frames, Refresh(frame) PROVE StreamInv'
  BY <1>4, BeginStream DEF Refresh
<1>5. CASE UNCHANGED vars
  BY <1>5 DEF FrameInv, StreamInv, Bit, Expected, ColourBit, vars
<1> QED BY <1>1, <1>2, <1>3, <1>4, <1>5 DEF Next

\* The invariant holds throughout.
LEMMA FrameInvariant == Spec => []FrameInv
<1>1. Init => FrameInv
  BY BoundsInit DEF Init, FrameInv, StreamInv
<1> QED BY <1>1, FrameStep, PTL DEF Spec

\* A bit of a byte is a zero or a one.
LEMMA BitOfByte ==
  ASSUME NEW v \in 0..255, NEW j \in 0..7
  PROVE  BitOf(v, j) \in {0, 1}
<1>1. /\ BitOf(v, 0) \in {0, 1} /\ BitOf(v, 1) \in {0, 1} /\ BitOf(v, 2) \in {0, 1}
      /\ BitOf(v, 3) \in {0, 1} /\ BitOf(v, 4) \in {0, 1} /\ BitOf(v, 5) \in {0, 1}
      /\ BitOf(v, 6) \in {0, 1} /\ BitOf(v, 7) \in {0, 1}
  BY SMT DEF BitOf
<1>2. j \in {0, 1, 2, 3, 4, 5, 6, 7}
  OBVIOUS
<1> QED BY <1>1, <1>2

\* Bytes in front do not change the bits of the last.
LowByte(w) == w % 256
LEMMA LastByte ==
  ASSUME NEW w \in Nat, NEW j \in 0..7
  PROVE  BitOf(w, j) = BitOf(LowByte(w), j)
<1> DEFINE v == LowByte(w)
<1>0. PICK h \in Nat : v \in 0..255 /\ w = 256 * h + v
  BY SMT DEF LowByte
<1> HIDE DEF v
<1>1. BitOf(w, 0) = BitOf(v, 0) /\ BitOf(w, 1) = BitOf(v, 1)
  BY <1>0, SMT DEF BitOf
<1>2. BitOf(w, 2) = BitOf(v, 2) /\ BitOf(w, 3) = BitOf(v, 3)
  BY <1>0, SMT DEF BitOf
<1>3. BitOf(w, 4) = BitOf(v, 4) /\ BitOf(w, 5) = BitOf(v, 5)
  BY <1>0, SMT DEF BitOf
<1>4. BitOf(w, 6) = BitOf(v, 6) /\ BitOf(w, 7) = BitOf(v, 7)
  BY <1>0, SMT DEF BitOf
<1>5. j \in {0, 1, 2, 3, 4, 5, 6, 7}
  OBVIOUS
<1>6. BitOf(w, j) = BitOf(v, j)
  BY <1>1, <1>2, <1>3, <1>4, <1>5
<1> QED BY <1>6 DEF v

\* The bits of what stands in front of the last byte.
LEMMA WithoutLastByte ==
  ASSUME NEW w \in Nat, NEW h \in Nat, h = w \div 256, NEW j \in 0..15
  PROVE  BitOf(w, j + 8) = BitOf(h, j)
<1>1. /\ w \div 256 = h \div 1 /\ w \div 512 = h \div 2
      /\ w \div 1024 = h \div 4 /\ w \div 2048 = h \div 8
  BY SMT
<1>2. /\ w \div 4096 = h \div 16 /\ w \div 8192 = h \div 32
      /\ w \div 16384 = h \div 64 /\ w \div 32768 = h \div 128
  BY SMT
<1>3. /\ w \div 65536 = h \div 256 /\ w \div 131072 = h \div 512
      /\ w \div 262144 = h \div 1024 /\ w \div 524288 = h \div 2048
  BY SMT
<1>4. /\ w \div 1048576 = h \div 4096 /\ w \div 2097152 = h \div 8192
      /\ w \div 4194304 = h \div 16384 /\ w \div 8388608 = h \div 32768
  BY SMT
<1>5. /\ BitOf(w, 8) = BitOf(h, 0) /\ BitOf(w, 9) = BitOf(h, 1)
      /\ BitOf(w, 10) = BitOf(h, 2) /\ BitOf(w, 11) = BitOf(h, 3)
  BY <1>1, SMT DEF BitOf
<1>6. /\ BitOf(w, 12) = BitOf(h, 4) /\ BitOf(w, 13) = BitOf(h, 5)
      /\ BitOf(w, 14) = BitOf(h, 6) /\ BitOf(w, 15) = BitOf(h, 7)
  BY <1>2, SMT DEF BitOf
<1>7. /\ BitOf(w, 16) = BitOf(h, 8) /\ BitOf(w, 17) = BitOf(h, 9)
      /\ BitOf(w, 18) = BitOf(h, 10) /\ BitOf(w, 19) = BitOf(h, 11)
  BY <1>3, SMT DEF BitOf
<1>8. /\ BitOf(w, 20) = BitOf(h, 12) /\ BitOf(w, 21) = BitOf(h, 13)
      /\ BitOf(w, 22) = BitOf(h, 14) /\ BitOf(w, 23) = BitOf(h, 15)
  BY <1>4, SMT DEF BitOf
<1>9. CASE j \in 0..7
  <2>1. j \in {0, 1, 2, 3, 4, 5, 6, 7}
    BY <1>9
  <2> QED BY <1>5, <1>6, <2>1
<1>10. CASE j \in 8..15
  <2>1. j \in {8, 9, 10, 11, 12, 13, 14, 15}
    BY <1>10
  <2> QED BY <1>7, <1>8, <2>1
<1> QED BY <1>9, <1>10

\* Three bytes in a row.
LEMMA ThreeBytes ==
  ASSUME NEW r \in 0..255, NEW g \in 0..255, NEW b \in 0..255
  PROVE  /\ g * 65536 + r * 256 + b = 256 * (256 * g + r) + b
         /\ 256 * g + r \in Nat /\ g \in Nat
BY SMT

\* Bit k of fullColorBits, from the top, is one of green's, red's or blue's.
LEMMA ChannelBit ==
  ASSUME NEW c \in [r : 0..255, g : 0..255, b : 0..255], NEW k \in 0..23
  PROVE  BitOf(FullColorBits(c), 23 - k) = BitOf(Channel(c, k), 7 - (k % 8))
<1>1. PICK r \in 0..255, g \in 0..255, b \in 0..255 : c.r = r /\ c.g = g /\ c.b = b
  OBVIOUS
<1> DEFINE h == 256 * g + r
<1>2. h \in Nat /\ g \in Nat
  BY ThreeBytes, SMT
<1>3. FullColorBits(c) = 256 * h + b
  BY <1>1, ThreeBytes, SMT DEF FullColorBits
<1> HIDE DEF h, BitOf
<1>4. \A j \in 0..15 : BitOf(256 * h + b, j + 8) = BitOf(h, j)
  <2>1. PICK w \in Nat : w = 256 * h + b
    BY <1>2
  <2>2. h = w \div 256
    BY <1>2, <2>1
  <2>3. \A j \in 0..15 : BitOf(w, j + 8) = BitOf(h, j)
    BY <1>2, <2>2, WithoutLastByte
  <2> QED BY <2>1, <2>3
<1>5. \A j \in 0..15 : BitOf(h, j + 8) = BitOf(g, j)
  <2>1. g = h \div 256
    BY DEF h
  <2> QED BY <1>2, <2>1, WithoutLastByte
<1>6. \A j \in 0..7 : BitOf(256 * h + b, j) = BitOf(b, j)
  <2>1. PICK w \in Nat : w = 256 * h + b
    BY <1>2
  <2>2. b = LowByte(w)
    BY <1>2, <2>1 DEF LowByte
  <2>3. \A j \in 0..7 : BitOf(w, j) = BitOf(b, j)
    BY <2>2, LastByte
  <2> QED BY <2>1, <2>3
<1>7. \A j \in 0..7 : BitOf(h, j) = BitOf(r, j)
  <2>1. r = LowByte(h)
    BY DEF h, LowByte
  <2> QED BY <1>2, <2>1, LastByte
<1>8. CASE k \in 0..7
  <2>1. PICK j \in 0..7 : j = 7 - k
    BY <1>8
  <2>2. j + 8 \in 0..15 /\ j \in 0..15 /\ 23 - k = (j + 8) + 8 /\ 7 - (k % 8) = j
    BY <1>8, <2>1
  <2>3. BitOf(256 * h + b, (j + 8) + 8) = BitOf(h, j + 8) /\ BitOf(h, j + 8) = BitOf(g, j)
    <3>1. ASSUME NEW n \in 0..15 PROVE BitOf(256 * h + b, n + 8) = BitOf(h, n)
      BY <1>4
    <3> QED BY <1>5, <2>2, <3>1
  <2>4. Channel(c, k) = g
    BY <1>1, <1>8 DEF Channel
  <2> QED BY <1>3, <2>2, <2>3, <2>4
<1>9. CASE k \in 8..15
  <2>1. PICK j \in 0..7 : j = 15 - k
    BY <1>9
  <2>2. j \in 0..15 /\ 23 - k = j + 8 /\ 7 - (k % 8) = j
    BY <1>9, <2>1
  <2>3. BitOf(256 * h + b, j + 8) = BitOf(h, j) /\ BitOf(h, j) = BitOf(r, j)
    BY <1>4, <1>7, <2>2
  <2>4. Channel(c, k) = r
    BY <1>1, <1>9 DEF Channel
  <2> QED BY <1>3, <2>2, <2>3, <2>4
<1>10. CASE k \in 16..23
  <2>1. PICK j \in 0..7 : j = 23 - k
    BY <1>10
  <2>2. 7 - (k % 8) = j
    BY <1>10, <2>1
  <2>3. Channel(c, k) = b
    BY <1>1, <1>10 DEF Channel
  <2> QED BY <1>3, <1>6, <2>1, <2>2, <2>3
<1> QED BY <1>8, <1>9, <1>10

\* For strips of any length and colours of every value: after each Refresh, and after
\* the destructor's, the strip was sent exactly its frame and then nothing but zeros,
\* whatever _spiBuf held before.
THEOREM StripShowsFrame == Spec => []StripSeesFrame
<1>1. FrameInv => StripSeesFrame
  <2> SUFFICES ASSUME FrameInv, pc = "idle", sent # <<>> PROVE StripSeesFrame
    BY DEF StripSeesFrame
  <2> USE NAssumption
  <2>1. \A n \in 0 .. 8 * DataLen - 1 : Bit(sent, n) <=> n < 72 * N /\ Expected(n)
    BY DEF FrameInv, StreamInv
  <2>2. data \in Frames /\ sent \in Buffers
    BY DEF FrameInv, BoundsInv, TypeOK
  <2> HIDE DEF Expected
  <2>3. ASSUME NEW l \in 0 .. N - 1, NEW k \in 0..23
        PROVE  Symbol(l * 24 + k) = <<1, BitOf(Channel(data[l], k), 7 - (k % 8)), 0>>
    <3> DEFINE n == Index(l, k)
    <3>1. 3 * (l * 24 + k) = n
      BY DEF Index
    <3>2. /\ n < 72 * N /\ n + 1 < 72 * N /\ n + 2 < 72 * N /\ n \in 0 .. 8 * DataLen - 1
          /\ n + 1 \in 0 .. 8 * DataLen - 1 /\ n + 2 \in 0 .. 8 * DataLen - 1
      BY DataLenIs DEF Index
    <3>3. l \in Nat /\ data[l] \in [r : 0..255, g : 0..255, b : 0..255]
      BY <2>2, ColoursAssumption DEF Frames
    <3>4. /\ Expected(n) /\ ~Expected(n + 2)
          /\ Expected(n + 1) <=> BitOf(FullColorBits(data[l]), 23 - k) = 1
      BY <3>3, ExpectedAtIndex
    <3> HIDE DEF n
    <3>5. Bit(sent, n) /\ ~Bit(sent, n + 2) /\ (Bit(sent, n + 1) <=> Expected(n + 1))
      BY <2>1, <3>2, <3>4
    <3>6. BitOf(Channel(data[l], k), 7 - (k % 8)) \in {0, 1}
      <4>1. Channel(data[l], k) \in 0..255 /\ 7 - (k % 8) \in 0..7
        <5>1. data[l].r \in 0..255 /\ data[l].g \in 0..255 /\ data[l].b \in 0..255
          BY <3>3
        <5>2. Channel(data[l], k) \in {data[l].r, data[l].g, data[l].b}
          BY DEF Channel
        <5>3. 7 - (k % 8) \in 0..7
          OBVIOUS
        <5> QED BY <5>1, <5>2, <5>3
      <4> QED BY <4>1, BitOfByte
    <3>7. BitOf(FullColorBits(data[l]), 23 - k) = BitOf(Channel(data[l], k), 7 - (k % 8))
      BY <3>3, ChannelBit
    <3> HIDE DEF BitOf
    <3>8. Wire(n) = 1 /\ Wire(n + 2) = 0
      BY <3>5 DEF Wire, Bit
    <3>9. Wire(n + 1) = IF Bit(sent, n + 1) THEN 1 ELSE 0
      BY DEF Wire, Bit
    <3>10. Wire(n + 1) = BitOf(Channel(data[l], k), 7 - (k % 8))
      BY <3>4, <3>5, <3>6, <3>7, <3>9
    <3> HIDE DEF Wire
    <3> QED BY <3>1, <3>8, <3>10 DEF Symbol
  <2>4. ASSUME NEW m \in DataLen - 2 .. DataLen - 1 PROVE sent[m] = {}
    <3>1. m \in 0 .. DataLen - 1 /\ m >= 9 * N /\ m \in Nat
      BY DataLenIs
    <3>2. sent[m] \subseteq 0..7
      BY <2>2, <3>1 DEF Buffers
    <3>3. ASSUME NEW x \in 0..7 PROVE x \notin sent[m]
      <4> DEFINE n == 8 * m + (7 - x)
      <4>1. /\ n \in 0 .. 8 * DataLen - 1 /\ ~(n < 72 * N)
            /\ n \div 8 = m /\ 7 - (n % 8) = x
        BY <3>1, DataLenIs
      <4> HIDE DEF n
      <4>2. ~Bit(sent, n)
        BY <2>1, <4>1
      <4> QED BY <4>1, <4>2 DEF Bit
    <3> QED BY <3>2, <3>3
  <2>5. PaddingBits \div 8 = 2 /\ ColorBitsPerPixel = 24 /\ 24 - 1 = 23
    BY DEF PaddingBits, ColorBitsPerPixel
  <2> HIDE DEF Symbol, BitOf, Channel
  <2> QED BY <2>3, <2>4, <2>5 DEF StripSeesFrame
<1> QED BY <1>1, FrameInvariant, PTL
=============================================================================
