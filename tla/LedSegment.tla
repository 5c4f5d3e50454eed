----------------------------- MODULE LedSegment -----------------------------
(***************************************************************************)
(* The LED strip driver (src/LedSegment.h): Refresh turns the colours of N *)
(* LEDs into a stream of SPI bits, three for every bit of colour, and      *)
(* sends it.  The buffer is a member and used again for every frame.       *)
(* A byte is the set of the positions of its ones, 7 for the highest bit.  *)
(***************************************************************************)
EXTENDS Integers

CONSTANTS
  N,         \* LEDs on the strip
  Colours    \* the ColorTriplets that animations use

ASSUME NAssumption == N \in Nat \ {0}

Black == [r |-> 0, g |-> 0, b |-> 0]     \* ColorTriplet's default

ASSUME ColoursAssumption ==
  Black \in Colours /\ Colours \subseteq [r : 0..255, g : 0..255, b : 0..255]

SpiBitsPerPixel   == 3
ColorBitsPerPixel == 24
PaddingBits       == 16

\* Mutant: the three SPI bits per bit of colour are forgotten.
DataLenOfColours == (N * ColorBitsPerPixel) \div 8 + PaddingBits \div 8

DataLen == (N * ColorBitsPerPixel * SpiBitsPerPixel) \div 8 + PaddingBits \div 8

VARIABLES
  alive,    \* the object's destructor has not begun
  pc,       \* "idle", "encode" (ConvertNeoToSpi) or "transfer"
  data,     \* the frame being refreshed
  led, i,   \* the two loops of ConvertNeoToSpi
  bitNum,
  spiBuf,   \* _spiBuf
  sent      \* what the last transfer put on the wire; <<>> before the first

vars == <<alive, pc, data, led, i, bitNum, spiBuf, sent>>

Frames == [0 .. N - 1 -> Colours]
Buffers == [0 .. DataLen - 1 -> SUBSET (0..7)]

TypeOK ==
  /\ alive \in BOOLEAN
  /\ pc \in {"idle", "encode", "transfer"}
  /\ data \in Frames
  /\ led \in 0 .. N
  /\ i \in 0 .. ColorBitsPerPixel - 1
  /\ bitNum \in Nat
  /\ spiBuf \in Buffers
  /\ sent \in Buffers \cup {<<>>}

\* The constructor leaves the buffer as it finds the memory.
Init ==
  /\ alive = TRUE
  /\ pc = "idle"
  /\ data \in Frames
  /\ led = 0 /\ i = 0 /\ bitNum = 0
  /\ \E byte \in SUBSET (0..7) : spiBuf = [n \in 0 .. DataLen - 1 |-> byte]
  /\ sent = <<>>

\* Mutant: the buffer is not cleared first.
BeginNoFill(frame) ==
  /\ pc = "idle"
  /\ data' = frame
  /\ led' = 0 /\ i' = 0 /\ bitNum' = 0
  /\ pc' = "encode"
  /\ UNCHANGED <<spiBuf, sent>>

\* The start of ConvertNeoToSpi: the buffer is filled with zeros.
Begin(frame) ==
  /\ pc = "idle"
  /\ data' = frame
  /\ spiBuf' = [n \in 0 .. DataLen - 1 |-> {}]
  /\ led' = 0 /\ i' = 0 /\ bitNum' = 0
  /\ pc' = "encode"
  /\ UNCHANGED sent

Refresh(frame) == alive /\ Begin(frame) /\ UNCHANGED alive

\* The destructor refreshes the strip once more, with black.
Destroy == alive /\ Begin([l \in 0 .. N - 1 |-> Black]) /\ alive' = FALSE

FullColorBits(c) == c.g * 65536 + c.r * 256 + c.b
BitOf(v, k) == (v \div 2^k) % 2

\* _spiBuf[n / 8] |= 1 << (7 - n % 8)
SetBit(buf, n) == [buf EXCEPT ![n \div 8] = @ \cup {7 - (n % 8)}]

\* Mutant: the inner loop runs once too often ("i <= 24").
ConvertOneTooMany ==
  /\ pc = "encode"
  /\ spiBuf' = IF BitOf(FullColorBits(data[led]), 23 - i) = 1
               THEN SetBit(SetBit(spiBuf, bitNum), bitNum + 1)
               ELSE SetBit(spiBuf, bitNum)
  /\ bitNum' = bitNum + 3
  /\ i' = (i + 1) % (ColorBitsPerPixel + 1)
  /\ led' = IF i = ColorBitsPerPixel THEN led + 1 ELSE led
  /\ pc' = IF led' = N THEN "transfer" ELSE "encode"
  /\ UNCHANGED <<alive, data, sent>>

\* One bit of colour: 1 becomes 110 and 0 becomes 100.
ConvertNeoToSpi ==
  /\ pc = "encode"
  /\ spiBuf' = IF BitOf(FullColorBits(data[led]), 23 - i) = 1
               THEN SetBit(SetBit(spiBuf, bitNum), bitNum + 1)
               ELSE SetBit(spiBuf, bitNum)
  /\ bitNum' = bitNum + 3
  /\ i' = (i + 1) % ColorBitsPerPixel
  /\ led' = IF i = ColorBitsPerPixel - 1 THEN led + 1 ELSE led
  /\ pc' = IF led' = N THEN "transfer" ELSE "encode"
  /\ UNCHANGED <<alive, data, sent>>

\* _spi.transfer, and Refresh returns.
Transfer ==
  /\ pc = "transfer"
  /\ sent' = spiBuf
  /\ pc' = "idle"
  /\ UNCHANGED <<alive, data, led, i, bitNum, spiBuf>>

Next == ConvertNeoToSpi \/ Transfer \/ Destroy \/ \E frame \in Frames : Refresh(frame)

Spec == Init /\ [][Next]_vars

-----------------------------------------------------------------------------
(* Properties.                                                              *)

\* The three bits that ConvertNeoToSpi writes next lie in front of the padding,
\* so no write leaves _spiBuf and none disturbs the reset at the end of a frame.
WritesInBounds ==
  pc = "encode" => (bitNum + 2) \div 8 < DataLen - PaddingBits \div 8

\* What a WS2812 wants to see for one bit of colour: green, red, blue, highest
\* bit first.
Channel(c, k) == CASE k \in 0..7 -> c.g [] k \in 8..15 -> c.r [] OTHER -> c.b
Wire(n) == IF 7 - (n % 8) \in sent[n \div 8] THEN 1 ELSE 0
Symbol(n) == <<Wire(3 * n), Wire(3 * n + 1), Wire(3 * n + 2)>>

\* After every Refresh, the destructor's too, the strip has been sent exactly its
\* frame, whatever was in the buffer before, and then nothing but zeros.
StripSeesFrame ==
  pc = "idle" /\ sent # <<>> =>
    /\ \A l \in 0 .. N - 1, k \in 0 .. ColorBitsPerPixel - 1 :
         Symbol(l * ColorBitsPerPixel + k) =
           <<1, BitOf(Channel(data[l], k), 7 - (k % 8)), 0>>
    /\ \A n \in DataLen - PaddingBits \div 8 .. DataLen - 1 : sent[n] = {}
=============================================================================
