-------------------------- MODULE LargeDigitDriver --------------------------
(***************************************************************************)
(* The digits driven by the controller itself: UpdateSegments clocks the   *)
(* glyphs of three characters into a chain of three shift registers, one   *)
(* write of a pin after the other, and raises the latch at the end.  Left  *)
(* out is ThreadProc: no code starts it.  The program may be stopped       *)
(* between any two writes; pins and registers keep what they hold.         *)
(***************************************************************************)
EXTENDS Integers, TLAPS

CONSTANT Texts     \* the first three characters of a SegmentLedState

VARIABLES
  pc,                  \* "down", "idle", or the pin that UpdateLeds writes next
  text, n,             \* the state it was given; the bits it has clocked out
  latch, clock, data,  \* the pins
  register, outputs,   \* the 24 bits of the registers, oldest first; what is lit
  shown                \* history: the text of the last whole update

vars == <<pc, text, n, latch, clock, data, register, outputs, shown>>

characterArray == <<
  126, 48, 109, 121, 51, 91, 95, 112, 127, 123, 119, 31, 78, 61, 79, 71,
  0, 0, 0, 0, 0, 0, 0, 0, 0, 0, 0, 0, 0, 0, 0, 0,
  0, 0, 34, 0, 0, 0, 0, 32, 78, 120, 0, 0, 4, 1, 0, 0,
  126, 48, 109, 121, 51, 91, 95, 112, 127, 123, 0, 0, 0, 0, 0, 0,
  0, 119, 31, 78, 61, 79, 71, 94, 55, 48, 56, 0, 14, 0, 21, 126,
  103, 115, 5, 91, 15, 62, 0, 0, 0, 59, 0, 78, 0, 120, 0, 8,
  2, 119, 31, 13, 61, 111, 71, 94, 23, 16, 56, 0, 48, 0, 21, 29,
  103, 115, 5, 91, 15, 28, 0, 0, 0, 0, 0, 0, 0, 0, 0, 0 >>

GetSegmentDigits(digit) == IF digit < 128 THEN characterArray[digit + 1] ELSE 0

\* (seg >> (7 - x)) & 0x01
SegBit(char, x) == (GetSegmentDigits(char) \div 2^(7 - x)) % 2

None == <<>>

Init ==
  /\ pc = "down" /\ text = None /\ shown = None /\ n = 0
  /\ latch \in {0, 1} /\ clock \in {0, 1} /\ data \in {0, 1}
  /\ register \in [1..24 -> {0, 1}] /\ outputs \in [1..24 -> {0, 1}]

\* The chips: a rising clock shifts data in, a rising latch shows the registers.
WriteClock(v) ==
  /\ clock' = v
  /\ register' = IF clock = 0 /\ v = 1
                 THEN [i \in 1..24 |-> IF i < 24 THEN register[i + 1] ELSE data]
                 ELSE register
WriteLatch(v) ==
  /\ latch' = v
  /\ outputs' = IF latch = 0 /\ v = 1 THEN register ELSE outputs

\* The constructor takes all pins low.
Construct ==
  /\ pc = "down" /\ pc' = "idle"
  /\ WriteClock(0) /\ data' = 0 /\ WriteLatch(0)
  /\ UNCHANGED <<text, n, shown>>

UpdateSegments ==
  /\ pc = "idle" /\ pc' = "clockLow"
  /\ text' \in Texts /\ n' = 0
  /\ WriteLatch(0)
  /\ UNCHANGED <<clock, data, register, shown>>

ClockLow ==
  /\ pc = "clockLow" /\ pc' = "data"
  /\ WriteClock(0)
  /\ UNCHANGED <<text, n, latch, data, outputs, shown>>

\* Bit n: the third character goes first, of each the highest bit.
Data ==
  /\ pc = "data" /\ pc' = "clockHigh"
  /\ data' = SegBit(text[3 - (n \div 8)], n % 8)
  /\ UNCHANGED <<text, n, latch, clock, register, outputs, shown>>

ClockHigh ==
  /\ pc = "clockHigh" /\ n' = n + 1
  /\ WriteClock(1)
  /\ pc' = IF n' < 3 * 8 THEN "clockLow" ELSE "latch"
  /\ UNCHANGED <<text, latch, data, outputs, shown>>

LatchHigh ==
  /\ pc = "latch" /\ pc' = "idle"
  /\ WriteLatch(1)
  /\ n' = 0 /\ shown' = text
  /\ UNCHANGED <<text, clock, data, register>>

\* The program is stopped, to be started again.
Killed ==
  /\ pc # "down" /\ pc' = "down" /\ n' = 0
  /\ UNCHANGED <<text, latch, clock, data, register, outputs, shown>>

Next ==
  \/ Construct \/ UpdateSegments \/ ClockLow \/ Data \/ ClockHigh \/ LatchHigh
  \/ Killed

Spec == Init /\ [][Next]_vars

-----------------------------------------------------------------------------
(* What is proved.                                                          *)

\* From the first whole update on, what is lit is at every moment the glyphs of
\* one text, the last whole one, each on its own digit (digit d is the d-th chip
\* behind the data pin): no part of an update that is under way or was cut short
\* by a restart ever shows.
OneTextLit ==
  shown # None =>
    \A d \in 1..3, x \in 0..7 : outputs[8 * (3 - d) + x + 1] = SegBit(shown[d], x)

\* Bit i of a text, in the order in which it is clocked out.
BitOf(t, i) == SegBit(t[3 - ((i - 1) \div 8)], (i - 1) % 8)

Updating == {"clockLow", "data", "clockHigh"}

\* The last n bits of the registers are the first n of the text, and a clock that
\* is about to rise is low, with the next bit on the data pin.
ShiftInv ==
  /\ pc \in Updating \cup {"down", "idle", "latch"}
  /\ n \in 0..24
  /\ pc \in Updating => n < 24
  /\ pc = "latch" => n = 24
  /\ pc \in Updating \cup {"latch"} => latch = 0
  /\ pc \in {"data", "clockHigh"} => clock = 0
  /\ pc = "clockHigh" => data = BitOf(text, n + 1)
  /\ \A i \in 1..n : register[24 - n + i] = BitOf(text, i)
  /\ shown # None => \A i \in 1..24 : outputs[i] = BitOf(shown, i)

\* ShiftInv speaks of bits in the order of the wire; on the digits they are glyphs.
LEMMA WireOrder == ShiftInv => OneTextLit
<1> SUFFICES ASSUME ShiftInv, shown # None, NEW d \in 1..3, NEW b \in 0..7
             PROVE  outputs[8 * (3 - d) + b + 1] = SegBit(shown[d], b)
  BY DEF OneTextLit
<1> DEFINE i == 8 * (3 - d) + b + 1
<1>1. i \in 1..24
  OBVIOUS
<1>2. (i - 1) \div 8 = 3 - d /\ (i - 1) % 8 = b
  OBVIOUS
<1>3. 3 - (3 - d) = d
  OBVIOUS
<1>4. BitOf(shown, i) = SegBit(shown[d], b)
  BY <1>2, <1>3 DEF BitOf
<1> QED BY <1>1, <1>4 DEF ShiftInv

\* A rising clock moves the bits on by one and adds the next.
LEMMA ClockedIn == ShiftInv /\ ClockHigh => ShiftInv'
<1> SUFFICES ASSUME ShiftInv, ClockHigh PROVE ShiftInv'
  OBVIOUS
<1> USE DEF ShiftInv, ClockHigh, WriteClock, Updating
<1>1. n \in 0..23 /\ n' = n + 1 /\ clock = 0 /\ data = BitOf(text, n + 1)
  OBVIOUS
<1>2. register' = [i \in 1..24 |-> IF i < 24 THEN register[i + 1] ELSE data]
  BY <1>1
<1>3. ASSUME NEW i \in 1..n' PROVE register'[24 - n' + i] = BitOf(text, i)
  <2>1. CASE i = n'
    BY <1>1, <1>2, <2>1
  <2>2. CASE i # n'
    <3>1. i \in 1..n /\ 24 - n' + i \in 1..23 /\ 24 - n' + i + 1 = 24 - n + i
      BY <1>1, <2>2
    <3> QED BY <1>2, <3>1
  <2> QED BY <2>1, <2>2
<1>4. (\A i \in 1..n : register[24 - n + i] = BitOf(text, i))'
  BY <1>3 DEF BitOf
<1>5. (shown # None => \A i \in 1..24 : outputs[i] = BitOf(shown, i))'
  BY DEF BitOf
<1>6. /\ pc' \in Updating \cup {"latch"} /\ pc' \notin {"data", "clockHigh"}
      /\ n' \in 0..24 /\ (pc' \in Updating => n' < 24) /\ (pc' = "latch" => n' = 24)
      /\ latch' = 0
  BY <1>1
<1> QED BY <1>4, <1>5, <1>6

\* The digits never show anything but the last whole text (UpdateLeds), for every
\* set of texts and however often the program is stopped and started again.
THEOREM OnlyWholeTextsLit == Spec => []OneTextLit
<1>1. Init => ShiftInv
  BY DEF Init, ShiftInv, Updating
<1>2. ShiftInv /\ [Next]_vars => ShiftInv'
  <2> SUFFICES ASSUME ShiftInv, [Next]_vars PROVE ShiftInv'
    OBVIOUS
  <2>1. CASE Construct
    BY <2>1 DEF ShiftInv, Construct, WriteClock, WriteLatch, Updating, BitOf
  <2>2. CASE UpdateSegments
    BY <2>2 DEF ShiftInv, UpdateSegments, WriteLatch, Updating, BitOf
  <2>3. CASE ClockLow
    BY <2>3 DEF ShiftInv, ClockLow, WriteClock, Updating, BitOf
  <2>4. CASE Data
    BY <2>4 DEF ShiftInv, Data, Updating, BitOf
  <2>5. CASE ClockHigh
    BY <2>5, ClockedIn
  <2>6. CASE LatchHigh
    BY <2>6 DEF ShiftInv, LatchHigh, WriteLatch, Updating, BitOf
  <2>7. CASE Killed
    BY <2>7 DEF ShiftInv, Killed, Updating, BitOf
  <2>8. CASE UNCHANGED vars
    BY <2>8 DEF ShiftInv, vars, BitOf
  <2> QED BY <2>1, <2>2, <2>3, <2>4, <2>5, <2>6, <2>7, <2>8 DEF Next
<1> QED BY <1>1, <1>2, WireOrder, PTL DEF Spec
=============================================================================
