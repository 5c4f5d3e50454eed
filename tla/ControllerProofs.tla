-------------------------- MODULE ControllerProofs --------------------------
(***************************************************************************)
(* Theorems about the big display's firmware, and about the program and    *)
(* the display on one bus: for every size of the ring buffer, every set of *)
(* messages or of harmless texts, and any number of faults.                *)
(***************************************************************************)
EXTENDS SegmentLink, TLAPS

\* Taking a sequence apart.
LEMMA HeadTail ==
  ASSUME NEW S, NEW s \in Seq(S), s # <<>>
  PROVE  Head(s) \in S /\ Tail(s) \in Seq(S)
OBVIOUS

\* A digit lights a glyph.
LEMMA SegmentsOfType == ASSUME NEW b \in Byte PROVE SegmentsOf(b) \in Glyph
<1>1. b % 128 \in 0 .. 127
  BY DEF Byte
<1>2. (b >= 128) \in BOOLEAN
  OBVIOUS
<1> QED BY <1>1, <1>2 DEF SegmentsOf, Glyph

\* Storing into an array keeps its type.
LEMMA Store ==
  ASSUME NEW S, NEW T, NEW f \in [S -> T], NEW i \in S, NEW v \in T
  PROVE  [f EXCEPT ![i] = v] \in [S -> T]
OBVIOUS

\* One step of the firmware keeps every variable in its type.
LEMMA TypeStep == TypeOK /\ [Next]_vars => TypeOK'
<1> SUFFICES ASSUME TypeOK, [Next]_vars PROVE TypeOK'
  OBVIOUS
<1> USE BufferAssumption, BoundsAssumption DEF TypeOK, Byte
<1>d. Dark \in Glyph
  BY DEF Dark, Glyph
<1>s. setupTWI => eeprom' \in Byte /\ twiAddress' \in 0 .. 127
  BY DEF setupTWI, ValidAddress, TWI_ADDRESS_DEFAULT
<1>c. c \in Byte
  BY DEF c
<1>1. CASE BootTWI
  BY <1>1, <1>s DEF BootTWI, Labels, ring, display, env
<1>2. CASE setupTimer
  BY <1>2 DEF setupTimer, Labels, ring, display, env
<1>3. CASE BootDigits
  BY <1>3 DEF BootDigits, Labels, ring, env
<1>4. CASE displaySegment
  <2>1. 2 - x \in 0..2 /\ (x + 1) % 3 \in 0..2
    OBVIOUS
  <2>2. SegmentsOf(digits[2 - x]) \in Glyph
    BY <2>1, SegmentsOfType
  <2>3. <<SegmentsOf(digits[2 - x]), register[1], register[2]>> \in [1..3 -> Glyph]
    BY <2>2
  <2> QED BY <1>4, <2>1, <2>3 DEF displaySegment, Labels, ring, display, env
<1>5. CASE latch
  BY <1>5 DEF latch, Labels, ring, display, env
<1>6. ASSUME NEW m \in Messages, Receive(m) PROVE TypeOK'
  BY <1>6, MessagesAssumption DEF Receive, Deliver, loopVars, ring, display
<1>7. CASE twiReceive
  <2>1. (head + 1) % BUFFER_SIZE \in 0 .. BUFFER_SIZE - 1
    OBVIOUS
  <2>2. Head(wire) \in Byte /\ Tail(wire) \in Seq(Byte)
    BY <1>7, HeadTail DEF twiReceive
  <2> HIDE DEF Byte
  <2>a. [data EXCEPT ![head] = Head(wire)] \in [0 .. BUFFER_SIZE - 1 -> Byte]
    BY <2>2, Store
  <2>3. data' \in [0 .. BUFFER_SIZE - 1 -> Byte] /\ head' \in 0 .. BUFFER_SIZE - 1
    BY <1>7, <2>1, <2>a DEF twiReceive
  <2> QED BY <1>7, <2>2, <2>3 DEF twiReceive, loopVars, display, env
<1>8. CASE Timer
  <2>1. TakeByte
    BY <1>8 DEF Timer, StoreDigit, Reset, EnterCommand, Argument, SetDecimals,
                SetCursor, SetAddress, UnknownCommand, SetDigit
  <2>2. /\ tail' \in 0 .. BUFFER_SIZE - 1
        /\ UNCHANGED <<pc, x, register, latched, data, head, wire, sent, failures>>
    BY <2>1 DEF TakeByte, loopVars, env
  <2> DEFINE Rest == /\ digits \in [0..2 -> Byte] /\ decimals \in Byte
                     /\ cursor \in 0..3 /\ commandMode \in Byte
                     /\ isr \in {"none", "begin"} /\ eeprom \in Byte
                     /\ twiAddress \in 0 .. 127
  <2> SUFFICES Rest'
    BY <2>2
  <2> HIDE <2>1, <2>2
  <2>3. CASE StoreDigit
    <3>1. (cursor + 1) % 3 \in 0..3
      OBVIOUS
    <3>2. digits' \in [0..2 -> Byte] /\ decimals' \in Byte
      <4>1. CASE cursor = 3
        BY <1>c, <2>3, <4>1 DEF StoreDigit
      <4>2. CASE cursor \in 0..2
        <5>1. [digits EXCEPT ![cursor] = c] \in [0..2 -> Byte]
          BY <1>c, <4>2, Store
        <5>2. digits' = [digits EXCEPT ![cursor] = c] /\ decimals' = decimals
          BY <2>3, <4>2 DEF StoreDigit
        <5> QED BY <5>1, <5>2
      <4> QED BY <4>1, <4>2
    <3> QED BY <2>3, <3>1, <3>2 DEF StoreDigit
  <2>4. CASE Reset
    BY <2>4 DEF Reset, BLANK_CMD
  <2>5. CASE EnterCommand
    BY <1>c, <2>5 DEF EnterCommand, display
  <2>6. CASE SetDecimals
    BY <1>c, <2>6 DEF SetDecimals, Argument
  <2>7. CASE SetCursor
    BY <1>c, <2>7 DEF SetCursor, Argument
  <2>8. CASE SetAddress
    BY <1>c, <2>8 DEF SetAddress, Argument, display
  <2>9. CASE UnknownCommand
    BY <2>9 DEF UnknownCommand, Argument, display
  <2>10. ASSUME NEW i \in 0..2, SetDigit(i) PROVE Rest'
    <3>1. (IF c >= 128 THEN c ELSE c + 128) \in Byte
      BY <1>c
    <3>2. digits' \in [0..2 -> Byte]
      BY <2>10, <3>1 DEF SetDigit
    <3> QED BY <2>10, <3>2 DEF SetDigit, Argument
  <2> QED BY <1>8, <2>3, <2>4, <2>5, <2>6, <2>7, <2>8, <2>9, <2>10 DEF Timer
<1>9. CASE BeginTWI
  BY <1>9, <1>s DEF BeginTWI, loopVars, ring, display, env
<1>10. CASE PowerLoss
  <2>1. <<Dark, Dark, Dark>> \in [1..3 -> Glyph]
    BY <1>d
  <2> QED BY <1>10, <2>1 DEF PowerLoss, Labels
<1>11. CASE UNCHANGED vars
  BY <1>11 DEF vars, loopVars, ring, display, env
<1> QED
  BY <1>1, <1>2, <1>3, <1>4, <1>5, <1>6, <1>7, <1>8, <1>9, <1>10, <1>11 DEF Next, Loop

\* The firmware starts well typed.
LEMMA TypeOfInit == Init => TypeOK
<1>1. Dark \in Glyph
  BY DEF Dark, Glyph
<1>2. <<Dark, Dark, Dark>> \in [1..3 -> Glyph]
  BY <1>1
<1> QED
  BY <1>2, BufferAssumption, BoundsAssumption, EEPROMAssumption
     DEF Init, TypeOK, Labels, Byte

\* The firmware's indices stay in their arrays and its bytes are bytes, but for
\* the cursor, which may be 3 (updateBufferData).
THEOREM TypeCorrect == Spec => []TypeOK
BY TypeOfInit, TypeStep, PTL DEF Spec

-----------------------------------------------------------------------------
(* The address survives.                                                    *)

\* No step makes a listening display forget where it listens.
LEMMA AddressStep == TypeOK /\ AddressKept /\ [Next]_vars => AddressKept'
<1> SUFFICES ASSUME TypeOK, AddressKept, [Next]_vars PROVE AddressKept'
  OBVIOUS
<1> USE DEF AddressKept
<1>1. setupTWI => ValidAddress(twiAddress') /\ eeprom' = twiAddress'
  BY DEF setupTWI, ValidAddress, TWI_ADDRESS_DEFAULT
<1>2. CASE BootTWI
  BY <1>1, <1>2 DEF BootTWI
<1>3. CASE BeginTWI
  BY <1>1, <1>3 DEF BeginTWI
<1>4. CASE SetAddress
  BY <1>4 DEF SetAddress
<1>5. CASE PowerLoss
  BY <1>5 DEF PowerLoss
<1>6. CASE UNCHANGED <<isr, eeprom, twiAddress>>
  BY <1>6
<1>7. CASE Timer /\ ~SetAddress
  <2>1. UNCHANGED <<isr, eeprom, twiAddress>>
    BY <1>7 DEF Timer, StoreDigit, Reset, EnterCommand, SetDecimals, SetCursor,
                UnknownCommand, SetDigit
  <2> QED BY <2>1
<1>8. CASE setupTimer \/ BootDigits \/ displaySegment \/ latch \/ twiReceive
  BY <1>6, <1>8 DEF setupTimer, BootDigits, displaySegment, latch, twiReceive
<1>9. ASSUME NEW m \in Messages, Receive(m) PROVE AddressKept'
  BY <1>6, <1>9 DEF Receive, Deliver
<1>10. CASE UNCHANGED vars
  BY <1>6, <1>10 DEF vars
<1> QED
  BY <1>2, <1>3, <1>4, <1>5, <1>7, <1>8, <1>9, <1>10 DEF Next, Loop

\* A display that listens has a valid address and finds the same one again after
\* a loss of power (setupTWI, TWI_ADDRESS_CMD).
THEOREM AddressSurvives == Spec => []AddressKept
<1>1. Init => AddressKept
  BY DEF Init, AddressKept
<1> QED BY <1>1, TypeCorrect, AddressStep, PTL DEF Spec

-----------------------------------------------------------------------------
(* The ring buffer is a queue.                                              *)

\* The remainder of a number below twice the divisor.
LEMMA ModOnce ==
  ASSUME NEW n \in Nat \ {0}, NEW a \in 0 .. 2 * n - 1
  PROVE  a % n = IF a < n THEN a ELSE a - n
OBVIOUS

\* The place after a place.
LEMMA NextPlace ==
  ASSUME NEW n \in Nat \ {0}, NEW a \in 0 .. n - 1
  PROVE  (a + 1) % n = IF a + 1 < n THEN a + 1 ELSE 0
<1>1. a + 1 \in 0 .. 2 * n - 1
  OBVIOUS
<1>2. PICK b \in 0 .. 2 * n - 1 : b = a + 1
  BY <1>1
<1>3. b % n = IF b < n THEN b ELSE b - n
  BY <1>2, ModOnce
<1> QED BY <1>2, <1>3

\* How many bytes wait, and which place of the ring the i-th of them has.
Count == IF head >= tail THEN head - tail ELSE head - tail + BUFFER_SIZE
Place(i) == IF tail + i - 1 < BUFFER_SIZE THEN tail + i - 1 ELSE tail + i - 1 - BUFFER_SIZE

\* All that the ring asks for: its indices are places and its bytes are bytes.
RingOK ==
  /\ data \in [0 .. BUFFER_SIZE - 1 -> Byte]
  /\ head \in 0 .. BUFFER_SIZE - 1 /\ tail \in 0 .. BUFFER_SIZE - 1
  /\ wire \in Seq(Byte)

\* The waiting bytes, without remainders.
WaitingSeq ==
  /\ Count \in 0 .. BUFFER_SIZE - 1
  /\ \A i \in 1 .. Count : Place(i) \in 0 .. BUFFER_SIZE - 1
  /\ Waiting = [i \in 1 .. Count |-> data[Place(i)]]
  /\ Waiting \in Seq(Byte)
  /\ Len(Waiting) = Count

\* What waits in the ring is a sequence of bytes, as long as head is ahead of tail.
LEMMA WaitingIs == RingOK => WaitingSeq
<1> SUFFICES ASSUME RingOK PROVE WaitingSeq
  OBVIOUS
<1> USE BufferAssumption
<1>1. /\ head \in 0 .. BUFFER_SIZE - 1 /\ tail \in 0 .. BUFFER_SIZE - 1
      /\ data \in [0 .. BUFFER_SIZE - 1 -> Byte]
  BY DEF RingOK
<1>2. Count \in 0 .. BUFFER_SIZE - 1
  BY <1>1 DEF Count
<1>n. BUFFER_SIZE \in Nat \ {0}
  OBVIOUS
<1>3. (head - tail + BUFFER_SIZE) % BUFFER_SIZE = Count
  <2> DEFINE a == head - tail + BUFFER_SIZE
  <2>1. a \in 0 .. 2 * BUFFER_SIZE - 1
    BY <1>1
  <2> HIDE DEF a
  <2>2. a % BUFFER_SIZE = IF a < BUFFER_SIZE THEN a ELSE a - BUFFER_SIZE
    BY <1>n, <2>1, ModOnce
  <2> QED BY <1>1, <2>2 DEF Count, a
<1>4. \A i \in 1 .. Count : /\ (tail + i - 1) % BUFFER_SIZE = Place(i)
                            /\ Place(i) \in 0 .. BUFFER_SIZE - 1
  <2> SUFFICES ASSUME NEW i \in 1 .. Count
               PROVE  /\ (tail + i - 1) % BUFFER_SIZE = Place(i)
                      /\ Place(i) \in 0 .. BUFFER_SIZE - 1
    OBVIOUS
  <2> DEFINE a == tail + i - 1
  <2>1. a \in 0 .. 2 * BUFFER_SIZE - 1
    BY <1>1, <1>2
  <2> HIDE DEF a
  <2>2. a % BUFFER_SIZE = IF a < BUFFER_SIZE THEN a ELSE a - BUFFER_SIZE
    BY <1>n, <2>1, ModOnce
  <2>3. Place(i) = IF a < BUFFER_SIZE THEN a ELSE a - BUFFER_SIZE
    BY <1>1 DEF Place, a
  <2>4. Place(i) \in 0 .. BUFFER_SIZE - 1
    BY <1>n, <2>1, <2>3
  <2>5. (tail + i - 1) % BUFFER_SIZE = Place(i)
    BY <2>2, <2>3 DEF a
  <2> QED BY <2>4, <2>5
<1>5. Waiting = [i \in 1 .. Count |-> data[Place(i)]]
  BY <1>3, <1>4 DEF Waiting
<1>6. Waiting \in [1 .. Count -> Byte]
  BY <1>1, <1>4, <1>5
<1>7. Waiting \in Seq(Byte) /\ Len(Waiting) = Count
  BY <1>2, <1>6
<1> QED BY <1>2, <1>4, <1>5, <1>7 DEF WaitingSeq

\* The same of the next state.
LEMMA WaitingIsPrime == RingOK' => WaitingSeq'
BY WaitingIs, PTL

\* A step of twiReceive is a Put: append if there is room, else drop.
LEMMA PutStep == ASSUME RingOK, RingOK', twiReceive PROVE Q!Put
<1> USE BufferAssumption
<1>1. /\ head \in 0 .. BUFFER_SIZE - 1 /\ tail \in 0 .. BUFFER_SIZE - 1
      /\ data \in [0 .. BUFFER_SIZE - 1 -> Byte] /\ tail' = tail
      /\ wire # <<>> /\ wire' = Tail(wire) /\ wire \in Seq(Byte)
  BY DEF RingOK, twiReceive
<1> DEFINE i == (head + 1) % BUFFER_SIZE
<1>2. i = IF head + 1 < BUFFER_SIZE THEN head + 1 ELSE 0
  BY <1>1, NextPlace
<1> HIDE DEF i
<1>3. CASE i # tail
  <2>1. data' = [data EXCEPT ![head] = Head(wire)] /\ head' = i
    BY <1>3 DEF twiReceive, i
  <2>2. Count < BUFFER_SIZE - 1 /\ Count' = Count + 1 /\ Place(Count + 1) = head
    BY <1>1, <1>2, <1>3, <2>1 DEF Count, Place
  <2>3. ASSUME NEW j \in 1 .. Count PROVE data'[Place(j)] = data[Place(j)]
    BY <1>1, <2>1, <2>2 DEF Count, Place
  <2>4. data'[head] = Head(wire)
    BY <1>1, <2>1
  <2>5. \A j \in 1 .. Count + 1 : Place(j)' = Place(j)
    BY <1>1 DEF Place
  <2>6. Waiting' = [j \in 1 .. Count + 1 |-> data'[Place(j)]]
    <3>1. Waiting' = [j \in 1 .. Count' |-> data'[Place(j)']]
      BY WaitingIsPrime DEF WaitingSeq
    <3> QED BY <3>1, <2>2, <2>5
  <2>7. Waiting' = Append(Waiting, Head(wire))
    BY WaitingIs, <2>2, <2>3, <2>4, <2>6, HeadTail, <1>1 DEF WaitingSeq
  <2> QED BY <1>1, <2>2, <2>7, WaitingIs DEF WaitingSeq, Q!Put
<1>4. CASE i = tail
  <2>1. UNCHANGED <<data, head, tail>>
    BY <1>4 DEF twiReceive, i
  <2>2. Waiting' = Waiting
    BY <2>1 DEF Waiting
  <2>3. Count = BUFFER_SIZE - 1
    BY <1>1, <1>2, <1>4 DEF Count
  <2> QED BY <1>1, <2>2, <2>3, WaitingIs DEF WaitingSeq, Q!Put
<1> QED BY <1>3, <1>4

\* A byte the timer's handler takes is the head of the queue.
LEMMA TakeStep == ASSUME RingOK, RingOK', TakeByte PROVE Q!Take
<1> USE BufferAssumption
<1>1. /\ head \in 0 .. BUFFER_SIZE - 1 /\ tail \in 0 .. BUFFER_SIZE - 1
      /\ head # tail /\ UNCHANGED <<data, head, wire>>
      /\ tail' = (tail + 1) % BUFFER_SIZE
  BY DEF RingOK, TakeByte
<1>2. tail' = IF tail + 1 < BUFFER_SIZE THEN tail + 1 ELSE 0
  BY <1>1, NextPlace
<1>3. Count > 0 /\ Count' = Count - 1
  BY <1>1, <1>2 DEF Count
<1>4. \A j \in 1 .. Count - 1 : Place(j)' = Place(j + 1)
  BY <1>1, <1>2 DEF Place, Count
<1>5. Waiting' = [j \in 1 .. Count - 1 |-> data[Place(j + 1)]]
  <2>1. Waiting' = [j \in 1 .. Count' |-> data'[Place(j)']]
    BY WaitingIsPrime DEF WaitingSeq
  <2> QED BY <1>1, <1>3, <1>4, <2>1
<1>6. Waiting' = Tail(Waiting) /\ Waiting # <<>>
  <2>1. /\ Waiting = [j \in 1 .. Count |-> data[Place(j)]]
        /\ Waiting \in Seq(Byte) /\ Len(Waiting) = Count
        /\ Count \in Nat
    BY WaitingIs DEF WaitingSeq
  <2>2. Waiting # <<>>
    BY <1>3, <2>1
  <2>3. Tail(Waiting) = [j \in 1 .. Count - 1 |-> Waiting[j + 1]]
    BY <1>3, <2>1, <2>2
  <2>4. \A j \in 1 .. Count - 1 : Waiting[j + 1] = data[Place(j + 1)]
    BY <2>1
  <2> QED BY <1>5, <2>2, <2>3, <2>4
<1> QED BY <1>1, <1>6 DEF Q!Take

\* The ring buffer is a queue for every size of the ring: bytes leave it in the
\* order they came and are dropped only when it is full (twiReceive,
\* updateBufferData).
THEOREM RingIsQueue == Spec => ImplementsByteQueue
<1>1. Init => Q!Init
  <2> SUFFICES ASSUME Init PROVE Waiting = <<>> /\ wire = <<>>
    BY DEF Q!Init
  <2>1. RingOK
    BY TypeOfInit DEF TypeOK, RingOK
  <2>2. Len(Waiting) = 0 /\ Waiting \in Seq(Byte)
    BY <2>1, WaitingIs DEF Init, WaitingSeq, Count
  <2> QED BY <2>2 DEF Init
<1>2. TypeOK /\ TypeOK' /\ [Next]_vars => [Q!Next]_(Q!qvars)
  <2> SUFFICES ASSUME TypeOK, TypeOK', [Next]_vars PROVE Q!Next \/ UNCHANGED Q!qvars
    OBVIOUS
  <2>r. RingOK /\ RingOK'
    BY DEF TypeOK, RingOK
  <2>1. CASE twiReceive
    BY <2>r, <2>1, PutStep DEF Q!Next
  <2>2. CASE Timer
    <3>1. TakeByte
      BY <2>2 DEF Timer, StoreDigit, Reset, EnterCommand, Argument, SetDecimals,
                  SetCursor, SetAddress, UnknownCommand, SetDigit
    <3> QED BY <2>r, <3>1, TakeStep DEF Q!Next
  <2>3. ASSUME NEW m \in Messages, Receive(m) PROVE Q!Next
    <3>1. Waiting' = Waiting
      BY <2>3 DEF Receive, Deliver, ring, Waiting
    <3>2. wire = <<>> /\ wire' \in Seq(Byte)
      BY <2>3, MessagesAssumption DEF Receive, Deliver, Idle
    <3> QED BY <3>1, <3>2 DEF Q!Next, Q!Arrive
  <2>4. CASE PowerLoss
    <3>1. wire' = <<>> /\ head' = 0 /\ tail' = 0
      BY <2>4 DEF PowerLoss
    <3>2. Len(Waiting') = 0 /\ Waiting' \in Seq(Byte)
      BY <2>r, <3>1, WaitingIsPrime DEF WaitingSeq, Count
    <3>3. Waiting' = <<>>
      BY <3>2
    <3> QED BY <3>1, <3>3 DEF Q!Next, Q!PowerLoss
  <2>5. CASE BootTWI \/ setupTimer \/ BootDigits \/ displaySegment \/ latch \/ BeginTWI
    <3>1. UNCHANGED <<wire, data, head, tail>>
      BY <2>5 DEF BootTWI, setupTimer, BootDigits, displaySegment, latch, BeginTWI, ring
    <3> QED BY <3>1 DEF Waiting, Q!qvars
  <2>6. CASE UNCHANGED vars
    <3>1. UNCHANGED <<wire, data, head, tail>>
      BY <2>6 DEF vars, ring
    <3> QED BY <3>1 DEF Waiting, Q!qvars
  <2> QED BY <2>1, <2>2, <2>3, <2>4, <2>5, <2>6 DEF Next, Loop
<1> QED
  BY <1>1, <1>2, TypeCorrect, PTL DEF Spec, ImplementsByteQueue, Q!Spec

-----------------------------------------------------------------------------
(* The program and the display.                                            *)

\* Characters the firmware displays and does not take for a cursor of 3.
Harmless == (0 .. 117) \ {3}

\* What the program sends: characters and its two command bytes.
HostByte == Harmless \cup {CURSOR_CMD, DECIMAL_CMD}

\* Every GetSegmentLed with initialised members (digits, letters, zeros, spaces),
\* unless a fight is paused 45 minutes or more into overtime: PausedAnim's first
\* character is then '0' - 45 = 3, and wraps to a byte above 117 from 49 minutes on.
HarmlessTexts == Texts \subseteq [1..3 -> Harmless]

\* The EEPROM of a new display is erased or holds the program's address.
FactoryEEPROM == \A e \in ErasedEEPROM : ValidAddress(e) => e = BigSegmentLedI2cAddress

\* Only the program's bytes are under way, and what they made of the display.
OnlyHostBytes ==
  /\ data \in [0 .. BUFFER_SIZE - 1 -> HostByte]
  /\ head \in 0 .. BUFFER_SIZE - 1 /\ tail \in 0 .. BUFFER_SIZE - 1
  /\ wire \in Seq(HostByte)
  /\ text \in [1..3 -> Harmless]
DisplayUnharmed ==
  /\ cursor \in 0..2
  /\ commandMode \in {0, CURSOR_CMD, DECIMAL_CMD}
  /\ digits \in [0..2 -> 0 .. 127]
  /\ isr = "none"
AddressUnharmed ==
  /\ twiAddress \in {0, BigSegmentLedI2cAddress}
  /\ ValidAddress(eeprom) => eeprom = BigSegmentLedI2cAddress
LinkInv == OnlyHostBytes /\ DisplayUnharmed /\ AddressUnharmed

\* An array is a sequence.
LEMMA ArrayIsSeq ==
  ASSUME NEW S, NEW k \in Nat, NEW f \in [1..k -> S]
  PROVE  f \in Seq(S)
OBVIOUS

\* A message of the program, cut anywhere, is a sequence of its bytes.
LEMMA CutMessage ==
  ASSUME NEW m \in Seq(HostByte), NEW k \in 1 .. Len(m) - 1
  PROVE  SubSeq(m, 1, k) \in Seq(HostByte)
OBVIOUS

\* The program's writes put only its bytes on the wire, whatever becomes of them.
LEMMA WriteStep ==
  ASSUME LinkInv, NEW m \in Seq(HostByte), NEW intact, Write(m, intact),
         text' \in [1..3 -> Harmless]
  PROVE  LinkInv'
<1>1. CASE Deliver(m)
  BY <1>1 DEF Deliver, LinkInv, OnlyHostBytes, DisplayUnharmed, AddressUnharmed,
              ValidAddress, ring, display
<1>2. ASSUME NEW k \in 1 .. Len(m) - 1, Deliver(SubSeq(m, 1, k)) PROVE LinkInv'
  BY <1>2, CutMessage DEF Deliver, LinkInv, OnlyHostBytes, DisplayUnharmed, AddressUnharmed,
              ValidAddress, ring, display
<1>3. CASE UNCHANGED vars
  BY <1>3 DEF vars, LinkInv, OnlyHostBytes, DisplayUnharmed, AddressUnharmed,
              ValidAddress, ring, display
<1> QED BY <1>1, <1>2, <1>3 DEF Write

\* Each of the program's steps keeps the invariant.
LEMMA HostStep ==
  ASSUME HarmlessTexts, LinkInv, Host \/ HostRestarts
  PROVE  LinkInv'
<1>t. text \in [1..3 -> Harmless] /\ Texts \subseteq [1..3 -> Harmless]
  BY DEF LinkInv, OnlyHostBytes, HarmlessTexts
<1>b. 0 \in HostByte /\ CURSOR_CMD \in HostByte /\ DECIMAL_CMD \in HostByte
  BY DEF HostByte, Harmless
<1>c. <<CURSOR_CMD, 0>> \in Seq(HostByte) /\ <<DECIMAL_CMD, 0>> \in Seq(HostByte)
  BY <1>b
<1>1. CASE SetupCursor
  BY <1>1, <1>t, <1>c, WriteStep DEF SetupCursor
<1>2. CASE SetupDecimals
  BY <1>2, <1>t, <1>c, WriteStep DEF SetupDecimals
<1>3. CASE WriteCursor
  BY <1>3, <1>t, <1>c, WriteStep DEF WriteCursor, BeginFrame
<1>4. CASE WriteText
  <2>1. text \in [1..3 -> HostByte]
    BY <1>t DEF HostByte
  <2>2. text \in Seq(HostByte)
    BY <2>1, ArrayIsSeq
  <2> QED BY <1>4, <1>t, <2>2, WriteStep DEF WriteText
<1>5. CASE HostRestarts
  BY <1>5 DEF HostRestarts, vars, LinkInv, OnlyHostBytes, DisplayUnharmed,
              AddressUnharmed, ValidAddress, ring, display
<1> QED BY <1>1, <1>2, <1>3, <1>4, <1>5 DEF Host

\* The timer's handler finds one of the program's bytes, whatever its command mode.
LEMMA TimerStep ==
  ASSUME LinkInv, Timer, text' = text
  PROVE  LinkInv'
<1> USE BufferAssumption
<1>c. c \in HostByte
  BY DEF c, LinkInv, OnlyHostBytes
<1>n. HostByte \subseteq 0 .. 121
  BY DEF HostByte, Harmless, CURSOR_CMD, DECIMAL_CMD
<1>1. TakeByte
  BY DEF Timer, StoreDigit, Reset, EnterCommand, Argument, SetDecimals,
         SetCursor, SetAddress, UnknownCommand, SetDigit
<1>2. OnlyHostBytes'
  <2>1. (tail + 1) % BUFFER_SIZE \in 0 .. BUFFER_SIZE - 1
    BY DEF LinkInv, OnlyHostBytes
  <2> QED BY <1>1, <2>1 DEF TakeByte, LinkInv, OnlyHostBytes
<1>3. ~SetAddress /\ ~ \E i \in 0..2 : SetDigit(i)
  BY DEF LinkInv, DisplayUnharmed, SetAddress, SetDigit, CURSOR_CMD, DECIMAL_CMD,
         TWI_ADDRESS_CMD, DIGIT_CMD
<1>4. UNCHANGED <<isr, eeprom, twiAddress>>
  BY <1>3 DEF Timer, StoreDigit, Reset, EnterCommand, SetDecimals, SetCursor, UnknownCommand
<1>5. AddressUnharmed'
  BY <1>4 DEF LinkInv, AddressUnharmed, ValidAddress
<1>6. DisplayUnharmed'
  <2> USE DEF LinkInv, DisplayUnharmed
  <2>1. CASE StoreDigit
    <3>1. c \in 0 .. 127
      BY <1>c, <1>n
    <3>2. (cursor + 1) % 3 \in 0..2
      OBVIOUS
    <3>3. digits' = [digits EXCEPT ![cursor] = c] /\ UNCHANGED <<commandMode, isr>>
          /\ cursor' = (cursor + 1) % 3
      BY <2>1 DEF StoreDigit
    <3> QED BY <3>1, <3>2, <3>3
  <2>2. CASE Reset
    BY <2>2 DEF Reset, BLANK_CMD
  <2>3. CASE EnterCommand
    <3>1. c \in {CURSOR_CMD, DECIMAL_CMD}
      BY <1>c, <2>3 DEF EnterCommand, Displayable, HostByte, Harmless, RESET_CMD
    <3> QED BY <2>3, <3>1 DEF EnterCommand, display
  <2>4. CASE SetDecimals
    BY <2>4 DEF SetDecimals, Argument
  <2>5. CASE SetCursor
    <3>1. (IF c <= 3 THEN c ELSE cursor) \in 0..2
      BY <1>c DEF HostByte, Harmless, CURSOR_CMD, DECIMAL_CMD
    <3> QED BY <2>5, <3>1 DEF SetCursor, Argument
  <2>6. CASE UnknownCommand
    BY <2>6 DEF UnknownCommand, Argument, display
  <2> QED BY <1>3, <2>1, <2>2, <2>3, <2>4, <2>5, <2>6 DEF Timer
<1> QED BY <1>2, <1>5, <1>6 DEF LinkInv

\* Each of the display's steps keeps the invariant.
LEMMA DisplayStep ==
  ASSUME LinkInv, Display
  PROVE  LinkInv'
<1> USE BufferAssumption
<1>t. text' = text
  BY DEF Display
<1>1. CASE BootTWI
  <2>1. AddressUnharmed'
    BY <1>1 DEF BootTWI, setupTWI, LinkInv, AddressUnharmed, ValidAddress,
                BigSegmentLedI2cAddress, TWI_ADDRESS_DEFAULT
  <2> QED BY <1>1, <1>t, <2>1 DEF BootTWI, LinkInv, OnlyHostBytes, DisplayUnharmed, ring, display
<1>2. CASE setupTimer
  BY <1>2, <1>t DEF setupTimer, LinkInv, OnlyHostBytes, DisplayUnharmed, AddressUnharmed,
                    ValidAddress, ring, display
<1>3. CASE BootDigits
  BY <1>3, <1>t DEF BootDigits, LinkInv, OnlyHostBytes, DisplayUnharmed, AddressUnharmed,
                    ValidAddress, ring
<1>4. CASE Timer
  BY <1>4, <1>t, TimerStep
<1>5. CASE twiReceive
  <2>1. (head + 1) % BUFFER_SIZE \in 0 .. BUFFER_SIZE - 1
    BY DEF LinkInv, OnlyHostBytes
  <2>2. Head(wire) \in HostByte /\ Tail(wire) \in Seq(HostByte)
    BY <1>5 DEF twiReceive, LinkInv, OnlyHostBytes
  <2>3. OnlyHostBytes'
    BY <1>5, <1>t, <2>1, <2>2 DEF twiReceive, LinkInv, OnlyHostBytes
  <2> QED BY <1>5, <2>3 DEF twiReceive, LinkInv, DisplayUnharmed, AddressUnharmed,
                            ValidAddress, display
<1>6. CASE BeginTWI
  BY <1>6 DEF BeginTWI, LinkInv, DisplayUnharmed
<1>7. CASE PowerLoss
  <2>1. 0 \in HostByte /\ <<>> \in Seq(HostByte)
    BY DEF HostByte, Harmless
  <2>2. OnlyHostBytes'
    BY <1>7, <1>t, <2>1 DEF PowerLoss, LinkInv, OnlyHostBytes
  <2> QED BY <1>7, <2>2 DEF PowerLoss, LinkInv, DisplayUnharmed, AddressUnharmed
<1> QED BY <1>1, <1>2, <1>3, <1>4, <1>5, <1>6, <1>7 DEF Display, Setup

\* The invariant holds at the start and is kept by every step.
LEMMA LinkInvariant ==
  ASSUME HarmlessTexts, FactoryEEPROM
  PROVE  LinkSpec => []LinkInv
<1>1. LinkInit => LinkInv
  <2> SUFFICES ASSUME LinkInit PROVE LinkInv
    OBVIOUS
  <2>1. 0 \in HostByte /\ <<>> \in Seq(HostByte)
    BY DEF HostByte, Harmless
  <2> QED BY <2>1, BufferAssumption DEF LinkInit, Init, LinkInv, OnlyHostBytes, DisplayUnharmed,
             AddressUnharmed, HarmlessTexts, FactoryEEPROM
<1>2. LinkInv /\ [LinkNext]_linkVars => LinkInv'
  <2> SUFFICES ASSUME LinkInv, [LinkNext]_linkVars PROVE LinkInv'
    OBVIOUS
  <2>1. CASE Host \/ HostRestarts
    BY <2>1, HostStep
  <2>2. CASE Display
    BY <2>2, DisplayStep
  <2>3. CASE UNCHANGED linkVars
    BY <2>3 DEF linkVars, vars, host, LinkInv, OnlyHostBytes, DisplayUnharmed,
                AddressUnharmed, ValidAddress, ring, display
  <2> QED BY <2>1, <2>2, <2>3 DEF LinkNext
<1> QED BY <1>1, <1>2, PTL DEF LinkSpec

\* However frames are cut, dropped, repeated or overrun, the big display listens
\* where the program writes (BigSegmentLedI2cAddress, setupTWI): only a text with a
\* byte that is no character can move it.
THEOREM AlwaysReached ==
  ASSUME HarmlessTexts, FactoryEEPROM
  PROVE  LinkSpec => []HostReachesDisplay
<1>1. LinkInv => HostReachesDisplay
  BY DEF LinkInv, AddressUnharmed, HostReachesDisplay
<1> QED BY <1>1, LinkInvariant, PTL

\* However the command parser falls out of step (updateBufferData), it obeys none
\* but the program's own two commands and keeps its cursor on the three digits.
THEOREM NeverHarmed ==
  ASSUME HarmlessTexts, FactoryEEPROM
  PROVE  LinkSpec => []StrayBytesHarmless
<1>1. LinkInv => StrayBytesHarmless
  BY DEF LinkInv, DisplayUnharmed, StrayBytesHarmless
<1> QED BY <1>1, LinkInvariant, PTL

-----------------------------------------------------------------------------
(* The parser comes back into step.                                         *)

\* The bytes that the display has received and not acted upon yet, and the j-th of
\* them from the end.
Pending == Waiting \o wire
Left == Len(Pending)
FromEnd(j) == Pending[Len(Pending) - j]

\* In front of the last k bytes stands a whole frame, or what is left of it: when
\* only those k are left the parser is not in command mode, whatever came first.
OutOfCommandAt(k) ==
  /\ \A j \in k .. k + 2 : j < Left => FromEnd(j) \in Harmless
  /\ k + 3 < Left => FromEnd(k + 3) = 0
  /\ k + 4 < Left => FromEnd(k + 4) = CURSOR_CMD
  /\ Left - k \in 0..3 => commandMode = 0

\* Between the two writes of a whole frame the cursor command comes last; if the
\* frame before was whole too it will be obeyed.
CursorPending ==
  hostPc = "text" /\ whole =>
    /\ 0 < Left => FromEnd(0) = 0
    /\ 1 < Left => FromEnd(1) = CURSOR_CMD
    /\ Left = 0 => commandMode = 0
    /\ settled => /\ Left >= 2 => OutOfCommandAt(2)
                  /\ Left = 1 => commandMode = CURSOR_CMD
                  /\ Left = 0 => cursor = 0

\* After a whole frame its text comes last; if the frame before was whole too the
\* characters that are no longer pending are in their places.
TextPending ==
  hostPc = "cursor" /\ whole =>
    /\ \A j \in 0..2 : j < Left => FromEnd(j) = text[3 - j]
    /\ OutOfCommandAt(0)
    /\ settled => /\ Left >= 5 => OutOfCommandAt(5)
                  /\ Left = 4 => commandMode = CURSOR_CMD
                  /\ Left <= 3 => /\ cursor = (3 - Left) % 3
                                  /\ \A n \in 0..2 : n < 3 - Left => digits[n] = text[n + 1]

StepInv == CursorPending /\ TextPending

\* The program's bytes are bytes.
LEMMA LinkRing == LinkInv => RingOK
<1> SUFFICES ASSUME LinkInv PROVE RingOK
  OBVIOUS
<1>1. HostByte \subseteq Byte
  BY DEF HostByte, Harmless, CURSOR_CMD, DECIMAL_CMD, Byte
<1>2. wire \in Seq(Byte)
  BY <1>1 DEF LinkInv, OnlyHostBytes
<1> QED BY <1>1, <1>2 DEF LinkInv, OnlyHostBytes, RingOK

\* The bytes pending are a sequence.
LEMMA PendingIs ==
  ASSUME RingOK
  PROVE  /\ Pending \in Seq(Byte) /\ Left \in Nat /\ Left = Len(Waiting) + Len(wire)
         /\ Waiting \in Seq(Byte) /\ wire \in Seq(Byte)
         /\ head = tail <=> Waiting = <<>>
<1>1. Waiting \in Seq(Byte) /\ wire \in Seq(Byte) /\ Len(Waiting) = Count
  BY WaitingIs DEF WaitingSeq, RingOK
<1>2. head = tail <=> Count = 0
  BY BufferAssumption DEF Count, RingOK
<1>3. Waiting = <<>> <=> Count = 0
  BY <1>1
<1>4. Pending \in Seq(Byte) /\ Left = Len(Waiting) + Len(wire)
  BY <1>1 DEF Pending, Left
<1> QED BY <1>1, <1>2, <1>3, <1>4

\* A message is appended to what is pending.
LEMMA PendingDeliver ==
  ASSUME RingOK, NEW m \in Seq(Byte), Deliver(m)
  PROVE  /\ Left' = Left + Len(m)
         /\ \A j \in 0 .. Len(m) - 1 : FromEnd(j)' = m[Len(m) - j]
         /\ \A j \in 0 .. Left - 1 : FromEnd(Len(m) + j)' = FromEnd(j)
<1>1. wire = <<>> /\ wire' = m /\ Waiting' = Waiting
  BY DEF Deliver, Idle, ring, Waiting
<1>2. Waiting \in Seq(Byte) /\ Left = Len(Waiting) /\ Len(Waiting) \in Nat /\ Len(m) \in Nat
  BY <1>1, PendingIs
<1>3. Pending = Waiting /\ Pending' = Waiting \o m
  BY <1>1, <1>2 DEF Pending
<1>4. /\ Len(Waiting \o m) = Len(Waiting) + Len(m)
      /\ \A i \in 1 .. Len(Waiting) : (Waiting \o m)[i] = Waiting[i]
      /\ \A i \in 1 .. Len(m) : (Waiting \o m)[Len(Waiting) + i] = m[i]
  BY <1>2
<1>5. Left' = Left + Len(m)
  BY <1>2, <1>3, <1>4 DEF Left
<1>6. ASSUME NEW j \in 0 .. Len(m) - 1 PROVE FromEnd(j)' = m[Len(m) - j]
  <2>1. PICK i \in 1 .. Len(m) : i = Len(m) - j
    BY <1>2
  <2>2. Len(Pending') - j = Len(Waiting) + i
    BY <1>2, <1>3, <1>4, <2>1
  <2> QED BY <1>3, <1>4, <2>1, <2>2 DEF FromEnd
<1>7. ASSUME NEW j \in 0 .. Left - 1 PROVE Pending'[Len(Pending') - (Len(m) + j)] = FromEnd(j)
  <2>a. Len(Waiting) - j \in 1 .. Len(Waiting)
    BY <1>2
  <2>1. PICK i \in 1 .. Len(Waiting) : i = Len(Waiting) - j
    BY <2>a
  <2>2. Len(Pending') - (Len(m) + j) = i
    BY <1>2, <1>3, <1>4, <2>1
  <2> QED BY <1>3, <1>4, <2>1, <2>2 DEF FromEnd
<1> QED BY <1>5, <1>6, <1>7 DEF FromEnd

\* A round of twiReceive that finds room leaves what is pending as it is.
LEMMA PendingPut ==
  ASSUME RingOK, RingOK', twiReceive, head' # head
  PROVE  Pending' = Pending
<1>1. Waiting \in Seq(Byte) /\ wire \in Seq(Byte) /\ wire # <<>> /\ wire' = Tail(wire)
  BY PendingIs DEF twiReceive
<1>2. Head(wire) \in Byte /\ wire = <<Head(wire)>> \o Tail(wire) /\ Tail(wire) \in Seq(Byte)
  BY <1>1, HeadTail
<1>3. Waiting' = Append(Waiting, Head(wire))
  <2>1. Q!Put
    BY PutStep
  <2>2. Len(Waiting') = Len(Waiting) + 1
    <3>1. Len(Waiting) = Count /\ Len(Waiting') = Count'
      BY WaitingIs, WaitingIsPrime DEF WaitingSeq
    <3>2. tail' = tail /\ head' = (head + 1) % BUFFER_SIZE /\ head' # tail
      BY DEF twiReceive
    <3>3. head' = IF head + 1 < BUFFER_SIZE THEN head + 1 ELSE 0
      BY <3>2, BufferAssumption, NextPlace DEF RingOK
    <3>4. Count' = Count + 1
      <4>1. /\ BUFFER_SIZE \in Nat \ {0} /\ head \in 0 .. BUFFER_SIZE - 1
            /\ tail \in 0 .. BUFFER_SIZE - 1
        BY BufferAssumption DEF RingOK
      <4>2. CASE head + 1 < BUFFER_SIZE
        BY <3>2, <3>3, <4>1, <4>2 DEF Count
      <4>3. CASE head + 1 >= BUFFER_SIZE
        BY <3>2, <3>3, <4>1, <4>3 DEF Count
      <4> QED BY <4>1, <4>2, <4>3
    <3> QED BY <3>1, <3>4
  <2> QED BY <1>1, <2>1, <2>2 DEF Q!Put
<1>4. Append(Waiting, Head(wire)) \o Tail(wire) = Waiting \o (<<Head(wire)>> \o Tail(wire))
  BY <1>1, <1>2
<1> QED BY <1>1, <1>2, <1>3, <1>4 DEF Pending

\* The timer's handler takes the first of the bytes pending.
LEMMA PendingTake ==
  ASSUME RingOK, RingOK', TakeByte
  PROVE  /\ Left > 0 /\ Left' = Left - 1 /\ c = FromEnd(Left - 1)
         /\ \A j \in 0 .. Left - 2 : FromEnd(j)' = FromEnd(j)
<1>1. wire = <<>> /\ wire' = <<>> /\ Waiting \in Seq(Byte) /\ Left = Len(Waiting) /\ Left \in Nat
  BY PendingIs DEF TakeByte, Idle
<1>2. Waiting # <<>> /\ Waiting' = Tail(Waiting)
  BY TakeStep DEF Q!Take
<1>3. Pending = Waiting /\ Pending' = Tail(Waiting)
  BY <1>1, <1>2 DEF Pending
<1>4. /\ Len(Waiting) > 0 /\ Len(Tail(Waiting)) = Len(Waiting) - 1
      /\ \A i \in 1 .. Len(Waiting) - 1 : Tail(Waiting)[i] = Waiting[i + 1]
  BY <1>1, <1>2
<1>5. c = Waiting[1]
  <2>1. /\ Count \in Nat /\ Count = Len(Waiting)
        /\ Waiting = [i \in 1 .. Count |-> data[Place(i)]]
    BY WaitingIs DEF WaitingSeq
  <2>2. Place(1) = tail
    BY BufferAssumption DEF Place, RingOK
  <2> QED BY <1>4, <2>1, <2>2 DEF c
<1>6. Left > 0 /\ Left' = Left - 1
  BY <1>1, <1>3, <1>4 DEF Left
<1>7. FromEnd(Left - 1) = c
  <2>1. Len(Pending) - (Left - 1) = 1
    BY <1>1, <1>3
  <2> QED BY <1>3, <1>5, <2>1 DEF FromEnd
<1>8. ASSUME NEW j \in 0 .. Left - 2 PROVE FromEnd(j)' = FromEnd(j)
  <2>1. PICK i \in 1 .. Len(Waiting) - 1 : i = Len(Waiting) - 1 - j
    <3>1. Len(Waiting) - 1 - j \in 1 .. Len(Waiting) - 1
      BY <1>1, <1>4
    <3> QED BY <3>1
  <2>2. Len(Pending') - j = i /\ Len(Pending) - j = i + 1
    BY <1>1, <1>3, <1>4, <2>1
  <2> QED BY <1>3, <1>4, <2>2 DEF FromEnd
<1> QED BY <1>6, <1>7, <1>8

\* Taking a byte moves what stands in front of the last k bytes on by one.
LEMMA TakeOutOfCommand ==
  ASSUME NEW k \in Nat, Left \in Nat, Left > k, Left' = Left - 1, OutOfCommandAt(k),
         \A j \in 0 .. Left - 2 : FromEnd(j)' = FromEnd(j),
         Left - k \in 1..4 => commandMode' = 0
  PROVE  OutOfCommandAt(k)'
<1>1. \A j \in k .. k + 4 : j < Left' => j < Left /\ FromEnd(j)' = FromEnd(j)
  OBVIOUS
<1>2. k + 3 \in k .. k + 4 /\ k + 4 \in k .. k + 4 /\ \A j \in k .. k + 2 : j \in k .. k + 4
  OBVIOUS
<1>3. \A j \in k .. k + 2 : j < Left' => FromEnd(j)' \in Harmless
  BY <1>1, <1>2 DEF OutOfCommandAt
<1>4. k + 3 < Left' => FromEnd(k + 3)' = 0
  BY <1>1, <1>2 DEF OutOfCommandAt
<1>5. k + 4 < Left' => FromEnd(k + 4)' = CURSOR_CMD
  BY <1>1, <1>2 DEF OutOfCommandAt
<1>6. Left' - k \in 0..3 => commandMode' = 0
  OBVIOUS
<1> QED BY <1>3, <1>4, <1>5, <1>6 DEF OutOfCommandAt

\* A frame brings the parser out of command mode: its fourth byte from the end is
\* an argument or a character, and characters follow.
LEMMA CommandEnds ==
  ASSUME NEW k \in Nat, Left \in Nat, OutOfCommandAt(k), c = FromEnd(Left - 1), Timer,
         Left - k \in 1..4, DisplayUnharmed
  PROVE  commandMode' = 0
<1>1. CASE Left - k = 4
  <2>1. c = 0
    <3>1. k + 3 = Left - 1 /\ k + 3 < Left
      BY <1>1
    <3> QED BY <3>1 DEF OutOfCommandAt
  <2>2. ~EnterCommand
    BY <2>1 DEF EnterCommand, Displayable, RESET_CMD
  <2> QED BY <2>1, <2>2 DEF Timer, StoreDigit, Reset, SetDecimals, SetCursor, SetAddress,
             UnknownCommand, SetDigit, Argument
<1>2. CASE Left - k \in 1..3
  <2>1. commandMode = 0
    BY <1>2 DEF OutOfCommandAt
  <2>2. c \in Harmless
    <3>1. Left - 1 \in k .. k + 2 /\ Left - 1 < Left
      BY <1>2
    <3> QED BY <3>1 DEF OutOfCommandAt
  <2>3. ~EnterCommand
    BY <2>2 DEF EnterCommand, Displayable, RESET_CMD, Harmless
  <2> QED BY <2>1, <2>3 DEF Timer, StoreDigit, Reset, SetDecimals, SetCursor, SetAddress,
             UnknownCommand, SetDigit, Argument
<1> QED BY <1>1, <1>2

\* What the parser makes of the bytes of a frame that is in step.
LEMMA ParserSteps ==
  ASSUME Timer, DisplayUnharmed
  PROVE  /\ commandMode = 0 /\ c = CURSOR_CMD => commandMode' = CURSOR_CMD
         /\ commandMode = CURSOR_CMD /\ c = 0 => cursor' = 0 /\ commandMode' = 0
         /\ commandMode = 0 /\ c \in Harmless =>
              cursor' = (cursor + 1) % 3 /\ digits' = [digits EXCEPT ![cursor] = c]
<1>1. ASSUME commandMode = 0, c = CURSOR_CMD PROVE commandMode' = CURSOR_CMD
  <2>1. EnterCommand
    BY <1>1 DEF Timer, StoreDigit, Reset, SetDecimals, SetCursor, SetAddress,
       UnknownCommand, SetDigit, Argument, Displayable, CURSOR_CMD, RESET_CMD, BLANK_CMD
  <2> QED BY <1>1, <2>1 DEF EnterCommand
<1>2. ASSUME commandMode = CURSOR_CMD, c = 0 PROVE cursor' = 0 /\ commandMode' = 0
  <2>1. SetCursor
    BY <1>2 DEF Timer, StoreDigit, Reset, EnterCommand, SetDecimals, SetAddress,
       UnknownCommand, SetDigit, CURSOR_CMD, DECIMAL_CMD, TWI_ADDRESS_CMD, DIGIT_CMD
  <2> QED BY <1>2, <2>1 DEF SetCursor, Argument
<1>3. ASSUME commandMode = 0, c \in Harmless
      PROVE  cursor' = (cursor + 1) % 3 /\ digits' = [digits EXCEPT ![cursor] = c]
  <2>1. StoreDigit
    BY <1>3 DEF Timer, Reset, EnterCommand, SetDecimals, SetCursor, SetAddress,
       UnknownCommand, SetDigit, Argument, Displayable, Harmless, RESET_CMD
  <2> QED BY <2>1 DEF StoreDigit, DisplayUnharmed
<1> QED BY <1>1, <1>2, <1>3

\* A zero ends every command mode and starts none.
LEMMA ZeroEnds == ASSUME Timer, c = 0 PROVE commandMode' = 0
<1>1. ~EnterCommand
  BY DEF EnterCommand, Displayable, RESET_CMD
<1> QED BY <1>1 DEF Timer, StoreDigit, Reset, SetDecimals, SetCursor, SetAddress,
           UnknownCommand, SetDigit, Argument

\* A step that takes no byte and loses none.
LEMMA QuietStep ==
  ASSUME StepInv, Pending' = Pending, UNCHANGED <<commandMode, cursor, digits, text, hostPc>>,
         whole' => whole, settled' => settled
  PROVE  StepInv'
<1>1. Left' = Left /\ \A j : FromEnd(j)' = FromEnd(j)
  BY DEF Left, FromEnd
<1>2. \A k : OutOfCommandAt(k)' <=> OutOfCommandAt(k)
  BY <1>1 DEF OutOfCommandAt
<1> HIDE DEF Left, FromEnd, OutOfCommandAt
<1>3. CursorPending'
  BY <1>1, <1>2 DEF StepInv, CursorPending
<1>4. TextPending'
  BY <1>1, <1>2 DEF StepInv, TextPending
<1> QED BY <1>3, <1>4 DEF StepInv

\* A step that damages the frame promises nothing.
LEMMA DamagedStep == ASSUME ~whole' PROVE StepInv'
BY DEF StepInv, CursorPending, TextPending

\* The timer's handler takes the parser one byte on through a frame.
LEMMA ParseStep ==
  ASSUME LinkInv, LinkInv', StepInv, Timer, UNCHANGED <<hostPc, text>>,
         whole' => whole, settled' => settled
  PROVE  StepInv'
<1>1. TakeByte
  BY DEF Timer, StoreDigit, Reset, EnterCommand, Argument, SetDecimals,
         SetCursor, SetAddress, UnknownCommand, SetDigit
<1>2. RingOK /\ RingOK' /\ DisplayUnharmed
  BY LinkRing, PTL DEF LinkInv
<1>3. /\ Left \in Nat /\ Left > 0 /\ Left' = Left - 1 /\ c = FromEnd(Left - 1)
      /\ \A j \in 0 .. Left - 2 : FromEnd(j)' = FromEnd(j)
  BY <1>1, <1>2, PendingIs, PendingTake
<1> HIDE DEF Left, FromEnd, c
<1>4. ASSUME NEW k \in Nat, OutOfCommandAt(k), Left > k PROVE OutOfCommandAt(k)'
  <2>1. Left - k \in 1..4 => commandMode' = 0
    BY <1>2, <1>3, <1>4, CommandEnds
  <2> QED BY <1>3, <1>4, <2>1, TakeOutOfCommand
<1>5. CursorPending'
  <2> SUFFICES ASSUME hostPc = "text", whole
               PROVE  /\ 0 < Left' => FromEnd(0)' = 0
                      /\ 1 < Left' => FromEnd(1)' = CURSOR_CMD
                      /\ Left' = 0 => commandMode' = 0
                      /\ settled => /\ Left' >= 2 => OutOfCommandAt(2)'
                                    /\ Left' = 1 => commandMode' = CURSOR_CMD
                                    /\ Left' = 0 => cursor' = 0
    BY DEF CursorPending
  <2>1. /\ 0 < Left => FromEnd(0) = 0
        /\ 1 < Left => FromEnd(1) = CURSOR_CMD
        /\ Left = 0 => commandMode = 0
        /\ settled => /\ Left >= 2 => OutOfCommandAt(2)
                      /\ Left = 1 => commandMode = CURSOR_CMD
                      /\ Left = 0 => cursor = 0
    BY DEF StepInv, CursorPending
  <2>2. (0 < Left' => FromEnd(0)' = 0) /\ (1 < Left' => FromEnd(1)' = CURSOR_CMD)
    BY <1>3, <2>1
  <2>3. Left' = 0 => c = 0
    BY <1>3, <2>1
  <2>4. settled /\ Left' >= 2 => OutOfCommandAt(2)'
    BY <1>3, <1>4, <2>1
  <2>5. settled /\ Left' = 1 => commandMode' = CURSOR_CMD
    <3> SUFFICES ASSUME settled, Left' = 1 PROVE commandMode' = CURSOR_CMD
      OBVIOUS
    <3>1. Left = 2 /\ c = CURSOR_CMD /\ Left - 2 \in 0..3 /\ OutOfCommandAt(2)
      BY <1>3, <2>1
    <3>2. commandMode = 0
      BY <3>1 DEF OutOfCommandAt
    <3> QED BY <1>2, <3>1, <3>2, ParserSteps
  <2>6. settled /\ Left' = 0 => cursor' = 0
    BY <1>2, <1>3, <2>1, <2>3, ParserSteps
  <2> QED BY <2>2, <2>3, <2>4, <2>5, <2>6, ZeroEnds
<1>6. TextPending'
  <2> SUFFICES ASSUME hostPc = "cursor", whole
               PROVE  /\ \A j \in 0..2 : j < Left' => FromEnd(j)' = text[3 - j]
                      /\ OutOfCommandAt(0)'
                      /\ settled =>
                           /\ Left' >= 5 => OutOfCommandAt(5)'
                           /\ Left' = 4 => commandMode' = CURSOR_CMD
                           /\ Left' <= 3 =>
                                /\ cursor' = (3 - Left') % 3
                                /\ \A n \in 0..2 : n < 3 - Left' => digits'[n] = text[n + 1]
    BY DEF TextPending
  <2>1. /\ \A j \in 0..2 : j < Left => FromEnd(j) = text[3 - j]
        /\ OutOfCommandAt(0)
        /\ settled => /\ Left >= 5 => OutOfCommandAt(5)
                      /\ Left = 4 => commandMode = CURSOR_CMD
                      /\ Left <= 3 => /\ cursor = (3 - Left) % 3
                                      /\ \A n \in 0..2 : n < 3 - Left => digits[n] = text[n + 1]
    BY DEF StepInv, TextPending
  <2>2. \A j \in 0..2 : j < Left' => FromEnd(j)' = text[3 - j]
    BY <1>3, <2>1
  <2>3. OutOfCommandAt(0)'
    BY <1>3, <1>4, <2>1
  <2>4. settled /\ Left' >= 5 => OutOfCommandAt(5)'
    BY <1>3, <1>4, <2>1
  <2>5. settled /\ Left' = 4 => commandMode' = CURSOR_CMD
    <3> SUFFICES ASSUME settled, Left' = 4 PROVE commandMode' = CURSOR_CMD
      OBVIOUS
    <3>1. Left = 5 /\ c = FromEnd(4) /\ Left - 5 \in 0..3 /\ 0 + 4 = 4 /\ OutOfCommandAt(5)
      BY <1>3, <2>1
    <3>2. commandMode = 0
      BY <3>1 DEF OutOfCommandAt
    <3>3. c = CURSOR_CMD
      BY <2>1, <3>1 DEF OutOfCommandAt
    <3> QED BY <1>2, <3>2, <3>3, ParserSteps
  <2>6. ASSUME settled, Left' = 3
        PROVE  cursor' = (3 - Left') % 3 /\ \A n \in 0..2 : ~(n < 3 - Left')
    <3>1. Left = 4 /\ c = FromEnd(3) /\ 0 + 3 = 3 /\ commandMode = CURSOR_CMD
      BY <1>3, <2>1, <2>6
    <3>2. c = 0
      BY <2>1, <3>1 DEF OutOfCommandAt
    <3>3. cursor' = 0
      BY <1>2, <3>1, <3>2, ParserSteps
    <3> QED BY <2>6, <3>3
  <2>7. ASSUME settled, Left' < 3
        PROVE  /\ cursor' = (3 - Left') % 3
               /\ \A n \in 0..2 : n < 3 - Left' => digits'[n] = text[n + 1]
    <3>1. Left \in 1..3 /\ Left - 1 \in 0..2 /\ Left - 0 \in 0..3
      BY <1>3, <2>7
    <3>2. commandMode = 0
      BY <2>1, <3>1 DEF OutOfCommandAt
    <3>3. c = text[3 - (Left - 1)]
      BY <1>3, <2>1, <3>1
    <3>4. cursor = 3 - Left /\ cursor \in 0..2 /\ 3 - (Left - 1) = cursor + 1
      BY <2>1, <2>7, <3>1
    <3>5. c \in Harmless
      BY <3>3, <3>4 DEF LinkInv, OnlyHostBytes
    <3>6. cursor' = (cursor + 1) % 3 /\ digits' = [digits EXCEPT ![cursor] = c]
      BY <1>2, <3>2, <3>5, ParserSteps
    <3>7. cursor' = (3 - Left') % 3
      BY <1>3, <3>1, <3>4, <3>6
    <3>8. ASSUME NEW n \in 0..2, n < 3 - Left' PROVE digits'[n] = text[n + 1]
      <4>1. n = cursor \/ n < 3 - Left
        BY <1>3, <3>1, <3>4, <3>8
      <4>2. digits \in [0..2 -> 0..127]
        BY <1>2 DEF DisplayUnharmed
      <4>3. CASE n = cursor
        BY <3>3, <3>4, <3>6, <4>2, <4>3
      <4>4. CASE n # cursor
        BY <2>1, <2>7, <3>1, <3>6, <4>1, <4>2, <4>4
      <4> QED BY <4>3, <4>4
    <3> QED BY <3>7, <3>8
  <2> QED BY <1>3, <2>2, <2>3, <2>4, <2>5, <2>6, <2>7
<1> QED BY <1>5, <1>6 DEF StepInv

\* A message behind what is pending moves it n bytes away from the end.
LEMMA DeliverOutOfCommand ==
  ASSUME NEW k \in Nat, NEW n \in Nat, Left \in Nat, Left' = Left + n, OutOfCommandAt(k),
         \A j \in 0 .. Left - 1 : FromEnd(n + j)' = FromEnd(j), commandMode' = commandMode
  PROVE  OutOfCommandAt(k + n)'
<1>1. ASSUME NEW j \in k .. k + 4, j + n < Left' PROVE j < Left /\ FromEnd(j + n)' = FromEnd(j)
  <2>1. j \in 0 .. Left - 1 /\ n + j = j + n
    BY <1>1
  <2> QED BY <1>1, <2>1
<1>2. ASSUME NEW j \in k + n .. k + n + 2, j < Left' PROVE FromEnd(j)' \in Harmless
  <2>1. PICK i \in k .. k + 2 : j = i + n
    <3>1. j - n \in k .. k + 2 /\ j = (j - n) + n
      OBVIOUS
    <3> QED BY <3>1
  <2>2. i \in k .. k + 4 /\ i + n < Left'
    BY <1>2, <2>1
  <2> QED BY <1>1, <2>1, <2>2 DEF OutOfCommandAt
<1>3. k + n + 3 < Left' => FromEnd(k + n + 3)' = 0
  <2>1. k + n + 3 = (k + 3) + n /\ k + 3 \in k .. k + 4
    OBVIOUS
  <2> QED BY <1>1, <2>1 DEF OutOfCommandAt
<1>4. k + n + 4 < Left' => FromEnd(k + n + 4)' = CURSOR_CMD
  <2>1. k + n + 4 = (k + 4) + n /\ k + 4 \in k .. k + 4
    OBVIOUS
  <2> QED BY <1>1, <2>1 DEF OutOfCommandAt
<1>5. Left' - (k + n) \in 0..3 => commandMode' = 0
  <2>1. Left' - (k + n) = Left - k
    OBVIOUS
  <2> QED BY <2>1 DEF OutOfCommandAt
<1> QED BY <1>2, <1>3, <1>4, <1>5 DEF OutOfCommandAt

\* The write of the cursor begins a frame.
LEMMA CursorWritten ==
  ASSUME LinkInv, StepInv, BeginFrame, Deliver(<<CURSOR_CMD, 0>>)
  PROVE  StepInv'
<1> DEFINE m == <<CURSOR_CMD, 0>>
<1>1. m \in Seq(Byte) /\ Len(m) = 2 /\ m[2] = 0 /\ m[1] = CURSOR_CMD
  BY DEF CURSOR_CMD, Byte
<1> HIDE DEF m
<1>2. RingOK /\ Left \in Nat
  BY LinkRing, PendingIs
<1>3. Deliver(m)
  BY DEF m
<1>4. /\ Left' = Left + 2
      /\ \A j \in 0..1 : FromEnd(j)' = m[2 - j]
      /\ \A j \in 0 .. Left - 1 : FromEnd(2 + j)' = FromEnd(j)
  <2>1. /\ Left' = Left + Len(m)
        /\ \A j \in 0 .. Len(m) - 1 : FromEnd(j)' = m[Len(m) - j]
        /\ \A j \in 0 .. Left - 1 : FromEnd(Len(m) + j)' = FromEnd(j)
    BY <1>1, <1>2, <1>3, PendingDeliver
  <2>2. Len(m) - 1 = 1
    BY <1>1
  <2> HIDE DEF Left, FromEnd
  <2> QED BY <1>1, <2>1, <2>2
<1>5. commandMode' = commandMode /\ hostPc = "cursor" /\ hostPc' = "text" /\ settled' = whole
  BY DEF Deliver, BeginFrame
<1> HIDE DEF Left, FromEnd
<1>6. FromEnd(0)' = 0 /\ FromEnd(1)' = CURSOR_CMD
  BY <1>1, <1>4
<1>7. settled' => OutOfCommandAt(2)'
  <2> SUFFICES ASSUME whole PROVE OutOfCommandAt(2)'
    BY <1>5
  <2>1. OutOfCommandAt(0)
    BY <1>5 DEF StepInv, TextPending
  <2>2. OutOfCommandAt(0 + 2)'
    BY <1>2, <1>4, <1>5, <2>1, DeliverOutOfCommand
  <2>3. 0 + 2 = 2
    OBVIOUS
  <2> QED BY <2>2, <2>3
<1>8. Left' >= 2
  BY <1>2, <1>4
<1>9. CursorPending'
  BY <1>2, <1>4, <1>6, <1>7, <1>8 DEF CursorPending
<1> QED BY <1>5, <1>9 DEF StepInv, TextPending

\* The write of the text completes it.
LEMMA TextWritten ==
  ASSUME LinkInv, StepInv, hostPc = "text", hostPc' = "cursor", whole' = whole,
         UNCHANGED <<text, settled>>, Deliver(text)
  PROVE  StepInv'
<1>1. PICK m : m = text
  OBVIOUS
<1>2. /\ m \in [1..3 -> Harmless] /\ m \in Seq(Byte) /\ Len(m) = 3
  <2>1. m \in [1..3 -> Harmless]
    BY <1>1 DEF LinkInv, OnlyHostBytes
  <2>2. m \in [1..3 -> Byte]
    BY <2>1 DEF Harmless, Byte
  <2>3. m \in Seq(Byte)
    BY <2>2, ArrayIsSeq
  <2>4. Len(m) = 3
    BY <2>2
  <2> QED BY <2>1, <2>3, <2>4
<1>3. RingOK /\ Left \in Nat
  BY LinkRing, PendingIs
<1>4. /\ Left' = Left + 3
      /\ \A j \in 0..2 : FromEnd(j)' = m[3 - j]
      /\ \A j \in 0 .. Left - 1 : FromEnd(3 + j)' = FromEnd(j)
  <2>1. /\ Left' = Left + Len(m)
        /\ \A j \in 0 .. Len(m) - 1 : FromEnd(j)' = m[Len(m) - j]
        /\ \A j \in 0 .. Left - 1 : FromEnd(Len(m) + j)' = FromEnd(j)
    BY <1>1, <1>2, <1>3, PendingDeliver
  <2>2. Len(m) - 1 = 2
    BY <1>2
  <2> HIDE DEF Left, FromEnd
  <2> QED BY <1>2, <2>1, <2>2
<1>5. UNCHANGED <<commandMode, cursor, digits>>
  BY DEF Deliver, display
<1> HIDE DEF Left, FromEnd
<1> SUFFICES ASSUME whole PROVE TextPending'
  BY DEF StepInv, CursorPending, TextPending
<1>6. /\ 0 < Left => FromEnd(0) = 0
      /\ 1 < Left => FromEnd(1) = CURSOR_CMD
      /\ Left = 0 => commandMode = 0
      /\ settled => /\ Left >= 2 => OutOfCommandAt(2)
                    /\ Left = 1 => commandMode = CURSOR_CMD
                    /\ Left = 0 => cursor = 0
  BY DEF StepInv, CursorPending
<1>7. OutOfCommandAt(0)'
  <2>1. \A j \in 0..2 : FromEnd(j)' \in Harmless
    BY <1>2, <1>4
  <2>2. 3 < Left' => FromEnd(3)' = 0
    <3>1. 3 < Left' => 0 \in 0 .. Left - 1 /\ 3 + 0 = 3 /\ 0 < Left
      BY <1>3, <1>4
    <3> QED BY <1>4, <1>6, <3>1
  <2>3. 4 < Left' => FromEnd(4)' = CURSOR_CMD
    <3>1. 4 < Left' => 1 \in 0 .. Left - 1 /\ 3 + 1 = 4 /\ 1 < Left
      BY <1>3, <1>4
    <3> QED BY <1>4, <1>6, <3>1
  <2>4. Left' - 0 \in 0..3 => commandMode' = 0
    BY <1>3, <1>4, <1>5, <1>6
  <2>5. 0 + 2 = 2 /\ 0 + 3 = 3 /\ 0 + 4 = 4
    OBVIOUS
  <2> QED BY <2>1, <2>2, <2>3, <2>4, <2>5 DEF OutOfCommandAt
<1>8. settled /\ Left' >= 5 => OutOfCommandAt(5)'
  <2> SUFFICES ASSUME settled, Left' >= 5 PROVE OutOfCommandAt(5)'
    OBVIOUS
  <2>1. OutOfCommandAt(2)
    BY <1>3, <1>4, <1>6
  <2>2. OutOfCommandAt(2 + 3)'
    BY <1>3, <1>4, <1>5, <2>1, DeliverOutOfCommand
  <2>3. 2 + 3 = 5
    OBVIOUS
  <2> QED BY <2>2, <2>3
<1>9. settled => /\ Left' = 4 => commandMode' = CURSOR_CMD
                 /\ Left' <= 3 => cursor' = 0 /\ Left' = 3
  BY <1>3, <1>4, <1>5, <1>6
<1>10. (3 - 3) % 3 = 0 /\ \A n \in 0..2 : ~(n < 3 - 3)
  OBVIOUS
<1>11. \A j \in 0..2 : FromEnd(j)' = text'[3 - j]
  BY <1>1, <1>4
<1> QED BY <1>7, <1>8, <1>9, <1>10, <1>11 DEF TextPending

\* Every step of the program and of the display keeps the parser in step.
LEMMA InStepStep ==
  ASSUME LinkInv, LinkInv', StepInv, [LinkNext]_linkVars
  PROVE  StepInv'
<1>1. ASSUME NEW m, NEW intact, Write(m, intact), ~(Deliver(m) /\ whole' = intact)
      PROVE  StepInv'
  BY <1>1, DamagedStep DEF Write
<1>2. CASE SetupCursor \/ SetupDecimals \/ HostRestarts
  <2>1. ~whole'
    BY <1>2 DEF SetupCursor, SetupDecimals, HostRestarts, Write
  <2> QED BY <2>1, DamagedStep
<1>3. CASE WriteCursor
  BY <1>1, <1>3, CursorWritten DEF WriteCursor
<1>4. CASE WriteText
  <2>1. CASE Deliver(text) /\ whole' = whole
    BY <1>4, <2>1, TextWritten DEF WriteText
  <2>2. CASE ~(Deliver(text) /\ whole' = whole)
    <3>1. ~whole'
      BY <1>4, <2>2 DEF WriteText, Write
    <3> QED BY <3>1, DamagedStep
  <2> QED BY <2>1, <2>2
<1>5. CASE Display
  <2>1. /\ UNCHANGED <<hostPc, text>> /\ (whole' => whole) /\ (settled' => settled)
        /\ whole' => ~Damaging
    BY <1>5 DEF Display
  <2>2. CASE Timer
    BY <2>1, <2>2, ParseStep
  <2>3. CASE twiReceive
    <3>1. CASE head' = head
      BY <2>1, <2>3, <3>1, DamagedStep DEF Damaging, Overrun
    <3>2. CASE head' # head
      <4>1. RingOK /\ RingOK'
        BY LinkRing, PTL
      <4>2. Pending' = Pending
        BY <2>3, <3>2, <4>1, PendingPut
      <4> QED BY <2>1, <2>3, <4>2, QuietStep DEF twiReceive, display
    <3> QED BY <3>1, <3>2
  <2>4. CASE BootTWI \/ setupTimer
    <3>1. UNCHANGED <<wire, data, head, tail, commandMode, cursor, digits>>
      BY <2>4 DEF BootTWI, setupTimer, ring, display
    <3>2. Pending' = Pending
      BY <3>1 DEF Pending, Waiting
    <3> QED BY <2>1, <3>1, <3>2, QuietStep
  <2>5. CASE BootDigits \/ PowerLoss
    BY <2>1, <2>5, DamagedStep DEF Damaging
  <2>6. CASE BeginTWI
    BY <2>6 DEF BeginTWI, LinkInv, DisplayUnharmed
  <2> QED BY <1>5, <2>2, <2>3, <2>4, <2>5, <2>6 DEF Display, Setup
<1>6. CASE UNCHANGED linkVars
  <2>1. UNCHANGED <<wire, data, head, tail, commandMode, cursor, digits, hostPc, text, whole, settled>>
    BY <1>6 DEF linkVars, vars, host, ring, display
  <2>2. Pending' = Pending
    BY <2>1 DEF Pending, Waiting
  <2> QED BY <2>1, <2>2, QuietStep
<1> QED BY <1>2, <1>3, <1>4, <1>5, <1>6 DEF LinkNext, Host

\* Whatever was cut, dropped or garbled before, two whole frames of main's loop bring
\* updateBufferData back into step, and once it has acted upon the second the digits
\* are the text that GetSegmentLed returned.
THEOREM ParserRecovers ==
  ASSUME HarmlessTexts, FactoryEEPROM
  PROVE  LinkSpec => []BackInStep
<1>1. LinkInit => StepInv
  BY DEF LinkInit, StepInv, CursorPending, TextPending
<1>2. LinkInv /\ StepInv => BackInStep
  <2> SUFFICES ASSUME LinkInv, StepInv, hostPc = "cursor", whole, settled, Idle, head = tail
               PROVE  /\ commandMode = 0 /\ cursor = 0
                      /\ \A n \in 0..2 : digits[n] = text[n + 1]
    BY DEF BackInStep
  <2>1. Left = 0
    <3>1. RingOK
      BY LinkRing
    <3>2. Waiting = <<>> /\ wire = <<>> /\ Left = Len(Waiting) + Len(wire)
      BY <3>1, PendingIs DEF Idle
    <3> QED BY <3>2
  <2> HIDE DEF Left
  <2>2. Left - 0 \in 0..3 /\ Left <= 3 /\ (3 - Left) % 3 = 0 /\ \A n \in 0..2 : n < 3 - Left
    BY <2>1
  <2>3. commandMode = 0
    BY <2>2 DEF StepInv, TextPending, OutOfCommandAt
  <2> QED BY <2>2, <2>3 DEF StepInv, TextPending
<1>3. LinkInv /\ LinkInv' /\ StepInv /\ [LinkNext]_linkVars => StepInv'
  BY InStepStep
<1> QED BY <1>1, <1>2, <1>3, LinkInvariant, PTL DEF LinkSpec
=============================================================================
