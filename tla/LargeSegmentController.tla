----------------------- MODULE LargeSegmentController -----------------------
(***************************************************************************)
(* The big display's firmware (src/large segment controller): set-up, the  *)
(* loop that shifts the digits out, and the two interrupt handlers that    *)
(* run between any two of the loop's steps: twiReceive, which puts the     *)
(* bytes of an I2C message into a ring buffer, and the timer's, which      *)
(* takes one byte out and acts upon it.  A handler is not interrupted by   *)
(* another one, only by a loss of power, which spares the EEPROM.          *)
(***************************************************************************)
EXTENDS Integers, Sequences

CONSTANTS
  BUFFER_SIZE,     \* places in the ring buffer
  Messages,        \* the I2C messages a host may send
  ErasedEEPROM,    \* what the EEPROM may hold before the first start
  MaxMessages,     \* bound: how many messages are sent
  MaxPowerLosses   \* bound: how often the power fails

Byte == 0 .. 255

ASSUME BufferAssumption == BUFFER_SIZE \in Nat \ {0, 1}
ASSUME MessagesAssumption == Messages \subseteq Seq(Byte)
ASSUME EEPROMAssumption == ErasedEEPROM \subseteq Byte
ASSUME BoundsAssumption == MaxMessages \in Nat /\ MaxPowerLosses \in Nat

\* Mutant: the small displays' factory address.
TWI_ADDRESS_SMALL == 113               \* 0x71

TWI_ADDRESS_DEFAULT == 97              \* 0x61
RESET_CMD       == 118                 \* 0x76
DECIMAL_CMD     == 119                 \* 0x77
BLANK_CMD       == 120                 \* 0x78, 'x'
CURSOR_CMD      == 121                 \* 0x79
DIGIT_CMD       == <<123, 124, 125>>   \* DIGIT1_CMD, DIGIT2_CMD, DIGIT3_CMD
TWI_ADDRESS_CMD == 128                 \* 0x80

VARIABLES
  pc,            \* where setup() or loop() is
  x,             \* displaySegments' loop variable
  register,      \* the three bytes in the shift registers
  latched,       \* the three bytes the display shows
  data, head, tail,           \* buffer
  digits, decimals, cursor,   \* display
  commandMode,
  wire,          \* bytes Wire.available() counts: twiReceive runs until none is left
  isr,           \* "begin": the timer's handler is between EEPROM.write and setupTWI
  eeprom,        \* EEPROM[TWI_ADDRESS_ADDRESS]
  twiAddress,    \* the address Wire listens on, 0 for none
  sent, failures \* messages sent and power failures so far

ring    == <<data, head, tail>>
display == <<digits, decimals, cursor>>
loopVars == <<pc, x, register, latched>>
env     == <<sent, failures>>
vars    == <<loopVars, ring, display, commandMode, wire, isr, eeprom, twiAddress, env>>

Labels == {"setupTWI", "setupTimer", "digits", "show", "latch"}
Glyph == [raw : BOOLEAN, bits : 0 .. 127]
Dark  == [raw |-> FALSE, bits |-> 32]

TypeOK ==
  /\ pc \in Labels
  /\ x \in 0 .. 2
  /\ register \in [1..3 -> Glyph] /\ latched \in [1..3 -> Glyph]
  /\ data \in [0 .. BUFFER_SIZE - 1 -> Byte]
  /\ head \in 0 .. BUFFER_SIZE - 1 /\ tail \in 0 .. BUFFER_SIZE - 1
  /\ digits \in [0..2 -> Byte]
  /\ decimals \in Byte
  /\ cursor \in 0 .. 3
  /\ commandMode \in Byte
  /\ wire \in Seq(Byte)
  /\ isr \in {"none", "begin"}
  /\ eeprom \in Byte
  /\ twiAddress \in 0 .. 127
  /\ sent \in 0 .. MaxMessages /\ failures \in 0 .. MaxPowerLosses

\* Static storage is zero; the registers power up with anything, here blanks.
Init ==
  /\ pc = "setupTWI" /\ x = 0
  /\ register = <<Dark, Dark, Dark>> /\ latched = <<Dark, Dark, Dark>>
  /\ data = [i \in 0 .. BUFFER_SIZE - 1 |-> 0] /\ head = 0 /\ tail = 0
  /\ digits = [i \in 0..2 |-> 0] /\ decimals = 0 /\ cursor = 0
  /\ commandMode = 0
  /\ wire = <<>> /\ isr = "none"
  /\ eeprom \in ErasedEEPROM
  /\ twiAddress = 0
  /\ sent = 0 /\ failures = 0

\* No handler is running, so the loop may go on or a handler may start.
Idle == wire = <<>> /\ isr = "none"

-----------------------------------------------------------------------------
(* setup()                                                                  *)

ValidAddress(a) == a \in 1 .. 127

\* Mutant: the invalid address is left in the EEPROM.
setupTWINoRepair ==
  /\ twiAddress' = IF ValidAddress(eeprom) THEN eeprom ELSE TWI_ADDRESS_DEFAULT
  /\ UNCHANGED eeprom

\* setupTWI(): an address that is not valid is replaced, in the EEPROM too.
setupTWI ==
  /\ eeprom' = IF ValidAddress(eeprom) THEN eeprom ELSE TWI_ADDRESS_DEFAULT
  /\ twiAddress' = eeprom'

BootTWI ==
  /\ pc = "setupTWI"
  /\ setupTWI
  /\ pc' = "setupTimer"
  /\ UNCHANGED <<x, register, latched, ring, display, commandMode, wire, isr, env>>

\* From here on the timer's handler runs, before the digits are set.
setupTimer ==
  /\ pc = "setupTimer" /\ Idle
  /\ pc' = "digits"
  /\ UNCHANGED <<x, register, latched, ring, display, commandMode, wire, isr,
                 eeprom, twiAddress, env>>

\* display.digits[...] = '1', '2', '3'
BootDigits ==
  /\ pc = "digits" /\ Idle
  /\ digits' = [i \in 0..2 |-> 49 + i]
  /\ pc' = "show"
  /\ UNCHANGED <<x, register, latched, ring, decimals, cursor, commandMode,
                 wire, isr, eeprom, twiAddress, env>>

-----------------------------------------------------------------------------
(* loop()                                                                   *)

\* What a digit lights: its low bits in raw mode, else their characterArray entry.
SegmentsOf(digit) == [raw |-> digit >= 128, bits |-> digit % 128]

\* Mutant: the digits are shifted out in the wrong order.
displaySegmentReversed ==
  /\ pc = "show" /\ Idle
  /\ register' = <<SegmentsOf(digits[x]), register[1], register[2]>>
  /\ x' = (x + 1) % 3
  /\ pc' = IF x = 2 THEN "latch" ELSE "show"
  /\ UNCHANGED <<latched, ring, display, commandMode, wire, isr, eeprom, twiAddress, env>>

\* One round of displaySegments' loop: postSegment shifts a byte into the chain.
displaySegment ==
  /\ pc = "show" /\ Idle
  /\ register' = <<SegmentsOf(digits[2 - x]), register[1], register[2]>>
  /\ x' = (x + 1) % 3
  /\ pc' = IF x = 2 THEN "latch" ELSE "show"
  /\ UNCHANGED <<latched, ring, display, commandMode, wire, isr, eeprom, twiAddress, env>>

\* The rising edge of the latch, and delay(100).
latch ==
  /\ pc = "latch" /\ Idle
  /\ latched' = register
  /\ pc' = "show"
  /\ UNCHANGED <<x, register, ring, display, commandMode, wire, isr, eeprom, twiAddress, env>>

-----------------------------------------------------------------------------
(* twiReceive()                                                             *)

\* A message for this display has arrived and the handler is called.
Deliver(m) ==
  /\ twiAddress # 0 /\ Idle
  /\ wire' = m
  /\ UNCHANGED <<loopVars, ring, display, commandMode, isr, eeprom, twiAddress, failures>>

Receive(m) == Deliver(m) /\ sent < MaxMessages /\ sent' = sent + 1

\* Mutants: the index does not wrap; a full buffer is overwritten.
twiReceiveNoWrap ==
  /\ wire # <<>>
  /\ wire' = Tail(wire)
  /\ \/ /\ head + 1 # tail
        /\ data' = [data EXCEPT ![head] = Head(wire)]
        /\ head' = head + 1
     \/ head + 1 = tail /\ UNCHANGED <<data, head>>
  /\ UNCHANGED <<loopVars, tail, display, commandMode, isr, eeprom, twiAddress, env>>

twiReceiveOverwrite ==
  /\ wire # <<>>
  /\ wire' = Tail(wire)
  /\ data' = [data EXCEPT ![head] = Head(wire)]
  /\ head' = (head + 1) % BUFFER_SIZE
  /\ UNCHANGED <<loopVars, tail, display, commandMode, isr, eeprom, twiAddress, env>>

\* One round of its loop: a byte is stored unless the buffer is full.
twiReceive ==
  LET i == (head + 1) % BUFFER_SIZE IN
  /\ wire # <<>>
  /\ wire' = Tail(wire)
  /\ \/ i # tail /\ data' = [data EXCEPT ![head] = Head(wire)] /\ head' = i
     \/ i = tail /\ UNCHANGED <<data, head>>
  /\ UNCHANGED <<loopVars, tail, display, commandMode, isr, eeprom, twiAddress, env>>

-----------------------------------------------------------------------------
(* ISR(TIMER1_COMPA_vect) and updateBufferData()                            *)

\* The handler finds data and takes the oldest byte.
c == data[tail]

TakeByte ==
  /\ pc \notin {"setupTWI", "setupTimer"} /\ Idle
  /\ head # tail
  /\ tail' = (tail + 1) % BUFFER_SIZE
  /\ UNCHANGED <<loopVars, data, head, wire, env>>

Displayable == c < RESET_CMD \/ c = BLANK_CMD

\* A character goes to the digit under the cursor.  There is no digits[3]: the
\* byte behind the array is display.decimals.
StoreDigit ==
  /\ TakeByte
  /\ commandMode = 0 /\ Displayable
  /\ \/ cursor <= 2 /\ digits' = [digits EXCEPT ![cursor] = c] /\ UNCHANGED decimals
     \/ cursor = 3 /\ decimals' = c /\ UNCHANGED digits
  /\ cursor' = (cursor + 1) % 3
  /\ UNCHANGED <<commandMode, isr, eeprom, twiAddress>>

Reset ==
  /\ TakeByte
  /\ commandMode = 0 /\ c = RESET_CMD
  /\ digits' = [i \in 0..2 |-> BLANK_CMD] /\ decimals' = 0 /\ cursor' = 0
  /\ UNCHANGED <<commandMode, isr, eeprom, twiAddress>>

EnterCommand ==
  /\ TakeByte
  /\ commandMode = 0 /\ ~Displayable /\ c # RESET_CMD
  /\ commandMode' = c
  /\ UNCHANGED <<display, isr, eeprom, twiAddress>>

\* The argument of a command, whatever the command.
Argument == TakeByte /\ commandMode # 0 /\ commandMode' = 0

SetDecimals ==
  /\ Argument /\ commandMode = DECIMAL_CMD
  /\ decimals' = c
  /\ UNCHANGED <<digits, cursor, isr, eeprom, twiAddress>>

\* Mutant: the cursor is masked instead of checked.
SetCursorMasked ==
  /\ Argument /\ commandMode = CURSOR_CMD
  /\ cursor' = c % 4
  /\ UNCHANGED <<digits, decimals, isr, eeprom, twiAddress>>

SetCursor ==
  /\ Argument /\ commandMode = CURSOR_CMD
  /\ cursor' = IF c <= 3 THEN c ELSE cursor
  /\ UNCHANGED <<digits, decimals, isr, eeprom, twiAddress>>

SetDigit(i) ==
  /\ Argument /\ commandMode = DIGIT_CMD[i + 1]
  /\ digits' = [digits EXCEPT ![i] = IF c >= 128 THEN c ELSE c + 128]
  /\ UNCHANGED <<decimals, cursor, isr, eeprom, twiAddress>>

\* EEPROM.write; the handler goes on with setupTWI.
SetAddress ==
  /\ Argument /\ commandMode = TWI_ADDRESS_CMD
  /\ eeprom' = c
  /\ isr' = "begin"
  /\ UNCHANGED <<display, twiAddress>>

BeginTWI ==
  /\ isr = "begin"
  /\ setupTWI
  /\ isr' = "none"
  /\ UNCHANGED <<loopVars, ring, display, commandMode, wire, env>>

UnknownCommand ==
  /\ Argument
  /\ commandMode \notin {DECIMAL_CMD, CURSOR_CMD, TWI_ADDRESS_CMD,
                         DIGIT_CMD[1], DIGIT_CMD[2], DIGIT_CMD[3]}
  /\ UNCHANGED <<display, isr, eeprom, twiAddress>>

Timer == \/ StoreDigit \/ Reset \/ EnterCommand
         \/ SetDecimals \/ SetCursor \/ SetAddress \/ UnknownCommand
         \/ \E i \in 0..2 : SetDigit(i)

-----------------------------------------------------------------------------
\* The power fails and comes back.  An EEPROM byte that was being written has
\* its new value or is left erased.
PowerLoss ==
  /\ failures < MaxPowerLosses /\ failures' = failures + 1
  /\ eeprom' \in {eeprom} \cup (IF isr = "begin" THEN {255} ELSE {})
  /\ pc' = "setupTWI" /\ x' = 0
  /\ register' = <<Dark, Dark, Dark>> /\ latched' = <<Dark, Dark, Dark>>
  /\ data' = [i \in 0 .. BUFFER_SIZE - 1 |-> 0] /\ head' = 0 /\ tail' = 0
  /\ digits' = [i \in 0..2 |-> 0] /\ decimals' = 0 /\ cursor' = 0
  /\ commandMode' = 0
  /\ wire' = <<>> /\ isr' = "none"
  /\ twiAddress' = 0
  /\ UNCHANGED sent

Loop == BootTWI \/ setupTimer \/ BootDigits \/ displaySegment \/ latch

Next == \/ Loop \/ Timer \/ twiReceive \/ BeginTWI \/ PowerLoss
        \/ \E m \in Messages : Receive(m)

Spec == Init /\ [][Next]_vars

\* The processor runs: a handler that has begun ends, the timer keeps firing and
\* the loop gets its turn between them.  Hosts and power failures owe nothing.
FairSpec ==
  /\ Spec
  /\ WF_vars(twiReceive) /\ WF_vars(BeginTWI) /\ WF_vars(Timer) /\ WF_vars(Loop)

-----------------------------------------------------------------------------
(* Properties.                                                              *)

\* The bytes that wait in the ring, oldest first.
Waiting == [i \in 1 .. (head - tail + BUFFER_SIZE) % BUFFER_SIZE
              |-> data[(tail + i - 1) % BUFFER_SIZE]]

Q == INSTANCE ByteQueue WITH queue <- Waiting, Capacity <- BUFFER_SIZE - 1

\* The ring buffer of twiReceive and updateBufferData is a queue: in order,
\* nothing dropped before BUFFER_SIZE - 1 bytes wait, nothing taken twice.
ImplementsByteQueue == Q!Spec

\* A display that listens does so on a valid address and will do so again after
\* a loss of power, at whatever moment of a change of address it comes.
AddressKept ==
  twiAddress # 0 /\ isr = "none" => ValidAddress(twiAddress) /\ eeprom = twiAddress

\* When the host falls silent everything received is acted upon and the display
\* comes to show its digits for good; no torn picture stays.
DisplaySettles ==
  <>[](head = tail /\ latched = <<SegmentsOf(digits[0]), SegmentsOf(digits[1]),
                                  SegmentsOf(digits[2])>>)

\* "If the data is displayable, the display will be updated": a character taken
\* outside command mode changes no more than the digit it is stored in.
CharactersGoToDigits ==
  [][head # tail /\ tail' # tail /\ commandMode = 0 /\ Displayable =>
       decimals' = decimals /\ \E i \in 0..2 : digits' = [digits EXCEPT ![i] = c]]_vars
=============================================================================
