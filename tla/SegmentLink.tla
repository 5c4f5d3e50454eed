----------------------------- MODULE SegmentLink -----------------------------
(***************************************************************************)
(* The controller program and the big display's firmware on one I2C bus.   *)
(* The host (src/main.cpp) writes two messages in every iteration, the     *)
(* cursor command and three characters, to a fixed address and ignores     *)
(* what becomes of them.  A write may fail altogether or after some bytes, *)
(* the firmware may drop bytes, lose its power or be slow, and the host    *)
(* may be started again at any moment.                                     *)
(*                                                                         *)
(* Left out is the loop that shifts the digits out: no handler reads what  *)
(* it writes, and LargeSegmentController's DisplaySettles says that the    *)
(* display comes to show digits that stay.                                 *)
(***************************************************************************)
EXTENDS LargeSegmentController

CONSTANTS
  Texts,      \* the first three characters of what GetSegmentLed returns
  MaxFaults   \* bound: failed writes, overruns of the ring and restarts of the host

ASSUME TextsAssumption == Texts # {} /\ Texts \subseteq [1..3 -> Byte]
ASSUME MaxFaultsAssumption == MaxFaults \in Nat

BigSegmentLedI2cAddress == 97      \* 0x61

VARIABLES
  hostPc,   \* the write that main makes next
  text,     \* segmentLed.segments of this iteration
  whole,    \* history: nothing of this iteration's frame was lost so far
  settled,  \* history: nor of the frame before it
  faults    \* faults so far

host == <<hostPc, text, whole, settled, faults>>
linkVars == <<vars, host>>

LinkTypeOK ==
  /\ TypeOK
  /\ hostPc \in {"setupCursor", "setupDecimals", "cursor", "text"}
  /\ text \in Texts
  /\ whole \in BOOLEAN /\ settled \in BOOLEAN
  /\ faults \in 0 .. MaxFaults

LinkInit ==
  /\ Init
  /\ hostPc = "setupCursor" /\ text \in Texts
  /\ whole = FALSE /\ settled = FALSE
  /\ faults = 0

-----------------------------------------------------------------------------
(* The host.                                                                *)

Fault == faults < MaxFaults /\ faults' = faults + 1

\* The timer has made room for m, as it has unless something held it up.
RoomFor(m) == Len(Waiting) + Len(m) < BUFFER_SIZE

\* i2c.write or writeReg, with intact for what came before: all of m arrives, or
\* only its first bytes, or none because the write fails or nobody listens.
Write(m, intact) ==
  \/ /\ twiAddress = BigSegmentLedI2cAddress
     /\ RoomFor(m) \/ faults < MaxFaults
     /\ Deliver(m) /\ whole' = intact
     /\ UNCHANGED <<sent, faults>>
  \/ /\ twiAddress = BigSegmentLedI2cAddress
     /\ \E n \in 1 .. Len(m) - 1 : Deliver(SubSeq(m, 1, n))
     /\ Fault /\ whole' = FALSE
     /\ UNCHANGED sent
  \/ twiAddress = BigSegmentLedI2cAddress /\ Fault /\ whole' = FALSE /\ UNCHANGED vars
  \/ twiAddress # BigSegmentLedI2cAddress /\ whole' = FALSE /\ UNCHANGED <<vars, faults>>

\* main's set-up: cursor home, decimals off.
SetupCursor ==
  /\ hostPc = "setupCursor" /\ Write(<<CURSOR_CMD, 0>>, FALSE)
  /\ hostPc' = "setupDecimals"
  /\ UNCHANGED <<text, settled>>

SetupDecimals ==
  /\ hostPc = "setupDecimals" /\ Write(<<DECIMAL_CMD, 0>>, FALSE)
  /\ hostPc' = "cursor"
  /\ UNCHANGED <<text, settled>>

\* An iteration: GetSegmentLed, then the two writes.  A new frame begins.
BeginFrame ==
  /\ hostPc = "cursor"
  /\ text' \in Texts
  /\ settled' = whole
  /\ hostPc' = "text"

\* Mutant: the cursor is only sent home during set-up.
WriteCursorNever == BeginFrame /\ whole' = TRUE /\ UNCHANGED <<vars, faults>>

WriteCursor == BeginFrame /\ Write(<<CURSOR_CMD, 0>>, TRUE)

WriteText ==
  /\ hostPc = "text" /\ Write(text, whole)
  /\ hostPc' = "cursor"
  /\ UNCHANGED <<text, settled>>

\* The process dies or is stopped, in its set-up too, and is started again.
HostRestarts ==
  /\ Fault
  /\ hostPc' = "setupCursor"
  /\ whole' = FALSE /\ settled' = FALSE
  /\ UNCHANGED <<vars, text>>

Host == SetupCursor \/ SetupDecimals \/ WriteCursor \/ WriteText

-----------------------------------------------------------------------------
(* The display.                                                             *)

\* What a step of the display costs the host's frame: a byte dropped by a full
\* ring, the digits that setup() overwrites, a loss of power.
Overrun == twiReceive /\ head' = head
Damaging == Overrun \/ BootDigits \/ PowerLoss

Setup == BootTWI \/ setupTimer \/ BootDigits

Display ==
  /\ Setup \/ Timer \/ twiReceive \/ BeginTWI \/ PowerLoss
  /\ whole' = (whole /\ ~Damaging)
  /\ settled' = (settled /\ ~Damaging)
  /\ faults' = IF Overrun /\ faults < MaxFaults THEN faults + 1 ELSE faults
  /\ UNCHANGED <<hostPc, text>>

LinkNext == Host \/ HostRestarts \/ Display

LinkSpec == LinkInit /\ [][LinkNext]_linkVars

Follow(A) == A /\ Display
LinkFairSpec ==
  /\ LinkSpec
  /\ WF_linkVars(Host)
  /\ WF_linkVars(Follow(twiReceive)) /\ WF_linkVars(Follow(BeginTWI))
  /\ WF_linkVars(Follow(Timer)) /\ WF_linkVars(Follow(Setup))

-----------------------------------------------------------------------------
(* Properties.                                                              *)

\* The display listens where the host writes, whatever it was sent and whatever
\* part of it was lost: nothing of a frame is ever taken for a change of address.
HostReachesDisplay == twiAddress \in {0, BigSegmentLedI2cAddress}

\* However the command parser falls out of step with the frames, it only takes
\* the host's own command bytes for commands, keeps the cursor on the three
\* digits and leaves none in raw mode.
StrayBytesHarmless ==
  /\ cursor <= 2
  /\ commandMode \in {0, CURSOR_CMD, DECIMAL_CMD}
  /\ \A i \in 0..2 : digits[i] < 128

\* Two whole frames in a row bring the parser back into step: when the second
\* has been acted upon the digits are the host's text.
BackInStep ==
  hostPc = "cursor" /\ whole /\ settled /\ Idle /\ head = tail =>
    /\ commandMode = 0 /\ cursor = 0
    /\ \A i \in 0..2 : digits[i] = text[i + 1]

\* If the host keeps showing one text and from some time on no frame is damaged,
\* the big display's digits come to be that text and nothing else.
SteadyTextShows ==
  \A t \in Texts :
    <>[](text = t /\ whole) =>
      <>[](\A i \in 0..2 : digits[i] = t[i + 1])
=============================================================================
