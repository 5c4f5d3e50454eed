# Verification of the Botgeddon arena controller

The arena controller runs a robot fight: four buttons (two teams, a referee, a
reset), 384 LEDs along the walls, lamps in the team buttons, and three
seven-segment displays on an I2C bus, the biggest of them with its own firmware.
This directory holds TLA+ models of that code, the TLC runs that check them on
small instances, and proofs, checked by TLAPS, that hold for every instance.

Run a model with `tlc -config Arena.cfg MCArena`, a proof with
`tlapm ArenaProofs.tla`. `PROJECT.json` lists every run, its properties, the lines
each definition translates, the mutants that show a property can fail, and the
theorems.

## Inventory of the system

| Component | State | Operations | Interaction |
|---|---|---|---|
| Arena state machine (`ArenaStates.{h,cpp}`) | the current animation object with its time points, `_end`, `_releasedPause`, `_remTime`; `WorldState::timeRemaining` | `Tick` (one per animation), `ChangeState`, `GetSegmentLed`, `GetButtonLeds`, `GetColors` | called by main once per iteration; an animation's `Tick` calls `ChangeState`, which frees the animation it runs in |
| Controller program (`main.cpp`) | pins, the frame last read from the state machine, the `done` flag | set-up, polling loop, SIGTERM handler | reads buttons, ticks the state machine, writes lamps, displays (I2C) and strips (SPI) |
| Big display firmware (`large segment controller/`) | ring buffer, digits, cursor, command mode, EEPROM address, shift registers | `setup`, `loop`, `twiReceive`, timer handler with the commands | receives I2C messages from main; handlers interrupt the loop |
| LED strip driver (`LedSegment.h`) | SPI buffer | `Refresh`, encoding, destructor | called by main; the destructor turns the strips off |
| Segment font (`SegmentLedState.*`) | none | table lookup | used by the digit driver only; the firmware has its own, identical copy |
| Bit-banged digit driver (`LargeDigitDriver.*`) | last frame, three pins | shift three bytes out and latch them | not used by main; its thread is never started |
| Telemetry (`ReceiverComms.*`) | socket, one buffer, last sender | receive loop, send | asio calls its handler, which calls a handler function; not used by main |
| Colours (`ColorTriplet.h`) | three bytes | `FromHsv` (unused) | what animations hand to the strip driver |
| Simulator (`test.cpp`), `asio/` | | | stale, vendored |

What is hard here, and what correct means:

* **Time across pauses.** A fight's clock lives in three places (`_end`,
  `timeRemaining`, the display). Pausing narrows one to a float and resuming
  rounds to milliseconds. Correct: a match has one budget of fight time, spent only
  by fighting but for these roundings, however often it is paused; a fight goes on from
  the clock it was paused at; every match starts with all of its time.
* **Objects that free themselves.** `Fighting::Tick` and `PausedAnim::Tick` go on
  after a `ChangeState` if two buttons are down in one reading. Correct: the match
  still only makes moves a referee would accept, or the process dies.
* **Level-triggered polling.** Buttons are read once per iteration. Correct: a held
  tap-out is seen; no team's press counts before its lamp is lit; a pressed button
  neither hurries nor delays the start.
* **Outputs driven one after another** over a bus whose errors are ignored.
  Correct: at the end of an iteration everything shows the same animation; a lost
  write is made good; the displays never show less than the time that is left.
* **Frames as functions of time.** Strips and displays are computed from the clock by
  separate comparisons, in `Tick`, `GetColors` and `GetSegmentLed`, whenever the loop
  gets round to it. Correct: fades are over when an animation is left, the countdown's
  two faces agree, a late frame shows what the time says and not what was missed.
* **A byte protocol without acknowledgement** between the program and the big display.
  Correct: whatever is lost, cut short or overwritten, and whoever restarts, the
  display listens where the program writes, obeys nothing it was not told, and comes
  to show the program's text.
* **Termination.** Correct: SIGTERM at any moment leaves the strips dark.
* **Interrupt handlers in the firmware.** The ring buffer is written by one handler
  and read by another, the loop reads the digits while handlers change them, and
  the EEPROM outlives the power. Correct: the ring is a queue that drops only when
  full; torn pictures do not stay; the address survives.

The list of hazards, each at its line, is in `PROJECT.json`.

## Modules

| Module | Models | Extends / uses |
|---|---|---|
| `Match` | abstract: a match as the referee sees it, phases and a budget of fight time | |
| `ArenaStates` | the state machine | `Match` (refinement) |
| `MatchHistory` | `ArenaStates` with a stopwatch (history variables only) | `ArenaStates` |
| `Animations` | the colours each animation gives the strips | `ArenaStates` |
| `ParticleShow` | the particles of the show before the countdown | |
| `MainLoop` | the program around the state machine, its displays, people, clock, SIGTERM | `ArenaStates` |
| `ByteQueue` | abstract: a bounded queue fed by a wire | |
| `LargeSegmentController` | the big display's firmware | `ByteQueue` (refinement) |
| `SegmentLink` | program and big display on one bus | `LargeSegmentController` |
| `LedSegment` | the LED strip driver and its encoder | |
| `ReceiverComms` | the UDP receive loop and telemetry | |
| `LargeDigitDriver` | the bit-banged digits, the font, and their theorem | |
| `ColorTriplet` | `FromHsv` and its theorem | |
| `ArenaProofs`, `MainProofs`, `ControllerProofs`, `StripProofs`, `ParticleProofs`, `ReceiverProofs` | theorems | the modules above |
| `MCArena`, `MCHistory`, `MCMain`, `MCController`, `MCLink`, `MCLedSegment`, `MCParticles`, `MCReceiver` | constants for TLC | |

### ArenaStates

`state` names the animation object `StateMachine::_state` points to; there is one
action per `Tick` method and `ChangeState` is the construction of the next object.
Every time point is kept as its distance from the steady clock (`sinceStart` is
`now() - _start`, `untilEnd` is `_end - now()`), because the code only uses such
differences; `time_point::max()` is the age `Never`. `Elapse` lets one unit of time
pass. A Tick reads the clock several times; the model reads it once, since a later
second reading is as if the whole Tick came later.

The conversions of the fight time are modelled by what they do. A pause narrows an
int64 of nanoseconds to a float of seconds (`Float`): it may come out up to `FloatError`
units too long or too short, but never on the other side of zero. A start multiplies
that float by 1000, which rounds once more unless it is a whole number of seconds, and
casts it to an int of milliseconds (`ToMillis`, `Truncated`), towards zero. For times up
to the two minutes of a fight the narrowing (4.1 us of the conversion and 3.8 us of the
division) and the product (3.9 us) are each off by at most 8 us, a `FloatError` far below
half a millisecond. The ceiling to seconds and the formatting of the clock with C++'s
division are modelled as they are computed.

Undefined behaviour is a choice: a Tick that goes on in a freed object
(`AfterFree`) finds its members intact, or the process dies; an uninitialised
`_remTime` holds any member of `Indeterminate`.

`IdleTick` collects the Ticks that fall through all conditions. The level of each
button is an input of `Tick` in `ArenaStates` and state of its own in `MainLoop`.

### MainLoop

`pc` walks through `main`: the six pins, the displays, then poll and Tick, lamps,
`GetSegmentLed`, the three displays, the strips. The four reads and the Tick are one
step: what changes between them might as well have changed after them. Between any
two steps the clock may run, somebody may press or release a button, and SIGTERM may
arrive. Each display's text, and its dots, may be lost on the bus, `MaxLost` times in
all. `shown` is what a display was last given; the small ones show it at once, the big
one's firmware latches it a little later (`LargeSegmentController`, `SegmentLink`).
`strips` records which animation's colours were sent last (what the colours are is
`Animations`' business).

### LargeSegmentController

`Loop` is the main program (`setup`, then `displaySegment` three times and `latch`);
`Receive` and `twiReceive` are the I2C handler, byte by byte; `Timer` is the timer's
handler, with one action per command. A handler, once begun (`wire # <<>>`, or
`isr = "begin"`), keeps everything else waiting, except a `PowerLoss`, which clears
the RAM and spares the EEPROM; a byte that was being written may be left erased.
A digit under cursor 3 is `display.decimals`, the byte behind the array.

### SegmentLink

The program's part is reduced to what it writes to the big display: cursor and decimals
at set-up, then in every iteration the cursor command (`WriteCursor`) and the first three
characters of `GetSegmentLed` (`WriteText`), which are any member of `Texts`. `main`
ignores the results, so a `Write` may deliver all of its bytes, the first few or none, and
none if the display listens elsewhere. The firmware's handlers are those of
`LargeSegmentController`, unchanged, with a full ring, losses of power, and handlers that
run before `setup` is done. `HostRestarts` is the program being stopped anywhere, in its set-up too. Left
out is the loop that shifts the digits out, because no handler reads what it writes.
`whole` and `settled` remember whether this frame and the one before it arrived and were
acted upon undamaged.

### Animations

`GetColors(n)` is the set of colours LED `n` may have now, as a function of the ages that
`ArenaStates` keeps; it has one operator per animation class. Brightness is counted in the
code's own steps (0 to 120) and rounded down as the cast does. For the show before the
countdown the light of the particles is any value they can give; the limits it is kept
within are exact. The regions of the countdown are placed by the constructor's arithmetic.

### ParticleShow

`GetColors` of that show as a program: `Spawn` and `Move` are one turn each of its two
catch-up loops and `Trace` is the write to `_lastColorTime`. Calls come after any of a few
delays, one of them longer than the time between particles. Random numbers are choices.
Each particle remembers when and where it began, so that the invariant can say where it
has to be.

### ReceiverComms

The socket's queue, one outstanding receive (`op`), and the buffer it reads into together
with the sender. asio reads at once when a receive is started and data is there, so the
buffer may change inside `Receive()`, long before the next handler runs; `Receive` models
that. The handler function returns, as the one in `main.cpp` (which catches everything)
does; one that throws would leave `poll()` and end the program.

### LargeDigitDriver and ColorTriplet

One action per write of a pin; the shift registers behind the pins are external and react
to rising edges. `Killed` stops the program between any two writes. `ColorTriplet` holds
operators only, with the casts to eight bits. Both modules carry their proofs and need no
run: the theorems cover every text and every argument.

### LedSegment

One step of `ConvertNeoToSpi` encodes one bit of colour as three SPI bits; `led` and
`i` are its two loops. A byte of the buffer is the set of its ones. `Begin` is the
part that clears the buffer, for `Refresh` and for the destructor alike. The padding
and the constants are the code's own; the memory the buffer starts with is any byte,
repeated.

## Runs

| Run | Question | Bounds and why they are enough |
|---|---|---|
| `arena` | both ready leads to a fight; clock reads true; strips agree with state machine and displays | the code's own times in half seconds (240 for the fight) and 48 LEDs a column, two columns for the two teams' halves; ages saturate at 15, one more than the longest (7 s) the code compares with; three garbage values; floats are taken as exact (`history` rounds them) |
| `history` | implements `Match`; pausing buys and costs nothing but roundings; fights go on from their clock; fresh matches, no early start | a millisecond of three units, so that pauses fall in between, and floats off by one, the most that `FloatAssumption` allows; seconds of two milliseconds and a fight of three seconds, so that errors of several pauses add up; 4 starts per match |
| `main_safety` | outputs agree with the state machine | animations of one tick, a countdown of two units, fight of 3 units at 2 per second, so that rounding matters; one lost write |
| `main_live` | tap-out, lost writes, SIGTERM | as short as possible; one lost write, at any place |
| `main_pins` | expected violation: reset pin | |
| `controller` | ring is a queue, address survives, display settles | ring of 4 (3 bytes), messages of up to 3 bytes so that it overflows and wraps; all commands; 3 messages, one loss of power |
| `controller_cursor` | expected violation: cursor 3 | |
| `link` | address, stray bytes, back in step, steady text shows | ring of 4, smaller than a frame of 5 bytes, so that it overflows; a blank text and a clock in which a misplaced digit shows; two faults (a damaged or lost write, an overrun, a restart), enough to damage a frame and the one that repairs it, and a loss of power |
| `link_address` | expected violation: an uninitialised text | the same bus without any fault; a clock and the text of `_remTime` = 4800 |
| `particles` | late calls, columns, turns of the loops | two columns of four LEDs, three particles of different speeds, calls 2, 5 or 17 units apart while a particle crosses its column in 4 to 8 |
| `receiver` | each payload once, in order; telemetry; never deaf | two senders, empty datagrams, three datagrams through a socket that holds two, two failed receives |
| `strips` | writes stay in the buffer; the wire carries the frame | two LEDs, so that there is a next one; four colours that tell the channels, and the two ends of a byte, apart; any number of frames through one buffer |

Ages and counters saturate at bounds that the properties cannot tell apart
(`Horizon`, `FoughtBound`, `ReadyBound`, `MaxStarts`); `MaxLost`, `MaxMessages`, `MaxPowerLosses`,
`MaxFaults`, `MaxDatagrams` and `MaxErrors` bound the environment, `LastCall` the length of
the show. Overtime saturates at `-Horizon`.

**Fairness.** `ArenaStates` and `MainLoop`: the process is scheduled (its loop has no
blocking wait but a sleep) and the steady clock runs; nothing is assumed of people,
the bus or signals. `LargeSegmentController`: a handler that has begun ends, the timer
keeps firing (CTC mode, it is never stopped) and the loop gets the time between
handlers; nothing is assumed of hosts. Liveness there is stated for a host that falls
silent, which `MaxMessages` makes every host do. `SegmentLink`: the program keeps writing
(its loop never blocks), handlers end and the timer fires; nothing is assumed of the bus,
but `SteadyTextShows` is stated for frames that are damaged only finitely often.
`ReceiverComms`: `main` polls in every iteration
and a handler that is due is called; nothing is assumed of senders or of errors.

**Findings.** Three runs are expected to fail. `main_pins`: the set-up of the reset button
calls `refButton->dir` again (main.cpp:124). `controller_cursor`: cursor 3 is accepted by a
display of three digits (.ino:361). `link_address`: for one frame a pause shows an
uninitialised `_remTime` (ArenaStates.cpp:554); if that happens to be 4800 to 4859 its first
character is 0x80, the firmware's command to change its address, and the display is lost to
the program until its EEPROM is written again. No component shows this by itself: the
program's module only knows an odd text, the firmware's an ordinary command.

Other behaviour seen while modelling, not stated as a property because nothing in the
repository says otherwise: the fight does not end by itself when the clock reaches zero
(the displays say "End " and the fight is in overtime); a referee who holds his button
through the countdown pauses the fight as it starts; a tap-out together with the
referee's button ends in a pause or a crash; a paused overtime shows `0-0`.

## Proofs

TLC says nothing about other constants than those of a run. The theorems hold for all
that satisfy the assumptions in the modules: times are natural numbers, the fight
time, the second and the millisecond are not zero, and the horizon lies beyond what the
code compares with; the fight time and the second are whole milliseconds and a float is
off by less than half of one (`FloatAssumption`); the ring has at least two places.

* `ArenaProofs!TypeCorrect`: each Tick and `Elapse` keeps the types; `ChangeStateType`
  is the lemma all of them use.
* `ArenaProofs!Refinement`: every step of `ArenaStates` is a step of `Match` or none.
  The mapping is `phase <- state` and `budget <- Budget` (`untilEnd` in a fight,
  `timeRemaining` around it, 0 outside a match). `FloatBounds` and `ToMillisBounds` carry
  the pause and the start of the clock: the one rounds either way by `FloatError`, the other
  by as much and then towards zero by less than a millisecond, and neither across zero.
* `PausingBuysNothing` and `MatchesStartFresh`: neither is inductive alone. `ClockInv`
  conjoins both with the types: a countdown that begins a match needs `FreshMatch` to
  know that nothing was fought yet. `TickStaysOrMoves` reduces the eight Ticks to what
  they do to the clocks, once for all history proofs; `AccountStep` says what a step can do
  to the sum of time fought and time left: open a new account, keep the sum, or round at a
  start or a pause. The code's floats do gain time when they round up, so `NoTimeGained`
  allows `FloatError` for each of the `Roundings`, and no more: that the cast to
  milliseconds never rounds up is what it is about.
* `PausingCostsRounding`: from the same `AccountStep`; needs `ClockInv` (so that the
  stopwatch has not saturated) and the distributive law for `starts * (Milli - 1)`
  (`OneMoreStart`).
* `FightsGoOnFromTheirClock`: an action property. `SeenInv` is its strengthening: while a
  fight is paused and counted down again, the saved time lies within a float's error of the
  second that was on the clock. `ToMillisBelow` is why the clock never has a second more
  after a pause: a float's error is too small to carry a start over a whole millisecond
  that the saved time had not passed, and whole seconds are whole milliseconds.
* `FightsStartOnTime`: an action property. `ReadyInv` (`ReadyCorrect`) is its
  strengthening: in each of the three phases before a fight the stopwatch since the last
  team got ready is ahead of the age of the phase plus the lengths of the phases
  before, and a countdown that follows a pause belongs to a match already started.
* `ClockReadsTrue`: the text in a fight is the time left, rounded up. `LeftBounded` is its
  invariant: no fight has more left than the fight time, and what a pause saves of it is at
  most a float's error more (`ToMillisBelow` again). Assumption `LegibleFight`: the fight
  time is at most 9:59 (the code's is two minutes), since the minutes have one digit.
  `CeilSecondsBounds` and `CeilSecondsPositive` are what C++'s rounding does to negative
  times, `ClockTextReads` that formatting loses nothing.
* `BrightnessCorrect`, `TeamsAreWaitedFor`, `HandOverInTheDark`: for all times with which the
  fades are well formed (`FadeAssumption`). `TypeOK` is invariant enough; the work is in the
  fades (`TweenBounds`, `FadeBounds`), one lemma per animation. `HandOverInTheDark` is an
  action property: the condition under which a Tick leaves an animation is compared with the
  one under which its fade is at zero.
* `RegionsAlwaysFit`, `FacesAgree`: for strips of at least 14 LEDs and any number of columns.
  The regions' products of columns and LEDs are compared once (`StripAssumption`); then the
  lit regions of a column and the digit on the displays are computed second by second.
* `ParticleProofs!ShowKeepsTime`: for any intervals, speeds and times of calls. Between two
  calls a particle is where its age puts it; that is not inductive, because inside a call
  some particles have caught up and others have not. `ShowInv` says what holds at every turn of
  the two loops: each particle has made one move per whole speed elapsed (`InStride`), those
  before the loop's index have caught up, and each began one gap after the one before
  (`ChainInv`). `Quotient` turns the moves counted into the division of the property.
* `ParticleProofs!CatchingUpIsBounded`: `PaceInv` says that intervals do not become shorter
  than the last one that is shortened leaves them, so that the next particle is due no
  earlier than as many of these as there are particles. With `InStride` this bounds the
  particles and the moves of each at every turn of the loops; every turn adds one or the
  other, so the loops end.
* `ParticleProofs!TracesAreTheParticles`: inductive together with `ShowInv`; a particle
  that has passed an LED goes on having passed it.
* `MainProofs!LoopDrivesStateMachine`: `MainSpec => Spec`, so all of the above holds
  inside the program; `ProgramImplementsMatch` is one instance. `MainTypeCorrect` adds
  the types of the program's own variables, with `PinsInv` for the pins that are left.
* `MainProofs!OutputsFollow`, `PausesShowTheirTime`, `LampsComeFirst`: one inductive invariant,
  `ControlInv`, says at each place of the loop what has been done: `GoneRound` (the strips
  show the current animation whenever the loop is at its poll), `LampInv`, `ShownInv` (which
  displays have this iteration's text) and `PauseInv` (from its second iteration on a pause has
  worked out its time). The last of the three is an action property: a Tick that acts upon a
  team's button starts from a poll, where the lamps are right.
* `MainProofs!WallClockCorrect`: `WallInv` adds to it that every text that was read since the
  fight began, and every text that is shown, shows at least the time left. Time only makes
  that easier (`EnoughLater`); a new fight needs `LeftBounded`. Assumption: `LegibleFight`.
* `ControllerProofs!TypeCorrect`, `AddressSurvives`, and `RingIsQueue`: the ring
  implements `ByteQueue` for every `BUFFER_SIZE`. `WaitingIs` turns the remainders of the
  mapping into case distinctions; `PutStep` and `TakeStep` are the two real cases. They need
  only that head and tail are places of the ring (`RingOK`), so the link uses them too.
* `ControllerProofs!AlwaysReached` and `NeverHarmed`: for every size of the ring, every set of
  texts and any number of cut, dropped or overrun writes, restarts and losses of power.
  Neither is inductive alone: `LinkInv` adds that all bytes on the wire and in the ring are
  the program's own, so that a parser out of step takes a character for an argument or a
  command for a character, but never meets a third command. Two assumptions: `HarmlessTexts`,
  texts of characters that are below the firmware's commands and are not 3, which is what
  every `GetSegmentLed` with initialised members returns unless a fight is paused 45 minutes
  or more into overtime (its first character is then `'0' - 45`, and wraps from 49 minutes
  on), and `FactoryEEPROM`, that a new
  display holds no valid address but the one the program uses. `link_address` shows what
  happens without the first.
* `ControllerProofs!ParserRecovers`: under the same assumptions, two whole frames in a row
  bring the parser into step. `StepInv` looks at `Pending`, the bytes in the ring and on the
  wire, from the end, where the program last wrote. `OutOfCommandAt(k)` is the idea: in front of
  the last `k` bytes stands a whole frame, so whatever mode the parser is in before it, three
  plain characters later it is in none. After the second frame its cursor command is thus
  obeyed, and each character that is no longer pending is on its digit. `PendingDeliver`,
  `PendingPut` and `PendingTake` are what a message, `twiReceive` and the timer do to
  `Pending`.
* `StripProofs!TypeCorrect` and `StaysInBuffer`: for strips of any length. `IndexInv` says
  where the bit index is, `72 * led + 3 * i`, of an LED that exists; the rest is that nine
  bytes an LED and two of padding make `DataLen`.
* `StripProofs!StripShowsFrame`: for all frames of 24-bit colours too, and any memory the
  buffer starts with. `StreamInv`: up to the bit index the buffer is the stream, from there on
  it is zero. `SetsOneBit` is the encoder's write of one bit; `LastByte` and `WithoutLastByte`
  take the bytes of a colour apart, so that `ChannelBit` can say
  which bit of `FullColorBits` is which of green, red and blue.
* `ReceiverProofs!DatagramsHandledInOrder` and `TelemetryHasAddressee`: for any senders,
  any depth of the socket and any number of datagrams and errors. `CommsInv`: the socket holds
  the last datagrams accepted, a receive that is done holds the one before (`QueueInv`), the
  handler function got the ones before that have a payload (`HandledInv`), and an endpoint
  that counts as received is that of a datagram (`EndpointInv`).
* `LargeDigitDriver!OnlyWholeTextsLit`: for every set of texts and any number of restarts.
  `ShiftInv` is the strengthening: the last `n` bits of the registers are the first `n` of
  the text, and whenever the clock is about to rise it is low with the next bit on the data
  pin. `ClockedIn` is the one hard step; `WireOrder` turns the order on the wire into glyphs
  on digits.
* `ColorTriplet!BrightestIsValue`: for all arguments of `FromHsv`. Products of bytes are
  bounded once (`ByteTimesByte`, `ShiftedDown`); the regions of 43 hues are what keeps the
  remainder in its byte (`RemainderFits`).

Every inductive invariant was checked with TLC on the constants of the runs before it was
proved.

So each invariant and each action property of a passing run is a theorem. Only
model-checked is what is stated under fairness, which is out of the prover's reach:
`ReadyLeadsToFight`, `TapOutIsSeen`, `StagingReachesDisplays`, `TermTurnsStripsOff`,
`DisplaySettles`, `SteadyTextShows` and `NeverDeaf`.

## Plan

1. Done: all modules above, their runs, and a theorem for each safety property they check.
2. Proofs next: that the ring is a queue on the link too, where messages come from the
   program; the safety half of the liveness properties (what cannot happen between a whole
   frame and its text on the digits, what the strips are from SIGTERM on).

## Not modelled

* `test.cpp`, the desktop simulator: an OpenGL viewer of an older interface of
  `ArenaStates`, which no longer compiles and holds no checks. `asio/` is vendored.
* `LargeDigitDriver::ThreadProc` and `WooWoosha` (ArenaStates.cpp:30): nothing starts the
  one or constructs the other.
* Commented-out code in `main.cpp`, apart from the handler function whose behaviour
  `ReceiverComms` assumes.
* The bits of `postSegment` in the firmware: a glyph is shifted out in one step.
* The floats in which animations and displays compute their ages and the time to show:
  times are multiples of a unit in which the code's constants are exact, and the rounding
  of microseconds there is left out. That of the saved fight time is modelled, with one
  bound on the error, which holds for overtime of up to two minutes; overtime is cut at
  `-Horizon`, and nothing is stated about how long it is.
