----------------------------- MODULE ArenaStates -----------------------------
(***************************************************************************)
(* The arena's state machine (src/ArenaStates.h, src/ArenaStates.cpp).     *)
(*                                                                         *)
(* StateMachine owns one LedAnimation object; Tick runs that object's      *)
(* Tick, which may call ChangeState and so replace (and free) the object   *)
(* it runs in.  Every time point an animation stores is kept here as its   *)
(* distance from the steady clock, because the code only ever uses such    *)
(* differences:                                                            *)
(*    sinceX   stands for  now() - _x     (the age of the time point)      *)
(*    untilEnd stands for  _end - now()                                    *)
(* time_point::max(), "not pressed yet", is the age Never: now() - max()   *)
(* is negative, and stays so.  A whole Tick reads one instant.             *)
(*                                                                         *)
(* A float of seconds holds an age or a displayed time exactly enough; the *)
(* fight time that a pause saves as a float and a start reads back is only *)
(* accurate to FloatError units.                                           *)
(***************************************************************************)
EXTENDS Integers

CONSTANTS
  FadeOutStart,             \* PreStagingAnim::fadeOutStart (1.5 s)
  TotalAnimFromLastButton,  \* StagingAnim::totalAnimFromLastButton (3.5 s)
  AnimEnd,                  \* PreCountdownAnimation::animEnd (7 s)
  CountdownLength,          \* the 3.0f of XmasTree::Tick
  FightTime,                \* the 120 s PreStagingAnim::Tick hands out
  Second,                   \* units of time in a second
  Milli,                    \* units of time in a millisecond
  FloatError,               \* how far off a float of up to the fight time may be
  Horizon,                  \* bound: ages (and overtime) saturate here
  Indeterminate             \* what an uninitialised int may hold

ASSUME TimingAssumption ==
  /\ FadeOutStart \in Nat /\ TotalAnimFromLastButton \in Nat
  /\ AnimEnd \in Nat /\ CountdownLength \in Nat
  /\ FightTime \in Nat \ {0}
  /\ Second \in Nat \ {0} /\ Milli \in Nat \ {0}

\* The fight time is a number of milliseconds, and a float of it is accurate to
\* far less than one (some 8 us at 120 s: an int64 of nanoseconds is narrowed to
\* a float and that one divided by 1e9).
ASSUME FloatAssumption ==
  /\ FightTime % Milli = 0 /\ Second % Milli = 0
  /\ FloatError \in Nat
  /\ 2 * FloatError < Milli /\ Milli + 2 * FloatError <= Second

\* The code cannot tell ages beyond the horizon apart.
ASSUME HorizonAssumption ==
  /\ Horizon \in Nat
  /\ Horizon > FadeOutStart /\ Horizon > TotalAnimFromLastButton
  /\ Horizon > AnimEnd /\ Horizon > CountdownLength

ASSUME IndeterminateAssumption == Indeterminate \subseteq Int /\ Indeterminate # {}

VARIABLES
  state,           \* which LedAnimation StateMachine::_state points to
  timeRemaining,   \* WorldState::timeRemaining
  sinceStart,      \* now() - _start
  sinceStarting,   \* PreStagingAnim: now() - _startingTime
  sinceRed,        \* StagingAnim: now() - _redStart
  sinceBlue,       \* StagingAnim: now() - _blueStart
  untilEnd,        \* Fighting: _end - now()
  releasedPause,   \* PausedAnim::_releasedPause
  remTime,         \* PausedAnim::_remTime, in seconds
  crashed          \* the process died of a use after free

animation == <<sinceStart, sinceStarting, sinceRed, sinceBlue, untilEnd,
               releasedPause, remTime>>
vars == <<state, timeRemaining, animation, crashed>>

ArenaState == {"PreStaging", "Staging", "PreCountdown", "Countdown",
               "Fighting", "Paused", "End"}

\* One reading of the four buttons.
WorldState == [redButton : BOOLEAN, blueButton : BOOLEAN,
               refButton : BOOLEAN, resetButton : BOOLEAN]

Never == -1
Age == Never .. Horizon

TypeOK ==
  /\ state \in ArenaState
  /\ timeRemaining \in Int
  /\ sinceStart \in 0 .. Horizon
  /\ sinceStarting \in Age /\ sinceRed \in Age /\ sinceBlue \in Age
  /\ untilEnd \in Int
  /\ releasedPause \in BOOLEAN
  /\ remTime \in Int
  /\ crashed \in BOOLEAN

-----------------------------------------------------------------------------
(* Arithmetic of the code: C++ division truncates towards zero.            *)

Quot(a, b) == IF a >= 0 THEN a \div b ELSE -((-a) \div b)
Rem(a, b)  == a - b * Quot(a, b)

\* Mutants: rounding away from zero; "static_cast<int>(t) * 1000".
TruncatedUp(t) == IF t % Milli = 0 THEN t ELSE t + (Milli - (t % Milli))
TruncatedOfSeconds(t) == t - (t % Second)

\* A cast to int of a number of milliseconds, back in units of time.
Truncated(t) == IF t >= 0 THEN t - (t % Milli) ELSE t + ((-t) % Milli)

\* The floats that t may be rounded to: either way, but never across zero.
Float(t) == {f \in (t - FloatError) .. (t + FloatError) :
               (f > 0 <=> t > 0) /\ (f < 0 <=> t < 0)}

\* static_cast<int>(t * 1000) milliseconds.  The product is a float again; that of
\* a whole number of seconds is exact.
ToMillis(t) == {Truncated(f) : f \in IF t % Second = 0 THEN {t} ELSE Float(t)}

\* Mutant: a cast to int without the ceil.
FloorSeconds(t) == t \div Second

\* ceil(t) in whole seconds.
CeilSeconds(t) == -((-t) \div Second)

-----------------------------------------------------------------------------
(* Construction of animations.                                             *)

\* Mutant: the new object's _start is not initialised and lies in the future.
ChangeStateUnset(s) ==
  /\ state' = s
  /\ sinceStart' = -1
  /\ sinceStarting' = Never /\ sinceRed' = Never /\ sinceBlue' = Never
  /\ untilEnd' \in IF s = "Fighting" THEN ToMillis(timeRemaining) ELSE {0}
  /\ releasedPause' = FALSE
  /\ remTime' \in IF s = "Paused" THEN Indeterminate ELSE {0}

\* StateMachine::ChangeState: GetAnimation constructs the new object and the
\* old one is freed.  PausedAnim does not initialise _remTime.
ChangeState(s) ==
  /\ state' = s
  /\ sinceStart' = 0
  /\ sinceStarting' = Never /\ sinceRed' = Never /\ sinceBlue' = Never
  /\ untilEnd' \in IF s = "Fighting" THEN ToMillis(timeRemaining) ELSE {0}
  /\ releasedPause' = FALSE
  /\ remTime' \in IF s = "Paused" THEN Indeterminate ELSE {0}

\* main: WorldState's default timeRemaining, then ChangeState(PreStaging).
Init ==
  /\ state = "PreStaging"
  /\ timeRemaining = 0
  /\ sinceStart = 0
  /\ sinceStarting = Never /\ sinceRed = Never /\ sinceBlue = Never
  /\ untilEnd = 0
  /\ releasedPause = FALSE
  /\ remTime = 0
  /\ crashed = FALSE

\* A Tick that goes on after its own object was freed.  The allocator leaves
\* the members the code then reads alone, or it overwrites _state and the
\* next call through it kills the process.
AfterFree(outcome) ==
  \/ outcome /\ UNCHANGED crashed
  \/ crashed' = TRUE /\ UNCHANGED <<state, timeRemaining, animation>>

-----------------------------------------------------------------------------
(* One Tick per animation class; w is what main read from the buttons.     *)

\* Mutant: every press is latched, not only the first ("now < _t" dropped).
LatchAgain(since, pressed) == IF pressed THEN 0 ELSE since

\* "if (now < _t && button) _t = now": the first press is latched.
Latch(since, pressed) == IF since = Never /\ pressed THEN 0 ELSE since

\* Mutant: the new match is not given its fight time.
PreStagingTickNoReset(w) ==
  LET starting == Latch(sinceStarting, w.refButton) IN
  /\ state = "PreStaging"
  /\ UNCHANGED <<timeRemaining, crashed>>
  /\ \/ starting > FadeOutStart /\ ChangeState("Staging")
     \/ /\ starting <= FadeOutStart
        /\ sinceStarting' = starting
        /\ UNCHANGED <<state, sinceStart, sinceRed, sinceBlue, untilEnd,
                       releasedPause, remTime>>

PreStagingTick(w) ==
  LET starting == Latch(sinceStarting, w.refButton) IN
  /\ state = "PreStaging"
  /\ UNCHANGED crashed
  /\ \/ /\ starting > FadeOutStart
        /\ ChangeState("Staging")
        /\ timeRemaining' = FightTime
     \/ /\ starting <= FadeOutStart
        /\ sinceStarting' = starting
        /\ UNCHANGED <<state, timeRemaining, sinceStart, sinceRed, sinceBlue,
                       untilEnd, releasedPause, remTime>>

\* Mutant: one team's animation suffices ("||" for "&&").
StagingTickEither(w) ==
  LET red  == Latch(sinceRed, w.redButton)
      blue == Latch(sinceBlue, w.blueButton)
      over == red > TotalAnimFromLastButton \/ blue > TotalAnimFromLastButton
  IN
  /\ state = "Staging"
  /\ UNCHANGED <<timeRemaining, crashed>>
  /\ \/ over /\ ChangeState("PreCountdown")
     \/ /\ ~over
        /\ sinceRed' = red /\ sinceBlue' = blue
        /\ UNCHANGED <<state, sinceStart, sinceStarting, untilEnd,
                       releasedPause, remTime>>

StagingTick(w) ==
  LET red  == Latch(sinceRed, w.redButton)
      blue == Latch(sinceBlue, w.blueButton)
      over == red > TotalAnimFromLastButton /\ blue > TotalAnimFromLastButton
  IN
  /\ state = "Staging"
  /\ UNCHANGED <<timeRemaining, crashed>>
  /\ \/ over /\ ChangeState("PreCountdown")
     \/ /\ ~over
        /\ sinceRed' = red /\ sinceBlue' = blue
        /\ UNCHANGED <<state, sinceStart, sinceStarting, untilEnd,
                       releasedPause, remTime>>

\* Mutant: the show is not waited for.
PreCountdownTickAtOnce ==
  /\ state = "PreCountdown"
  /\ ChangeState("Countdown")
  /\ UNCHANGED <<timeRemaining, crashed>>

PreCountdownTick ==
  /\ state = "PreCountdown"
  /\ sinceStart > AnimEnd
  /\ ChangeState("Countdown")
  /\ UNCHANGED <<timeRemaining, crashed>>

\* XmasTree::Tick
CountdownTick ==
  /\ state = "Countdown"
  /\ sinceStart > CountdownLength
  /\ ChangeState("Fighting")
  /\ UNCHANGED <<timeRemaining, crashed>>

\* Mutants: the pause forgets to save the time; a tap-out takes both buttons.
FightingTickNoSave(w) ==
  LET tapOut == w.redButton \/ w.blueButton IN
  /\ state = "Fighting"
  /\ \/ tapOut /\ ChangeState("End")
     \/ ~tapOut /\ w.refButton /\ ChangeState("Paused")
  /\ UNCHANGED <<timeRemaining, crashed>>

FightingTickBoth(w) ==
  /\ state = "Fighting"
  /\ \/ /\ w.redButton /\ w.blueButton
        /\ ChangeState("End")
        /\ UNCHANGED timeRemaining
     \/ /\ ~(w.redButton /\ w.blueButton) /\ w.refButton
        /\ timeRemaining' \in Float(untilEnd)
        /\ ChangeState("Paused")
     \/ /\ ~(w.redButton /\ w.blueButton) /\ ~w.refButton
        /\ UNCHANGED <<state, timeRemaining, animation>>
  /\ UNCHANGED crashed

\* Fighting::Tick.  A pause saves what is left as a float.  A tap-out frees the
\* object; if the referee's button is down in the same reading, _end and _state
\* are read from freed memory.
FightingTick(w) ==
  LET tapOut == w.redButton \/ w.blueButton
      pause  == timeRemaining' \in Float(untilEnd) /\ ChangeState("Paused")
  IN
  /\ state = "Fighting"
  /\ \/ /\ tapOut /\ ~w.refButton
        /\ ChangeState("End")
        /\ UNCHANGED <<timeRemaining, crashed>>
     \/ ~tapOut /\ w.refButton /\ pause /\ UNCHANGED crashed
     \/ tapOut /\ w.refButton /\ AfterFree(pause)

\* Mutant: the time is only worked out once the referee has let go.
PausedTickLate(w) ==
  LET released == releasedPause \/ ~w.refButton IN
  /\ state = "Paused"
  /\ \/ w.refButton /\ released /\ ChangeState("Countdown")
     \/ ~w.refButton /\ w.resetButton /\ ChangeState("PreStaging")
     \/ /\ ~(w.refButton /\ released) /\ ~(w.resetButton /\ released)
        /\ remTime' = IF released THEN CeilSeconds(timeRemaining) ELSE remTime
        /\ releasedPause' = released
        /\ UNCHANGED <<state, sinceStart, sinceStarting, sinceRed, sinceBlue, untilEnd>>
  /\ UNCHANGED <<timeRemaining, crashed>>

\* PausedAnim::Tick.  The resume frees the object; if the reset button is
\* down too, _releasedPause and _state are read from freed memory.
PausedTick(w) ==
  LET released == releasedPause \/ ~w.refButton
      resume   == w.refButton /\ released
      reset    == w.resetButton /\ released
      toStart  == ChangeState("PreStaging") /\ UNCHANGED timeRemaining
  IN
  /\ state = "Paused"
  /\ \/ /\ resume /\ ~reset
        /\ ChangeState("Countdown")
        /\ UNCHANGED <<timeRemaining, crashed>>
     \/ ~resume /\ reset /\ toStart /\ UNCHANGED crashed
     \/ resume /\ reset /\ AfterFree(toStart)
     \/ /\ ~resume /\ ~reset
        /\ remTime' = CeilSeconds(timeRemaining)
        /\ releasedPause' = released
        /\ UNCHANGED <<state, timeRemaining, sinceStart, sinceStarting,
                       sinceRed, sinceBlue, untilEnd, crashed>>

EndTick(w) ==
  /\ state = "End"
  /\ w.resetButton
  /\ ChangeState("PreStaging")
  /\ UNCHANGED <<timeRemaining, crashed>>

\* The ticks that fall through every condition.
IdleTick(w) ==
  /\ \/ state = "PreCountdown" /\ sinceStart <= AnimEnd
     \/ state = "Countdown" /\ sinceStart <= CountdownLength
     \/ state = "Fighting" /\ ~(w.redButton \/ w.blueButton \/ w.refButton)
     \/ state = "End" /\ ~w.resetButton
  /\ UNCHANGED vars

\* StateMachine::Tick
Tick(w) ==
  /\ ~crashed
  /\ \/ PreStagingTick(w)
     \/ StagingTick(w)
     \/ PreCountdownTick
     \/ CountdownTick
     \/ FightingTick(w)
     \/ PausedTick(w)
     \/ EndTick(w)
     \/ IdleTick(w)

\* The steady clock moves on by one unit.
Older(since) == IF since = Never \/ since >= Horizon THEN since ELSE since + 1

Elapse ==
  /\ sinceStart' = Older(sinceStart)
  /\ sinceStarting' = Older(sinceStarting)
  /\ sinceRed' = Older(sinceRed)
  /\ sinceBlue' = Older(sinceBlue)
  /\ untilEnd' = IF state = "Fighting" /\ untilEnd > -Horizon
                 THEN untilEnd - 1 ELSE untilEnd
  /\ UNCHANGED <<state, timeRemaining, releasedPause, remTime, crashed>>

-----------------------------------------------------------------------------
(* What the animations show: GetButtonLeds and GetSegmentLed.  A character  *)
(* is its byte.                                                             *)

\* Mutant: a team's lamp is lit once it has pressed ("!=" for "==").
GetButtonLedsInverted ==
  CASE state = "Fighting" -> [red |-> TRUE, blue |-> TRUE]
    [] state = "Staging"  -> [red |-> sinceRed # Never, blue |-> sinceBlue # Never]
    [] OTHER              -> [red |-> FALSE, blue |-> FALSE]

\* Which of the two team buttons are lit.
GetButtonLeds ==
  CASE state = "Fighting" -> [red |-> TRUE, blue |-> TRUE]
    [] state = "Staging"  -> [red |-> sinceRed = Never, blue |-> sinceBlue = Never]
    [] OTHER              -> [red |-> FALSE, blue |-> FALSE]

Zeros    == <<0, 0, 0, 0>>            \* SegmentLedState{}
Spaces   == <<32, 32, 32, 32>>        \* "    "
StrtText == <<115, 116, 114, 116>>    \* "strt"
EndText  == <<69, 110, 100, 32>>      \* "End "

\* The sum '0' + n, narrowed to a char.
DigitChar(n) == (48 + n) % 256

\* Mutant: the tens of seconds without "% 60".
ClockTextNoModulo(t) ==
  <<DigitChar(Quot(t, 60)), DigitChar(Quot(t, 10)), DigitChar(Rem(t, 10)), 32>>

\* m:ss of a number of seconds, as Fighting and PausedAnim format it.
ClockText(t) ==
  <<DigitChar(Quot(t, 60)), DigitChar(Quot(Rem(t, 60), 10)), DigitChar(Rem(t, 10)), 32>>

\* XmasTree: 3, 2 and 1, each in its own position.
CountdownText ==
  CASE sinceStart > 2 * Second -> <<32, 32, 49, 32>>
    [] sinceStart > Second /\ sinceStart <= 2 * Second -> <<32, 50, 32, 32>>
    [] OTHER -> <<51, 32, 32, 32>>

GetSegmentLed ==
  LET left == CeilSeconds(untilEnd) IN
  CASE state = "Staging"      -> [segments |-> StrtText, dots |-> 0]
    [] state = "PreCountdown" -> [segments |-> Spaces, dots |-> 0]
    [] state = "Countdown"    -> [segments |-> CountdownText, dots |-> 0]
    [] state = "Paused"       -> [segments |-> ClockText(remTime), dots |-> 1]
    [] state = "Fighting" /\ left > 0 -> [segments |-> ClockText(left), dots |-> 1]
    [] state = "Fighting" /\ left <= 0 -> [segments |-> EndText, dots |-> 0]
    [] OTHER -> [segments |-> Zeros, dots |-> 0]    \* PreStaging, End

-----------------------------------------------------------------------------
Next == Elapse \/ \E w \in WorldState : Tick(w)

Spec == Init /\ [][Next]_vars

\* main's loop keeps ticking and the steady clock keeps running.
Fairness == WF_vars(Elapse) /\ WF_vars(\E w \in WorldState : Tick(w))

FairSpec == Spec /\ Fairness

-----------------------------------------------------------------------------
(* Properties.                                                              *)

\* A display shows m:ss when it shows three digits and the first dot.
ShowsClock(led) == led.dots = 1 /\ \A i \in 1..3 : led.segments[i] \in 48..57

\* What a spectator reads off m:ss, in seconds.
ReadClock(led) ==
  60 * (led.segments[1] - 48) + 10 * (led.segments[2] - 48) + (led.segments[3] - 48)

\* While the clock of a fight runs, the displays are given a legible m:ss that
\* is the time left, rounded up to a second; they say so until the very end and
\* not after it (Fighting::GetSegmentLed against the _end that Tick uses).
FightClockReadsTrue ==
  state = "Fighting" =>
    /\ ShowsClock(GetSegmentLed) <=> untilEnd > 0
    /\ untilEnd > 0 => /\ ReadClock(GetSegmentLed) * Second >= untilEnd
                       /\ (ReadClock(GetSegmentLed) - 1) * Second < untilEnd

\* Once both teams have pressed their buttons nothing can hold the fight up:
\* StagingAnim, PreCountdownAnimation and XmasTree hand over on time alone.
BothReady == state = "Staging" /\ sinceRed # Never /\ sinceBlue # Never
ReadyLeadsToFight == BothReady ~> state = "Fighting"

\* The fight time a match has left; there is no match before staging and after
\* the end.
Budget == CASE state = "Fighting" -> untilEnd
            [] state \in {"PreStaging", "End"} -> 0
            [] OTHER -> timeRemaining

\* The match as the referee sees it.
M == INSTANCE Match WITH phase <- state, budget <- Budget

\* The state machine implements the referee's match: only the legal changes of
\* phase, and a budget of fight time that only a fight spends (but for rounding).
ImplementsMatch == M!Spec
=============================================================================
