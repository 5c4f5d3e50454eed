------------------------------ MODULE MainLoop ------------------------------
(***************************************************************************)
(* The controller program (src/main.cpp): set-up of pins and displays, the *)
(* loop that polls the buttons, ticks the state machine and drives the     *)
(* outputs, SIGTERM, and the two ways out.  Buttons, clock, signal and the *)
(* I2C bus run beside the loop and may act between any two of its steps.   *)
(*                                                                         *)
(* The four reads and the Tick are one step: a button that changes, or a   *)
(* signal that arrives, between them might as well have come after them.   *)
(***************************************************************************)
EXTENDS ArenaStates, FiniteSets

CONSTANT MaxLost        \* bound: how many I2C writes the bus may lose

ASSUME MaxLostAssumption == MaxLost \in Nat

VARIABLES
  pc,          \* where main is
  pinsSet,     \* how many of the set-up steps for pins are done
  inputs,      \* the pins on which dir(DIR_IN) succeeded
  buttons,     \* the levels of the four buttons
  done,        \* the flag the SIGTERM handler sets
  buttonLed,   \* levels of the two button LED pins: 0 is lit
  segmentLed,  \* main's local copy of GetSegmentLed()
  shown,       \* what the three segment displays were last given
  strips,      \* the animation whose colours the LED strips show
  lost         \* how many I2C writes were lost

io == <<pc, pinsSet, inputs, done, buttonLed, segmentLed, shown, strips, lost>>
mainVars == <<vars, io, buttons>>

Buttons == {"redButton", "blueButton", "refButton", "resetButton"}
Displays == {"blue", "red", "big"}
Labels == {"setup", "displays", "poll", "buttonLeds", "segments",
           "blue", "red", "big", "colors", "exit", "stopped"}

Blank == [segments |-> Spaces, dots |-> 0]
Leftover == [segments |-> ClockText(8), dots |-> 1]   \* of an earlier run
Frame == [segments : [1..4 -> 0..255], dots : 0..1]

MainTypeOK ==
  /\ TypeOK
  /\ pc \in Labels
  /\ pinsSet \in 0 .. 6
  /\ inputs \subseteq Buttons
  /\ buttons \in WorldState
  /\ done \in BOOLEAN
  /\ buttonLed \in [red : {0, 1}, blue : {0, 1}]
  /\ segmentLed \in Frame
  /\ shown \in [Displays -> Frame]
  /\ strips \in ArenaState \cup {"dark"}
  /\ lost \in 0 .. MaxLost

MainInit ==
  /\ Init
  /\ pc = "setup"
  /\ pinsSet = 0
  /\ inputs = {}
  /\ buttons = [b \in Buttons |-> FALSE]
  /\ done = FALSE
  /\ buttonLed = [red |-> 1, blue |-> 1]
  /\ segmentLed = Blank
  /\ \E frame \in {Blank, Leftover} : shown = [d \in Displays |-> frame]
  /\ strips = "dark"
  /\ lost = 0

-----------------------------------------------------------------------------
(* Set-up.                                                                  *)

\* The pin whose dir() each of the six set-up steps calls.  The step for the
\* reset button calls refButton->dir() once more.
DirTarget == <<"redButton", "blueButton", "refButton", "refButton",
               "redButtonLed", "blueButtonLed">>

\* dir() works, and main goes on to the next pin or to the displays.
SetupPin ==
  /\ pc = "setup"
  /\ pinsSet' = pinsSet + 1
  /\ inputs' = inputs \cup ({DirTarget[pinsSet + 1]} \cap Buttons)
  /\ pc' = IF pinsSet' = 6 THEN "displays" ELSE "setup"
  /\ UNCHANGED <<vars, buttons, done, buttonLed, segmentLed, shown, strips, lost>>

\* dir() fails: main returns MRAA_ERROR_UNSPECIFIED.
SetupFails ==
  /\ pc = "setup"
  /\ pc' = "exit"
  /\ UNCHANGED <<vars, pinsSet, inputs, buttons, done, buttonLed, segmentLed,
                 shown, strips, lost>>

\* Cursor home and dots off on all three displays, as far as the bus works.
SetupDisplays ==
  /\ pc = "displays"
  /\ \E missed \in SUBSET Displays :
       /\ lost' = lost + Cardinality(missed)
       /\ lost' <= MaxLost
       /\ shown' = [d \in Displays |-> IF d \in missed THEN shown[d]
                                      ELSE [shown[d] EXCEPT !.dots = 0]]
  /\ pc' = "poll"
  /\ UNCHANGED <<vars, pinsSet, inputs, buttons, done, buttonLed, segmentLed, strips>>

-----------------------------------------------------------------------------
(* The loop.                                                                *)

Poll ==
  /\ pc = "poll" /\ ~done
  /\ Tick(buttons)
  /\ pc' = "buttonLeds"
  /\ UNCHANGED <<pinsSet, inputs, buttons, done, buttonLed, segmentLed, shown,
                 strips, lost>>

\* Mutant: the blue lamp is never written.
WriteRedButtonLed ==
  /\ pc = "buttonLeds"
  /\ buttonLed' = [buttonLed EXCEPT !.red = IF GetButtonLeds.red THEN 0 ELSE 1]
  /\ pc' = "segments"
  /\ UNCHANGED <<vars, pinsSet, inputs, buttons, done, segmentLed, shown,
                 strips, lost>>

WriteButtonLeds ==
  /\ pc = "buttonLeds"
  /\ buttonLed' = [red  |-> IF GetButtonLeds.red THEN 0 ELSE 1,
                   blue |-> IF GetButtonLeds.blue THEN 0 ELSE 1]
  /\ pc' = "segments"
  /\ UNCHANGED <<vars, pinsSet, inputs, buttons, done, segmentLed, shown,
                 strips, lost>>

\* Mutant: the displays are only written when their contents change.
ReadSegmentLedOnChange ==
  /\ pc = "segments"
  /\ segmentLed' = GetSegmentLed
  /\ pc' = IF segmentLed' = segmentLed THEN "colors" ELSE "blue"
  /\ UNCHANGED <<vars, pinsSet, inputs, buttons, done, buttonLed, shown,
                 strips, lost>>

ReadSegmentLed ==
  /\ pc = "segments"
  /\ segmentLed' = GetSegmentLed
  /\ pc' = "blue"
  /\ UNCHANGED <<vars, pinsSet, inputs, buttons, done, buttonLed, shown,
                 strips, lost>>

\* The writes to one display: the text and, except on the big one, the dots.
\* The results of the writes are ignored, so a lost one leaves what was there.
\* (Every text fills its display and takes the cursor home, so losing only the
\* write of the cursor changes nothing.)
WriteDisplay(d, next) ==
  /\ pc = d
  /\ \E textLost, dotsLost \in 0..1 :
       /\ lost + textLost + dotsLost <= MaxLost
       /\ d = "big" => dotsLost = 0
       /\ lost' = lost + textLost + dotsLost
       /\ shown' = [shown EXCEPT ![d] =
            [segments |-> IF textLost = 1 THEN @.segments ELSE segmentLed.segments,
             dots |-> IF d = "big" \/ dotsLost = 1 THEN @.dots ELSE segmentLed.dots]]
  /\ pc' = next
  /\ UNCHANGED <<vars, pinsSet, inputs, buttons, done, buttonLed, segmentLed, strips>>

\* leds.Refresh(state.GetColors()), the sleep, and back to the top.
RefreshStrips ==
  /\ pc = "colors"
  /\ strips' = state
  /\ pc' = "poll"
  /\ UNCHANGED <<vars, pinsSet, inputs, buttons, done, buttonLed, segmentLed,
                 shown, lost>>

\* while (!done) ends.
LeaveLoop ==
  /\ pc = "poll" /\ done
  /\ pc' = "exit"
  /\ UNCHANGED <<vars, pinsSet, inputs, buttons, done, buttonLed, segmentLed,
                 shown, strips, lost>>

\* Mutant: LedSegment has no destructor.
ReturnLit ==
  /\ pc = "exit"
  /\ pc' = "stopped"
  /\ UNCHANGED <<vars, pinsSet, inputs, buttons, done, buttonLed, segmentLed,
                 shown, strips, lost>>

\* main returns: ~LedSegment sends black to the strips.
Return ==
  /\ pc = "exit"
  /\ strips' = "dark"
  /\ pc' = "stopped"
  /\ UNCHANGED <<vars, pinsSet, inputs, buttons, done, buttonLed, segmentLed,
                 shown, lost>>

Program ==
  /\ ~crashed
  /\ \/ SetupPin \/ SetupFails \/ SetupDisplays
     \/ Poll \/ WriteButtonLeds \/ ReadSegmentLed
     \/ WriteDisplay("blue", "red")
     \/ WriteDisplay("red", "big")
     \/ WriteDisplay("big", "colors")
     \/ RefreshStrips \/ LeaveLoop \/ Return

-----------------------------------------------------------------------------
(* The world around the program.                                           *)

\* Somebody presses or releases a button.
Toggle(b) ==
  /\ buttons' = [buttons EXCEPT ![b] = ~@]
  /\ UNCHANGED <<vars, io>>

\* term(), the handler of SIGTERM.
Term ==
  /\ ~done /\ pc # "stopped"
  /\ done' = TRUE
  /\ UNCHANGED <<vars, buttons, pc, pinsSet, inputs, buttonLed, segmentLed,
                 shown, strips, lost>>

\* The clock runs from the construction of the state machine on.
ClockRuns ==
  /\ pc \notin {"setup", "displays"}
  /\ Elapse
  /\ UNCHANGED <<io, buttons>>

MainNext == Program \/ Term \/ ClockRuns \/ \E b \in Buttons : Toggle(b)

MainSpec == MainInit /\ [][MainNext]_mainVars

\* The scheduler runs the process and the steady clock runs; people and
\* signals owe nothing.
MainFairSpec == MainSpec /\ WF_mainVars(Program) /\ WF_mainVars(ClockRuns)
-----------------------------------------------------------------------------
(* Properties.                                                              *)

\* The loop has gone round in the current animation, and nothing was lost.
Settled == strips = state /\ lost = 0 /\ ~crashed

\* Between two iterations the lamps and the strips show the animation the state
\* machine is in, and all three displays were given its text (main ticks first and
\* then drives every output from the same object).  The big display's firmware
\* latches what it was given a little later.
OutputsFollowState ==
  pc = "poll" /\ strips # "dark" =>
    /\ strips = state
    /\ buttonLed.red = 0 <=> GetButtonLeds.red
    /\ buttonLed.blue = 0 <=> GetButtonLeds.blue
    /\ lost = 0 => \A d \in Displays : shown[d].segments = segmentLed.segments

\* No team's press is acted upon while its lamp is dark: a button is lit an
\* iteration before StagingAnim or Fighting can react to it.
LitBeforeActedUpon ==
  [][/\ sinceRed = Never /\ sinceRed' # Never => buttonLed.red = 0
     /\ sinceBlue = Never /\ sinceBlue' # Never => buttonLed.blue = 0
     /\ state = "Fighting" /\ state' = "End" =>
          buttonLed.red = 0 /\ buttonLed.blue = 0]_mainVars

\* A display that is a little late never cheats the teams: in a fight each was last
\* given a clock, and at least the time that is really left.  (The big one's
\* firmware latches it a little later.)
WallClockNeverShort ==
  Settled /\ state = "Fighting" /\ untilEnd > 0 =>
    \A d \in Displays :
      LET frame == [shown[d] EXCEPT !.dots = 1] IN
      ShowsClock(frame) /\ ReadClock(frame) * Second >= untilEnd

\* PausedAnim's uninitialised _remTime reaches the displays for one frame only:
\* from its second iteration on a pause shows the time the fight has left.
OneIndeterminateFrame ==
  state = "Paused" /\ strips = "Paused" /\ pc \in {"blue", "red", "big", "colors"} =>
    segmentLed.segments = ClockText(CeilSeconds(timeRemaining))

\* Every button main polls had its pin made an input ("Can't set digital pin
\* as input, exiting" is printed for each of the four).
ButtonsAreInputs == pc = "poll" => inputs = Buttons

Over == crashed \/ pc = "stopped"

\* A team that holds its button down ends the fight, however late the polls.
TapOutIsSeen ==
  /\ (state = "Fighting" /\ buttons.redButton) ~>
       (state # "Fighting" \/ ~buttons.redButton \/ Over)
  /\ (state = "Fighting" /\ buttons.blueButton) ~>
       (state # "Fighting" \/ ~buttons.blueButton \/ Over)

\* A write the bus loses is made good: whenever the teams are called to the
\* start, all three displays come to say so, unless staging ends first.
StagingReachesDisplays ==
  (state = "Staging") ~>
    \/ \A d \in Displays : shown[d].segments = StrtText
    \/ state # "Staging" \/ Over

\* SIGTERM stops the program in an orderly way, with the strips dark, unless
\* the process dies first.
TermTurnsStripsOff == done ~> (crashed \/ (pc = "stopped" /\ strips = "dark"))
=============================================================================
