----------------------------- MODULE MainProofs -----------------------------
(***************************************************************************)
(* Theorems about main's loop: what is proved of the state machine holds   *)
(* inside it, and lamps, displays and strips follow the state machine.     *)
(***************************************************************************)
EXTENDS MainLoop, ArenaProofs, FiniteSetTheorems

\* The buttons are always read as a WorldState.
ButtonsOK == buttons \in WorldState

\* A press or a release gives a reading of the four buttons again.
LEMMA ToggleType == ASSUME ButtonsOK, NEW b \in Buttons, Toggle(b) PROVE ButtonsOK'
<1>1. (~buttons[b]) \in BOOLEAN
  OBVIOUS
<1> QED BY <1>1 DEF ButtonsOK, Buttons, Toggle, WorldState

\* Every step of the program or of its surroundings is a Tick of what the
\* buttons read, a unit of time, or nothing to the state machine.
LEMMA LoopStep ==
  ASSUME ButtonsOK, [MainNext]_mainVars
  PROVE  [Next]_vars /\ ButtonsOK'
<1>1. CASE Poll
  BY <1>1 DEF Poll, Next, ButtonsOK
<1>2. CASE SetupPin \/ SetupFails \/ SetupDisplays
  BY <1>2 DEF SetupPin, SetupFails, SetupDisplays, ButtonsOK
<1>3. CASE WriteButtonLeds \/ ReadSegmentLed \/ RefreshStrips
  BY <1>3 DEF WriteButtonLeds, ReadSegmentLed, RefreshStrips, ButtonsOK
<1>4. ASSUME NEW d, NEW next, WriteDisplay(d, next) PROVE UNCHANGED <<vars, buttons>>
  BY <1>4 DEF WriteDisplay
<1>5. CASE LeaveLoop \/ Return \/ Term
  BY <1>5 DEF LeaveLoop, Return, Term, ButtonsOK
<1>6. CASE ClockRuns
  BY <1>6 DEF ClockRuns, Next, ButtonsOK
<1>7. ASSUME NEW b \in Buttons, Toggle(b) PROVE [Next]_vars /\ ButtonsOK'
  BY <1>7, ToggleType DEF Toggle
<1>8. CASE UNCHANGED mainVars
  BY <1>8 DEF mainVars, ButtonsOK
<1>9. UNCHANGED <<vars, buttons>> => [Next]_vars /\ ButtonsOK'
  BY DEF ButtonsOK
<1> QED
  BY <1>1, <1>2, <1>3, <1>4, <1>5, <1>6, <1>7, <1>8, <1>9 DEF MainNext, Program

\* main's loop drives the state machine as ArenaStates says: whatever people,
\* the bus, the clock and SIGTERM do between two steps of the loop.
THEOREM LoopDrivesStateMachine == MainSpec => Spec
<1>1. MainInit => Init /\ ButtonsOK
  <2>1. [b \in Buttons |-> FALSE] \in WorldState
    BY DEF Buttons, WorldState
  <2> QED BY <2>1 DEF MainInit, ButtonsOK
<1> QED BY <1>1, LoopStep, PTL DEF MainSpec, Spec

\* So the running program implements the referee's match.
THEOREM ProgramImplementsMatch == MainSpec => ImplementsMatch
BY LoopDrivesStateMachine, Refinement

-----------------------------------------------------------------------------
(* What the outputs show, step by step of the loop.                         *)

\* Where a frame has been read and not all of it been shown.
Writing == {"blue", "red", "big", "colors"}

\* The lamps are as the animation wants them.
LampsRight ==
  /\ buttonLed.red = 0 <=> GetButtonLeds.red
  /\ buttonLed.blue = 0 <=> GetButtonLeds.blue

\* Main has gone round the loop in the current animation, or never yet.
GoneRound ==
  /\ pc \in {"setup", "displays"} => state = "PreStaging" /\ strips = "dark"
  /\ pc = "poll" => strips = state \/ (strips = "dark" /\ state = "PreStaging")

\* From the write of the lamps to the next poll they are right.
LampInv ==
  pc \in Writing \cup {"segments"} \/ (pc = "poll" /\ strips # "dark") => LampsRight

\* The displays already written in this iteration.
Written == CASE pc = "red" -> {"blue"}
             [] pc = "big" -> {"blue", "red"}
             [] pc = "colors" \/ (pc = "poll" /\ strips # "dark") -> Displays
             [] OTHER -> {}

\* They show what this iteration read, if the bus lost nothing.
ShownInv == lost = 0 => \A d \in Written : shown[d].segments = segmentLed.segments

\* From its second iteration on a pause has worked out its time.
PauseInv ==
  state = "Paused" /\ strips = "Paused" /\ pc \in {"buttonLeds", "segments"} /\ ~crashed =>
    remTime = CeilSeconds(timeRemaining)

\* A clock that shows at least a time.
Enough(segments, time) ==
  \E n \in 1 .. 599 : segments = ClockText(n) /\ n * Second >= time

\* In a fight every text read since it began, and every one shown, shows enough.
WallInv ==
  state = "Fighting" /\ untilEnd > 0 =>
    /\ pc \in Writing => Enough(segmentLed.segments, untilEnd)
    /\ strips = "Fighting" /\ lost = 0 => \A d \in Displays : Enough(shown[d].segments, untilEnd)

\* Before the sixth pin is set up there is one more to come.
PinsInv == pc = "setup" => pinsSet <= 5

\* The types, and the one bound that set-up needs to keep them.
LoopType == MainTypeOK /\ PinsInv

-----------------------------------------------------------------------------
(* Types of the program.                                                   *)

\* A number narrowed to a char is a byte.
LEMMA DigitCharType == ASSUME NEW n \in Int PROVE DigitChar(n) \in 0 .. 255
BY DEF DigitChar

\* A clock is four bytes, whatever number it is made of.
LEMMA ClockTextType == ASSUME NEW t \in Int PROVE ClockText(t) \in [1..4 -> 0..255]
<1>1. \A a \in Int : Quot(a, 60) \in Int /\ Quot(a, 10) \in Int
  BY DEF Quot
<1>2. \A a \in Int : Rem(a, 60) \in Int /\ Rem(a, 10) \in Int
  BY <1>1 DEF Rem
<1>3. /\ DigitChar(Quot(t, 60)) \in 0..255
      /\ DigitChar(Quot(Rem(t, 60), 10)) \in 0..255
      /\ DigitChar(Rem(t, 10)) \in 0..255
  BY <1>1, <1>2, DigitCharType
<1> HIDE DEF DigitChar, Quot, Rem
<1> QED BY <1>3 DEF ClockText

\* Every animation returns a frame, the pause with its uninitialised time too.
LEMMA FrameType == TypeOK => GetSegmentLed \in Frame
<1> SUFFICES ASSUME TypeOK PROVE GetSegmentLed \in Frame
  OBVIOUS
<1>1. ClockText(remTime) \in [1..4 -> 0..255]
  BY ClockTextType DEF TypeOK
<1>2. ClockText(CeilSeconds(untilEnd)) \in [1..4 -> 0..255]
  BY ClockTextType, CeilSecondsType DEF TypeOK
<1>3. CountdownText \in [1..4 -> 0..255]
  BY DEF CountdownText
<1>4. /\ Zeros \in [1..4 -> 0..255] /\ Spaces \in [1..4 -> 0..255]
      /\ StrtText \in [1..4 -> 0..255] /\ EndText \in [1..4 -> 0..255]
  BY DEF Zeros, Spaces, StrtText, EndText
<1> HIDE DEF CountdownText, ClockText, Zeros, Spaces, StrtText, EndText
<1>5. \A s \in [1..4 -> 0..255], d \in 0..1 : [segments |-> s, dots |-> d] \in Frame
  BY DEF Frame
<1>6. 0 \in 0..1 /\ 1 \in 0..1
  OBVIOUS
<1>7. CASE state \in {"Staging", "PreCountdown", "Countdown"}
  BY <1>3, <1>4, <1>5, <1>6, <1>7 DEF GetSegmentLed
<1>8. CASE state = "Paused"
  BY <1>1, <1>5, <1>6, <1>8 DEF GetSegmentLed
<1>9. CASE state = "Fighting"
  <2>1. CeilSeconds(untilEnd) \in Int
    BY CeilSecondsType DEF TypeOK
  <2> QED BY <1>2, <1>4, <1>5, <1>6, <1>9, <2>1 DEF GetSegmentLed
<1>10. CASE state \in {"PreStaging", "End"}
  BY <1>4, <1>5, <1>6, <1>10 DEF GetSegmentLed
<1> QED BY <1>7, <1>8, <1>9, <1>10 DEF TypeOK, ArenaState

\* A write to a display, lost or not, leaves a frame on it.
LEMMA WriteType ==
  ASSUME LoopType, NEW d \in Displays, NEW next \in Labels \ {"setup"}, WriteDisplay(d, next)
  PROVE  LoopType'
<1> USE DEF LoopType, MainTypeOK, PinsInv
<1>1. PICK textLost \in 0..1, dotsLost \in 0..1 :
        /\ lost + textLost + dotsLost <= MaxLost
        /\ lost' = lost + textLost + dotsLost
        /\ shown' = [shown EXCEPT ![d] =
            [segments |-> IF textLost = 1 THEN @.segments ELSE segmentLed.segments,
             dots |-> IF d = "big" \/ dotsLost = 1 THEN @.dots ELSE segmentLed.dots]]
  BY DEF WriteDisplay
<1>2. lost' \in 0 .. MaxLost
  BY <1>1, MaxLostAssumption
<1>3. shown' \in [Displays -> Frame]
  BY <1>1 DEF Frame
<1>4. TypeOK'
  BY DEF WriteDisplay, TypeOK, vars, animation
<1> QED BY <1>2, <1>3, <1>4 DEF WriteDisplay

\* A frame without its dots is a frame.
LEMMA DotsOff == \A f \in Frame : [f EXCEPT !.dots = 0] \in Frame
BY DEF Frame

\* Every step of the program, people, bus, clock and signal keeps the types.
LEMMA LoopTypeStep == LoopType /\ [MainNext]_mainVars => LoopType'
<1> SUFFICES ASSUME LoopType, [MainNext]_mainVars PROVE LoopType'
  OBVIOUS
<1>0. TypeOK'
  <2>1. [Next]_vars
    BY LoopStep DEF LoopType, MainTypeOK, ButtonsOK
  <2>2. UNCHANGED vars => TypeOK'
    BY DEF LoopType, MainTypeOK, TypeOK, vars, animation
  <2> QED BY <2>1, <2>2, TickType, ElapseType DEF Next, LoopType, MainTypeOK
<1> USE DEF LoopType, MainTypeOK, PinsInv, Labels
<1>1. CASE SetupPin
  BY <1>0, <1>1 DEF SetupPin
<1>2. CASE SetupDisplays
  <2>1. PICK missed \in SUBSET Displays :
          /\ lost' = lost + Cardinality(missed)
          /\ lost' <= MaxLost
          /\ shown' = [d \in Displays |-> IF d \in missed THEN shown[d]
                                      ELSE [shown[d] EXCEPT !.dots = 0]]
    BY <1>2 DEF SetupDisplays
  <2>2. IsFiniteSet(Displays)
    <3>1. Displays = ({"blue"} \cup {"red"}) \cup {"big"}
      BY DEF Displays
    <3> QED BY <3>1, FS_Singleton, FS_Union
  <2>3. Cardinality(missed) \in Nat
    BY <2>2, FS_Subset, FS_CardinalityType
  <2>4. lost' \in 0 .. MaxLost
    BY <2>1, <2>3, MaxLostAssumption
  <2>5. shown' \in [Displays -> Frame]
    <3>1. \A d \in Displays : shown[d] \in Frame /\ [shown[d] EXCEPT !.dots = 0] \in Frame
      BY DotsOff
    <3> QED BY <2>1, <3>1
  <2> QED BY <1>0, <1>2, <2>4, <2>5 DEF SetupDisplays
<1>3. CASE Poll
  BY <1>0, <1>3 DEF Poll
<1>4. CASE WriteButtonLeds
  BY <1>0, <1>4 DEF WriteButtonLeds
<1>5. CASE ReadSegmentLed
  BY <1>0, <1>5, FrameType DEF ReadSegmentLed
<1>6. CASE WriteDisplay("blue", "red") \/ WriteDisplay("red", "big") \/ WriteDisplay("big", "colors")
  BY <1>6, WriteType DEF Displays
<1>7. CASE RefreshStrips
  BY <1>0, <1>7 DEF RefreshStrips, TypeOK
<1>8. CASE SetupFails \/ LeaveLoop \/ Return
  BY <1>0, <1>8 DEF SetupFails, LeaveLoop, Return
<1>9. CASE Term \/ ClockRuns
  BY <1>0, <1>9 DEF Term, ClockRuns, io
<1>10. ASSUME NEW b \in Buttons, Toggle(b) PROVE LoopType'
  BY <1>0, <1>10, ToggleType DEF Toggle, io, ButtonsOK
<1>11. CASE UNCHANGED mainVars
  BY <1>0, <1>11 DEF mainVars, io
<1> QED
  BY <1>1, <1>2, <1>3, <1>4, <1>5, <1>6, <1>7, <1>8, <1>9, <1>10, <1>11 DEF MainNext, Program

\* The program starts well typed.
LEMMA LoopTypeInit == MainInit => LoopType
<1> SUFFICES ASSUME MainInit PROVE LoopType
  OBVIOUS
<1>1. TypeOK
  BY InitType DEF MainInit
<1>2. Blank \in Frame /\ Leftover \in Frame
  <2>1. ClockText(8) \in [1..4 -> 0..255]
    BY ClockTextType
  <2> HIDE DEF ClockText
  <2> QED BY <2>1 DEF Blank, Leftover, Frame, Spaces
<1>3. buttons \in WorldState
  BY DEF MainInit, Buttons, WorldState
<1>4. shown \in [Displays -> Frame]
  BY <1>2 DEF MainInit
<1>5. segmentLed \in Frame
  BY <1>2 DEF MainInit
<1>6. pc \in Labels /\ pinsSet \in 0 .. 6 /\ lost \in 0 .. MaxLost /\ pinsSet <= 5
  BY MaxLostAssumption DEF MainInit, Labels
<1>7. /\ inputs \subseteq Buttons /\ done \in BOOLEAN
      /\ buttonLed \in [red : {0, 1}, blue : {0, 1}]
      /\ strips \in ArenaState \cup {"dark"}
  BY Zenon DEF MainInit
<1> QED BY <1>1, <1>3, <1>4, <1>5, <1>6, <1>7 DEF LoopType, MainTypeOK, PinsInv

\* The program is well typed, for any number of lost writes: no pin is set up beyond
\* the last, and a frame is four bytes and a dot, whatever _remTime held.
THEOREM MainTypeCorrect == MainSpec => []MainTypeOK
<1>1. LoopType => MainTypeOK
  BY DEF LoopType
<1> QED BY <1>1, LoopTypeInit, LoopTypeStep, PTL DEF MainSpec

\* What the theorems about the outputs rest on: inductive with the types.
ControlInv == GoneRound /\ LampInv /\ ShownInv /\ PauseInv /\ OneIndeterminateFrame

-----------------------------------------------------------------------------
(* Outputs and state machine.                                              *)

\* The displays already written, by the step that main is at.
LEMMA WrittenIs ==
  /\ pc = "red" => Written = {"blue"}
  /\ pc = "big" => Written = {"blue", "red"}
  /\ pc = "colors" \/ (pc = "poll" /\ strips # "dark") => Written = {"blue", "red", "big"}
  /\ pc \notin {"red", "big", "colors", "poll"} => Written = {}
  /\ pc = "poll" /\ strips = "dark" => Written = {}
BY DEF Written, Displays

\* The same in the next state.
LEMMA WrittenIsPrime ==
  /\ pc' = "red" => Written' = {"blue"}
  /\ pc' = "big" => Written' = {"blue", "red"}
  /\ pc' = "colors" \/ (pc' = "poll" /\ strips' # "dark") => Written' = {"blue", "red", "big"}
  /\ pc' \notin {"red", "big", "colors", "poll"} => Written' = {}
  /\ pc' = "poll" /\ strips' = "dark" => Written' = {}
BY DEF Written, Displays

\* Time passing changes neither the animation nor its lamps.
LEMMA ElapseKeepsLamps ==
  ASSUME TypeOK, Elapse
  PROVE  /\ UNCHANGED <<state, timeRemaining, remTime, crashed>>
         /\ GetButtonLeds' = GetButtonLeds
<1>1. /\ (sinceRed' = Never) <=> (sinceRed = Never)
      /\ (sinceBlue' = Never) <=> (sinceBlue = Never)
  BY HorizonAssumption DEF Elapse, Older, TypeOK, Age, Never
<1> QED BY <1>1 DEF Elapse, GetButtonLeds

\* A pause that goes on works its time out.
LEMMA PauseWorksOut ==
  ASSUME state = "Paused", NEW w \in WorldState, Tick(w), state' = "Paused", ~crashed'
  PROVE  remTime' = CeilSeconds(timeRemaining) /\ timeRemaining' = timeRemaining
<1>1. PausedTick(w)
  BY DEF Tick, PreStagingTick, StagingTick, PreCountdownTick, CountdownTick,
         FightingTick, EndTick, IdleTick
<1> QED BY <1>1 DEF PausedTick, AfterFree, ChangeState

\* A poll may change the animation; the outputs catch up before the next one.
LEMMA PollControl == LoopType /\ ControlInv /\ Poll => ControlInv'
<1> SUFFICES ASSUME LoopType, ControlInv, Poll PROVE ControlInv'
  OBVIOUS
<1> USE WrittenIsPrime DEF ControlInv, Writing
<1>1. pc = "poll" /\ pc' = "buttonLeds" /\ Tick(buttons) /\ buttons \in WorldState
      /\ UNCHANGED <<strips, shown, segmentLed, lost>>
  BY DEF Poll, LoopType, MainTypeOK
<1>2. GoneRound' /\ LampInv' /\ OneIndeterminateFrame' /\ ShownInv'
  BY <1>1 DEF GoneRound, LampInv, OneIndeterminateFrame, ShownInv
<1>3. PauseInv'
  <2> SUFFICES ASSUME state' = "Paused", strips' = "Paused", ~crashed'
               PROVE  remTime' = CeilSeconds(timeRemaining')
    BY <1>1 DEF PauseInv
  <2>1. state = "Paused"
    BY <1>1 DEF GoneRound
  <2> QED BY <1>1, <2>1, PauseWorksOut
<1> QED BY <1>2, <1>3

\* A write that is not lost brings its display up to date.
LEMMA WriteControl ==
  ASSUME LoopType, ControlInv,
         NEW d, NEW next, WriteDisplay(d, next),
         <<d, next>> \in {<<"blue", "red">>, <<"red", "big">>, <<"big", "colors">>}
  PROVE  ControlInv'
<1>1. PICK textLost \in 0..1, dotsLost \in 0..1 :
        /\ lost' = lost + textLost + dotsLost
        /\ shown' = [shown EXCEPT ![d] =
            [segments |-> IF textLost = 1 THEN @.segments ELSE segmentLed.segments,
             dots |-> IF d = "big" \/ dotsLost = 1 THEN @.dots ELSE segmentLed.dots]]
  BY DEF WriteDisplay
<1>2. /\ pc = d /\ pc' = next
      /\ UNCHANGED <<vars, buttonLed, segmentLed, strips>>
  BY DEF WriteDisplay
<1>3. lost \in Nat /\ shown \in [Displays -> Frame]
  BY DEF LoopType, MainTypeOK
<1> USE DEF ControlInv, Writing
<1>4. GoneRound' /\ LampInv' /\ OneIndeterminateFrame' /\ PauseInv'
  BY <1>2 DEF GoneRound, LampInv, LampsRight, GetButtonLeds, OneIndeterminateFrame, PauseInv,
              vars, animation
<1>5. ShownInv'
  <2> SUFFICES ASSUME lost' = 0, NEW e \in Written'
               PROVE  shown'[e].segments = segmentLed'.segments
    BY DEF ShownInv
  <2>1. lost = 0 /\ textLost = 0
    BY <1>1, <1>3
  <2>2. e = d \/ e \in Written
    BY <1>2, WrittenIs, WrittenIsPrime
  <2>3. e \in Displays /\ d \in Displays
    BY <1>2, WrittenIsPrime DEF Displays
  <2>4. CASE e = d
    BY <1>1, <1>2, <1>3, <2>1, <2>3, <2>4
  <2>5. CASE e # d /\ e \in Written
    BY <1>1, <1>2, <1>3, <2>1, <2>3, <2>5 DEF ShownInv
  <2> QED BY <2>2, <2>4, <2>5
<1> QED BY <1>4, <1>5

\* The loop and everything beside it keep the invariant.
LEMMA ControlStep == LoopType /\ ControlInv /\ [MainNext]_mainVars => ControlInv'
<1> SUFFICES ASSUME LoopType, ControlInv, [MainNext]_mainVars PROVE ControlInv'
  OBVIOUS
<1> USE WrittenIs, WrittenIsPrime
    DEF ControlInv, GoneRound, LampInv, ShownInv, PauseInv, OneIndeterminateFrame, Writing
<1>1. CASE SetupPin \/ SetupFails
  BY <1>1 DEF SetupPin, SetupFails, vars, animation
<1>2. CASE SetupDisplays
  BY <1>2 DEF SetupDisplays, vars, animation
<1>3. CASE Program /\ Poll
  BY <1>3, PollControl
<1>4. CASE WriteButtonLeds
  <2>1. LampsRight'
    BY <1>4 DEF WriteButtonLeds, LampsRight, GetButtonLeds, vars, animation
  <2> QED BY <1>4, <2>1 DEF WriteButtonLeds, vars, animation
<1>5. CASE Program /\ ReadSegmentLed
  <2>1. LampsRight'
    BY <1>5 DEF ReadSegmentLed, LampsRight, GetButtonLeds, vars, animation
  <2>2. state = "Paused" => segmentLed'.segments = ClockText(remTime)
    BY <1>5 DEF ReadSegmentLed, GetSegmentLed
  <2> HIDE DEF ClockText
  <2> QED BY <1>5, <2>1, <2>2 DEF ReadSegmentLed, Program, vars, animation
<1>6. CASE WriteDisplay("blue", "red") \/ WriteDisplay("red", "big") \/ WriteDisplay("big", "colors")
  BY <1>6, WriteControl
<1>7. CASE RefreshStrips
  <2>1. LampsRight'
    BY <1>7 DEF RefreshStrips, LampsRight, GetButtonLeds, vars, animation
  <2> QED BY <1>7, <2>1 DEF RefreshStrips, vars, animation
<1>8. CASE LeaveLoop \/ Return
  BY <1>8 DEF LeaveLoop, Return, vars, animation
<1>9. CASE Term
  BY <1>9 DEF Term, vars, animation, LampsRight, GetButtonLeds
<1>10. CASE ClockRuns
  <2>1. /\ UNCHANGED <<state, timeRemaining, remTime, crashed, io>>
        /\ GetButtonLeds' = GetButtonLeds
    BY <1>10, ElapseKeepsLamps DEF ClockRuns, LoopType, MainTypeOK
  <2>2. LampsRight' <=> LampsRight
    BY <2>1 DEF LampsRight, io
  <2> QED BY <2>1, <2>2 DEF io
<1>11. CASE UNCHANGED <<vars, io>>
  BY <1>11 DEF vars, animation, io, LampsRight, GetButtonLeds
<1>12. ASSUME NEW b \in Buttons, Toggle(b) PROVE UNCHANGED <<vars, io>>
  BY <1>12 DEF Toggle
<1> QED
  BY <1>1, <1>2, <1>3, <1>4, <1>5, <1>6, <1>7, <1>8, <1>9, <1>10, <1>11, <1>12
     DEF MainNext, Program, mainVars

\* So it holds throughout.
LEMMA LoopInvariant == MainSpec => [](LoopType /\ ControlInv)
<1>1. MainInit => ControlInv
  <2> SUFFICES ASSUME MainInit PROVE ControlInv
    OBVIOUS
  <2>1. pc = "setup" /\ state = "PreStaging" /\ strips = "dark"
    BY DEF MainInit, Init
  <2> QED BY <2>1, WrittenIs DEF ControlInv, GoneRound, LampInv, ShownInv, PauseInv,
                                OneIndeterminateFrame, Writing
<1> QED BY <1>1, LoopTypeInit, LoopTypeStep, ControlStep, PTL DEF MainSpec

\* Between two iterations of main's loop lamps, strips and displays show the same
\* animation, the one the state machine is in, for all times and any number of losses.
THEOREM OutputsFollow == MainSpec => []OutputsFollowState
<1>1. LoopType /\ ControlInv => OutputsFollowState
  BY DEF ControlInv, GoneRound, LampInv, LampsRight, ShownInv, Written, OutputsFollowState
<1> QED BY <1>1, LoopInvariant, PTL

\* PausedAnim's uninitialised _remTime is gone from its second iteration on,
\* wherever in the loop the clock, a button or SIGTERM come in between.
THEOREM PausesShowTheirTime == MainSpec => []OneIndeterminateFrame
BY LoopInvariant, PTL DEF ControlInv

\* No team's press is acted upon while its lamp is dark (StagingAnim::Tick and
\* Fighting::Tick against the order of main's loop).
THEOREM LampsComeFirst == MainSpec => LitBeforeActedUpon
<1> DEFINE Lit == /\ sinceRed = Never /\ sinceRed' # Never => buttonLed.red = 0
                  /\ sinceBlue = Never /\ sinceBlue' # Never => buttonLed.blue = 0
                  /\ state = "Fighting" /\ state' = "End" =>
                       buttonLed.red = 0 /\ buttonLed.blue = 0
<1>1. LoopType /\ ControlInv /\ [MainNext]_mainVars => [Lit]_mainVars
  <2> SUFFICES ASSUME LoopType, ControlInv, MainNext PROVE Lit
    OBVIOUS
  <2>1. CASE UNCHANGED <<state, sinceRed, sinceBlue>>
    BY <2>1
  <2>2. CASE Elapse
    BY <2>2 DEF Elapse, Older
  <2>3. CASE Poll
    <3>1. pc = "poll" /\ Tick(buttons) /\ buttons \in WorldState /\ TypeOK
      BY <2>3 DEF Poll, LoopType, MainTypeOK
    <3>2. CASE strips = "dark"
      <4>1. state = "PreStaging"
        BY <3>1, <3>2 DEF ControlInv, GoneRound, TypeOK, ArenaState
      <4>2. Stays \/ Moves
        BY <3>1, TickStaysOrMoves
      <4> QED BY <4>1, <4>2 DEF Stays, Moves
    <3>3. CASE strips # "dark"
      <4>1. LampsRight
        BY <3>1, <3>3 DEF ControlInv, LampInv
      <4>2. Stays \/ Moves
        BY <3>1, TickStaysOrMoves
      <4> QED BY <4>1, <4>2 DEF Stays, Moves, LampsRight, GetButtonLeds
    <3> QED BY <3>2, <3>3
  <2>4. ASSUME NEW d, NEW next, WriteDisplay(d, next) PROVE UNCHANGED vars
    BY <2>4 DEF WriteDisplay
  <2>5. UNCHANGED vars => UNCHANGED <<state, sinceRed, sinceBlue>>
    BY DEF vars, animation
  <2>6. MainNext => Poll \/ Elapse \/ UNCHANGED vars
    BY <2>4 DEF MainNext, Program, SetupPin, SetupFails, SetupDisplays, WriteButtonLeds,
        ReadSegmentLed, RefreshStrips, LeaveLoop, Return, Term, ClockRuns, Toggle
  <2> HIDE DEF Lit
  <2> QED BY <2>1, <2>2, <2>3, <2>5, <2>6
<1> QED BY <1>1, LoopInvariant, PTL DEF MainSpec, LitBeforeActedUpon

-----------------------------------------------------------------------------
(* The wall clock.                                                         *)

\* What the text given out in a fight shows.
LEMMA EnoughGiven ==
  ASSUME LegibleFight, TypeOK, LeftBounded, state = "Fighting", untilEnd > 0
  PROVE  Enough(GetSegmentLed.segments, untilEnd)
<1> DEFINE left == CeilSeconds(untilEnd)
<1>1. untilEnd \in Int /\ untilEnd <= 599 * Second
  BY TimingAssumption DEF TypeOK, LeftBounded, MatchOn, Left, LegibleFight
<1>2. left \in Int /\ left > 0 /\ left <= 599 /\ left * Second >= untilEnd
  BY <1>1, CeilSecondsBounds, CeilSecondsPositive
<1>3. GetSegmentLed.segments = ClockText(left)
  BY <1>2 DEF GetSegmentLed
<1> HIDE DEF left
<1>4. left \in 1 .. 599
  BY <1>2
<1> QED BY <1>2, <1>3, <1>4, Zenon DEF Enough

\* A text that shows enough does so later in the fight, too.
LEMMA EnoughLater ==
  ASSUME NEW t \in Int, NEW u \in Int, u <= t, NEW s, Enough(s, t)
  PROVE  Enough(s, u)
<1>1. PICK n \in 1 .. 599 : s = ClockText(n) /\ n * Second >= t
  BY DEF Enough
<1>2. n * Second \in Int
  BY TimingAssumption
<1>3. n * Second >= u
  BY <1>1, <1>2
<1> QED BY <1>1, <1>3, Zenon DEF Enough

\* No step leaves a display of a fight short.
LEMMA WallStep ==
  ASSUME LegibleFight, LoopType, ControlInv, LeftBounded, WallInv, [MainNext]_mainVars,
         LoopType'
  PROVE  WallInv'
<1>0. TypeOK /\ untilEnd \in Int /\ untilEnd' \in Int
  BY DEF LoopType, MainTypeOK, TypeOK
<1> SUFFICES ASSUME state' = "Fighting", untilEnd' > 0
             PROVE  /\ pc' \in Writing => Enough(segmentLed'.segments, untilEnd')
                    /\ strips' = "Fighting" /\ lost' = 0 =>
                         \A d \in Displays : Enough(shown'[d].segments, untilEnd')
  BY DEF WallInv
<1>b. CASE /\ UNCHANGED <<state, untilEnd, segmentLed, shown, strips, lost>>
           /\ pc' \in Writing => pc \in Writing
  BY <1>b DEF WallInv
<1>1. CASE Poll
  <2>1. /\ pc = "poll" /\ pc' = "buttonLeds" /\ Tick(buttons) /\ buttons \in WorldState
        /\ UNCHANGED <<strips, shown, segmentLed, lost>>
    BY <1>1 DEF Poll, LoopType, MainTypeOK
  <2>2. CASE strips = "Fighting"
    <3>1. state = "Fighting"
      BY <2>1, <2>2 DEF ControlInv, GoneRound
    <3>2. UNCHANGED untilEnd
      BY <1>0, <2>1, <3>1, TickStaysOrMoves DEF Stays, Moves
    <3> QED BY <2>1, <3>1, <3>2 DEF Writing, WallInv
  <2> QED BY <2>1, <2>2 DEF Writing
<1>2. CASE ReadSegmentLed
  <2>1. /\ pc = "segments" /\ segmentLed' = GetSegmentLed
        /\ UNCHANGED <<state, untilEnd, shown, strips, lost>>
    BY <1>2 DEF ReadSegmentLed, vars, animation
  <2>2. Enough(GetSegmentLed.segments, untilEnd)
    BY <1>0, <2>1, EnoughGiven
  <2> HIDE DEF GetSegmentLed
  <2> QED BY <2>1, <2>2 DEF WallInv
<1>3. ASSUME NEW d \in {"blue", "red", "big"}, NEW next \in Writing, WriteDisplay(d, next)
      PROVE  WallInv'
  <2>1. /\ pc \in Writing /\ UNCHANGED <<state, untilEnd, segmentLed, strips>>
    BY <1>3 DEF WriteDisplay, vars, animation, Writing
  <2>2. PICK textLost \in 0..1, dotsLost \in 0..1 :
        /\ lost' = lost + textLost + dotsLost
        /\ shown' = [shown EXCEPT ![d] =
            [segments |-> IF textLost = 1 THEN @.segments ELSE segmentLed.segments,
             dots |-> IF d = "big" \/ dotsLost = 1 THEN @.dots ELSE segmentLed.dots]]
    BY <1>3 DEF WriteDisplay
  <2>3. lost \in Nat /\ shown \in [Displays -> Frame]
    BY DEF LoopType, MainTypeOK
  <2>4. lost' = 0 => lost = 0 /\ textLost = 0
    BY <2>2, <2>3
  <2>5. lost' = 0 => \A e \in Displays :
          shown'[e].segments = IF e = d THEN segmentLed.segments ELSE shown[e].segments
    BY <2>2, <2>3, <2>4
  <2> QED BY <2>1, <2>4, <2>5 DEF WallInv
<1>4. CASE RefreshStrips
  <2>1. /\ pc = "colors" /\ pc' = "poll"
        /\ UNCHANGED <<state, untilEnd, segmentLed, shown, lost>>
    BY <1>4 DEF RefreshStrips, vars, animation
  <2>2. Enough(segmentLed.segments, untilEnd)
    BY <2>1 DEF WallInv, Writing
  <2>3. lost = 0 => \A d \in Displays : shown[d].segments = segmentLed.segments
    BY <2>1, WrittenIs DEF ControlInv, ShownInv, Displays
  <2> QED BY <2>1, <2>2, <2>3 DEF Writing
<1>5. CASE ClockRuns
  <2>1. UNCHANGED <<state, pc, segmentLed, shown, strips, lost>> /\ untilEnd' <= untilEnd
    BY <1>0, <1>5 DEF ClockRuns, Elapse, io
  <2>2. untilEnd > 0
    BY <1>0, <2>1
  <2>3. \A s : Enough(s, untilEnd) => Enough(s, untilEnd')
    BY <1>0, <2>1, EnoughLater
  <2> QED BY <2>1, <2>2, <2>3 DEF WallInv
<1>6. CASE SetupDisplays
  BY <1>6 DEF SetupDisplays, ControlInv, GoneRound, vars
<1>7. CASE SetupPin \/ SetupFails \/ WriteButtonLeds \/ LeaveLoop \/ Term
  BY <1>7, <1>b DEF SetupPin, SetupFails, WriteButtonLeds, LeaveLoop, Term, Writing,
                    vars, animation
<1>8. CASE Return
  BY <1>8 DEF Return, Writing
<1>9. ASSUME NEW b \in Buttons, Toggle(b) PROVE UNCHANGED <<vars, io>>
  BY <1>9 DEF Toggle
<1>10. CASE UNCHANGED <<vars, io>>
  BY <1>10, <1>b DEF vars, io, animation
<1>11. CASE WriteDisplay("blue", "red") \/ WriteDisplay("red", "big") \/ WriteDisplay("big", "colors")
  BY <1>3, <1>11 DEF Writing, WallInv
<1> QED
  BY <1>1, <1>2, <1>4, <1>5, <1>6, <1>7, <1>8, <1>9, <1>10, <1>11
     DEF MainNext, Program, mainVars

\* In a fight the displays, however late, show at least the time that is left: they
\* never cheat the teams, unless the bus loses a write.
THEOREM WallClockCorrect ==
  ASSUME LegibleFight
  PROVE  MainSpec => []WallClockNeverShort
<1>1. LoopType /\ WallInv => WallClockNeverShort
  <2> SUFFICES ASSUME LoopType, WallInv, Settled, state = "Fighting", untilEnd > 0,
                      NEW d \in Displays
               PROVE  LET frame == [shown[d] EXCEPT !.dots = 1] IN
                      ShowsClock(frame) /\ ReadClock(frame) * Second >= untilEnd
    BY DEF WallClockNeverShort
  <2> DEFINE frame == [shown[d] EXCEPT !.dots = 1]
  <2>1. PICK n \in 1 .. 599 : shown[d].segments = ClockText(n) /\ n * Second >= untilEnd
    BY DEF Settled, WallInv, Enough
  <2>2. shown[d] \in Frame
    BY DEF LoopType, MainTypeOK
  <2>3. frame = [segments |-> ClockText(n), dots |-> 1]
    BY <2>1, <2>2 DEF Frame
  <2>4. n \in 0 .. 599 /\ 1 \in 0..1
    BY <2>1
  <2> HIDE DEF frame
  <2>5. (\A i \in 1..3 : frame.segments[i] \in 48..57) /\ ReadClock(frame) = n
    BY <2>3, <2>4, ClockTextReads, Zenon
  <2>6. frame.dots = 1
    BY <2>3
  <2>7. ShowsClock(frame) /\ ReadClock(frame) * Second >= untilEnd
    BY <2>1, <2>5, <2>6 DEF ShowsClock
  <2> QED BY <2>7 DEF frame
<1>2. MainInit => WallInv
  BY DEF MainInit, Init, WallInv
<1>3. MainSpec => []LeftBounded
  BY LoopDrivesStateMachine, LeftCorrect, PTL
<1> QED
  BY <1>1, <1>2, <1>3, LoopInvariant, WallStep, PTL DEF MainSpec
=============================================================================
