----------------------------- MODULE Animations -----------------------------
(***************************************************************************)
(* What the LED strips are given: GetColors of the seven animations of     *)
(* src/ArenaStates.cpp, as functions of the state machine's ages.          *)
(*                                                                         *)
(* A brightness is counted as the code counts it, 0 .. 255, and rounded    *)
(* down as static_cast<uint8_t> does; the floats before it are exact here. *)
(***************************************************************************)
EXTENDS ArenaStates

CONSTANTS
  NumVertical, NumHorizontal,             \* LEDs in a column, columns
  FadeStart, FadeDuration,                \* StagingAnim: fadeOutStart, fadeOutDuration
  FadeUpStart, FadeUpEnd,                 \* PreCountdownAnimation
  FadeDownStart, FadeDownEnd

ASSUME StripAssumption == NumVertical \in Nat /\ NumVertical >= 14 /\ NumHorizontal \in Nat \ {0}

\* Every fade is over when its animation hands over.
ASSUME FadeAssumption ==
  /\ FadeOutStart > 0
  /\ FadeStart \in Nat /\ FadeDuration \in Nat \ {0}
  /\ FadeStart + FadeDuration <= TotalAnimFromLastButton
  /\ FadeUpStart \in Nat /\ FadeUpEnd \in Nat /\ FadeUpStart < FadeUpEnd
  /\ FadeDownStart \in Nat /\ FadeDownEnd \in Nat /\ FadeDownStart < FadeDownEnd
  /\ FadeDownEnd <= AnimEnd

N == NumVertical * NumHorizontal
Leds == 0 .. N - 1
MaxLightCounts == 120
MidLightCounts == 60

Lower(a, b)  == IF a < b THEN a ELSE b
Higher(a, b) == IF a > b THEN a ELSE b

\* Mutant: not clamped from below.
tweenUnclamped(t, start, end, top) == Lower(top, (top * (t - start)) \div (end - start))

\* top times the share of start .. end that has passed at t.
tween(t, start, end, top) ==
  CASE t <= start -> 0
    [] t >= end   -> top
    [] OTHER      -> (top * (t - start)) \div (end - start)

\* The same, of what is left at t.
Fade(t, start, end, top) == tween(start + end - t, start, end, top)

-----------------------------------------------------------------------------
(* One operator per animation class: the colours LED n may have.            *)

RGB(red, green, blue) == [r |-> red, g |-> green, b |-> blue]
Black == RGB(0, 0, 0)

\* A slow rise, until the referee has pressed his button.
PreStagingLevel ==
  IF sinceStarting > 0 THEN Fade(sinceStarting, 0, FadeOutStart, MidLightCounts)
                       ELSE tween(sinceStart, 0, 3 * FadeOutStart, MidLightCounts)

\* A team's half: a tenth until it presses, then up with the square of the time.
ReadyLevel(since) ==
  IF since > 0
  THEN Lower(MaxLightCounts, 12 + (108 * since * since) \div (Second * Second))
  ELSE 12

\* Mutant: the fade follows the first team ("std::max").
StagingFadeFirst == Fade(Higher(sinceRed, sinceBlue), FadeStart, FadeStart + FadeDuration, MaxLightCounts)

\* Both halves fade together, by the team that came last.
StagingFade == Fade(Lower(sinceRed, sinceBlue), FadeStart, FadeStart + FadeDuration, MaxLightCounts)

StagingColor(n) ==
  IF n < N \div 2 THEN RGB(Lower(ReadyLevel(sinceRed), StagingFade), 0, 0)
                  ELSE RGB(0, 0, Lower(ReadyLevel(sinceBlue), StagingFade))

\* Whatever light the particles give an LED, at most 0.9 * 0.9 of the maximum,
\* it is kept between two limits that move.
PreCountdownColors ==
  LET low  == tween(sinceStart, FadeUpStart, FadeUpEnd, MaxLightCounts)
      high == Fade(sinceStart, FadeDownStart, FadeDownEnd, MaxLightCounts)
  IN  {RGB(v, v, v) : v \in {Lower(Higher(juice, low), high) : juice \in 0 .. 97}}

\* Mutant: the padding after the last region is counted too.
RegionSizeTooBig == (NumVertical - 5 + 3) \div 3

\* XmasTree's constructor: three regions in the middle of every column, counted
\* down from 3.
RegionSize == (NumVertical - 5 - 2 * 3) \div 3
StartPx(region) ==
  (NumVertical \div 2) - (RegionSize * 3 + 3 * 2) \div 2 + region * (RegionSize + 3)
RegionLeds(column, region) ==
  {column * NumVertical + StartPx(region) + j : j \in 0 .. RegionSize - 1}

DootRegion(n) ==
  IF \E region \in 0..2 : n \in RegionLeds(n \div NumVertical, region)
  THEN 3 - (CHOOSE region \in 0..2 : n \in RegionLeds(n \div NumVertical, region))
  ELSE 0

\* clamp(1.2 - (1.2 * f)^2, 0, 1) for the fraction f of the second that has passed.
Dootiness ==
  LET f == sinceStart % Second
      v == (MaxLightCounts * (120 * Second * Second - 144 * f * f)) \div (100 * Second * Second)
  IN  Higher(0, Lower(MaxLightCounts, v))

\* Mutant: a region goes out a second late.
CountdownColorLate(n) ==
  IF (DootRegion(n) + 1) * Second > sinceStart THEN RGB(Dootiness, Dootiness, 0) ELSE Black

CountdownColor(n) ==
  IF DootRegion(n) * Second > sinceStart THEN RGB(Dootiness, Dootiness, 0) ELSE Black

\* Fighting, PausedAnim and End fade out over three seconds.
FightingLevel == Fade(sinceStart, 0, 3 * Second, MaxLightCounts)

GetColors(n) ==
  CASE state = "PreStaging"   -> {RGB(PreStagingLevel, PreStagingLevel, PreStagingLevel)}
    [] state = "Staging"      -> {StagingColor(n)}
    [] state = "PreCountdown" -> PreCountdownColors
    [] state = "Countdown"    -> {CountdownColor(n)}
    [] state = "Fighting"     -> {RGB(0, FightingLevel, 0)}
    [] OTHER                  -> {RGB(FightingLevel, FightingLevel, 0)}   \* Paused, End

-----------------------------------------------------------------------------
(* Properties.                                                              *)

\* No brightness that is cast to uint8_t lies outside 0 .. MaxLightCounts, so
\* that no LED is brighter than the supply allows and no cast is undefined.
BrightnessBounded ==
  \A n \in Leds : \A colour \in GetColors(n) :
    {colour.r, colour.g, colour.b} \subseteq 0 .. MaxLightCounts

\* The staging, the show before it and the show after it each end in the dark:
\* when Tick leaves PreStagingAnim, StagingAnim or PreCountdownAnimation for the
\* next one, GetColors has faded every LED out.
DarkHandOver ==
  [][state # state' /\ state \in {"PreStaging", "Staging", "PreCountdown"} =>
       \A n \in Leds : GetColors(n) = {Black}]_vars

\* A team that has not pressed its button is waited for with its half of the
\* strip aglow, however long ago the other team pressed.
WaitingTeamGlows ==
  state = "Staging" =>
    \A n \in Leds :
      /\ n < N \div 2 /\ sinceRed = Never => GetColors(n) = {RGB(12, 0, 0)}
      /\ n >= N \div 2 /\ sinceBlue = Never => GetColors(n) = {RGB(0, 0, 12)}
      /\ sinceRed = Never \/ sinceBlue = Never => Black \notin GetColors(n)

\* XmasTree's two faces agree: whenever its strips are lit, every column shows as
\* many regions as the displays say, but for the instants at which the number
\* changes.
LitRegions(column) ==
  {region \in 0..2 : \A n \in RegionLeds(column, region) : GetColors(n) # {Black}}
ShownNumber == CHOOSE d \in 1..3 : \E p \in 1..3 : GetSegmentLed.segments[p] = 48 + d
StripsCountWithDisplays ==
  /\ state = "Countdown" /\ Dootiness > 0
  /\ sinceStart < 3 * Second /\ sinceStart \notin {Second, 2 * Second}
  => \A column \in 0 .. NumHorizontal - 1 : LitRegions(column) = 0 .. ShownNumber - 1

\* The regions that XmasTree's constructor fills lie in their own column, apart
\* from each other, as far from its top as from its bottom (to within an LED).
RegionsFit ==
  state = "Countdown" =>
  /\ RegionSize > 0
  /\ \A column \in 0 .. NumHorizontal - 1, region \in 0..2 :
       RegionLeds(column, region) \subseteq column * NumVertical .. (column + 1) * NumVertical - 1
  /\ \A region \in 0..1 : StartPx(region) + RegionSize < StartPx(region + 1)
  /\ StartPx(0) - (NumVertical - StartPx(2) - RegionSize) \in {-1, 0, 1}
=============================================================================
