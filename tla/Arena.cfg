CONSTANTS
  FadeOutStart = 3
  TotalAnimFromLastButton = 7
  AnimEnd = 14
  CountdownLength = 6
  FightTime = 240
  Second = 2
  Milli = 1
  FloatError = 0
  Horizon = 15
  Indeterminate <- MCIndeterminate
  NumVertical = 48
  NumHorizontal = 2
  FadeStart = 3
  FadeDuration = 3
  FadeUpStart = 6
  FadeUpEnd = 9
  FadeDownStart = 10
  FadeDownEnd = 12
SPECIFICATION FairSpec
INVARIANTS TypeOK FightClockReadsTrue BrightnessBounded WaitingTeamGlows StripsCountWithDisplays RegionsFit
PROPERTIES DarkHandOver ReadyLeadsToFight
