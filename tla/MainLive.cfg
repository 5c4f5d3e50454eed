CONSTANTS
  FadeOutStart = 0
  TotalAnimFromLastButton = 0
  AnimEnd = 0
  CountdownLength = 0
  FightTime = 1
  Second = 1
  Milli = 1
  FloatError = 0
  Horizon = 1
  MaxLost = 1
  Indeterminate <- MCIndeterminate
SPECIFICATION MainFairSpec
PROPERTIES TapOutIsSeen StagingReachesDisplays TermTurnsStripsOff
