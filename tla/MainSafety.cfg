CONSTANTS
  FadeOutStart = 0
  TotalAnimFromLastButton = 0
  AnimEnd = 0
  CountdownLength = 2
  FightTime = 3
  Second = 2
  Milli = 1
  FloatError = 0
  Horizon = 3
  MaxLost = 1
  Indeterminate <- MCIndeterminate
SPECIFICATION MainSpec
INVARIANTS MainTypeOK OutputsFollowState WallClockNeverShort OneIndeterminateFrame
PROPERTY LitBeforeActedUpon
