CONSTANTS
  FadeOutStart = 1
  TotalAnimFromLastButton = 2
  AnimEnd = 3
  CountdownLength = 2
  FightTime = 18
  Second = 6
  Milli = 3
  FloatError = 1
  Horizon = 4
  MaxStarts = 4
  Indeterminate <- MCIndeterminate
SPECIFICATION HSpec
INVARIANTS NoTimeGained NoTimeLost FreshMatch ReadyInv
PROPERTIES ImplementsMatch ClockResumes NoEarlyStart
