SPECIFICATION Spec
CONSTANTS
  NumVertical = 4
  NumHorizontal = 2
  FirstSpeed = 20
  SlowEnough = 3
  particleSpeed = 1
  LastCall = 36
  Delays <- MCDelays
INVARIANTS FrameRateDoesNotMatter TrailBehindParticle WorkBounded
CHECK_DEADLOCK FALSE
