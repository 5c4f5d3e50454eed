CONSTANTS
  N = 2
  Colours <- MCColours
SPECIFICATION Spec
INVARIANTS TypeOK WritesInBounds StripSeesFrame
CHECK_DEADLOCK FALSE
