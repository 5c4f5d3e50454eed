CONSTANTS
  BUFFER_SIZE = 4
  Messages <- NoMessages
  ErasedEEPROM <- MCErased
  MaxMessages = 0
  MaxPowerLosses = 0
  Texts <- UninitialisedTexts
  MaxFaults = 0
SPECIFICATION LinkSpec
INVARIANT HostReachesDisplay
