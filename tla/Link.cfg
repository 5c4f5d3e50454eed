CONSTANTS
  BUFFER_SIZE = 4
  Messages <- NoMessages
  ErasedEEPROM <- MCErased
  MaxMessages = 0
  MaxPowerLosses = 1
  Texts <- MCTexts
  MaxFaults = 2
SPECIFICATION LinkFairSpec
INVARIANTS HostReachesDisplay StrayBytesHarmless BackInStep
PROPERTY SteadyTextShows
