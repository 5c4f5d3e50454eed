CONSTANTS
  BUFFER_SIZE = 4
  Messages <- MCMessages
  ErasedEEPROM <- MCErased
  MaxMessages = 3
  MaxPowerLosses = 1
SPECIFICATION FairSpec
INVARIANTS TypeOK AddressKept
PROPERTIES ImplementsByteQueue DisplaySettles
