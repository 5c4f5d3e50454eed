CONSTANTS
  BUFFER_SIZE = 4
  Messages <- MCMessages
  ErasedEEPROM <- MCErased
  MaxMessages = 2
  MaxPowerLosses = 0
SPECIFICATION Spec
PROPERTY CharactersGoToDigits
