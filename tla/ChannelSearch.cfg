CONSTANTS
  Slots = 1
  MinChannel = 3
  MaxChannel = 6
  RequestFloor = 7
  PackMod = 2
  ByteMod = 9
  EdScale = 3
  MaxSample = 2
  Samples = {0, 2, 4, 5}
SPECIFICATION Spec
INVARIANTS TypeOK FindsQuietest StaysInRange RadioComesBack
PROPERTY SearchReturns
