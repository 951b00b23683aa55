CONSTANTS
  Slots = 2
  MinChannel = 3
  MaxChannel = 4
  RequestFloor = 5
  PackMod = 2
  Levels = 3
  DefaultPower = 1
  Neg4 = 2
  NoiseLevels = {0, 1}
  Faults = {"spi", "reboot", "noise"}
SPECIFICATION Spec
INVARIANTS TypeOK PowerRestored ChannelRestored ReportAccountsForAir GoodOnlyTogether RangeChoosesBest
PROPERTY TestReturns
