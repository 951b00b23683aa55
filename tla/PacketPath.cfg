CONSTANTS
  W = 2
  MaxLen = 3
  HashFactor = 211
  Header = 1
  MaxPacks = 2
  MaxDamage = 2
SPECIFICATION Spec
INVARIANTS TypeOK CheckByteTells ReportIsTruth CountsAgree ReportKnowsLength
