CONSTANTS
  Slots = 3
  MinChannel = 3
  MaxChannel = 4
  RequestFloor = 5
  PackMod = 2
  Packets = {p1, p2}
  Empty = Empty
  Quiet = FALSE
SPECIFICATION Spec
PROPERTY MainListensAgain
