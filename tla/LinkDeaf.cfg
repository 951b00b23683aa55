CONSTANTS
  Slots = 2
  MinChannel = 3
  MaxChannel = 4
  RequestFloor = 5
  PackMod = 3
  MaxProbes = 3
  MaxSilence = 2
  Packets = {p1, p2}
  Empty = Empty
  Unhashed = Unhashed
  Junk = Junk
  Faults = {"mosi", "miso", "deselect", "busy", "power"}
SPECIFICATION SafeSpec
SYMMETRY PacketSymmetry
PROPERTY FreshSuccess
PROPERTY PayloadNotForeign
