CONSTANTS
  Slots = 1
  MinChannel = 3
  MaxChannel = 4
  RequestFloor = 5
  PackMod = 3
  MaxProbes = 3
  MaxSilence = 2
  Packets = {p1}
  Empty = Empty
  Unhashed = Unhashed
  Junk = Junk
  Faults = {"mosi", "miso", "power", "txreset"}
SPECIFICATION Spec
INVARIANT TypeOK
PROPERTY ChannelConfirmed
PROPERTY DeliveryReturns
PROPERTY ImplementsDelivery
