SPECIFICATION Spec
CONSTANTS
  NthSize = 12
  NdpSize = 8
  DpeSize = 4
  EthSize = 14
  NdpAlignment = 4
  NdpDivisor = 4
  NdpPayloadRemainder = 0
  MaxDatagrams = 4
  BufferLength = 140
  PtrLimit = 95
  Lengths = {14, 17, 23}
  PeerBlocks <- SomeBlocks
  ReadLength = 95
  Leftovers <- EarlierBlocks
INVARIANTS
  TypeOK
  Layout
  RoundTrip
  OnlyListed
