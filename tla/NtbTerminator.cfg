SPECIFICATION Spec
CONSTANTS
  NthSize = 12
  NdpSize = 8
  DpeSize = 4
  EthSize = 14
  NdpAlignment = 4
  NdpDivisor = 4
  NdpPayloadRemainder = 0
  MaxDatagrams = 3
  BufferLength = 96
  PtrLimit = 255
  Lengths = {14, 17, 23}
  PeerBlocks <- SomeBlocks
  ReadLength = 96
  Leftovers <- FreshBuffer
INVARIANT BlockFits
