SPECIFICATION FairSpec
CONSTANTS
  Buffers = {b1, b2, b3}
  NoBuffer = NoBuffer
  MaxDatagrams = 2
  MaxPackets = 5
INVARIANTS
  TypeOK
  OneOwner
  QuietWhenStopped
  PoolWholeWhenStopped
  ReferencesBalance
PROPERTIES
  FifoOnce
  StopCompletes
  PacketsComplete
  ImplementsLedger
