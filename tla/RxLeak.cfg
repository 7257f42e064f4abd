SPECIFICATION Spec
CONSTANTS
  Reads = {r1, r2}
  Buffers = {b1, b2, b3}
  NoBuffer = NoBuffer
  MaxFrames = 2
  RingSize = 1
PROPERTY NoBufferDiesWithQueue
