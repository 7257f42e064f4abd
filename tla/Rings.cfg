SPECIFICATION Spec
CONSTANTS
  PacketSlots = 4
  FragmentSlots = 8
  Lengths = {2}
INVARIANTS
  TypeOK
  RingsAgree
  CopyIsPrefix
PROPERTIES
  ReturnedTogether
