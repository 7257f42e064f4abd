SPECIFICATION Spec
CONSTANTS
  Speeds = {2, 3}
  Sizes = {1, 2, 3}
  MinSize = 2
  MaxSize = 4
INVARIANTS
  TypeOK
  OrderlyHostNeverBugchecks
  OrderlyNegotiationHolds
  AdapterBelongsToSession
  ToldMatchesAdapter
CHECK_DEADLOCK FALSE
