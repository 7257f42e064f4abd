SPECIFICATION Spec
CONSTANTS
  Speeds = {2, 3}
  Sizes = {1, 2, 3}
  MinSize = 2
  MaxSize = 4
INVARIANT NtbFitsHost
CHECK_DEADLOCK FALSE
