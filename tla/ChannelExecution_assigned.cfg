SPECIFICATION Spec
CONSTANTS
  Bridges = {b1, b2}
  Channels = {c1, c2}
  Nobody = nobody
INVARIANT OnlyTheAssignedChannel
CHECK_DEADLOCK FALSE
