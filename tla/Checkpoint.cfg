SPECIFICATION Spec
CONSTANTS
  Artifacts = {a1, a2}
  None = None
  Foreign = Foreign
  MaxVersion = 2
  MaxAttempt = 2
  MaxCreates = 3
SYMMETRY Symmetry
INVARIANTS LatestLoadsUnlessTouched LoadedIsTheNewest
CHECK_DEADLOCK FALSE
