\* Four bytes, any of them urgent, read two at a time.  A released connection stops.
SPECIFICATION FairSpec
CONSTANTS
  MaxBytes = 4
  BufSize = 2
INVARIANTS Consistent InputFaithful
PROPERTIES ReleasedForCause Attended
CHECK_DEADLOCK FALSE
