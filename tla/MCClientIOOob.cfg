\* The urgent bytes should reach the handler of the application.
SPECIFICATION Spec
CONSTANTS
  MaxBytes = 1
  BufSize = 1
INVARIANT UrgentHandled
CHECK_DEADLOCK FALSE
