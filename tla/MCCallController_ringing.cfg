\* One call that is hung up while it starts.
CHECK_DEADLOCK FALSE  \* the given invocations may all be over
SPECIFICATION Spec
CONSTANTS
  Calls = {c1}
  Ends = {e1}
  MaxAttempts = 1
  Faults = {}
  NoSession = NoSession
PROPERTIES
  RingingFollowsConnecting
