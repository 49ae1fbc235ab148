\* Two calls and a hang-up.
CHECK_DEADLOCK FALSE  \* the given invocations may all be over
SPECIFICATION FairSpec
CONSTANTS
  Calls = {c1, c2}
  Ends = {e1}
  MaxAttempts = 2
  Faults = {"permissionThrows", "requestError", "joinError", "mediaError"}
  NoSession = NoSession
INVARIANTS
  TypeOK
  OneStart
  OneContact
  NoHiddenMedia
  NoLostMedia
PROPERTIES
  HangUpStopsContact
  ConnectingEnds
