SPECIFICATION Spec
CONSTANTS
  Sessions = {c1, c2}
  NoSession = NoSession
  Ends = {e1}
  Tones = {}
  MaxControllers = 2
  MaxMoves = 3
  MaxAttempts = 2
  EnabledTypes = {"audio", "video"}
  Faults = {"permissionThrows", "requestError", "joinError"}
SYMMETRY Symmetry
CHECK_DEADLOCK FALSE
INVARIANTS
  TypeOK NoHiddenMedia CameraShown
