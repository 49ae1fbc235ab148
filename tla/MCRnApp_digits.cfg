SPECIFICATION Spec
CONSTANTS
  Sessions = {c1, c2}
  NoSession = NoSession
  Ends = {e1}
  Tones = {t1, t2}
  MaxControllers = 1
  MaxMoves = 4
  MaxAttempts = 1
  EnabledTypes = {"audio"}
  Faults = {"toneError"}
SYMMETRY Symmetry
CHECK_DEADLOCK FALSE
INVARIANTS
  DigitsReachTheirCall
