SPECIFICATION Spec
CONSTANTS
  Requests = {r1, r2, r3}
  Inputs <- MCInputs
  Customers = {"A", "B"}
  PushTokens = {"t1", "t2"}
  Keys = {"k1"}
  None = None
  MaxMoves = 2
  Deployments = {{}, {"tables", "apns"}}
  AllowedKeys = {"customerId", "lastScreen", "tier", "locale", "issueType", "segment"}
  BadKeys = {"x-y"}
  KeyBytes = 1
  MaxChars = 3
  MaxTotal = 16
SYMMETRY Symmetry
CHECK_DEADLOCK FALSE
INVARIANTS
  TypeOK RefusedMeansNoEffect RegisteredDeviceRings OneContactPerKey TrustedWins BudgetHolds
