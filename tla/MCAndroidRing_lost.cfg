\* One call, answered while the app starts.
SPECIFICATION Spec
CONSTANTS
  Calls = {c1}
  NoCall = NoCall
INVARIANTS
  AnswerKept
