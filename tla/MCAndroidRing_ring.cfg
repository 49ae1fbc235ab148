\* Three calls, which replace or follow one another.
SPECIFICATION FairSpec
CONSTANTS
  Calls = {c1, c2, c3}
  NoCall = NoCall
INVARIANTS
  TypeOK
  OneOutcome
  RingIsVisible
  OwnTimeout
  TimeoutArmed
  ParkedOnce
  Inv
PROPERTIES
  RingStops
  AnswerTaken
