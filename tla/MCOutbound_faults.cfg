\* One call, every fault but those that keep a sweep from ever settling it.
SPECIFICATION FairSpec
CONSTANTS
  c1 = c1
  c2 = c2
  k1 = k1
  k2 = k2
  a1 = a1
  Agents = {a1}
  NoCall = NoCall
  Calls = {c1}
  Contacts = {k1}
  KeyOf <- OneCallKeyOf
  AgentOf <- OneContactAgentOf
  Requests = {r1, r2, r3}
  Sweepers = {w1}
  Faults = {"startError", "putError", "pushError", "lostReply", "stopError", "crash"}
INVARIANTS
  CredentialsOnlyIfAnswered
  AnsweredStaysUp
  GoneMeansSettled
  DeviceNotStranded
  NoEarlyTimeout
PROPERTIES
  SettledOnce
  RingingEnds
