\* SNS accepts a push but the publish call fails.
SPECIFICATION Spec
CONSTANTS
  c1 = c1
  c2 = c2
  k1 = k1
  k2 = k2
  a1 = a1
  Agents = {a1}
  NoCall = NoCall
  Calls = {c1}
  Contacts = {k1}
  KeyOf <- OneCallKeyOf
  AgentOf <- OneContactAgentOf
  Requests = {r1}
  Sweepers = {w1}
  Faults = {"pushAmbiguous"}
INVARIANTS
  AnsweredStaysUp
