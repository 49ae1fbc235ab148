\* Two calls that nothing but an undeliverable push goes wrong with.
SPECIFICATION FairSpec
CONSTANTS
  c1 = c1
  c2 = c2
  k1 = k1
  k2 = k2
  a1 = a1
  Agents = {a1}
  NoCall = NoCall
  Calls = {c1, c2}
  Contacts = {k1, k2}
  KeyOf <- DistinctKeyOf
  AgentOf <- SharedAgentOf
  Requests = {r1, r2}
  Sweepers = {w1}
  Faults = {"pushError"}
PROPERTIES
  AgentReleased
