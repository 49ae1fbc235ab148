\* Two calls to one agent, devices, push failures and overlapping sweeps.
SPECIFICATION Spec
CONSTANTS
  c1 = c1
  c2 = c2
  k1 = k1
  k2 = k2
  a1 = a1
  Calls = {c1, c2}
  Contacts = {k1, k2}
  Agents = {a1}
  KeyOf <- DistinctKeyOf
  AgentOf <- SharedAgentOf
  Requests = {r1, r2}
  Sweepers = {w1, w2}
  Faults = {"pushError", "storeError", "staleRead"}
  NoCall = NoCall
SYMMETRY WorkerSymmetry
INVARIANTS
  TypeOK
  NoZombieLeg
  OneReleaser
  Inv
  StopCause
PROPERTIES
  ImplementsLifecycle
