CONSTANTS
  None = None
  k1 = k1
  k2 = k2
  a = a
  other = other
  Unparsable = Unparsable
  odd = odd
  bad = bad
  out = out
  Calls = {k1, k2}
  Clients = {a}
  Fingerprints = {other, odd, bad}
  DescSharing <- TwoSlots
  Dummies = {odd, bad}
  PortsInput <- Inputs
  Progress <- Messages
  MaxMessages = 2
  MaxU64 = 15
  MaxInt = 7
SPECIFICATION FairSession
CHECK_DEADLOCK FALSE
INVARIANTS
  FirstTerminalDecides
  PortsEchoed
  DummyProvisions
PROPERTIES
  EndedStreamEndsCall
  DummyCallEnds
  GoneCallEnds
