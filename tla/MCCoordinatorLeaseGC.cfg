CONSTANTS
  None = None
  unr = unr
  priv = priv
  once = once
  k1 = k1
  k2 = k2
  k3 = k3
  k4 = k4
  a = a
  b = b
  Calls = {k1, k2}
  Clients = {a}
  Fingerprints = {unr}
  DescSharing <- ManySlots
SPECIFICATION FairSpec
CHECK_DEADLOCK FALSE
PROPERTY UnreleasedLeaseCollected
