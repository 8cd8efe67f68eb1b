CONSTANTS
  None = None
  unr = unr
  priv = priv
  once = once
  k1 = k1
  k2 = k2
  k3 = k3
  k4 = k4
  a = a
  b = b
  Calls = {k1, k2, k3}
  Clients = {a, b}
  Fingerprints = {unr, priv, once}
  DescSharing <- MixedSharing
SPECIFICATION Spec
SYMMETRY Symm
CHECK_DEADLOCK FALSE
INVARIANTS
  TypeOK
  SlotsBackedByLeases
  SlotsExactUntilDisplaced
  ScopeRespected
  CacheNeverKilled
  ConnectedPluginIsOwned
  LeaseAlwaysRoutes
  PromisesKeptUntilDisplaced
PROPERTY RefinesLeaseRegistry
