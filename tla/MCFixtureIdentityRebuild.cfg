CONSTANTS
  None = None
  NoName = NoName
  k1 = k1
  k2 = k2
  a = a
  redis = redis
  db = db
  p1 = p1
  p2 = p2
  old = old
  new = new
  Calls = {k1, k2}
  Clients = {a}
  Recipes = {redis}
  Policies <- OnePolicy
  Names = {db}
  Paths = {p1, p2}
  Bytes = {old, new}
  Fingerprints <- Encodings
  DescSharing <- EncodedSharing
SPECIFICATION IdentitySpec
SYMMETRY Symm
CHECK_DEADLOCK FALSE
INVARIANT GrantRunsHashedPlugin
