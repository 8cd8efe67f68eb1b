CONSTANTS
  None = None
  unr = unr
  k1 = k1
  k2 = k2
  k3 = k3
  a = a
  Calls = {k1, k2}
  Clients = {a}
  Fingerprints = {unr}
  DescSharing <- TwoSlots
  MaxDeaths = 2
  Patient = {}
SPECIFICATION SystemSpec
SYMMETRY Symm
CHECK_DEADLOCK FALSE
INVARIANTS
  HolderIsKnown
  NoLeaseWithoutHolder
  OrphanedOnlyByKill
PROPERTY RefinesRestartingRegistry
