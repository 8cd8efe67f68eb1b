CONSTANTS
  None = None
  r1 = r1
  r2 = r2
  r3 = r3
  Runners = {r1, r2, r3}
  MaxDeaths = 3
  Patient = {r1, r2}
SPECIFICATION FairSpec
CHECK_DEADLOCK FALSE
INVARIANTS
  UnlinksOnlyLeftovers
  MutualExclusion
  ServerOwnsSocket
  StrandedOnlyByDeath
PROPERTIES
  RunnerSettles
  ServedUnlessDeath
