CONSTANTS
  N = 3
  TestCodes <- Codes
  MaxRestarts = 1
SPECIFICATION FairSpec
CHECK_DEADLOCK FALSE
INVARIANTS
  TypeOK
  SuccessIsTheTests
  TestRunsOnLiveLeases
  AcquiredLeasesReturned
PROPERTY WaitsEnd
