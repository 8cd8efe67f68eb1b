CONSTANTS
  FixtureLists <- Lists
  BaseEnv <- Base
  ConfigEnv <- Config
SPECIFICATION Spec
CHECK_DEADLOCK FALSE
INVARIANTS
  TypeOK
  HostBelongsToPort
  DirectPortsArrive
  PlainPrefixesAgree
