CONSTANTS
  FixtureLists <- Lists
  BaseEnv <- Base
  ConfigEnv <- Config
SPECIFICATION Spec
CHECK_DEADLOCK FALSE
INVARIANT FixturesStayDistinct
