\* A key save after a mapping was retired.
SPECIFICATION Spec
CONSTANTS
  p1 = p1
  p2 = p2
  f1 = f1
  f2 = f2
  h1 = h1
  h2 = h2
  Providers <- MCProviders
  Families <- MCFamilies
  Seed <- MCSeed
  Paid <- MCPaid
  EnvKeys <- MCEnvKeys
  OpenList <- MCOpenList
  Handlers <- MCHandlers
  MaxAlias = 2
  MaxEvents = 2
PROPERTIES
  RetiredStayOut
CHECK_DEADLOCK FALSE
