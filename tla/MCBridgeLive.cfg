SPECIFICATION FairSpec
CONSTANTS
  h1 = h1
  h2 = h2
  s1 = s1
  s2 = s2
  Root = Root
  Calls = {h1, s1}
  Kind <- MCKind
  WithFunction = {h1}
  MaxHandles = 1
  MaxStreams = 1
  HasTimeout = TRUE
PROPERTIES
  Answered
  AbortsReachHost
  FunctionsForgotten
CHECK_DEADLOCK FALSE
