SPECIFICATION Spec
CONSTANTS
  h1 = h1
  h2 = h2
  s1 = s1
  s2 = s2
  Root = Root
  Calls = {s1, s2}
  Kind <- MCKind
  WithFunction = {}
  MaxHandles = 1
  MaxStreams = 1
  HasTimeout = TRUE
INVARIANT WithinMaxStreams
CHECK_DEADLOCK FALSE
