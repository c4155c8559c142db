SPECIFICATION Spec
CONSTANTS
  h1 = h1
  h2 = h2
  s1 = s1
  s2 = s2
  Root = Root
  Calls = {h1, s1}
  Kind <- MCKind
  WithFunction = {h1, s1}
  MaxHandles = 1
  MaxStreams = 1
  HasTimeout = TRUE
INVARIANTS
  TypeOK
  ObjectsFreedOnce
  OpenStreamsAreLive
  FunctionsLiveWithOwner
  FunctionsAreFound
PROPERTY ImplementsContract
CHECK_DEADLOCK FALSE
