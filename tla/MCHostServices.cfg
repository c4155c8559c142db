SPECIFICATION Spec
CONSTANTS
  Origins = {"x", "y"}
  MAX_REDIRECTS = 2
  Calls = {c1, c2, c3}
  MaxTotal = 5
  MaxPerCall = 3
  Sizes = {0, 2, 3, 4}
  Paths = {"/a", "/b"}
  Entries = {e1, e2}
  MaxOps = 3
  Reads = {r1, r2, r3, r4}
  MaxPushed = 4
  Files = {p1, p2}
  Sources = {s1, s2}
  MaxUrls = 4
  Specifiers <- MCSpecifiers
  Keys <- MCKeys
  ScopeKeys <- MCScopeKeys
  Names <- MCNames
  MaxKeys = 2
  FewKeys = 1
  BareName <- MCBareName
  Parents <- MCParents
  Hosts = {"x", "y", "z"}
  BaseHost = "z"
  HostOf <- MCHostOf
  GatedCalls = {g1, g2, g3, g4}
  Capabilities = {"read", "write"}
  ArgSizes = {1, 3}
  MaxCalls = 3
  MaxArgBytes = 5
  MaxConcurrent = 2
  CapMaxCalls <- MCCapMaxCalls
  CapMaxArgBytes <- MCCapMaxArgBytes
INVARIANTS
  TypeOK
  RedirectsStayInPolicy
  BudgetHolds
  SwServes
  StdioDelivers
  RegistryUrlsLoad
  ImportsResolve
  WithinLimits
  CountersExact
CHECK_DEADLOCK FALSE
