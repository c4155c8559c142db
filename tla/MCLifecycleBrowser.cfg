SPECIFICATION FairSpec
CONSTANTS
  Evals = {e1, e2}
  Timed = {e1}
  Abortable = {e1}
  Defs = {d1}
  Caps = {k1}
  MaxGen = 3
  CanThrow = TRUE
  Unref = FALSE
  Node = FALSE
INVARIANTS
  ModulesAreFresh
  ReplyGoesToCaller
PROPERTIES
  PostedSettles
  StartupSettles
CHECK_DEADLOCK FALSE
