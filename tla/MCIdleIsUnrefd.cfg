SPECIFICATION Spec
CONSTANTS
  Evals = {e1, e2}
  Timed = {e1, e2}
  Abortable = {}
  Defs = {}
  Caps = {}
  MaxGen = 5
  CanThrow = FALSE
  Unref = TRUE
  Node = TRUE
INVARIANT
  IdleIsUnrefd
CHECK_DEADLOCK FALSE
