SPECIFICATION Spec
CONSTANTS
  Evals = {e1, e2}
  Timed = {e1, e2}
  Abortable = {}
  Defs = {}
  Caps = {}
  MaxGen = 5
  CanThrow = FALSE
  Unref = FALSE
  Node = TRUE
INVARIANT
  DisposeSettlesAll
CHECK_DEADLOCK FALSE
