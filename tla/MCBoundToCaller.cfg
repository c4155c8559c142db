SPECIFICATION Spec
CONSTANTS
  Evals = {e1, e2}
  Timed = {e1, e2}
  Abortable = {}
  Defs = {}
  Caps = {k1}
  MaxGen = 5
  CanThrow = FALSE
  Unref = FALSE
  Node = TRUE
INVARIANT
  BoundToCaller
CHECK_DEADLOCK FALSE
