SPECIFICATION Spec
CONSTANTS
  Evals = {e1, e2}
  Timed = {e1, e2}
  Abortable = {e2}
  Defs = {}
  Caps = {}
  MaxGen = 5
  CanThrow = TRUE
  Unref = TRUE
  Node = TRUE
INVARIANTS
  TypeOK
  NoOrphanThread
  TimersMatchPending
  DisposedIsFinal
  StartupIsWatched
  RefWhileBusy
  OpsAccounted
PROPERTY
  ImplementsContract
CHECK_DEADLOCK FALSE
