SPECIFICATION FairSpec
CONSTANTS
  Evals = {e1, e2, e3}
  Deadlined = {e1}
  Fuel = 1
  MaxPolls = 2
  MaxCalls = 2
  MaxLoads = 3
INVARIANTS
  TypeOK
  EntriesFollowGuests
  FuelCoversCall
  EngineIsReloaded
PROPERTIES
  DeadlinedSettles
  ImplementsContract
CHECK_DEADLOCK FALSE
