SPECIFICATION FairSpec
CONSTANTS
  HasTimeout = TRUE
  MaxFrames = 2
INVARIANT
  TypeOK
PROPERTIES
  ErrorsAreTimely
  PlaceIsKept
  StartsOrFails
CHECK_DEADLOCK FALSE
