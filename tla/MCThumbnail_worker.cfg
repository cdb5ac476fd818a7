CONSTANTS
  direct = direct
  large = large
  Videos = {direct, large}
  Presigned = {large}
  Movable = {direct, large}
  MaxCrashes = 2
SPECIFICATION Spec
CHECK_DEADLOCK FALSE
INVARIANTS
  PromisedIsQueued
  PartialOnlyAfterCrash
  CompletedHasThumbnail
PROPERTIES
  EveryJobEnds
