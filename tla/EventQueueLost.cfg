CONSTANTS
  Entities = {1}
  Names = {door, relay}
  door = door
  relay = relay
  FirstName <- FirstNames
  Classname <- Classnames
  Delays = {0, 1}
  FirstSteps = 1
  MaySelfCancel = TRUE
  MaxEvents = 3
  MaxTime = 1
  MaxPauses = 0
  NULL = NULL
SPECIFICATION Spec
INVARIANTS NothingLost
CHECK_DEADLOCK FALSE
