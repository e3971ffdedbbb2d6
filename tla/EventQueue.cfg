CONSTANTS
  Entities = {1, 2}
  Names = {door, relay}
  door = door
  relay = relay
  FirstName <- FirstNames
  Classname <- Classnames
  Delays = {0, 1}
  FirstSteps = 1
  MaySelfCancel = FALSE
  MaxEvents = 3
  MaxTime = 1
  MaxPauses = 0
  NULL = NULL
SPECIFICATION Spec
INVARIANTS
  TypeOK
  QueueInOrder
  NothingLost
  CancelledNeverFires
  TargetsReached
  ClassnameIsFallback
PROPERTIES
  ImplementsTimedEvents
CHECK_DEADLOCK FALSE
