CONSTANTS
  Entities = {1}
  Names = {door, relay}
  door = door
  relay = relay
  FirstName <- FirstNames
  Classname <- Classnames
  Delays = {0, 1}
  FirstSteps = 1
  MaySelfCancel = TRUE
  MaxEvents = 2
  MaxTime = 2
  MaxPauses = 2
  NULL = NULL
SPECIFICATION FairSpec

  
PROPERTIES
  DueIsServed
CHECK_DEADLOCK FALSE
