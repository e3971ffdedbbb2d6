CONSTANTS
  NumEntries = 4
  MaxEdicts = 1
  SerialMask = 1
  FirstSerials = {1}
  Entities = {e1, e2, e3}
  Holders = {h1}
  MaxRemovals = 3
  NULL = NULL
SPECIFICATION Spec
INVARIANTS
  TypeOK
  NoDanglingEntry
  HandleResolvesOnlyToItsEntity
  ListsConsistent
PROPERTIES
  ImplementsRegistry
  OnlyTheLastSlotIsStolen
SYMMETRY Symmetry
CHECK_DEADLOCK FALSE
