SPECIFICATION FairSpec
CONSTANTS
  Threads = {t1, t2}
  Running = {t1}
  Nodes = {d, n1, n2, n3}
  Dummy = d
  Null = Null
  End = End
  NoItem = NoItem
  Half = 8
  MaxPush = 3
  MaxPop = 2
INVARIANTS
  TypeOK
  EachItemOnce
PROPERTIES
  EmptyMeansEmpty
  FreeListIsAStack
  CallsReturn
CHECK_DEADLOCK FALSE
