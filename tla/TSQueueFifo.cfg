SPECIFICATION Spec
CONSTANTS
  Threads = {t1, t2}
  Running = {}
  Nodes = {d, n1, n2, n3}
  Dummy = d
  Null = Null
  End = End
  NoItem = NoItem
  Half = 8
  MaxPush = 4
  MaxPop = 2
INVARIANT Fifo
SYMMETRY Symmetry
CHECK_DEADLOCK FALSE
