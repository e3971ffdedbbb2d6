CONSTANTS
  OnTrigger <- LimitedLast
  Script <- Connected
  Frame = {1, 2}
  MaxEvents = 10
  MaxTime = 6
  MaxConnects = 2
SPECIFICATION Spec
INVARIANTS NoRefireBeforeLastOutput
CHECK_DEADLOCK FALSE
