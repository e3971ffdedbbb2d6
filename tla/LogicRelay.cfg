CONSTANTS
  OnTrigger <- LimitedFirst
  Script <- Connected
  Frame = {1, 2}
  MaxEvents = 10
  MaxTime = 6
  MaxConnects = 2
SPECIFICATION FairSpec
INVARIANTS
  TypeOK
  WaitsForOneRefire
  NoRefireBeforeLastOutput
  FiresItsTimes
PROPERTIES RelayRecovers
CHECK_DEADLOCK FALSE
