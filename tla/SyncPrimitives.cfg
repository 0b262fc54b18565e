SPECIFICATION PrimitiveSpec
CONSTANTS
  Producers = {p1, p2}
  Consumers = {c1, c2}
  Capacity = 2
  MaxItems = 4
  Words = {w1, w2}
  MaxPublish = 3
CHECK_DEADLOCK FALSE
INVARIANTS
  NoMissedWakeup
  SnapshotWhole
PROPERTIES
  ImplementsQueue
  CloseReleases
  ToolsEnd
  ShowsLatest
