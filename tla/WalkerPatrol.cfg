\* Overlapping callbacks in every environment; callbacks with resets and snapshots.
SPECIFICATION Spec
CONSTANTS
  t1 = t1
  t2 = t2
  unset = unset
  Threads <- AllThreads
  Scenarios <- AllScenarios
  Unset = unset
  DefaultStride = 2
  MaxStride = 4
  MaxWaypoints = 3
INVARIANTS
  TypeOK
  PatrolAccounts
  EvenTurns
  SnapshotAccounts
\* The callbacks, resets and snapshots of the bound have been made.
CHECK_DEADLOCK FALSE
