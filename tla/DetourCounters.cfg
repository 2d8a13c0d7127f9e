\* One call of any detour; one with a reset or a snapshot; any two with the probe disabled; overlapping
\* calls with both.
SPECIFICATION Spec
CONSTANTS
  Counters <- AllCounters
  c1 = c1
  c2 = c2
  Calls <- AllCalls
  Scenarios <- AllScenarios
INVARIANTS
  TypeOK
  BalancedAtRest
  SnapshotBalanced
PROPERTY ControlsReachAll
\* The calls, resets and snapshots of the bound have been made.
CHECK_DEADLOCK FALSE
