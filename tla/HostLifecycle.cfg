\* Every failure of initialize, three times, between the steps of a detour.
SPECIFICATION Spec
CONSTANTS
  Hooks = {damage, filter, classifier}
  Recording = {damage}
  Borrowing = {filter}
  Lender = classifier
  Calls = {call1}
  Configs <- FourConfigs
  MaxSessions = 3
INVARIANTS
  TypeOK
  UndisturbedCallsComplete
  AllHooksOrNone
  InitializedAsRequired
  NoRuntimeLost
