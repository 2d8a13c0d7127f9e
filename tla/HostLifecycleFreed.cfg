\* The injector shuts the host down while the game is in a detour.
SPECIFICATION Spec
CONSTANTS
  Hooks = {damage, classifier}
  Recording = {damage}
  Borrowing = {}
  Lender = classifier
  Calls = {call1}
  Configs <- LiveOnly
  MaxSessions = 2
INVARIANT FreedRuntimeNotUsed
