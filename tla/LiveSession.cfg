\* Every session with a hold of two turns.
SPECIFICATION Spec
CONSTANT HoldTime = 2
INVARIANTS
  TypeOK
  PassIsEarned
  OneCallAtATime
  BlocksOutliveThreads
  ServerEndsWithInjector
PROPERTY SessionEnds
\* The session is over and the server gone.
CHECK_DEADLOCK FALSE
