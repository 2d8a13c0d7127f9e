\* Lock freedom: weak fairness of the threads inside a call, and an exchange
\* that fails only when the count has changed (x86's lock cmpxchg).
SPECIFICATION FairSpec
CONSTANTS
  Controllers = {c1, c2, c3}
  Routers = {}
  Capacity = 1
  MsgIds <- IdsOnly
  MountTables <- OneTable
  NoUser = NoUser
  MaxRefs = 2
  W = 16
  SpuriousCas = FALSE
PROPERTY CallsKeepReturning
