\* Three controllers over two tables of two ids: every interleaving of the
\* count, active_ids and total steps, with unknown ids and failing exchanges.
SPECIFICATION Spec
CONSTANTS
  Controllers = {c1, c2, c3}
  Routers = {}
  Capacity = 1
  MsgIds <- IdsAndOutside
  MountTables <- TwoTables
  NoUser = NoUser
  MaxRefs = 2
  W = 16
  SpuriousCas = TRUE
SYMMETRY Symmetry
INVARIANTS
  TypeOK
  CountersAccounted
  ExactWhenSettled
  ShutOnlyWhileAdding
PROPERTY ImplementsRefCounts
