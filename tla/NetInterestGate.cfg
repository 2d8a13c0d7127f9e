\* The gate over two ids of one table, as the comments promise it.
SPECIFICATION Spec
CONSTANTS
  Controllers = {c1, c2}
  Routers = {}
  Capacity = 2
  MsgIds <- IdsOnly
  MountTables <- OneTable
  NoUser = NoUser
  MaxRefs = 1
  W = 16
  SpuriousCas = FALSE
SYMMETRY Symmetry
INVARIANT StableMountSeen
