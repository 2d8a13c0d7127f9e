\* One router against two controllers over three tables, so that a message may
\* match by direction, by kind and through its nested user message at once.
SPECIFICATION Spec
CONSTANTS
  Controllers = {c1, c2}
  Routers = {r1}
  Capacity = 1
  MsgIds <- IdsOnly
  MountTables <- RouteTables
  NoUser = NoUser
  MaxRefs = 1
  W = 16
  SpuriousCas = FALSE
SYMMETRY Symmetry
PROPERTIES
  RouteExactWhenQuiet
  RouteInventsNothing
