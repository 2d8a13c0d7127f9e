\* The documented fallback of a recursive callback, against the filter's.
SPECIFICATION Spec
CONSTANTS
  Entities = {tower, player}
  NoEntity = NoEntity
  Objectives = {tower}
  Teams <- MCTeams
  Configs <- OneConfig
  Detours = {"damage", "io", "filter", "caller", "secondary", "classifier"}
  Arguments <- Pointers
  MaxDepth = 2
PROPERTY RecursiveFallsBack
