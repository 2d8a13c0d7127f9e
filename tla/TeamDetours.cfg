\* Two entities, two detours deep, every spoof at once.
SPECIFICATION Spec
CONSTANTS
  Entities = {tower, player}
  NoEntity = NoEntity
  Objectives = {tower}
  Teams <- MCTeams
  Configs <- NestedConfigs
  Detours = {"damage", "io", "filter", "caller", "secondary", "classifier"}
  Arguments <- Pointers
  MaxDepth = 2
INVARIANTS
  TypeOK
  TeamRestored
  SlotBelongsToInnermost
  OnlyOwnObjectivesFlipped
