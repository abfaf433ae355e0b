SPECIFICATION Spec
CONSTANTS
  Objects <- MCObjects
  Machines <- MCMachines
  Outboxes <- MCOutboxes
  AliasOrder <- MCAliasOrder
  Sketches <- Catalogue
  Written <- MCWritten
  MaxOutside = 1
INVARIANTS JudgedByItsPaths CompiledIsSketched NoStaleChange
CHECK_DEADLOCK FALSE
