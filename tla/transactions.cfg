CONSTANTS
  Procs = {1, 2, 3}
  Keys = {1, 2}
  Positions = {1, 2}
  Models <- MCModels
  Baselines <- MCModels
  MaxEdits = 1
INIT MCInit
NEXT MCNext
INVARIANTS ProvenIsSerializable OrderedAsProven ChangesAreExplained BasisSuffices
CHECK_DEADLOCK FALSE
