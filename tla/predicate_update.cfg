CONSTANTS
  Procs = {1, 2}
  Keys = {1, 2}
  Positions = {1, 2}
  Models <- PredicateModels
  Baselines = {}
  MaxEdits = 0
INIT MCInit
NEXT MCNext
INVARIANT ProvenIsSerializable
CHECK_DEADLOCK FALSE
