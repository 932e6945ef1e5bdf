SPECIFICATION Spec
CONSTANTS
  Paper = {paper}
  Live = {live}
  Watchers = {w1, w2}
  Trailing = FALSE
  Emergency = FALSE
  Quantity = 2
  MaxGain = 1
  MaxStop = 1
  MaxCrashes = 1
SYMMETRY Symmetry
INVARIANTS
  TypeOK
  BookedOncePerWatcher
PROPERTIES
  TickUndoesNothing
CHECK_DEADLOCK FALSE
