SPECIFICATION Spec
CONSTANTS
  Paper = {}
  Live = {live}
  Watchers = {w1}
  Trailing = TRUE
  Emergency = FALSE
  Quantity = 2
  MaxGain = 1
  MaxStop = 1
  MaxCrashes = 0
PROPERTY ClosedStaysClosed
CHECK_DEADLOCK FALSE
