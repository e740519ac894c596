SPECIFICATION Spec
CONSTANTS
  Tids = {1}
  Pids = {1}
  PosixIds = {1}
  MAX_TIME = 5
  Intervals = {0, 2}
INVARIANTS
  MapMatchesTimers
  OnItsGrid
PROPERTIES
  RearmsLater
  ImplementsDeadlineTable
