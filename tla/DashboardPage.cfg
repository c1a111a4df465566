SPECIFICATION DashboardSpec
CONSTANTS
  Roots = {d1, d2}
  Envelopes = {1, 2}
  MaxTouch = 1
  MaxUntil = 2
  ChainPage = 1
  MaxTasks = 1
  MaxChanges = 1
INVARIANT DroppedOnlyWhenDestroyed
SYMMETRY Symmetry
