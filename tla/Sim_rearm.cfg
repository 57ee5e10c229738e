\* A stop by the idle rule, then a start.
SPECIFICATION Spec
CONSTANTS
  WarnWindow = 1
  Requests <- IdleOnly
  Names = {n}
  FreshNames = TRUE
  Dashboard = TRUE
  Extensions <- None
  Steps <- One
  MaxStep = 1
  Second = 1
  Grace = 1
  MaxInstances = 1
  MaxExtends = 1
  Horizon = 6
PROPERTIES IdleRearmsOnStart
