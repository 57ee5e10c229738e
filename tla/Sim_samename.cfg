\* Two instances launched under one name.
SPECIFICATION Spec
CONSTANTS
  WarnWindow = 1
  Requests <- TtlOnly
  Names = {n}
  FreshNames = FALSE
  Dashboard = TRUE
  Extensions <- None
  Steps <- One
  MaxStep = 1
  Second = 1
  Grace = 1
  MaxInstances = 2
  MaxExtends = 1
  Horizon = 6
PROPERTIES TerminatedIsFinal
