\* Callers of the API: any operation on any instance, at any moment.
SPECIFICATION Spec
CONSTANTS
  WarnWindow = 1
  Requests <- Mixed
  Names = {n}
  FreshNames = FALSE
  Dashboard = FALSE
  Extensions <- OneOrTwo
  Steps <- OneOrTwo
  MaxStep = 2
  Second = 2
  Grace = 1
  MaxInstances = 1
  MaxExtends = 2
  Horizon = 8
INVARIANTS TagsAreConsistent TtlBoundsRunning BudgetBoundsRunning TtlNotices
PROPERTIES OnlyBackstopsDestroy ExtensionReachesFuture
