\* An idle Spot instance listed before an overdue one.
SPECIFICATION SpotSpec
CONSTANTS
  WarnWindow = 1
  N = 1
  Launched <- TtlAndIdle
  Spot = {}
  Slots = {1, 2}
  Extenders = {1, 2}
  Extensions = {1}
  MayReap = TRUE
  UserActs = TRUE
  Grace = 1
  Horizon = 4
PROPERTIES OverdueOnesEnd
