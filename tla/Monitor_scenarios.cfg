\* Races: two ticks, an extend, the banner, and the user, around one instance.
\* Backstop: the monitor alone with two, and calls that fail for a while.
SPECIFICATION MonitorsSpec
CONSTANTS
  WarnWindow = 1
  N = 1
  Launched <- TtlAndIdle
  Spot = {}
  Slots = {1, 2}
  Extenders = {1, 2}
  Extensions = {1}
  MayReap = TRUE
  UserActs = TRUE
  Grace = 1
  Horizon = 4
INVARIANTS RacesKeepExtensions
PROPERTIES RacesKillOnlyTheDue OverdueOnesEnd
