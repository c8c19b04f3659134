SPECIFICATION MCSpec
CONSTANTS
  DayLength = 8
  Zones <- MCZones
  RoomPolicies <- MCRoomPolicies
  DefaultRules <- MCDefaultRules
  Days = {1, 2}
  Slots <- MCSlots
  Step = 2
  DefaultDuration = 2
  Durations = {1, 3}
  Unanswered <- MCUnanswered
  Starts = {4}
  None = None
  Gone = Gone
  Opening = 8
  MaxTime = 10
  MaxRows = 2
  MaxAsks = 2
  k1 = k1
  k2 = k2
  Nothing = Nothing
  Keys = {k1, k2}
  MaxLoads = 2
  MaxChanges = 2
  MaxFailures = 1
  MaxParts = 3
  Limit = 1
INVARIANTS
  ScreensInv
  ClockKept
  PickIsBookable
  PickIsOfDayShown
  EditKeepsItsSlot
PROPERTIES
  CatchesUp
CHECK_DEADLOCK FALSE
