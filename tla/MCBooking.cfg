SPECIFICATION Spec
CONSTANTS
  ann = ann
  boss = boss
  r1 = r1
  r2 = r2
  NoRoom = NoRoom
  NoUser = NoUser
  Keep = Keep
  Users = {ann, boss}
  Admins = {ann}
  ApproverRole = {boss}
  Rooms = {r1}
  DayTicks = 4
  DaysPerWeek = 1
  LastDay = 1
  Policies <- MCPolicies
  InitPolicy <- MCInit
  DefaultRules <- Default
  RoomStates = {"ACTIVE", "MAINTENANCE"}
  Slots <- MCSlots
  MaxTime = 3
  Horizon = 8
  MaxBookings = 2
  MaxSeries = 2
  Lookback = 3
  Grace = 1
  MinBuffer = 1
INVARIANTS ExclusiveUnlessUnchecked RowsAgree
PROPERTIES SlotFrozen CalendarSpec
