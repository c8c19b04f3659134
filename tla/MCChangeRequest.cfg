SPECIFICATION MCSpec
CONSTANTS
  ann = ann
  bob = bob
  r1 = r1
  NoRoom = NoRoom
  NoUser = NoUser
  Keep = Keep
  Users = {ann, bob}
  Admins = {}
  ApproverRole = {}
  Rooms = {r1}
  DayTicks = 12
  DaysPerWeek = 7
  LastDay = 0
  Policies <- MCPolicies
  InitPolicy <- MCInit
  DefaultRules <- Online
  RoomStates = {"ACTIVE"}
  Slots <- MCSlots
  MaxTime = 2
  Horizon = 11
  MaxBookings = 3
  MaxSeries = 1
  Lookback = 3
  Grace = 1
  MinBuffer = 0
  Windows <- MCWindows
  DraftOnline = {FALSE, TRUE}
  MaxRequests = 1
  Durations = {2}
  Chips = {1, 2}
  SlotStep = 1
  NoForm = NoForm
  Nothing = Nothing
INVARIANTS RequestInv
PROPERTIES DecisionApplied FormsHold
