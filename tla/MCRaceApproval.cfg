SPECIFICATION Spec
CONSTANTS
  ann = ann
  boss = boss
  lobby = lobby
  suite = suite
  NoUser = NoUser
  Keep = Keep
  q1 = q1
  q2 = q2
  q3 = q3
  q4 = q4
  Requests = {q1, q2, q3}
  Rooms = {lobby, suite}
  GatedRooms = {suite}
  Users = {ann, boss}
  Levels <- MCLevels
  Ranges <- MCRanges
  Serieses <- MCSerieses
  Buffer = 0
  SeedBookings <- Seeds
  SeedSteps <- SeedApprovals
  MayRestart = FALSE
  DayTicks = 20
  DaysPerWeek = 1
  LastDay = 0
SYMMETRY RequestSymmetry
INVARIANTS ApprovedByAll
CHECK_DEADLOCK FALSE
