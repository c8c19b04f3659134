SPECIFICATION MCSpec
CONSTANTS
  f1 = f1
  f2 = f2
  m1 = m1
  m2 = m2
  s1 = s1
  s2 = s2
  Nothing = Nothing
  baseline = baseline
  other = other
  Flows = {f1, f2}
  Rules = {baseline, other}
  Baseline = baseline
  MenuItems = {m1, m2}
  Secrets = {s1, s2}
  MaxRows = 3
  MaxRequests = 7
  a1 = a1
  a2 = a2
  mx = mx
  p1 = p1
  p2 = p2
  u = u
  Blank = Blank
  Absent = Absent
  Admins = {a1, a2}
  Servers = {mx}
  OpenServers = {}
  Passwords = {p1, p2}
  MaxInserts = 1
  MaxAsks = 3
  Gone = Gone
  Closed = Closed
  People = {a1, a2, u}
  Consoles = {a1, a2}
  MaxWrites = 2
  MaxDialogs = 2
  room = room
  e1 = e1
  Nowhere = Nowhere
  NoRow = NoRow
  NoForm = NoForm
  NoSave = NoSave
  Managers = {a1, a2}
  Rooms = {room}
  Floors = {e1}
  MaxForms = 2
  MaxChanges = 1
SYMMETRY Symmetric
CHECK_DEADLOCK FALSE
INVARIANTS WorkspaceInv SettingsAsSaved MailerInv EstateInv
PROPERTIES ExternalDecisionStands PasswordKept RolesHold RoomFormHolds
