SPECIFICATION MCSpec
CONSTANTS
  a = a
  None = None
  CheckIn = CheckIn
  Bookings = {a}
  Offsets = {1, 3}
  Slots <- MCSlots
  Ahead = 2
  Lookback = 2
  Grace = 1
  MaxTime = 6
  MaxCuts = 2
  ann = ann
  t1 = t1
  t2 = t2
  c1 = c1
  c2 = c2
  NoOne = NoOne
  Accounts = {ann}
  Tabs = {t1, t2}
  Lanes = {c1, c2}
  MaxSignIns = 1
  MaxCalls = 2
INVARIANTS UsedAndStampedNeedsRace RemindedOnceUnlessCut
PROPERTIES WarningSpec ReminderNotForgotten UnusedIsFound CallsEnd
CHECK_DEADLOCK FALSE
