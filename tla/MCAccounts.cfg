SPECIFICATION MCSpec
CONSTANTS
  e1 = e1
  e2 = e2
  f1 = f1
  f2 = f2
  None = None
  Emails = {e1, e2}
  Flows = {f1, f2}
  Limits = {1, 2}
  Free = 1
  MaxUsers = 3
  p1 = p1
  p2 = p2
  People = {p1, p2}
  Groups <- MCGroups
  Statuses = {"any", "false"}
  Missing = Missing
  NoSend = NoSend
  Nothing = Nothing
  MAX_RECIPIENTS = 1
  MaxTurns = 1
  MaxReads = 1
  MaxBreaks = 1
  Never = Never
  Users = {e1, e2}
  Circles <- MCCircles
  Calls = {f1, f2}
  ByHand = {"DND", "OFFLINE"}
  AwayAfter = 1
  Quiet = 1
  MaxConvs = 2
  MaxThreads = 1
  MaxMessages = 2
  MaxTime = 2
SYMMETRY Symmetric
INVARIANTS ApprovedHadAccount BroadcastInv ChatInv UnreadIsWhatCameAfter
PROPERTIES DecisionStands WithinPlan HistoryKept QuietBetweenNudges
