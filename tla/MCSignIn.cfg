SPECIFICATION MCSpec
CONSTANTS
  f1 = f1
  f2 = f2
  None = None
  Flows = {f1, f2}
  Roles = {"EMPLOYEE", "ADMIN"}
  LinkTtl <- MCLinkTtl
  AccessTtl = 1
  RefreshTtl = 2
  MaxLinks = 2
  MaxTime = 3
  ann = ann
  bob = bob
  t1 = t1
  t2 = t2
  c1 = c1
  c2 = c2
  NoOne = NoOne
  Accounts = {ann, bob}
  Tabs = {t1, t2}
  Lanes = {c1, c2}
  MaxSignIns = 2
  MaxCalls = 2
SYMMETRY Symmetric
INVARIANTS SignInInv SessionInv
PROPERTIES LinkWorksOnce
CHECK_DEADLOCK FALSE
