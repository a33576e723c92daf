CONSTANTS
  a1 = a1  u1 = u1  u2 = u2  m1 = m1  m2 = m2  t1 = t1  t2 = t2  f1 = f1
  Accounts = {a1}
  Users = {u1, u2}
  Metas = {m1, m2}
  Segments = {"s1", "s2"}
  Segment <- TwoSegments
  Tokens = {t1, t2}
  ForeignNames = {f1}
  UnsafeNames = {}
  Statuses = {200}
  Stamps = {r1, r2}
  Requests = {r1, r2}
  NoId = NoId  NoToken = NoToken  NoStamp = NoStamp  Free = Free  NoName = NoName
  Names <- ResolveNames
  InitDirs <- ResolveDirs
  OperatorContents = {}
  Inputs <- ResolveInputs
  WatchLag = 0
  RefreshLag = 0
  StableWindow = 0
  Timeout = 0
  PollInterval = 1
  InstantSteps = FALSE
  SkipUnchanged = FALSE
  RegistersBroken = TRUE
  MaxTime = 0
  MaxRefresh = 0
  MaxOperator = 0
  MaxCrash = 1
SPECIFICATION Spec
INVARIANTS OneFilePerPrincipal NeverWedged
PROPERTY NoClobber
SYMMETRY RequestSymmetry
ACTION_CONSTRAINT ClockRunsWithRequests
CHECK_DEADLOCK FALSE
