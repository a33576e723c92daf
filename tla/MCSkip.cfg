CONSTANTS
  a1 = a1  u1 = u1  u2 = u2  m1 = m1  m2 = m2  t1 = t1  t2 = t2  f1 = f1
  Accounts = {a1}
  Users = {u1}
  Metas = {m1}
  Segments = {"s"}
  Segment <- OneSegment
  Tokens = {t1, t2}
  ForeignNames = {}
  UnsafeNames = {}
  Statuses = {0, 200, 401, 403, 404, 429, 503}
  Stamps = {r1}
  Requests = {r1}
  NoId = NoId  NoToken = NoToken  NoStamp = NoStamp  Free = Free  NoName = NoName
  Names <- OneName
  InitDirs <- SettleDirs
  OperatorContents = {}
  Inputs <- SettleInputs
  WatchLag = 1
  RefreshLag = 1
  StableWindow = 3
  Timeout = 3
  PollInterval = 1
  InstantSteps = FALSE
  SkipUnchanged = TRUE
  RegistersBroken = TRUE
  MaxTime = 8
  MaxRefresh = 1
  MaxOperator = 0
  MaxCrash = 0
SPECIFICATION Spec
PROPERTY FinalUpdateNotSkipped
ACTION_CONSTRAINT ClockRunsWithRequests
CHECK_DEADLOCK FALSE
