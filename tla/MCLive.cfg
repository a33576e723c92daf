CONSTANTS
  a1 = a1  u1 = u1  u2 = u2  m1 = m1  m2 = m2  t1 = t1  t2 = t2  f1 = f1
  Accounts = {a1}
  Users = {u1}
  Metas = {m1}
  Segments = {"s"}
  Segment <- OneSegment
  Tokens = {t1, t2}
  ForeignNames = {}
  UnsafeNames = {}
  Statuses = {200}
  Stamps = {r1, r2}
  Requests = {r1, r2}
  NoId = NoId  NoToken = NoToken  NoStamp = NoStamp  Free = Free  NoName = NoName
  Names <- OneName
  InitDirs <- LiveDirs
  OperatorContents <- Drops
  Inputs <- LiveInputs
  WatchLag = 1
  RefreshLag = 1
  StableWindow = 0
  Timeout = 0
  PollInterval = 1
  InstantSteps = TRUE
  SkipUnchanged = TRUE
  RegistersBroken = TRUE
  MaxTime = 6
  MaxRefresh = 0
  MaxOperator = 1
  MaxCrash = 0
SPECIFICATION FairSpec
PROPERTY MutationsReturn
CHECK_DEADLOCK FALSE
