CONSTANTS
  a1 = a1  u1 = u1  m1 = m1  t2 = t2
  Accounts = {a1}
  Users = {u1}
  Metas = {m1}
  Segments = {"s"}
  Segment <- OneSegment
  Tokens = {t2}
  ForeignNames = {}
  UnsafeNames = {}
  Statuses = {200, 401}
  Stamps = {r1}
  Requests = {r1}
  NoId = NoId  NoToken = NoToken  NoStamp = NoStamp  Free = Free  NoName = NoName
  Names <- OneName
  InitDirs <- StoredOnly
  OperatorContents = {}
  Inputs <- RevalidateOnly
  WatchLag = 1
  RefreshLag = 0
  StableWindow = 2
  Timeout = 2
  PollInterval = 1
  ReadyDelay = 1
  InstantSteps = TRUE
  SkipUnchanged = TRUE
  RegistersBroken = TRUE
  MaxTime = 5
  MaxRefresh = 2
  MaxOperator = 0
  MaxCrash = 0
SPECIFICATION StatusSpec
INVARIANTS ReadyWasServed ShowsEarlierSuccess
CONSTRAINT StatusRuns
CHECK_DEADLOCK FALSE
