CONSTANTS
  a1 = a1  u1 = u1  u2 = u2  m1 = m1  m2 = m2  t1 = t1  t2 = t2  f1 = f1
  Accounts = {a1}
  Users = {u1, u2}
  Metas = {m1}
  Segments = {"s"}
  Segment <- OneSegment
  Tokens = {t1, t2}
  ForeignNames = {}
  UnsafeNames = {}
  Statuses = {200, 401}
  Stamps = {r1, r2}
  Requests = {r1, r2}
  NoId = NoId  NoToken = NoToken  NoStamp = NoStamp  Free = Free  NoName = NoName
  Names <- EvidenceNames
  InitDirs <- EvidenceDirs
  OperatorContents = {}
  Inputs <- WorkingInputs
  WatchLag = 9
  RefreshLag = 9
  StableWindow = 0
  Timeout = 0
  PollInterval = 1
  InstantSteps = FALSE
  SkipUnchanged = TRUE
  RegistersBroken = TRUE
  MaxTime = 0
  MaxRefresh = 1
  MaxOperator = 0
  MaxCrash = 1
SPECIFICATION Spec
INVARIANTS TypeOK ActiveOnlyIfConfirmed DisabledOnlyOnEvidence
SYMMETRY RequestSymmetry
ACTION_CONSTRAINT ClockRunsWithRequests
CHECK_DEADLOCK FALSE
