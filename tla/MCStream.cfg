SPECIFICATION FairSpec
CONSTANTS
  Fetches = {f1, f2}
  Streams = {s1, s2}
  Free = Free
  Orphan = Orphan
  Stuck = Stuck
  NoStream = NoStream
  Requests <- MCRequests
  Statuses <- MCStatuses
  Bodies <- MCBodies
  MaxChunk = 1
INVARIANTS TypeOK StreamsAccountedFor EvidenceIsReal
PROPERTIES FetchIsBounded FetchReturns
