CONSTANTS
  q = q  r = r  t = t  u = u  uuid1 = uuid1  uuid2 = uuid2  root = root  child = child
  Requests = {q, r}
  TraceIds = {t, u}
  NoId = NoId
  Generated <- MCGenerated
  SpanIds = {root, child}
  Bodies <- MCBodies
SPECIFICATION FairSpec
INVARIANT SavedIsComplete
PROPERTY OrphansGo
