CONSTANTS
  r1 = r1  r2 = r2  a = a  b = b  k = k
  log = log  shot = shot  chunk = chunk  report = report  trace = trace
  Texts <- MCTexts
  Names = {log, chunk}
  NoName = NoName  NoRow = NoRow  Unnamed = Unnamed
  Requests = {r1, r2}
  Keys = {k}
  KeyOf <- MCKeyOf
  Paths <- MCPaths
  PathOf <- MCPathOf
  Tree <- MCTree
  EventIds = {a, b}
  Envelopes <- MCEnvelopes
  Parts <- MCParts
  MaxItems = 3
SPECIFICATION MCSpec
INVARIANTS TypeOK RowsHaveFiles EventRecognised ItemsKept
PROPERTIES LiveAttachmentsKept OrphanRowsGo
