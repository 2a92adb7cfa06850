CONSTANTS
  g1 = g1  g2 = g2  s1 = s1  info = info  error = error  bad = bad
  Nobody = Nobody
  Ingesters = {g1, g2}
  Streams = {s1}
  Entries = {info, error, bad}
  Valid = {info, error}
  Alerting = {info}
  Wanted <- ErrorsOnly
  Batches <- Bodies
  Cap = 1
SPECIFICATION FairSpec
CHECK_DEADLOCK FALSE
INVARIANTS NoSendOnClosed NoSilentGap InOrder IngestedAreStored LockIsPassedOn
PROPERTIES IngestReturns StreamEnds
