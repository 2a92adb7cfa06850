CONSTANTS
  u1 = u1  u2 = u2  f0 = f0  f1 = f1  f2 = f2  r1 = r1  s1 = s1
  Updaters = {u1, u2}
  Files = {f0, f1, f2}
  First = f0
  None = None
  Requests = {r1}
  Streams = {s1}
SPECIFICATION MCSpec
CHECK_DEADLOCK FALSE
INVARIANTS BinaryKept BinaryRecoverable FinishedInTime
PROPERTIES RunningUntouched ProcessEnds
