CONSTANTS
  c1 = c1  c2 = c2  c3 = c3  x1 = x1  x2 = x2  s1 = s1
  Creators = {c1, c2, c3}
  Deleters = {x1, x2}
  Senders = {s1}
  MaxId = 3
SPECIFICATION Spec
SYMMETRY Symmetry
INVARIANTS EventsAtHome ConflictMeansBeaten
