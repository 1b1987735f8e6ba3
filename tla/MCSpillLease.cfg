CONSTANTS
  Procs = {p1, p2, p3}
  Paths = {s1}
  Dirs = {d1, d2}
  None = None
  Regular = {u1}
  Odd = {o1}
  MaxMoves = 1
SYMMETRY Symmetry
SPECIFICATION Spec
INVARIANTS
  LeaseExclusive
  WritesStayAnchored
PROPERTIES
  LiveDirectoryKept
  StrangersKept
