SPECIFICATION Spec
CONSTANTS
  p1 = p1
  p2 = p2
  t1 = t1
  t2 = t2
  t3 = t3
  Nothing = Nothing
  Participants = {p1, p2}
  Sessions = {t1, t2}
  LastDay = 1
  MaxPasses = 2
SYMMETRY Symmetry
CHECK_DEADLOCK FALSE
INVARIANTS
  EmptyVisitIsOver
