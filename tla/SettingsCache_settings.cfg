SPECIFICATION Spec
CONSTANTS
  n1 = n1
  n2 = n2
  r1 = r1
  r2 = r2
  Nothing = Nothing
  Nodes = {n1, n2}
  Requests = {r1, r2}
  TTL = 1
SYMMETRY Symmetry
INVARIANTS
  StalenessBounded
  RulesKept
  SavesProceed
