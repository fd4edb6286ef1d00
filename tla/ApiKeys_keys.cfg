SPECIFICATION Spec
CONSTANTS
  u1 = u1
  t1 = t1
  k1 = k1
  k2 = k2
  k3 = k3
  r1 = r1
  r2 = r2
  Nothing = Nothing
  Users = {u1}
  Sessions = {t1}
  ApiKeys = {k1, k2, k3}
  Requests = {r1, r2}
  MaxActive = 1
SYMMETRY Symmetry
INVARIANTS
  HeirsBounded
  IssueBounded
