SPECIFICATION Spec
CONSTANTS
  u1 = u1
  t1 = t1
  k1 = k1
  k2 = k2
  k3 = k3
  r1 = r1
  r2 = r2
  Nothing = Nothing
  Users = {u1}
  Sessions = {t1}
  ApiKeys = {k1, k2}
  Requests = {r1}
  MaxActive = 2
INVARIANT OffboardedIsOut
