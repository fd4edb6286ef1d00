SPECIFICATION FairSpec
CONSTANTS
  r1 = r1
  g1 = g1
  l1 = l1
  l2 = l2
  t1 = t1
  t2 = t2
  n1 = n1
  NoRecord = NoRecord
  NoGuest = NoGuest
  Records = {r1}
  Guests = {g1}
  Links = {}
  Sessions = {t1}
  Nodes = {n1}
PROPERTY RetentionHolds
