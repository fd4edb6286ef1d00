SPECIFICATION Spec
CONSTANTS
  u1 = u1
  v1 = v1
  a1 = a1
  k1 = k1
  l1 = l1
  l2 = l2
  s1 = s1
  r1 = r1
  r2 = r2
  Nothing = Nothing
  Accounts = {u1, v1}
  SsoAccounts = {v1}
  Addresses = {a1}
  Tokens = {k1}
  Links = {l1, l2}
  Tickets = {s1}
  Requests = {r1, r2}
  MaxAttempts = 1
  IpLockoutMultiplier = 2
  AutoProvision = TRUE
SYMMETRY Symmetry
INVARIANTS
  OneResetPerRound
  AttemptsBounded
  TicketServesOnce
  OnlyTwoLinksBlock
