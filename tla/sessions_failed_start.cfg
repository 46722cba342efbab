SPECIFICATION Spec
CONSTANTS
  c1 = c1
  c2 = c2
  phone = phone
  tablet = tablet
  other = other
  None = None
  Conns = {c1, c2}
  Udids = {phone, tablet, other}
  Allowed = {phone, tablet}
  MaxStarts = 1
INVARIANTS FailedStartIsCleanedUp
