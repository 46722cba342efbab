SPECIFICATION Spec
CONSTANTS
  p1 = p1
  p2 = p2
  p3 = p3
  phone = phone
  None = None
  Proxies = {p1, p2, p3}
  Udids = {phone}
  MaxOps = 2
  MaxAttempts = 2
  MaxEvictions = 1
  MaxStuck = 1
SYMMETRY Interchangeable
INVARIANTS SlotsAndLocksExact OneOperationPerDevice RestartsAreJoined ForwardsAreAccountedFor
