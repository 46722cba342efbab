SPECIFICATION FairSpec
CONSTANTS
  p1 = p1
  p2 = p2
  phone = phone
  None = None
  Proxies = {p1, p2}
  Udids = {phone}
  MaxOps = 1
  MaxAttempts = 2
  MaxEvictions = 1
  MaxStuck = 1
PROPERTIES EveryRequestIsAnswered
