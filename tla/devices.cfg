SPECIFICATION FairSpec
CONSTANTS
  a = a
  x = x
  y = y
  l1 = l1
  None = None
  Broken = Broken
  Serials = {a}
  Endpoints = {x, y}
  Loops = {l1}
  MaxChanges = 2
  MaxRequests = 1
  MaxStops = 1
  MaxFaults = 1
PROPERTIES MappingSurvivesRestart ReachablePhonesAreListed LostConnectionsLeave
