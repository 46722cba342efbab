SPECIFICATION FairSpec
CONSTANTS
  phone = phone
  owner = owner
  c1 = c1
  c2 = c2
  s1 = s1
  s2 = s2
  None = None
  Udids = {phone}
  Users = {owner}
  KeysPerUser = 2
  ChanCap = 1
  SeenCap = 1
  MaxPosts = 2
  MaxLag = 2
  MaxLosses = 1
  Slots = {c1, c2}
  Streams = {s1, s2}
INVARIANTS TypeOK OneLiveCollector SoundsOnce StaleAlertsAreExplained NotificationsArrive
PROPERTIES CollectorsFollow
CHECK_DEADLOCK FALSE
