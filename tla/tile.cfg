SPECIFICATION FairSpec
CONSTANTS
  t1 = t1
  t2 = t2
  phone = phone
  tablet = tablet
  None = None
  Tiles = {t1, t2}
  Keys = {phone, tablet}
  BatchSize = 1
  MaxReloads = 2
  MaxQueue = 3
INVARIANTS TypeOK LeaseIsUsed OneReasonToRun
PROPERTIES ImplementsLease LostStreamComesBack StalledPictureIsRebuilt
