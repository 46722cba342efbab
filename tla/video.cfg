SPECIFICATION FairSpec
CONSTANTS
  None = None
  portrait = portrait
  landscape = landscape
  square = square
  Configs = {portrait, landscape, square}
  High = 3
  Low = 1
  MaxPacket = 3
  QueueLimit = 1
  MaxFaults = 2
INVARIANTS TypeOK NeverDecodesBroken BacklogBounded FramesAccountedFor
PROPERTIES PictureComesBack
