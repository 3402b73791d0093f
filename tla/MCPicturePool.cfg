SPECIFICATION Spec
CONSTANTS
  i1 = i1
  i2 = i2
  i3 = i3
  Slots = {k1}
  Alert = Alert
  Nobody = Nobody
  Icons = {i1, i2, i3}
  FileCount = 2
  Messages <- MCMessages
  MaxFaults = 2
INVARIANTS
  PicturePoolInv
  OwnIconsOnly
  RefusalIsHonest
