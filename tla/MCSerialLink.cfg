SPECIFICATION FairSpec
CONSTANTS
  Writers = {w1, w2}
  Opener = Opener
  Nobody = Nobody
  BackoffInitial = 1
  BackoffMax = 4
  MaxReopens = 3
INVARIANTS
  SerialLinkInv
PROPERTIES
  IsATransport
  LinkComesBack
  EveryWriteEnds
