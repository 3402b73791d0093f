SPECIFICATION FairSpec
CONSTANTS
  Callers = {c1}
  Sweeper = Sweeper
  Refresher = Refresher
  Texts = {a1}
  Empty = Empty
  Misfit = Misfit
  Leftovers = {}
  Troubles = {}
  Free = Free
  Unknown = Unknown
  Nobody = Nobody
PROPERTIES
  SwallowedIsPutRight
