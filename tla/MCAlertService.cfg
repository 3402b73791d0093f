SPECIFICATION Spec
CONSTANTS
  Callers = {c1}
  Sweeper = Sweeper
  Refresher = Refresher
  Texts = {a1, a2}
  Empty = Empty
  Misfit = Misfit
  Leftovers = {Empty, Misfit}
  Troubles = {"crash", "power", "reboot", "save", "forget"}
  Free = Free
  Unknown = Unknown
  Nobody = Nobody
SYMMETRY Symmetry
INVARIANTS
  AlertInv
  SignMatchesRecord
  PictureHasTheSign
  CacheIsRightOutOfDoubt
