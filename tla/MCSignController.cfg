SPECIFICATION Spec
CONSTANTS
  Tasks = {t1, t2}
  Files = {f1}
  Contents = {c1, c2}
  Orphans = {o1}
  MaxReopens = 2
  Unknown = Unknown
  Blank = Blank
  NoFile = NoFile
  Nobody = Nobody
SYMMETRY Symmetry
INVARIANTS
  ControllerInv
  CacheHonest
  LossIsRepaired
  SwallowedIsForgotten
  DeafSignIsLeftAlone
