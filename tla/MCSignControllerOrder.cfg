SPECIFICATION Spec
CONSTANTS
  Tasks = {t1, t2}
  Files = {f1}
  Contents = {c1, c2}
  Orphans = {o1}
  MaxReopens = 1
  Unknown = Unknown
  Blank = Blank
  NoFile = NoFile
  Nobody = Nobody
SYMMETRY Symmetry
INVARIANTS
  OrderingIsPreserved
