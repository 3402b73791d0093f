SPECIFICATION StartupSpec
CONSTANTS
  Keys = {k1, k2}
  MaxLabels = 2
  Texts = {t1, h1}
  Hidden = {h1}
  Capacities = {1, 2}
  PerFile = 1
  Once = 1
  SignMemory = 6
  Assumed = 7
  Troubles = {"start"}
  NoText = NoText
  NoLayout = NoLayout
SYMMETRY KeySymmetry
INVARIANTS
  RecordsDoNotShare
