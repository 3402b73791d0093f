SPECIFICATION Spec
CONSTANTS
  v1 = v1
  v2 = v2
  m1 = m1
  Keys = {k1, k2}
  Labels = {l1, l2}
  Names <- MCNames
  Strings = {s1}
  Texts <- MCTexts
  Calls <- MCCalls
  Values = {x}
  Icons = {i1, i2}
  Sequence = Sequence
  Picture = Picture
  Blank = Blank
  Unknown = Unknown
  Absent = Absent
  NoFile = NoFile
  Nobody = Nobody
  MaxFaults = 1
SYMMETRY Symmetry
INVARIANT YesSpeaksForTheSign
