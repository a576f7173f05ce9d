SPECIFICATION Spec
CONSTANTS
  v1 = v1
  v2 = v2
  v3 = v3
  Version <- One
  Size <- SizeOfOne
  Split = 1
  Tries = 2
  NilRace = FALSE
  NoFile = NoFile
  Hole = Hole
INVARIANTS DirectIsWhole
