SPECIFICATION FairSpec
CONSTANTS
  v1 = v1
  v2 = v2
  v3 = v3
  Version <- Three
  Size <- SizeOfThree
  Split = 1
  Tries = 2
  NilRace = TRUE
  NoFile = NoFile
  Hole = Hole
INVARIANTS PresignedIsWhole FilesInv
PROPERTIES PresignedRecovers
