SPECIFICATION Spec
CONSTANTS
  MaxBody = 6
  MaxText = 5
  MaxLong = 8
  MaxLength = 3
  Bodies <- MCBodies
  Texts <- MCTexts
INVARIANTS
  CutsDoNotMatter
  ChunksAreSound
CHECK_DEADLOCK FALSE
