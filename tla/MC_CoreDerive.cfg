SPECIFICATION Spec
CONSTANTS
  Memories = {m1, m2, m3}
  Bodies = {25}
  Notes <- PlainNote
  Omitted = Omitted
  MaxActive = 2
  MaxBody = 25
  MaxRendered = 117
  MaxDetails = 0
PROPERTY DeriveFits
SYMMETRY Alike
CHECK_DEADLOCK FALSE
