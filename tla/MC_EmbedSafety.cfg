SPECIFICATION EmbedSpec
CONSTANTS
  Entities = {e1}
  Base = {"entity"}
  Texts = {x1, x2}
  NoText = NoText
  NoKey = NoKey
  Tasks = {t1, t2}
  Capacity = 2
  MaxAttempts = 2
  MaxStarts = 2
  MaxEdits = 1
INVARIANTS JobsBounded VectorsAgree
SYMMETRY Alike
CHECK_DEADLOCK FALSE
