SPECIFICATION Spec
CONSTANTS
  Memories = {m1, m2, m3}
  Bodies = {2, 3}
  Notes <- TwoNotes
  Omitted = Omitted
  MaxActive = 2
  MaxBody = 2
  MaxRendered = 100
  MaxDetails = 1
INVARIANTS CoresSound OverrunBounded
PROPERTIES OverdueHolds AdmittedFits
SYMMETRY Alike
CHECK_DEADLOCK FALSE
