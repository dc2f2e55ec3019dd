SPECIFICATION StoreSpec
CONSTANTS
  f1 = f1  f2 = f2  f3 = f3  p1 = p1  r1 = r1  m1 = m1
  NoJob = NoJob
  Jobs <- PersistJobs
  Background <- PersistBackground
  Maintenance <- NoMaintenance
  Callback <- PersistCallback
  ForegroundBurst = 2
  MaxRetries = 1
  MaxNotes = 3
  OldRows = 2
  MaxStartups = 2
  MaxOpErrors = 1
  MaxServed = 1
  Generations = {g1, g2}
  GenSpecs = {s1, s2}
  GenSources = {e1, e2}
  MaxSwitches = 3
INVARIANTS CustodyKept ReportedIffCommitted BackgroundNotStarved FactsKept GenerationsSound
PROPERTIES LifecycleAllOrNothing
SYMMETRY ToolCalls
