SPECIFICATION FairSpec
CONSTANTS
  f1 = f1  f2 = f2  f3 = f3  p1 = p1  r1 = r1  m1 = m1
  NoJob = NoJob
  Jobs <- CheckpointJobs
  Background <- CheckpointBackground
  Maintenance <- CheckpointMaintenance
  Callback <- PersistCallback
  ForegroundBurst = 1
  MaxRetries = 1
PROPERTIES WriterAnswers ImplementsSerialWriter
