SPECIFICATION FairSpec
CONSTANTS
  n1 = n1
  n2 = n2
  r1 = r1
  s1 = s1
  s2 = s2
  Nodes = {n1, n2}
  Revs = {r1}
  Absent = Absent
  Symptoms = {s1, s2}
  NoSymptom = NoSymptom
  Outcomes <- MCOutcomes
  Recorders = {"cycle"}
  QueueSize = 1
  NoRun = NoRun
  NoResult = NoResult
  NoNode = NoNode
  FailedOnce = {n2}
  Quiet = {n2}
  MaxClock = 6
  MaxRestarts = 1
INVARIANTS
  TypeOK
  MarkedOnce
  FreshReportSameOutage
  UnfinishedIsRunning
  SavedNeverNewer
PROPERTIES
  QueueDrains
