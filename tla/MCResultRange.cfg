\* Whether a range error is raised whenever something has become slower.
CONSTANTS
  None = None
  Absent = Absent
  Torn = Torn
  f1 = f1
  f2 = f2
  blob = blob
  s1 = s1
  s2 = s2
  r1 = r1
  r2 = r2
  total = total
  types = types
  other = other
  Files = {f1, f2, blob}
  Blobs = {blob}
  SampleKeys = {total, types}
  TotalTime = total
  PlainRepositories = {r1}
  MaxRuns = 2
  MaxCommands = 4
  AvailableScenarios <- MCScenarios
  AvailableHosts <- MCHosts
  Builds <- MCBuilds
  Commands <- MCCommands

SPECIFICATION Spec

CHECK_DEADLOCK FALSE

INVARIANTS
  AlarmRaised
