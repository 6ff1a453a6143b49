SPECIFICATION Spec
CONSTANTS
  good = good
  bad = bad
  NoModule = NoModule
  Absent = Absent
  Partial = Partial
  None = None
  Module <- MCModule
  Rejected <- MCRejected
  Counts <- MCCounts
  Run = {r1}
  TIMEOUT = 4
  Rest = 3
INVARIANTS
  StatsOfTarget
  TargetUsable
  OwnProcessOnly
  InTime
  OkMeansOk
PROPERTY
  EveryRunJudged
