\* Breaks, recoveries, database outages, statistics and restarts.
SPECIFICATION FairSpec
CONSTANTS
  Threads = {"monitor", "cron"}
  Streams = {s1}
  DbCheckEvery = 1
  MaxRestarts = 1
INVARIANTS
  TypeOK
  OnePool
  RowFollowsProbes
  BreakIsAlarmed
PROPERTIES
  LiveBecomesActive
  ReportedIsUp
