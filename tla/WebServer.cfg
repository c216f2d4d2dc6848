\* main and one more goroutine that stop the server, one handler, one member.
SPECIFICATION WFairSpec
CONSTANTS
  Member = {m1}
  Caller = {c1}
  EmbeddedClient = TRUE
  MaxFaults = 0
  Others = {o1}
INVARIANTS WTypeOK ServedByCluster ExitIsClean LocksOwned CrashIsLate
PROPERTIES StopEnds OpsReturn WatchedConverges
CHECK_DEADLOCK FALSE
