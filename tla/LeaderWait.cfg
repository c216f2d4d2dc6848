\* Three members that start, two elections, one fault: a server, a client or rootCtx.
SPECIFICATION FairSpec
CONSTANTS
  Member = {m1, m2, m3}
  None = None
  EmbeddedClient = FALSE
  MaxFaults = 1
  MaxElections = 2
INVARIANTS TypeOK
PROPERTIES LeadIsRecent WaitNamesLeader WaitEnds
CHECK_DEADLOCK FALSE
