\* Two requests at a time on one member.
SPECIFICATION PFairSpec
CONSTANTS
  Member = {m1}
  Caller = {c1, c2}
  EmbeddedClient = TRUE
  MaxFaults = 0
  Asked = {"get", "stop-node", "restart-node", "unknown"}
INVARIANTS HandlerTypeOK CountIsTrue
PROPERTIES AnswersTrue RequestsEnd
