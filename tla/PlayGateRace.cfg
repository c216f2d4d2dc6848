\* Two stop-node requests at a time.
SPECIFICATION PSpec
CONSTANTS
  Member = {m1, m2}
  Caller = {c1, c2}
  EmbeddedClient = TRUE
  MaxFaults = 0
  Asked = {"stop-node", "restart-node"}
SYMMETRY Symmetry
PROPERTY GateHolds
