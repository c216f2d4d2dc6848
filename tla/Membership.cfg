\* Three members, up to two calls of Add, any number of the others.
SPECIFICATION Spec
CONSTANTS
  Size = 3
  RootPort = 10
  EmbeddedClient = TRUE
  MaxAdds = 2
INVARIANTS TypeOK IndexExact PortsDisjoint RaftKnown AddFindsServer
CHECK_DEADLOCK FALSE
