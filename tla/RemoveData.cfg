\* Whose data Remove deletes.
SPECIFICATION Spec
CONSTANTS
  Size = 3
  RootPort = 10
  EmbeddedClient = TRUE
  MaxAdds = 1
INVARIANT RemovedDataDeleted
CHECK_DEADLOCK FALSE
