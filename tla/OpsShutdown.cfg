\* Shutdown racing the status update, as the web server runs it.
SPECIFICATION Spec
CONSTANTS
  Member = {m1, m2}
  Caller = {c1}
  EmbeddedClient = TRUE
  MaxFaults = 0
INVARIANT ShutdownStopsAll
