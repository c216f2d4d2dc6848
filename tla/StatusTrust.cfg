\* Every Stop and Restart of two callers beside status updates and Shutdown.
SPECIFICATION HSpec
CONSTANTS
  Member = {m1, m2}
  Caller = {c1, c2}
  EmbeddedClient = FALSE
  MaxFaults = 1
INVARIANTS TypeOK OpExclusion TrustedStatus
PROPERTIES ShutdownClosesTrusted KeepsPromise
SYMMETRY Symmetry
