\* A status answer that arrives after the user disconnected.
SPECIFICATION Spec
CONSTANTS
  Page = {p1}
  u1 = u1
  User = {u1}
  UserOf <- OneUser
  Slot = {s1, s2}
  Idle = 2
  SweepEvery = 1
SYMMETRY SlotSymmetry
INVARIANT AlreadyConnected
