\* Two pages of one user, two requests under way, every order and loss.
SPECIFICATION FairSpec
CONSTANTS
  Page = {p1, p2}
  u1 = u1
  User = {u1}
  UserOf <- OneUser
  Slot = {s1, s2}
  Idle = 2
  SweepEvery = 1
INVARIANTS TypeOK NoOrphanTimer StaleBound
PROPERTY GhostsLeave
