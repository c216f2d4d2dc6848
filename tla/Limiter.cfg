\* Overlapping Checks, any scheduling: two slots, readings of the clock that are
\* overtaken on their way to the lock, tokens given back in any order.
SPECIFICATION FairSpec
CONSTANTS
  Slot = {s1, s2}
  Interval = 2
  Grace = 1
  Prompt = FALSE
  MaxTime = 3
INVARIANTS TypeOK DebtBounded
PROPERTIES GrantSpacing CheckReturns
CHECK_DEADLOCK FALSE
