SPECIFICATION Spec
CONSTANTS
  MaxCustomers = 3
  Walks = {w1}
  Loads = {l1}
  Scheduled = scheduled
  MaxEvents = 1
INVARIANT CompleteIsWhole
PROPERTIES LockOpens EverybodyListed
