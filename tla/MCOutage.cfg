SPECIFICATION OutageSpec
CONSTANTS
  t1 = t1
  t2 = t2
  walker = walker
  Taps <- MCTaps
  Walker = walker
  Mixes <- MCMixes
  Threshold = 2
  Cooldown = 4
  Timeout = 2
  Customers = 2
  Walks = 1
  AbortAfter = 1
  MaxAttempts = 2
  Rate = 1
  Burst = 2
  RetryAfters = {0, 3}
  DefaultCooldown = 2
  Horizon = 2
INVARIANTS OutageTypeOK PressureIsBounded BudgetIsKept EveryCustomerOnce
PROPERTIES StaysShut LabelsAreTrue Recovers
