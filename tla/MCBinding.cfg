SPECIFICATION Spec
CONSTANTS
  Users = {u1, u2}
  Customers = {c1, c2}
  Requests = {r1}
  Staff = {"match", "skip", "defer", "unbind", "create"}
  None = None
  Grace = 1
  Snooze = 1
  MaxClock = 1
  MaxMishaps = 1
SYMMETRY Symmetry
INVARIANTS TypeOK AtMostOneTable
PROPERTY BindingsAreKept
