SPECIFICATION Spec
CONSTANTS
  Users = {u1, u2}
  Customers = {c1}
  Requests = {r1}
  Staff = {"unbind"}
  None = None
  Grace = 2
  Snooze = 1
  MaxClock = 2
  MaxMishaps = 1
PROPERTIES GraceIsAnchored NobodyIsLost
