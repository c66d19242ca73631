SPECIFICATION Spec
CONSTANTS
  Members = {m1, m2}
  Statuses = {"active", "expired"}
  MaxDeactivationsPerRun = 1
  StatusWrites = "full"
  ShadowMode = FALSE
  Rechecks = FALSE
  MirrorWalks = TRUE
  Walked = TRUE
  MaxEvents = 1
PROPERTY SettlesIfWalked
