SPECIFICATION Spec
CONSTANTS
  Members = {m1, m2}
  Statuses = {"active", "expired", "inactive", "gone"}
  MaxDeactivationsPerRun = 1
  StatusWrites = "full"
  ShadowMode = FALSE
  Rechecks = TRUE
  MirrorWalks = TRUE
  Walked = TRUE
  MaxEvents = 1
SYMMETRY Symmetry
INVARIANTS TypeOK DeletionsAreReal GuardHolds
