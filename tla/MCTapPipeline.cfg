SPECIFICATION Spec
CONSTANTS
  MaxTaps = 1
  MaxTime = 4
  MaxCrashes = 2
  MaxFailures = 1
  Lookback = 1
  Freshness = 1
  Overlap = 1
  DayLength = 3
  Backfills = {b1}
  WebSocket = "emits"
  ShadowMode = FALSE
  CheckinRecordingLive = TRUE
INVARIANTS TypeOK CheckinsBounded OpenedOnce
CHECK_DEADLOCK FALSE
