SPECIFICATION Spec
CONSTANTS
  MaxTaps = 3
  MaxTime = 4
  MaxCrashes = 1
  MaxFailures = 0
  Lookback = 1
  Freshness = 1
  Overlap = 1
  DayLength = 3
  Backfills = {}
  WebSocket = "down"
  ShadowMode = FALSE
  CheckinRecordingLive = FALSE
INVARIANTS NoSilentSkip
PROPERTY EveryTapRecorded
CHECK_DEADLOCK FALSE
