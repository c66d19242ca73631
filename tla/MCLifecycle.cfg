SPECIFICATION Spec
CONSTANTS
  cachePost = cachePost
  loadLoop = loadLoop
  push = push
  poll = poll
  loadPost = loadPost
  cacheSync = cacheSync
  mirrorWalk = mirrorWalk
  Mirror = mirrorWalk
  directorySync = directorySync
  Loops = {loadLoop}
  Posted = {cachePost}
  Started = {loadPost}
  Types = {cacheSync, directorySync}
  TypeOf <- TypeOfRun
  Loads = {directorySync}
  Supervised = {}
  Pushes = {push}
  Polls = {poll}
  MaxClock = 2
  PerSecond = 3
  MaxFaults = 1
  MaxRuns = 2
  Mixes <- MixesChecked
INVARIANTS RunningIsTrue VerdictIsTheRuns DrainsAreComplete
PROPERTY StopsInTime
CHECK_DEADLOCK FALSE
