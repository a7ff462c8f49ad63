CONSTANTS
  Interval <- MCInterval
  MaxAge = 1
  Track <- MCTrack
  MaxTime = 4
  SelfTimes = {3}
  MaxFaults = 1
SPECIFICATION Spec
INVARIANTS TypeOK LatestShown StoredIsLatest WarningsFollow
PROPERTY Throttled
CHECK_DEADLOCK FALSE
