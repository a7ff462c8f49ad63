SPECIFICATION Spec
CONSTANTS
  MaxPresses = 2
  MaxJoins = 3
  MaxBreaks = 1
  MaxAttempts = 2
CHECK_DEADLOCK FALSE
INVARIANTS
  TypeOK
  RecorderFollows
  OneSubscription
  MutedWhenIdle
  NoStrayRoom
  FallbackOnlyUnconfigured
  PeersClosed
  HeldIsHeard
  WaitersServed
