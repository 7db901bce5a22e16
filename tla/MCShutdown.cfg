SPECIFICATION FairSpec
CONSTANTS
  s1 = s1
  s2 = s2
  s3 = s3
  h1 = h1
  h2 = h2
  Main = main
  Sessions = {s1, s2}
  Hashes = {h1, h2}
  HashOf <- MCOneHash
  Budget = 9
  Attempt = 2
  FollowWait = 25
  HostWait = 10
  MaxStarts = 3
  MaxStops = 1
  MaxMoves = 1
  MaxDenied = 1
INVARIANTS
  LaterStreamsAreTried
PROPERTIES
  FollowersWait
  HostWaitCoversGoodbye
  GoodbyeEnds
CHECK_DEADLOCK FALSE
