\* Two callers of drained(), batches of two, a backlog of up to three that grows
\* once; a cooldown of two ticks; two requests and two writes of the settings; two
\* tabs, two tokens and a restart.
SPECIFICATION WorkersSpec
CONSTANTS
  d1 = d1
  d2 = d2
  Drainers = {d1, d2}
  Batch = 2
  MaxStalled = 3
  MaxBacklog = 3
  MaxArrivals = 1
  BreakerTrip = 3
  Cooldown = 2
  MaxChunks = 2
  w1 = w1
  w2 = w2
  k1 = k1
  l1 = l1
  Requests = {w1, w2}
  Tokens = {k1}
  NoToken = NoToken
  Limits = {l1}
  Absent = Absent
  CacheAge = 1
  MaxWrites = 2
  t1 = t1
  t2 = t2
  b1 = b1
  b2 = b2
  Tabs = {t1, t2}
  Bearers = {b1, b2}
  NoBearer = NoBearer
  Underway = Underway
  NoRequest = NoRequest
  MaxFaults = 2
INVARIANTS
  WorkersTypeOK
  SleepsOnNoKick
  DeadEndpointIsCheap
  UpdatesOfAFreshRead
PROPERTIES
  StopEndsTheLoop
  PassesEnd
  DrainedResolves
  BacklogIsDrained
  AskedAgain
  OldSettingsExpire
  RefusedTabsAskForAToken
CHECK_DEADLOCK FALSE
