\* Two requests, two writes, and one token beside the one that is stored.
SPECIFICATION SettingsSpec
CONSTANTS
  Requests = {w1, w2}
  Tokens = {k1, k2}
  NoToken = NoToken
  Limits = {l1, l2}
  Absent = Absent
  CacheAge = 1
  MaxWrites = 2
PROPERTY
  EarlierTokensStayOut
CHECK_DEADLOCK FALSE
