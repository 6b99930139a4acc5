\* Two processes, two models, one turn: the backlog drains and the readers catch up.
SPECIFICATION FairSpec
CONSTANTS
  t1 = t1
  t2 = t2
  s1 = s1
  s2 = s2
  p1 = p1
  p2 = p2
  m1 = m1
  m2 = m2
  Texts = {t1}
  Sessions = {s1, s2}
  SessionOf <- TwoSessions
  Models = {m1, m2}
  NoModel = NoModel
  MaxGeneration = 1
  Procs = {p1, p2}
  Batch = 1
  DrainLimit = 2
  Worker = p1
PROPERTIES
  BacklogDrains
  ReadersCatchUp
CHECK_DEADLOCK FALSE
