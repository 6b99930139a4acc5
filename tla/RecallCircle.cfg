\* Three turns, two of them said at once; both may supersede the other.
SPECIFICATION RecallSpec
CONSTANTS
  NotAsked = NotAsked
  RecallTurns = {1, 2, 3}
  SaidAt <- TwoAtOnce
  SourcesOfNote <- NoteOfBoth
  Scores = {4, 8}
  TopKs = {2}
  CollapsePasses = 5
INVARIANT TheBetterStays
CHECK_DEADLOCK FALSE
