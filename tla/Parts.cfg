\* Two turns, two notes, two runs and three actions; two curators and one kind;
\* two turns, a note and three keys in three actions; two processes that open the
\* store; three requests to the model; one recall; two limits of the
\* settings and two saves; four turns, one of them a note, and two passes.
SPECIFICATION PartsSpec
CONSTANTS
  said1 = said1
  said2 = said2
  note1 = note1
  note2 = note2
  s1 = s1
  s2 = s2
  r1 = r1
  r2 = r2
  Said = {said1, said2}
  Notes = {note1, note2}
  SourcesOf <- OverOneAndBoth
  Sessions = {s1, s2}
  SessionOf <- InOneSession
  TsOf <- OneAfterAnother
  NoTurn = NoTurn
  Runs = {r1, r2}
  MaxPerRun = 2
  MaxLog = 3
  c1 = c1
  c2 = c2
  dup = dup
  noise = noise
  Curators = {r1, r2}
  Kinds = {dup}
  MinAge = 1
  Limit = 1
  Budget = 2
  BatchSize = 2
  MaxTurns = 2
  MaxTime = 1
  MaxEnds = 2
  key1 = key1
  key2 = key2
  key3 = key3
  ta = ta
  tb = tb
  nt = nt
  u1 = u1
  u2 = u2
  Keys = {key1, key2, key3}
  EntityKinds = {1, 2}
  HostTexts = {ta, tb}
  NoteTexts = {nt}
  Extracted <- ThreeTexts
  TextSessions = {u1, u2}
  SessionOfText <- NoteWithA
  TsOfText <- TextsInOrder
  MaxHops = 8
  MaxRuleLog = 3
  p1 = p1
  p2 = p2
  Openers = {p1, p2}
  MaxSteps = 3
  MaxCalls = 2
  TextSizes = {1, 4, 7}
  MaxToolChars = 5
  MarkerSize = 1
  MaxContextChars = 14
  DroppedSize = 2
  ReplySize = 1
  TaskSize = 3
  q1 = q1
  Recalls = {q1}
  NoData = NoData
  OnItsWay = OnItsWay
  MaxGeneration = 1
  l1 = l1
  l2 = l2
  PageLimits = {l1, l2}
  Nothing = Nothing
  Sent = Sent
  MaxChanges = 1
  MaxSaves = 2
  RecallTurns = {1, 2, 3, 4}
  SaidAt <- TwoAtOnce
  SourcesOfNote <- NoteOfBoth
  Scores = {4, 8}
  TopKs = {2, 3}
  CollapsePasses = 2
  NotAsked = NotAsked
INVARIANTS
  PartsTypeOK
  FlagsFoldTheLog
  NoFlagOutlivesTheLog
  NotesOfTheLog
  LastPageIsTheLast
  NamedCursorsSkipNothing
  CountsAsRebuilt
  SegmentsCurrent
  RulesFoldTheLog
  ChainsComeOfUndo
  StoredUnderTheRules
  StampNotAheadOfShape
  OldRowsOnlyByALostRebuild
  OldestDroppedFirst
  HeaderShowsOwnChanges
  FormIsOfTheSettings
  FoldsUnderWhatIsShown
  NoStaleAnswer
PROPERTIES
  SentFits
  EditsOutliveRefetches
SYMMETRY RunSymmetry
CHECK_DEADLOCK FALSE
