\* The order of undos, for turns that stayed.
SPECIFICATION Spec
CONSTANTS
  said1 = said1
  said2 = said2
  note1 = note1
  note2 = note2
  s1 = s1
  s2 = s2
  r1 = r1
  r2 = r2
  Said = {said1, said2}
  Notes = {note1, note2}
  SourcesOf <- OverOneAndBoth
  Sessions = {s1, s2}
  SessionOf <- InOneSession
  TsOf <- OneAfterAnother
  NoTurn = NoTurn
  Runs = {r1, r2}
  MaxPerRun = 2
  MaxLog = 3
INVARIANT
  UndoneAsNeverApplied
