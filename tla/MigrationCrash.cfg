\* One process that opens the store, and may die on the way.
SPECIFICATION MigrationSpec
CONSTANTS
  p1 = p1
  p2 = p2
  Openers = {p1}
INVARIANT
  OpenedIsRederived
