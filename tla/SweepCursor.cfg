\* One curator that ends its sweeps as the playbook says.
SPECIFICATION SweepSpec
CONSTANTS
  c1 = c1
  c2 = c2
  dup = dup
  noise = noise
  Curators = {c1}
  Kinds = {dup, noise}
  MinAge = 1
  Limit = 1
  Budget = 2
  BatchSize = 2
  MaxTurns = 2
  MaxTime = 1
  MaxEnds = 2
INVARIANT
  NextRunStartsWhereThisEnded
CHECK_DEADLOCK FALSE
