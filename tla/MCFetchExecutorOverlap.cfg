\* Two runs of one plan that may overlap.
SPECIFICATION Spec
CONSTANTS
  n1 = n1
  n2 = n2
  t1 = t1
  t2 = t2
  r1 = r1
  r2 = r2
  leg = leg
  Nominations = {n1}
  LegacyIds = {}
  Targets = {t1}
  Mode <- MCMode
  Whole = Whole
  NoRecipe = NoRecipe
  Runs = {r1, r2}
  MaxRecords = 0
  MaxFaults = 0
  Overlap = TRUE
INVARIANTS
  UniqueDedupKeys
CHECK_DEADLOCK FALSE
