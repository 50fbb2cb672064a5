\* One run of a plan whose nominations can be authored in part.
SPECIFICATION FairSpec
CONSTANTS
  n1 = n1
  n2 = n2
  t1 = t1
  t2 = t2
  r1 = r1
  r2 = r2
  leg = leg
  Nominations = {n1, n2}
  LegacyIds = {}
  Targets = {t1, t2}
  Mode <- MCMode
  Whole = Whole
  NoRecipe = NoRecipe
  Runs = {r1}
  MaxRecords = 1
  MaxFaults = 1
  Overlap = FALSE
INVARIANTS
  EachRecipeReportedOnce
  NominationsAccountedFor
PROPERTIES
  OpenRowsAreClosed
CHECK_DEADLOCK FALSE
