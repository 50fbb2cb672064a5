\* Two runs, one after the other, of a plan with two nominations of one target.
SPECIFICATION Spec
CONSTANTS
  n1 = n1
  n2 = n2
  t1 = t1
  t2 = t2
  r1 = r1
  r2 = r2
  leg = leg
  Nominations = {n1, n2}
  LegacyIds = {leg}
  Targets = {t1}
  Mode <- MCMode
  Whole = Whole
  NoRecipe = NoRecipe
  Runs = {r1, r2}
  MaxRecords = 2
  MaxFaults = 1
  Overlap = FALSE
INVARIANTS
  TypeOK
  OnlySanctionedRunsLeaveTraces
  OutcomeRowsCoverReport
  UniqueDedupKeys
  RowMatchesReport
  ReportedRecordsAreStored
SYMMETRY Symmetry
CHECK_DEADLOCK FALSE
