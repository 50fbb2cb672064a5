\* A listing and an article, each fetched at most twice, one re-extraction and one clean-up.
SPECIFICATION Spec
CONSTANTS
  Recipes = {r1, r2}
  ListingUrls = {r1}
  Iterators = {}
  Kinds = {"known", "foreign"}
  Declared <- SomeDeclared
  Run = run
  Passes = {p1}
  Pages = {"article", "feed"}
  MaxRows = 1
  MaxCaptures = 2
  MaxFaults = 1
INVARIANTS
  RowsGrounded
  ReportCountsRows
  EarlierDocumentsRead
  CullSparesProse
  CullIsFinal
CHECK_DEADLOCK FALSE
