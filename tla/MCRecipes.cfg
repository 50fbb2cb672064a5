\* Lineage: two keys, two re-authorings at a time, four rows, chains cut at two.
\* Feedback: three calls for two recipes, two notes, one store error.
\* Application: two expectations, pages of up to two nodes, and of three alike, a cap of two.
\* Targets: four buckets of up to three expectations, a cap of up to six.
SPECIFICATION RecipesSpec
CONSTANTS
  Keys = {k1, k2}
  Calls = {c1, c2}
  MaxDepth = 2
  MaxRecipes = 4
  MaxRuns = 2
  MaxFaults = 1
  Sources = {s1, s2}
  Notes = {wrong, empty}
  NoNote = none
  FeedbackCalls = {b1, b2, b3}
  MaxErrors = 1
  Drafts <- MCDrafts
  Pages <- MCPages
  LaterPages <- MCLaterPages
  Expectations = {1, 2}
  MaxNodes = 2
  MaxRecords = 2
  MaxBindings = 2
  Buckets = 4
  MaxSize = 3
  MaxCap = 6
SYMMETRY Symmetry
INVARIANTS
  LineageReadable
  NewestIsHighestInTurn
  PanelShowsTable
  ValidatorAgrees
  StaticErrorsCaught
  FairShare
CHECK_DEADLOCK FALSE
