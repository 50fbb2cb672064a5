\* Recipes of one binding, pages of one or two nodes; nothing of the lineage or the notes.
SPECIFICATION RecipesSpec
CONSTANTS
  Keys = {}
  Calls = {}
  MaxDepth = 1
  MaxRecipes = 0
  MaxRuns = 0
  MaxFaults = 0
  Sources = {}
  Notes = {}
  NoNote = none
  FeedbackCalls = {}
  MaxErrors = 0
  Drafts <- MCDrafts
  Pages <- MCPages
  LaterPages <- MCLaterPages
  Expectations = {1}
  MaxNodes = 2
  MaxRecords = 3
  MaxBindings = 1
  Buckets = 0
  MaxSize = 0
  MaxCap = 0
INVARIANT ValidatorCannotDisagree
CHECK_DEADLOCK FALSE
