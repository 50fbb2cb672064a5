\* A page that is mostly links, under a path that does not say so.
SPECIFICATION Spec
CONSTANTS
  Recipes = {r2}
  ListingUrls = {}
  Iterators = {}
  Kinds = {"known"}
  Declared <- SomeDeclared
  Run = run
  Passes = {}
  Pages = {"links"}
  MaxRows = 1
  MaxCaptures = 1
  MaxFaults = 0
INVARIANT CullFindsWhatRunsFlag
CHECK_DEADLOCK FALSE
