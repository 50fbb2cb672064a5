\* Passes: two, in turn or overlapping, with failed reads, checks and inserts and process death.
\* History: two calls at a time, five entries, a cap of two, two store errors or restarts.
SPECIFICATION PromotionSpec
CONSTANTS
  A = A
  B = B
  c1 = c1
  usgs = usgs
  reuters = reuters
  Passes = {p1, p2}
  Plans = {A, B}
  Claims = {c1}
  Claimants = {usgs, reuters}
  Evidence <- Documents
  Registries <- TwoRegistries
  Quorums = {2, 3}
  HistoryCalls = {h1, h2}
  Cap = 2
  MaxEntries = 5
  MaxFaults = 2
INVARIANTS
  PromotedOnceInTurn
  CompletePass
  ReportMatchesStore
  QuorumBacked
  NewestKeptTwice
SYMMETRY Interchangeable
CHECK_DEADLOCK FALSE
