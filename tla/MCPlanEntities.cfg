\* Two plans that share an exemplar, four calls, one fault; and a panel of three
\* plans, three clicks, two calls at a time and one that breaks off.
SPECIFICATION PlansSpec
CONSTANTS
  p1 = p1
  p2 = p2
  e1 = e1
  e2 = e2
  Plans = {p1, p2}
  EntityIds = {e1, e2}
  Exemplars <- SharedExemplars
  Triples <- SharedTriples
  CreatedAt <- Order
  Fetched = Fetched
  Nothing = Nothing
  Calls = {c1, c2, c3, c4}
  MaxFaults = 1
  Reasons = {n1}
  NoReason = NoReason
  Earlier <- EarlierPlans
  PanelCalls = {b1, b2}
  MaxPlans = 4
  Filters = {"all", "pending", "accepted"}
  MaxClicks = 3
  MaxPanelErrors = 1
SYMMETRY Symmetry
INVARIANTS
  AcceptedExemplarsExist
  OrphansExplained
  TripleOnceInTurn
  PanelTruthful
PROPERTIES
  TierKeptInTurn
CHECK_DEADLOCK FALSE
