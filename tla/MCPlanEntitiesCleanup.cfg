\* A recipe stores an entity, a plan that names it is accepted, then rejected.
SPECIFICATION PlansSpec
CONSTANTS
  p1 = p1
  p2 = p2
  e1 = e1
  e2 = e2
  Plans = {p1, p2}
  EntityIds = {e1, e2}
  Exemplars <- SharedExemplars
  Triples <- SharedTriples
  CreatedAt <- Order
  Fetched = Fetched
  Nothing = Nothing
  Calls = {c1, c2, c3}
  MaxFaults = 1
  Reasons = {n1}
  NoReason = NoReason
  Earlier <- EarlierPlans
  PanelCalls = {b1, b2}
  MaxPlans = 4
  Filters = {"all", "pending", "accepted"}
  MaxClicks = 0
  MaxPanelErrors = 1
SYMMETRY Symmetry
PROPERTIES
  DeletesOwnCreations
CHECK_DEADLOCK FALSE
