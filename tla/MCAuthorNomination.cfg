\* Two nominations of two targets, all three attempts, two permits.
SPECIFICATION FairSpec
CONSTANTS
  n1 = n1
  n2 = n2
  t1 = t1
  t2 = t2
  h1 = h1
  h2 = h2
  Nominations = {n1, n2}
  TargetList <- TwoTargets
  Whole = Whole
  Propose = Propose
  Hosts = {h1}
  MaxAttempts = 3
  Permits = 2
INVARIANTS
  FilledOnce
  LatestDeclineWins
  ProposerKnowsHistory
  PermitsAreForCalls
PROPERTIES
  ImplementsPromise
  EveryNominationReturns
CHECK_DEADLOCK FALSE
