\* Two fetches of two hosts: those of h1 follow one another, those of h2 overlap.
SPECIFICATION FairSpec
CONSTANTS
  Fetches = {f1, f2}
  Hosts = {h1, h2}
  SerialHosts = {h1}
  NoHost = NoHost
  RetryAfters <- ShortAndLong
  NoHint = NoHint
  HOST_BACKOFF_MAX_SECS = 3
  SHORT_BACKOFF_CEILING_SECS = 2
  MaxShift = 5
  MaxFailures = 4
INVARIANTS
  BlockedMeansFailing
PROPERTIES
  FiresUnblocked
  BlockNeverShortened
  EveryFetchEnds
