CONSTANTS
  Runs = {r1}
  None = None
  MaxTime = 2
  MaxClock = 3
  MaxJumps = 1
  MaxKills = 1
  Grace = 2
  Skew = 0
  ChallengeTTL = 1
  ChallengeAhead = 1
  StaleAfter = 0
SPECIFICATION LiveSpec
INVARIANTS
  AuthorityEndsWithGrace
  DenialReachesBackend
PROPERTIES
  DenialSticks
  Recovers
