CONSTANTS
  Customers = {c1}
  Devices = {d1, d2}
  Installations = {i1, i2}
  Keys = {k1, k2}
  Licenses = {l1}
  Tokens = {t1, t2}
  Challenges = {ch1}
  None = None
  MaxTime = 0
  SeatCounts = {1}
  LicenseTerms = {1}
  TokenTTLs = {1}
  Grace = 1
  ChallengeTTL = 1
  ChallengeAhead = 1
  SessionTTL = 1
  Runs = {r1, r2}
  AgentTime = 4
  MaxClock = 3
  MaxJumps = 0
  MaxKills = 1
  AgentGrace = 3
  Skew = 0
  StaleAfter = 1
SPECIFICATION SidesSpec
SYMMETRY Symmetry
INVARIANTS
  SeatsWithinLicense
  StatusBacked
PROPERTY OverlapsAreHarmless
