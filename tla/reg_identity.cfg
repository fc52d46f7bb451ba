CONSTANTS
  Customers = {c1}
  Devices = {d1}
  Installations = {i1, i2}
  Keys = {k1, k2}
  Licenses = {l1}
  Tokens = {t1, t2}
  Challenges = {ch1}
  None = None
  MaxTime = 2
  SeatCounts = {1}
  LicenseTerms = {1}
  TokenTTLs = {1}
  Grace = 2
  ChallengeTTL = 1
  SessionTTL = 1
SPECIFICATION Spec
SYMMETRY Symmetry
INVARIANTS
  TypeOK
  SeatHasOneIdentity
  NoStaleApproval
PROPERTIES
  RebindNeedsFreshToken
  DocumentsFollowSeat
