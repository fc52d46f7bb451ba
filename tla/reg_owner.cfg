CONSTANTS
  Customers = {c1, c2}
  Devices = {d1}
  Installations = {i1}
  Keys = {k1}
  Licenses = {l1, l2}
  Tokens = {t1}
  Challenges = {ch1}
  None = None
  MaxTime = 1
  SeatCounts = {1}
  LicenseTerms = {1}
  TokenTTLs = {1}
  Grace = 1
  ChallengeTTL = 1
  SessionTTL = 1
SPECIFICATION Spec
SYMMETRY Symmetry
INVARIANTS
  OwnershipAgrees
  ArchivedCustomerIdle
PROPERTIES
  SeatPromise
