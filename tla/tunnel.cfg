CONSTANTS
  Devices = {d1, d2}
  Keys = {k1, k2}
  Addresses = {a1, a2}
  Leases = {l1}
  Profiles = {p1, p2}
  None = None
  MaxCrashes = 1
  MaxKills = 1
SPECIFICATION EndsSpec
SYMMETRY Symmetry
INVARIANTS
  EndsTypeOK
  AddressesUnique
  EndsAgree
  OnePeerPerGrant
PROPERTIES
  RevokedGrantAddsNothing
  ActiveProfileStays
