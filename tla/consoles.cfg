CONSTANTS
  Sessions = {s1, s2, s3}
  Leases = {a1}
  Streams = {v1, v2}
  Stills = {f1}
  Browsers = {b1, b2}
  Consoles = {c1, c2}
  Passwords = {ChangeMe, pw1, pw2}
  Default = ChangeMe
  None = None
  MaxResets = 2
  Idle = 2
  Lifetime = 3
  Window = 2
  PerClient = 2
  PerServer = 3
  MaxSessions = 2
  MaxSlots = 1
  MaxTime = 3
  MaxTokens = 3
  MaxStops = 1
  Buttons = {menu, back}
  Settle = 1
  MaxSamples = 8
  ToRestart = 2
  ToStop = 3
  MaxAsked = 2
  Files = {f, g}
  Uploads = {u1, u2}
  Disk = 4
  Capacity = 3
  Reserve = 1
  Limit = 2
  Logins = {l1, l2, l3}
  Readers = {r1, r2}
  MaxAttempts = 1
  MaxAddresses = 0
  MaxOpened = 1
  Term = 1
  Validity = 2
  Fresh = 0
  MaxClock = 2
SPECIFICATION PartsSpec
CHECK_DEADLOCK FALSE
INVARIANTS
  PartsTypeOK
  OneSessionPerReset
  CaptureIsManaged
  PasswordInForce
  LimitsHold
  KeysActOnce
PROPERTIES
  LockEndsWithHolder
  ChangedBySignedIn
  EverythingEnds
