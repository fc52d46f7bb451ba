CONSTANTS
  Profiles = {p1}
  None = None
  MaxKills = 0
SPECIFICATION Spec
PROPERTY ReplyKept
