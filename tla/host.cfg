CONSTANTS
  Tasks = {t1, t2}
  Polls = {p1, p2}
  Services = {ssh, tftp}
  Actions = {stop}
  None = None
  MaxTasks = 2
  MaxKills = 1
  MaxRestarts = 1
  Keys = {own, factory}
  Factory = factory
  Open = Open
  MaxRequests = 2
  Networks = {office}
  Everywhere = Everywhere
  MaxEvents = 2
  Asks = {r1, r2}
  Profiles = {v1}
  Interfaces = {eth0, eth1}
  Addresses = {x}
  Gateways = {g}
  Servers = {n}
SPECIFICATION HostSpec
CHECK_DEADLOCK FALSE
INVARIANTS
  HostTypeOK
  RequestsAtMostOnce
  HostAsSaved
  AnswersAreTrue
PROPERTIES
  WifiAnswersHold
  PanelDoesAsTold
  AnswersCome
