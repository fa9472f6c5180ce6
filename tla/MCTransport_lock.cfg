\* One task connects, in a build that allows several cores.
CONSTANTS
  c1 = c1  c2 = c2  client = client
  NoConnection = NoConnection
  Clients = {client}
  Listeners = {}
  Workers = {}
  Connections = {c1, c2}
  Peers = {}
  ServerPort = 80
  Protocols = {"TCP"}
  OWN_PORT_MIN = 60000
  OWN_PORT_MAX = 60001
  BackLog = 1
  SpinLocks = {"free"}
SPECIFICATION TransportFairSpec
PROPERTY ConnectEnds
CHECK_DEADLOCK FALSE
