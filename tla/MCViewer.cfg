CONSTANTS
  Parts = {"session", "service", "sockets"}
  MaxRequests = 3
  MaxReconnects = 1
  Modes = {TRUE, FALSE}
  Transports = {"tcp", "udp"}
  MaxRestarts = 2
  MaxForwards = 2
  TCPSockets = {t}
  UDPSockets = {u}
  UDPServers = {v}
  Connections = {c}
  Server = s
  File = f
  Free = none
  Numbers = {1, 2, 3}
  MaxObjects = 2
SPECIFICATION PartSpec
INVARIANTS
  AnswerBeforeReturn
  NothingIsLeftBehind
  EstablishedMeansServing
PROPERTIES
  SessionsGoOn
  ViewerRestartsAndStops
  SocketsComeToRest
CHECK_DEADLOCK FALSE
