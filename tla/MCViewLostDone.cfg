CONSTANTS
  Parts = {"session"}
  MaxRequests = 1
  MaxReconnects = 0
  Modes = {TRUE}
  Transports = {"tcp"}
  MaxRestarts = 0
  MaxForwards = 0
  TCPSockets = {}
  UDPSockets = {}
  UDPServers = {}
  Connections = {}
  Server = s
  File = f
  Free = none
  Numbers = {1}
  MaxObjects = 0
SPECIFICATION PartSpec
PROPERTY
  ForwardReturns
