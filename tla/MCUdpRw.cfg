CONSTANTS
  c1 = c1
  c2 = c2
  s1 = s1
  s2 = s2
  r1 = r1
  r2 = r2
  Clients <- MCClients
  Sockets <- MCSockets
  SocketOf <- MCOwnSocket
  Addrs <- MCAddrs
  Values = {0, 1}
  Zero = 0
  MaxCalls = 4
SPECIFICATION FairSpec
PROPERTIES
  ImplementsRegister
  CallsEnd
CHECK_DEADLOCK FALSE
