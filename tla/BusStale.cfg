SPECIFICATION Spec
CONSTANTS
  Conns = {c1, c2, c3}
  Blocks = {c1, c2, c3}
  Topics = {}
  Patterns = {}
  MaxClients = 3
  MaxSubs = 1
  SrvFd = 3
  RecvLines = 1
  MaxSent = 1
  MaxLeaves = 1
PROPERTIES PingReplied
CHECK_DEADLOCK FALSE
