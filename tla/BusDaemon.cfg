SPECIFICATION Spec
CONSTANTS
  Conns = {c1, c2, c3}
  Blocks = {c1, c2}
  Topics <- MCTopics
  Patterns <- MCPatterns
  MaxClients = 2
  MaxSubs = 1
  SrvFd = 3
  RecvLines = 2
  MaxSent = 2
  MaxLeaves = 2
INVARIANTS TypeOK TablesFaithful
PROPERTIES PublishReaches DrainedBeforeClose PingAnswered
CHECK_DEADLOCK FALSE
