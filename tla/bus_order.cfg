SPECIFICATION FairSpec
CONSTANTS
  fd1 = fd1
  fd2 = fd2
  NoFd = NoFd
  Types <- BothTypes
  Fds <- OneFd
  MaxConns = 3
  MaxCut = 0
  QueueCapacity = 1
  MaxPublish = 2
  MaxRestarts = 0

PROPERTIES ImplementsChannel Recovers
CHECK_DEADLOCK FALSE
