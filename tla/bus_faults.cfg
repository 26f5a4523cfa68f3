SPECIFICATION Spec
CONSTANTS
  fd1 = fd1
  fd2 = fd2
  NoFd = NoFd
  Types <- RouteOnly
  Fds <- TwoFds
  MaxConns = 2
  MaxCut = 1
  QueueCapacity = 2
  MaxPublish = 2
  MaxRestarts = 1
INVARIANTS OneSocket LiveInOrder NoTornFrame IdleMeansFresh
CHECK_DEADLOCK FALSE
