SPECIFICATION Spec
CONSTANTS
  x1 = x1
  x2 = x2
  xn = xn
  y1 = y1
  x = x
  y = y
  NoParent = NoParent
  Clients <- MCClients
  Builds <- MCBuilds
  BuildOf <- MCBuildOf
  Nests <- MCNests
  Limit = 2
INVARIANTS Conservation Admission NoIdleToken QueueExact
PROPERTIES ProbesFirst Implements
