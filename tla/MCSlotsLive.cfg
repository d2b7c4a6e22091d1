SPECIFICATION FairSpec
CONSTANTS
  x1 = x1
  xn = xn
  y1 = y1
  x = x
  y = y
  NoParent = NoParent
  Clients <- MCClients
  Builds <- MCBuilds
  BuildOf <- MCBuildOf
  Nests <- MCNests
  Limit = 1
PROPERTIES Served Reclaimed
