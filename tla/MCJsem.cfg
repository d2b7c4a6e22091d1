CONSTANTS
  n1 = n1
  n2 = n2
  n3 = n3
  g1 = g1
  g2 = g2
  c1 = c1
  c2 = c2
  NoConn = NoConn
  Conns = {n1, n2}
  Ghcs = {g1}
  Ccs = {c1, c2}
  Owner <- MCOwner
  Clients <- MCClients
  Limit = 2
  Cabal = 1
  MaxTakes = 2
  MaxRestarts = 1
SPECIFICATION JFairSpec
INVARIANTS TypeOK NoOverAdmission Backed
PROPERTIES Retired Returned CcServed
\* The build ends: cabal, its ghcs and the broker are gone.
CHECK_DEADLOCK FALSE
