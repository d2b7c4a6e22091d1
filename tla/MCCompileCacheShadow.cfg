CONSTANTS
  b1 = b1
  b2 = b2
  c1 = c1
  c2 = c2
  s1 = s1
  s2 = s2
  localA = localA
  localB = localB
  storeA1 = storeA1
  storeA2 = storeA2
  env = env
  Builds = {b1, b2}
  Modes = {"cc"}
  Sources = {s1}
  Contents = {c1, c2}
  Paths <- MCPaths
  StorePaths <- MCStorePaths
  EnvVars <- MCEnvVars
  StoreViews <- MCAnyListing
  Mask <- MCMask
  ByContent = TRUE
  Racing = FALSE
  EnvFailures = {"killed"}
  MaxStarts = 2
  MaxEdits = 3
  Step <- MCStep
  Absent = Absent
  Miss = Miss
SPECIFICATION Spec
INVARIANTS Identical
SYMMETRY MCSymmetry
