CONSTANTS
  b1 = b1
  b2 = b2
  c1 = c1
  c2 = c2
  s1 = s1
  s2 = s2
  localA = localA
  localB = localB
  storeA1 = storeA1
  storeA2 = storeA2
  env = env
  Builds = {b1, b2}
  Modes = {"cc", "asm", "rustc"}
  Sources = {s1}
  Contents = {c1, c2}
  Paths <- MCPaths
  StorePaths <- MCStorePaths
  EnvVars <- MCEnvVars
  StoreViews <- MCSameListing
  Mask <- MCMask
  ByContent = TRUE
  Racing = TRUE
  EnvFailures = {"killed", "disk"}
  MaxStarts = 2
  MaxEdits = 2
  Step <- MCStep
  Absent = Absent
  Miss = Miss
SPECIFICATION Spec
INVARIANTS Faithful DepfileWritten
CONSTRAINT Followed
SYMMETRY MCSymmetry
