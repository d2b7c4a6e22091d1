SPECIFICATION JSpec
CONSTANTS
  Invocations <- MCInvocations
  Batch1 <- MCBatch1
  Pair <- MCPair
  Many <- MCMany
  Keys = {"a", "b"}
  Scripts <- MCScripts
  UpRoom = 1
  DownRoom = 4
  OutRoom = 2
  Callers = {h1, h2}
  Asked = {"s", "u"}
  InStore = {"s"}
  RealPaths = {r1, r2}
  Inodes = {i1, i2}
  Texts <- MCTexts
  Mtimes = {1}
  MaxFiles = 2
  NoId = NoId
  Names <- MCNames
  Contents <- MCContents
  Trees <- MCTrees
  GetRoots <- MCGetRoots
  Batch = 2
  MaxRewrites = 1
  Sessions = {s1, s2}
  Actions = {act}
  Outputs = {o1, o2}
  None = None
  Commands <- MCCommands
  Chatter <- MCChatter
  Versions = {1, 2}
  Inputs <- MCInputs
  RustWords <- MCRustWords
  RustBases <- MCRustBases
  MaxRustWords = 3
SYMMETRY Alike
INVARIANTS Answered NoStandoff IdentityCurrent TreeWhole GoServed InStep Converts RustKey
CHECK_DEADLOCK FALSE
