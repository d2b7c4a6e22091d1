SPECIFICATION TSpec
CONSTANTS
  StoreDir <- MCStoreDir
  Libs <- MCLibs
  RealDir <- MCRealDir
  SharedLibs <- MCShared
  LowerCase <- MCLower
  RunpathSlack = 48
  NeededSlack = 80
  InterpSlack = 12
  Bytes <- MCBytes
  Sources = {"src.c"}
  Objects = {"m.o"}
  MaxHops = 4
  Page = 4
  Names <- MCNames
  Own = {"libnss"}
  Alias <- MCAlias
  MaxLoads = 3
  Setups <- MCSetups
  Lines <- MCLines
  Alphabet <- MCAlphabet
  Prefix <- MCPrefix
  Dest <- MCDest
  Sibling <- MCSibling
  Places <- MCPlaces
  Roots <- MCRoots
  Starts <- MCStarts
INVARIANTS
  SameSearch LoadsLinked Accepted Whole Idempotent Launches AsKernel KeyFaithful ReportsMissing
CHECK_DEADLOCK FALSE
