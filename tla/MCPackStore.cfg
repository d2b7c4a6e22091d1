CONSTANTS
  k1 = k1
  k2 = k2
  Keys <- MCKeys
  Bytes <- MCBytes
  Tiers <- MCTiers
  Budget <- MCBudget
  PackLimit = 3
  MaxId = 4
  MaxPuts = 3
  Faults = {"write", "move", "create", "load"}
  MaxOutages = 1
  NoFile = NoFile
  Torn = Torn
SPECIFICATION Spec
CONSTRAINT Followed
INVARIANTS TypeOK Kept FreshId IndexSound Accounts
