\* ERP Sync from import to ledger: one request at a time, crashing, overlapping.
SPECIFICATION Spec
CONSTANTS
  ana = ana
  bob = bob
  vic = vic
  s1 = s1
  s2 = s2
  None = None
  Bad = Bad
  Users = {ana, bob, vic}
  Viewers = {vic}
  Grain = 4
  EclaimDocs = {"n2"}
  Ruleset <- MCRuleset
  Factors <- MCFactors
  Ownership <- MCOwnership
  Limit <- MCLimit
  Files <- MCFiles
  Remaps <- MCRemaps
  Worlds <- MCWorlds
INVARIANTS TypeOK SeenOrMeasured LedgerAgrees ImportAccounts
PROPERTIES LedgerPromise
CHECK_DEADLOCK FALSE
