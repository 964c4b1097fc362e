SPECIFICATION CsSpec
CONSTANTS
  NumCpus = {1, 2, 3}
  Operands <- MCOperands
  CacheSpecs <- MCCacheSpecs
  TesterSpecs <- MCTesterSpecs
INVARIANTS
  GraphIsSound
  PacketsArrive
  TimingOrder
  SuppressedIssueElsewhere
CHECK_DEADLOCK FALSE
