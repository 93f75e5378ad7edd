SPECIFICATION Spec
CONSTANTS
  InCap = 1
  Slack = 2
  MaxPkts = 3
  Setups <- OnlyFlush
  None = None
  EOS = EOS
INVARIANTS
  NothingStale
