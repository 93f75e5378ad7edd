SPECIFICATION Spec
CONSTANTS
  InCap = 1
  Slack = 2
  MaxPkts = 3
  Setups <- OnlyEager
  None = None
  EOS = EOS
INVARIANTS
  CompleteAtEOF
