SPECIFICATION FairSpec
CONSTANTS
  a = a
  b = b
  op = op
  None = None
  Users = {a, b}
  Operator = op
  Tokens = {1, 2}
  Depositor <- DepositorOf
  Denom <- DenomOf
  Word = 8
  MaxBlk = 4
  Transfers <- Conflicts
  Failures = {}
  Losses = {{}}
  MaxLosses = 0
  MaxRestarts = 0
CHECK_DEADLOCK FALSE
INVARIANTS LinearHistory AccountsAgree ReceiptMined
PROPERTY PoolDrains
