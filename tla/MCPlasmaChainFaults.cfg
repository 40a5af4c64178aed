SPECIFICATION MCSpec
CONSTANTS
  a = a
  b = b
  op = op
  None = None
  Users = {a, b}
  Operator = op
  Tokens = {1, 2}
  Depositor <- DepositorOf
  Denom <- DenomOf
  Word = 8
  MaxBlk = 3
  Transfers <- Fees
  Failures = {"store", "insert", "publish"}
  Losses <- LostEntries
  MaxLosses = 1
  MaxRestarts = 1
CHECK_DEADLOCK FALSE
INVARIANTS LinearHistory  PublishedAgrees
