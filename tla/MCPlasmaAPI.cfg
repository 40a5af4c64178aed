SPECIFICATION MCSpec
CONSTANTS
  a = a
  b = b
  op = op
  None = None
  Users = {a, b}
  Operator = op
  Tokens = {1, 2}
  Depositor <- DepositorOf
  Denom <- DenomOf
  Word = 8
  MaxBlk = 3
  Transfers <- Sales
  Failures = {"insert", "store"}
  Losses = {{}}
  MaxLosses = 0
  MaxRestarts = 1
  Queries = {"GetPlasmaExitProof", "GetPlasmaTransactionProof"}
  Queried = {2}
CHECK_DEADLOCK FALSE
INVARIANTS ExitProofValid AnswersFollowChain InclusionProven
