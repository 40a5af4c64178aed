\* An operator that replaces published blocks and includes bad transfers.
SPECIFICATION Spec
CONSTANTS
  a = a
  b = b
  zero = zero
  none = none
  Users = {a, b}
  Nobody = zero
  NoToken = none
  Values = {0, 2, 4}
  Uint64 = 6
  MaxDeposits = 2
  MaxBlk = 3
  MaxTime = 4
  MaxQueue = 2
  Period = 1
  FinalizeCap = 2
  Rejecting = {b}
  Roots <- FaultyRoots
CHECK_DEADLOCK FALSE
INVARIANTS PaidOnce IndexAgrees DepositExitMarked
PROPERTY FullPeriod
