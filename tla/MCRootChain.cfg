\* Honest operator; exits end under fairness.
SPECIFICATION FairSpec
CONSTANTS
  a = a
  b = b
  zero = zero
  none = none
  Users = {a, b}
  Nobody = zero
  NoToken = none
  Values = {0, 2, 4}
  Uint64 = 6
  MaxDeposits = 2
  MaxBlk = 3
  MaxTime = 5
  MaxQueue = 3
  Period = 2
  FinalizeCap = 2
  Rejecting = {}
  Roots <- HonestRoots
CHECK_DEADLOCK FALSE
INVARIANTS ExitQueued NonOwnerChallengeable
PROPERTY ExitResolved
