SPECIFICATION Spec
CONSTANTS
  Users = {"u1", "u2"}
  Files = {1, 2}
  Addresses = {"a", "b"}
  Passphrases = {"p", "q"}
  FirstAddress = "a"
  FirstPassphrase = "p"
  Loads <- MCLoads
CHECK_DEADLOCK FALSE
INVARIANTS KeysUsable QuiescentSync 
PROPERTY UnlocksEnd
