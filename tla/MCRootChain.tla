---------------------------- MODULE MCRootChain ----------------------------
(* Small instances of RootChain: two users, two deposits, three blocks. *)
EXTENDS RootChain

CONSTANTS a, b, zero, none

T0 == <<a, 0, 2>>

Tx(t, pb, from, to, sp) ==
  [token |-> t, denom |-> t[3], dep |-> t[2], prevBlk |-> pb,
   prevOwner |-> from, recipient |-> to, spent |-> sp, signer |-> from]

\* The blocks of an operator that applies every check: T0 is deposited in
\* block 1, goes from a to b in block 2 and back in block 3, where the transfer
\* carries the index of the other deposit.
Dep0 == Tx(T0, 0, zero, a, 0)
AtoB == Tx(T0, 1, a, b, 1)
BtoA == Tx(T0, 2, b, a, 1)
Astray == [BtoA EXCEPT !.dep = 1]
HonestRoots == [n \in Blk |-> <<{{}}, {{Dep0}}, {{AtoB}}, {{Astray}}>>[n + 1]]

ASSUME HonestAssumption == CheckedRoots(HonestRoots)

\* An operator that publishes a block 0, replaces a published block, includes
\* a transfer by somebody who is not the owner and one with the index of
\* another deposit.
Again    == Tx(T0, 0, a, a, 1)
NotOwner == Tx(T0, 1, b, b, 0)
FaultyRoots ==
  [n \in Blk |-> <<{{Dep0}}, {{Dep0}, {Again}}, {{AtoB}, {NotOwner}}, {{Astray}}>>[n + 1]]
=============================================================================
