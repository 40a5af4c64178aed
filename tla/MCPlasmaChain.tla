--------------------------- MODULE MCPlasmaChain ---------------------------
(* Small instances of PlasmaChain: two tokens of two users. *)
EXTENDS PlasmaChain, TLC

CONSTANTS a, b, op

DepositorOf == 1 :> a @@ 2 :> b
DenomOf     == 1 :> 3 @@ 2 :> 2

Tx(t, pb, from, to, allow, sp) ==
  [token |-> t, denom |-> DenomOf[t], prevBlk |-> pb, prevOwner |-> from,
   recipient |-> to, allowance |-> allow, spent |-> sp, signer |-> from]

\* Two spends of the same deposit, one of them with an allowance, a withdrawal,
\* and a transfer signed by somebody else.
Sale     == Tx(1, 1, a, b, 0, 0)
Discount == Tx(1, 1, a, b, 1, 0)
Withdraw == Tx(2, 1, b, a, 0, 1)
Forged   == [Tx(2, 1, b, a, 0, 0) EXCEPT !.signer = a]

Conflicts == {Sale, Discount, Withdraw, Forged}

\* A fee, then a sale.
Fee    == Tx(2, 1, b, b, 1, 0)
Resale == Tx(2, 2, b, a, 1, 0)
Fees   == {Fee, Resale}

\* Nothing, a node of the token trie, and a header.
LostEntries == {{}, {1}, Tokens \cup Addresses}

\* The node restarts, or its chunk store loses entries, or neither and there are
\* more transactions.
MCInit ==
  \/ InitWith({Fee}, 0, MaxLosses)
  \/ InitWith({Fee}, MaxRestarts, 0)
  \/ InitWith(Fees, MaxRestarts, MaxLosses)

MCSpec == MCInit /\ [][Next]_vars
=============================================================================
