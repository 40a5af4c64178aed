--------------------------- MODULE MCPlasmaAPI -----------------------------
(***************************************************************************)
(* A small instance of PlasmaAPI: two tokens of two users.  In one         *)
(* scenario the owner of token 2 sells it and the node restarts, in the    *)
(* other the owner first pays a fee and the node has no restart left.      *)
(***************************************************************************)
EXTENDS PlasmaAPI, TLC

CONSTANTS a, b, op

DepositorOf == 1 :> a @@ 2 :> b
DenomOf     == 1 :> 3 @@ 2 :> 2

Sale   == [token |-> 2, denom |-> 2, prevBlk |-> 1, prevOwner |-> b, recipient |-> a,
           allowance |-> 1, spent |-> 0, signer |-> b]
Fee    == [Sale EXCEPT !.recipient = b]
Resale == [Sale EXCEPT !.prevBlk = 2]
Sales  == {Sale, Fee, Resale}

MCInit == (InitWith({Sale}, 0, 0) \/ InitWith({Fee, Resale}, MaxRestarts, 0)) /\ StoreInit
MCSpec == MCInit /\ [][APINext]_apiVars
=============================================================================
