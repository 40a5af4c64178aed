------------------------------ MODULE MCGossip ------------------------------
(***************************************************************************)
(* Two peers, of which one reconnects, on a node that accepts a session    *)
(* only while no other is registered; a transaction, an anchor that a      *)
(* client sends and a block that includes both.                            *)
(***************************************************************************)
EXTENDS Gossip

MCTxs == {"t"}
MCAnchors == {"a"}
MCBlocks == {"b"}
MCCovers == [b \in MCBlocks |-> {"t", "a"}]
MCMessages == {<<>>, <<"t">>, <<"b">>}
MCSessions == [p |-> 2, q |-> 1]
MCKnown == [tx |-> 2, anchor |-> 1, block |-> 2]
=============================================================================
