----------------------------- MODULE MCAnchors -----------------------------
(* Two chains whose keys share their first piece, so that the tries have a  *)
(* node below the root; keys have three pieces of two bits.                 *)
EXTENDS Anchors

Anchor(c, n, by, added, removed) ==
    [chain |-> c, number |-> n, signer |-> by, added |-> added, removed |-> removed]

\* A chain's registration, one that is refused, the next anchor, which adds an
\* owner, and one by that owner; another chain is registered with two owners.
MCAnchorTxs ==
    {Anchor(4, 0, "alice", <<>>, <<>>), Anchor(4, 0, "bob", <<>>, <<"carol">>),
     Anchor(4, 1, "alice", <<"bob">>, <<>>),
     Anchor(4, 2, "bob", <<>>, <<"alice">>), Anchor(8, 0, "bob", <<"alice", "carol">>, <<>>)}
=============================================================================
