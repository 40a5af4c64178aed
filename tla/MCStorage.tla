------------------------------ MODULE MCStorage ------------------------------
(***************************************************************************)
(* Records and their chunk store, and the client of the cloudstore service, *)
(* for TLC.  The two are separate programs: a behaviour has the workload    *)
(* "cloud" and runs the second, or another workload and runs the first.     *)
(***************************************************************************)
EXTENDS RecordStore, CloudStore

MCtokenKey(depositIndex, denomination, depositor) ==
    <<denomination, 0, 129, depositIndex, 7, IF depositor = "alice" THEN 1 ELSE 2, 0, depositIndex>>

MCOperator == "op"
MCKeys == {"op", "alice", "bob"}

Hash(n) == <<"root", n>>

Tx(index, prevBlock, prevOwner, recipient) ==
    [TokenID |-> MCtokenKey(index, 5, "alice"), Denomination |-> 5, DepositIndex |-> index, PrevBlock |-> prevBlock,
     PrevOwner |-> prevOwner, Recipient |-> recipient, Allowance |-> 0, Spent |-> 1, Sig |-> NoSig]

Deposit == Tx(0, 0, MCOperator, "alice")
Transfer == Tx(1, 1, "alice", "bob")
MCTransactions == {Deposit, Transfer}

Anchor == NewAnchorTransaction(3, 1, Hash(1))
MCAnchors == {Anchor}

Header(n) ==
    [ParentHash |-> Hash(n - 1), BlockNumber |-> n, Time |-> 7, BloomID |-> <<>>, TransactionRoot |-> Hash(10),
     TokenRoot |-> Hash(11), AccountRoot |-> Hash(12), L3ChainRoot |-> Hash(13), AnchorRoot |-> Hash(14), Sig |-> NoSig]
MCHeaders == {Header(1)}

Node == [ID |-> Hash(20), IP |-> <<10, 0, 0, 1>>, TCP |-> 30303]
Peer == newAddress(2, 50400, Node)

MCObjects ==
    { [kind |-> "token", val |-> [Denomination |-> 5, PrevBlock |-> 2, Owner |-> "bob", Balance |-> 3, Allowance |-> 1, Spent |-> 4]],
      [kind |-> "info", val |-> TokenInfo(Deposit)],
      [kind |-> "account", val |-> [Tokens |-> <<Deposit.TokenID>>, Denomination |-> 5, Balance |-> 4]],
      [kind |-> "header", val |-> SignHeader(Header(1), MCOperator)],
      [kind |-> "address", val |-> Peer],
      [kind |-> "snapshot", val |-> [addresses |-> <<Peer, [Peer EXCEPT !.raftId = 3]>>, removedRaftIds |-> <<1>>,
                                     headBlockHash |-> Hash(21)]],
      [kind |-> "chain", val |-> AnchorBlockSort(AddAnchorTx(NewAnchorBlock([Anchor EXCEPT !.BlockNumber = 2]), Anchor))] }

MCChunks == {[key |-> <<"node", n>>, val |-> <<"bits", v>>] : n \in {1, 2}, v \in {{1}, {2}}}

MCOwners == {"alice", "bob"}

Load(kinds, objects, n) == [kinds |-> kinds, objects |-> objects, faults |-> n, edits |-> 0, omits |-> FALSE]

MCLoads ==
    { [Load({"tx", "anchor"}, 2, 1) EXCEPT !.edits = 1], Load({"tx", "block"}, 2, 1),
      [Load({"anchor", "block"}, 2, 1) EXCEPT !.edits = 1],
      [Load({"tx"}, 1, 1) EXCEPT !.omits = TRUE], [Load({"anchor"}, 1, 1) EXCEPT !.edits = 4, !.omits = TRUE],
      Load({"token", "account", "chain"}, 2, 2), Load({"queue"}, 4, 2),
      [Load({"token", "account", "info", "header", "address", "snapshot"}, 1, 0) EXCEPT !.omits = TRUE],
      Load({"cloud"}, 0, 0) }

MCNamedChunk == <<"name", "tip">>
C(v) == RawChunk(ContentID(v), v)
Ask(id) == RawChunk(id, NoValue)
MCRequests ==
    { [op |-> "setChunk", chunks |-> <<RawChunk(MCNamedChunk, "x")>>], [op |-> "setChunk", chunks |-> <<C("x")>>],
      [op |-> "setChunkBatch", chunks |-> <<C("x"), C("y"), RawChunk(MCNamedChunk, "y")>>],
      [op |-> "getChunkBatch", chunks |-> <<Ask(ContentID("y")), Ask(ContentID("x"))>>],
      [op |-> "getChunk", chunks |-> <<Ask(ContentID("x"))>>], [op |-> "getShare", chunks |-> <<Ask(ContentID("x"))>>],
      [op |-> "setShare", chunks |-> <<C("x")>>] }

Init == RecordInit /\ CloudInit
Next == \/ load.kinds # {"cloud"} /\ RecordNext /\ UNCHANGED cloudVars
        \/ load.kinds = {"cloud"} /\ CloudNext /\ UNCHANGED recordVars
Spec == Init /\ [][Next]_<<recordVars, cloudVars>>
=============================================================================
