----------------------------- MODULE PlasmaAPI -----------------------------
(***************************************************************************)
(* The queries of the RPC interface (api.go) and the chunks they read.     *)
(*                                                                         *)
(* A query reads the chunk store several times, without a lock, while the  *)
(* minter stores transactions and headers of a block that is not the head  *)
(* yet.  The chunk store outlives the node: after a restart it still holds *)
(* the headers and transactions of the blocks minted before.               *)
(*                                                                         *)
(* A root is the content of its tree, and a proof of a transaction against *)
(* a tree verifies if the tree holds it.  Chunks whose write reports no    *)
(* error are found again: without the header of a block or a node of its   *)
(* tries a query about it answers as if the entries did not exist.         *)
(***************************************************************************)
EXTENDS PlasmaChain

CONSTANTS
  Queries,   \* the calls a client makes
  Queried    \* the tokens it asks for

ASSUME APIAssumption ==
  /\ Queries \subseteq {"GetPlasmaExitProof", "GetPlasmaTransactionProof"}
  /\ Queried \subseteq Tokens
  /\ Losses = {{}}

VARIABLES
  headers,   \* "plasmaHeader<n>" and the header it leads to
  blocks,    \* "plasma<n>"
  infos,     \* tokens with a "plasmaTokenInfo" chunk
  wrote,     \* WriteHeader of the block under construction is done
  call,      \* the query that is running, with what it has read so far
  answer     \* what a query returns in this state

storeVars == <<headers, blocks, infos, wrote>>
apiVars   == <<vars, storeVars, call, answer>>

\* A header holds the roots of the tries; without one they are empty.  An
\* address that has no account is not found, here the empty account.
ZeroHeader ==
  [tokens |-> [t \in Tokens |-> None], accounts |-> [a \in Addresses |-> NoAccount], txs |-> {}]

NoCall   == [op |-> "none"]
NoAnswer == [kind |-> "none"]

StoreInit ==
  /\ headers = [b \in 1 .. MaxBlk |-> None] /\ blocks = headers
  /\ infos = {} /\ wrote = FALSE
  /\ call = NoCall /\ answer = NoAnswer

APIInit == Init /\ StoreInit

-----------------------------------------------------------------------------
(* The minter writes the chunks *)

\* A running query goes on; an answer has gone to the client.
Runs == UNCHANGED call /\ answer' = NoAnswer

\* The header Commit returns.
MakeHeaderHash ==
  [tokens   |-> [t \in Tokens |-> UpdateTokenObject(t, {}, {})],
   accounts |-> [a \in Addresses |-> UpdateAccountObject(a, {}, {})],
   txs      |-> BlockTxs({})]

MakeBlock == [header |-> MakeHeaderHash, body |-> Range(committed)]

WriteHeader ==
  /\ pc = "commit" /\ i > numtxns /\ committed # <<>>
  /\ ~wrote
  /\ wrote' = TRUE
  /\ headers' = [headers EXCEPT ![blockNumber + 1] = MakeHeaderHash]
  /\ Runs /\ UNCHANGED <<vars, blocks, infos>>

\* Mutant: a block the store already has is not written.
WriteBlockOnce ==
  /\ wrote
  /\ InsertBlock
  /\ wrote' = FALSE
  /\ blocks' = [blocks EXCEPT ![blockNumber + 1] = IF @ = None THEN MakeBlock ELSE @]
  /\ Runs /\ UNCHANGED <<headers, infos>>

\* WriteBlock stores the block, which then becomes the head.
WriteBlock ==
  /\ wrote
  /\ InsertBlock
  /\ wrote' = FALSE
  /\ blocks' = [blocks EXCEPT ![blockNumber + 1] = MakeBlock]
  /\ Runs /\ UNCHANGED <<headers, infos>>

\* The chunk of the bloom filter fails before, or that of the block after
\* WriteHeader.
FailToWrite ==
  /\ FailToInsert
  /\ wrote' = FALSE
  /\ Runs /\ UNCHANGED <<headers, blocks, infos>>

WithInfo(tx) == IF tx.prevBlk = 0 THEN infos \cup {tx.token} ELSE infos

\* The token information is the last chunk StoreTransaction writes.
Commits ==
  /\ CommitTransaction
  /\ infos' = WithInfo(txes[i])
  /\ Runs /\ UNCHANGED <<headers, blocks, wrote>>

FailsToStore ==
  /\ FailToStore
  /\ Runs /\ UNCHANGED storeVars

\* A restart ends the queries.
Restarts ==
  /\ Restart
  /\ wrote' = FALSE /\ call' = NoCall /\ answer' = NoAnswer
  /\ UNCHANGED <<headers, blocks, infos>>

\* Bound: events are delivered again only until their deposit is mined (PlasmaChain
\* delivers them for ever).
Awaited(t) == txBlock[DepositTx(t)] = 0

Others ==
  /\ \/ \E tx \in unsent : SendPlasmaTransaction(tx)
     \/ \E t \in Tokens : Deposit(t)
     \/ \E t \in Range(onL1) : Awaited(t) /\ ProcessDeposit(t)
     \/ MintNewBlock \/ DropTransaction \/ NothingCommitted \/ PublishBlock
  /\ Runs /\ UNCHANGED storeVars

-----------------------------------------------------------------------------
(* Reading chunks *)

\* A missing header is no error.
getBlockHeaderByNumber(b) ==
  IF b \in 1 .. MaxBlk /\ headers[b] # None THEN headers[b] ELSE ZeroHeader

getBlockByNumber(b) == IF b \in 1 .. MaxBlk THEN blocks[b] ELSE None

getTokenInfo(t) == IF t \in infos THEN TokenInit(t) ELSE None

\* NewStateDB at the header, GetToken or GetAccount.
getPlasmaToken(t, b)   == GetTokenObject(getBlockHeaderByNumber(b).tokens, t)
getPlasmaBalance(a, b) == GetAccountObject(getBlockHeaderByNumber(b).accounts, a)

\* The transaction tree of a block: the hash stored for a token.
getHash(t, b) ==
  LET found == {tx \in getBlockHeaderByNumber(b).txs : tx.token = t}
  IN IF found = {} THEN None ELSE CHOOSE tx \in found : TRUE

\* A transaction whose block number was not written is not found.
getTransaction(tx) == IF txBlock[tx] = 0 THEN None ELSE [tx |-> tx, blk |-> txBlock[tx]]

-----------------------------------------------------------------------------
(* Queries of one chunk *)

\* The number of currentBlock, which a client names with LatestBlock.
LatestBlock       == MaxBlk + 1
LatestBlockNumber == blockNumber
AtBlock(b)        == IF b = LatestBlock THEN LatestBlockNumber ELSE b

GetPlasmaBlock(b)      == getBlockByNumber(AtBlock(b))
GetPlasmaToken(t, b)   == [token |-> getPlasmaToken(t, AtBlock(b)), tokenInfo |-> getTokenInfo(t)]
GetPlasmaBalance(a, b) == getPlasmaBalance(a, AtBlock(b))

GetPlasmaTransactionReceipt(tx) ==
  [plasmatransaction |-> getTransaction(tx), receipt |-> Receipt(tx)]

-----------------------------------------------------------------------------
(* Queries *)

Start(c)  == call = NoCall /\ pc # "crashed" /\ call' = c
Go(c)     == call' = c /\ UNCHANGED answer
Answer(a) == call' = NoCall /\ answer' = a
Reads     == UNCHANGED <<vars, storeVars>>

GetPlasmaTransactionProof(tx) ==
  /\ "GetPlasmaTransactionProof" \in Queries
  /\ getTransaction(tx) # None
  /\ Start([op |-> "proof", tx |-> tx, at |-> blockNumber, blk |-> getTransaction(tx).blk])
  /\ answer' = NoAnswer
  /\ Reads

\* Mutant: the tree is that of the latest block.
GenerateProofLatest ==
  /\ call.op = "proof"
  /\ Answer([kind |-> "proof", tx |-> call.tx, at |-> call.at, blk |-> call.blk,
             verifies |-> call.tx \in getBlockHeaderByNumber(call.at).txs])
  /\ Reads

\* GenerateProof makes a proof of whatever tree the header leads to.
GenerateProof ==
  /\ call.op = "proof"
  /\ Answer([kind |-> "proof", tx |-> call.tx, at |-> call.at, blk |-> call.blk,
             verifies |-> call.tx \in getBlockHeaderByNumber(call.blk).txs])
  /\ Reads

GetPlasmaExitProof(t) ==
  /\ "GetPlasmaExitProof" \in Queries
  /\ Start([op |-> "exit token", token |-> t, at |-> LatestBlockNumber])
  /\ answer' = NoAnswer
  /\ Reads

\* What the call returns: nothing, or the transactions with their proofs.
NoExit            == [kind |-> "no exit", token |-> call.token, at |-> call.at]
DepositExit(curr) == [kind |-> "depositExit", token |-> call.token, at |-> call.at, curr |-> curr]
Exit(curr, prev)  == [kind |-> "exit", token |-> call.token, at |-> call.at,
                      curr |-> curr, prev |-> prev]

\* GetPlasmaToken, with the token information.
ReadExitToken ==
  /\ call.op = "exit token"
  /\ LET r == GetPlasmaToken(call.token, call.at)
     IN IF r.token = None \/ r.tokenInfo = None
          THEN Answer(NoExit)
          ELSE Go([op |-> "curr hash", token |-> call.token, at |-> call.at, blk |-> r.token.prevBlk])
  /\ Reads

\* getProofbyTokenID reads the hash in the block, ...
ReadCurrHash ==
  /\ call.op = "curr hash"
  /\ LET tx == getHash(call.token, call.blk)
     IN Go([op |-> "curr", token |-> call.token, at |-> call.at, tx |-> tx])
  /\ Reads

\* The transaction getProofbyTokenID returns, None if it is not found or pending.
Received(tx) == tx # None /\ GetPlasmaTransactionReceipt(tx).receipt = 1

\* Mutant: a transfer in the block after the deposit is taken for a deposit.
ReadCurrDeposit ==
  /\ call.op = "curr"
  /\ IF ~Received(call.tx) THEN Answer(NoExit)
     ELSE LET curr == getTransaction(call.tx)
          IN IF call.tx.prevBlk <= 1
               THEN Answer(DepositExit(curr))
               ELSE Go([op |-> "prev hash", token |-> call.token, at |-> call.at, curr |-> curr])
  /\ Reads

\* ... then the transaction and its block number.  If there is none, the block
\* before it is 0, and marshalling the missing proof of a deposit panics.
ReadCurr ==
  /\ call.op = "curr"
  /\ IF ~Received(call.tx) THEN Answer(NoExit)
     ELSE LET curr == getTransaction(call.tx)
          IN IF call.tx.prevBlk = 0
               THEN Answer(DepositExit(curr))
               ELSE Go([op |-> "prev hash", token |-> call.token, at |-> call.at, curr |-> curr])
  /\ Reads

ReadPrevHash ==
  /\ call.op = "prev hash"
  /\ LET tx == getHash(call.token, call.curr.tx.prevBlk)
     IN Go([op |-> "prev", token |-> call.token, at |-> call.at, curr |-> call.curr, tx |-> tx])
  /\ Reads

\* A previous transaction that is not found gives the answer an error.
ReadPrev ==
  /\ call.op = "prev"
  /\ Answer(IF Received(call.tx) THEN Exit(call.curr, getTransaction(call.tx)) ELSE NoExit)
  /\ Reads

Query ==
  \/ \E t \in Queried : GetPlasmaExitProof(t)
  \/ \E tx \in AllTxs : tx.token \in Queried /\ GetPlasmaTransactionProof(tx)

ReadChunk ==
  \/ GenerateProof
  \/ ReadExitToken \/ ReadCurrHash \/ ReadCurr \/ ReadPrevHash \/ ReadPrev

\* A panic of the minter ends the process with its queries.
Crashes ==
  /\ Panic
  /\ call' = NoCall /\ answer' = NoAnswer
  /\ UNCHANGED storeVars

APINext ==
  \/ Others \/ Commits \/ FailsToStore \/ WriteHeader \/ WriteBlock \/ FailToWrite
  \/ Crashes \/ Restarts
  \/ Query \/ ReadChunk

APISpec == APIInit /\ [][APINext]_apiVars

-----------------------------------------------------------------------------
(* Properties *)

MovesUpTo(t, b) == {m \in Moves(t) : m <= b}

\* No transaction of the token is in a tree without being in the body of the
\* block: the exception is one whose StoreTransaction failed after Append.
Stored(t) == \A b \in Moves(t) : \A tx \in chain[b] : tx.token = t => tx \in blocks[b].body

\* What the contract verifies: the transaction is in the block the proof names.
InBlock(r) == r.blk <= blockNumber /\ r.tx \in chain[r.blk]

\* "which is required to start exit on MainNet": the exit proof of a token is its
\* last transaction at the block that was the latest when the call came, and
\* the one it spends, each with the block that holds it, however far the
\* minter has come since, and after failed writes and a restart.  An owner can
\* always get it: the call fails only for a token that no block has deposited.
ExitProofValid ==
  /\ answer.kind = "exit" /\ Stored(answer.token) =>
       /\ InBlock(answer.curr) /\ InBlock(answer.prev)
       /\ answer.curr.blk = Max(MovesUpTo(answer.token, answer.at))
       /\ answer.prev.blk = Max(MovesUpTo(answer.token, answer.curr.blk - 1))
  /\ answer.kind = "depositExit" /\ Stored(answer.token) =>
       InBlock(answer.curr) /\ MovesUpTo(answer.token, answer.at) = {answer.curr.blk}
  /\ answer.kind = "no exit" /\ Stored(answer.token) => MovesUpTo(answer.token, answer.at) = {}

\* "total balance owned by address".
BalancesFollowTokens ==
  (\A t \in Tokens : Stored(t)) =>
    \A b \in 1 .. blockNumber : \A a \in Users :
      LET owned == {t \in Tokens : getPlasmaToken(t, b) # None /\ getPlasmaToken(t, b).owner = a}
      IN GetPlasmaBalance(a, b) # None /\ GetPlasmaBalance(a, b).tokens = owned

\* GetPlasmaToken and GetPlasmaBlock of a block of the chain, or of the latest,
\* return what the chain says, never a header or block that an earlier run of the
\* node or a failed WriteBlock left in the chunk store; and GetPlasmaBalance lists
\* the tokens that GetPlasmaToken says the address owns at that block.
AnswersFollowChain ==
  /\ \A b \in 1 .. blockNumber : \A arg \in {c \in {b, LatestBlock} : AtBlock(c) = b} :
       /\ GetPlasmaBlock(arg) # None /\ GetPlasmaBlock(arg).header.txs = chain[b]
       /\ \A t \in Tokens :
            LET tok == GetPlasmaToken(t, arg).token
            IN IF MovesUpTo(t, b) = {} THEN tok = None
               ELSE tok # None /\ tok.prevBlk = Max(MovesUpTo(t, b))
  /\ BalancesFollowTokens

\* "get inclusion proof": the proof GetPlasmaTransactionProof returns for a
\* transaction of the chain verifies against the root of the block it names.
\* It may not for a transaction that is still pending.
InclusionProven ==
  answer.kind = "proof" /\ (\E b \in 1 .. answer.at : answer.tx \in chain[b] \cap blocks[b].body) =>
    answer.verifies /\ InBlock(answer)
=============================================================================
