---------------------------- MODULE PlasmaChain ----------------------------
(***************************************************************************)
(* The operator's node with the proof-of-authority minter: the transaction *)
(* pool, mintNewBlock of poa.go, the insertion and publication of blocks,  *)
(* receipts, and a restart.                                                *)
(*                                                                         *)
(* The minter holds its lock for the whole of mintNewBlock, but clients,   *)
(* event handlers and receipt queries run between any two of its steps.    *)
(***************************************************************************)
EXTENDS StateDB

CONSTANTS
  Transfers,    \* transactions clients may send
  Failures,     \* which calls may return an error: "store", "insert", "publish"
  Losses,       \* the sets of trie entries that a failed read or write may lose
  MaxLosses,    \* bound on reads and writes that lose entries
  MaxRestarts   \* bound on restarts of the node

AllTxs == Transfers \cup {DepositTx(t) : t \in Tokens}

\* Clients do not have the operator's key.  A pool of transactions is finite.
ASSUME ChainAssumption ==
  /\ Transfers \subseteq {tx \in Transaction : tx.signer \in Users}
  /\ \A pool \in SUBSET AllTxs : Cardinality(pool) \in Nat
  /\ Failures \subseteq {"store", "insert", "publish"}
  /\ Losses \subseteq SUBSET (Tokens \cup Addresses) /\ {} \in Losses
  /\ MaxLosses \in Nat /\ MaxRestarts \in Nat

VARIABLES
  onL1,        \* the main net's deposits: at index k - 1, the k-th token
  published,   \* its PublishedBlock events, in order
  unsent,      \* transfers that no client has sent so far
  txpool,      \* pending transactions, without duplicates
  blockNumber, \* number of currentBlock
  chain,       \* block number -> transactions in its transaction SMT
  pc,          \* where mintNewBlock is: "idle", "commit", "publish" or "crashed"
  txes,        \* its copy of the pool
  i, numtxns,  \* the loop of commitTransactions
  committed,   \* committedTxes
  txBlock,     \* the chunk store's block number of a transaction ("plasmabn")
  childChain,  \* the contract's block number -> transactions
  restarts, losses,
  lost,        \* history: tokens not found by the state of a block of this run
  stale        \* history: blocks of the contract that an earlier run submitted

clientVars == <<onL1, unsent>>
mainNetVars == <<childChain, published>>
loopVars   == <<txes, i, numtxns, committed>>
chainVars  == <<blockNumber, chain, txBlock, mainNetVars>>
runVars    == <<restarts, losses, lost, stale>>
vars == <<stateVars, clientVars, txpool, pc, loopVars, chainVars, runVars>>

NewLoop  == txes' = <<>> /\ i' = 1 /\ numtxns' = 0 /\ committed' = <<>>
NoBlocks == [b \in 1 .. MaxBlk |-> {}]

\* A new node, to which clients will send txs; r restarts and l losses are spent.
InitWith(txs, r, l) ==
  /\ StateInit
  /\ onL1 = <<>> /\ unsent = txs /\ txpool = {}
  /\ blockNumber = 0 /\ chain = NoBlocks
  /\ pc = "idle" /\ txes = <<>> /\ i = 1 /\ numtxns = 0 /\ committed = <<>>
  /\ txBlock = [tx \in AllTxs |-> 0]
  /\ childChain = NoBlocks /\ published = <<>>
  /\ restarts = r /\ losses = l /\ lost = {} /\ stale = {}

Init == InitWith(Transfers, 0, 0)

-----------------------------------------------------------------------------
(* Clients and events *)

AddTransactionToPool(tx) == txpool \cup {tx}

SendPlasmaTransaction(tx) ==
  /\ pc # "crashed"
  /\ unsent' = unsent \ {tx}
  /\ txpool' = IF ValidateTx(tx) THEN AddTransactionToPool(tx) ELSE txpool
  /\ UNCHANGED <<stateVars, onL1, pc, loopVars, chainVars, runVars>>

\* A user deposits on the main net.
Deposit(t) ==
  /\ t \notin Range(onL1)
  /\ onL1' = Append(onL1, t)
  /\ UNCHANGED <<stateVars, unsent, txpool, pc, loopVars, chainVars, runVars>>

\* EventHandler: a Deposit event, which may come late, again or never.  The
\* handlers of the other events do nothing.
ProcessDeposit(t) ==
  /\ pc # "crashed"
  /\ txpool' = AddTransactionToPool(DepositTx(t))
  /\ UNCHANGED <<stateVars, clientVars, pc, loopVars, chainVars, runVars>>

-----------------------------------------------------------------------------
(* mintNewBlock *)

\* GetTransactions sorts by token, then by PrevBlock; ties in any order.
Sorted(s) ==
  \A k \in 1 .. Len(s) - 1 :
    \/ s[k].token < s[k+1].token
    \/ s[k].token = s[k+1].token /\ s[k].prevBlk <= s[k+1].prevBlk

GetTransactions == {s \in Injection(1 .. Cardinality(txpool), txpool) : Sorted(s)}

\* A read or a write of the tries that loses the entries.
Loses(entries) ==
  /\ entries # {} => losses < MaxLosses
  /\ losses' = IF entries = {} THEN losses ELSE losses + 1

MintNewBlock ==
  /\ pc = "idle" /\ txpool # {}
  /\ blockNumber < MaxBlk
  /\ txes' \in GetTransactions
  /\ \E absent \in Losses : NewStateDB(absent) /\ Loses(absent)
  /\ pc' = "commit" /\ i' = 1 /\ numtxns' = Len(txes') /\ committed' = <<>>
  /\ UNCHANGED <<clientVars, txpool, chainVars, restarts, lost, stale>>

\* Mutant: StoreTransaction is given the number of the parent.
CommitTransactionParent ==
  /\ pc = "commit" /\ i <= numtxns
  /\ Apply(txes[i], blockNumber + 1)
  /\ txBlock' = [txBlock EXCEPT ![txes[i]] = blockNumber]
  /\ committed' = Append(committed, txes[i])
  /\ i' = i + 1
  /\ UNCHANGED <<clientVars, txpool, pc, txes, numtxns, blockNumber, chain,
                 mainNetVars, runVars>>

StoreTransaction(tx) == [txBlock EXCEPT ![tx] = blockNumber + 1]

\* One iteration of commitTransactions whose commitTransaction succeeds.
CommitTransaction ==
  /\ pc = "commit" /\ i <= numtxns
  /\ Apply(txes[i], blockNumber + 1)
  /\ txBlock' = StoreTransaction(txes[i])
  /\ committed' = Append(committed, txes[i])
  /\ i' = i + 1
  /\ UNCHANGED <<clientVars, txpool, pc, txes, numtxns, blockNumber, chain,
                 mainNetVars, runVars>>

RemoveTransaction(txs) == txpool \ txs

\* Mutant: the failed transaction stays in the pool.
MarkForRemovalKeep ==
  /\ numtxns' = numtxns - 1
  /\ UNCHANGED <<clientVars, txpool, pc, txes, i, committed, blockNumber, chain,
                 mainNetVars, runVars>>

\* "i--" and "numtxns--": the loop stays at index i of its copy.
MarkForRemoval ==
  /\ txpool' = RemoveTransaction({txes[i]})
  /\ numtxns' = numtxns - 1
  /\ UNCHANGED <<clientVars, pc, txes, i, committed, blockNumber, chain,
                 mainNetVars, runVars>>

DropTransaction ==
  /\ pc = "commit" /\ i <= numtxns
  /\ Reject(txes[i])
  /\ MarkForRemoval
  /\ UNCHANGED txBlock

\* StoreTransaction fails, before or after it has written the block number.
FailToStore ==
  /\ pc = "commit" /\ i <= numtxns
  /\ "store" \in Failures
  /\ StoreError(txes[i], blockNumber + 1)
  /\ MarkForRemoval
  /\ txBlock' \in {txBlock, StoreTransaction(txes[i])}

\* The nil account ends the process; what it had in memory is lost.
Panic ==
  /\ pc = "commit" /\ i <= numtxns
  /\ Panics(txes[i])
  /\ pc' = "crashed"
  /\ UNCHANGED <<stateVars, clientVars, txpool, loopVars, chainVars, runVars>>

NothingCommitted ==
  /\ pc = "commit" /\ i > numtxns /\ committed = <<>>
  /\ pc' = "idle" /\ NewLoop
  /\ DropState
  /\ UNCHANGED <<clientVars, txpool, chainVars, runVars>>

\* Mutant: the state of the block that was not written is kept.
FailToInsertDirty ==
  /\ pc = "commit" /\ i > numtxns /\ committed # <<>>
  /\ "insert" \in Failures
  /\ pc' = "idle" /\ NewLoop
  /\ Commit({}, {})
  /\ UNCHANGED <<clientVars, txpool, chainVars, runVars>>

\* Mutant: the block is submitted before it is written.
FailToInsertPublished ==
  /\ pc = "commit" /\ i > numtxns /\ committed # <<>>
  /\ "insert" \in Failures
  /\ pc' = "idle" /\ NewLoop
  /\ DropState
  /\ childChain' = [childChain EXCEPT ![blockNumber + 1] = BlockTxs({})]
  /\ UNCHANGED <<clientVars, txpool, blockNumber, chain, txBlock, published, runVars>>

\* Commit cannot store the bloom filter, or WriteBlock the block: mintNewBlock
\* returns the error and the head stays.  (The queue that the node's Flush
\* writes is always empty.)
FailToInsert ==
  /\ pc = "commit" /\ i > numtxns /\ committed # <<>>
  /\ "insert" \in Failures
  /\ pc' = "idle" /\ NewLoop
  /\ DropState
  /\ UNCHANGED <<clientVars, txpool, chainVars, runVars>>

\* Commit, MakeBlock, WriteBlock and the head of InsertChainForPOA, which moves
\* although updates of objects failed and although WriteHeader may have.
Insert(failed, gone) ==
  /\ pc = "commit" /\ i > numtxns /\ committed # <<>>
  /\ chain' = [chain EXCEPT ![blockNumber + 1] = BlockTxs(failed)]
  /\ blockNumber' = blockNumber + 1
  /\ Commit(failed, gone) /\ Loses(failed)
  /\ lost' = lost \cup (unread \cap Tokens)
  /\ pc' = "publish"
  /\ UNCHANGED <<clientVars, txpool, loopVars, txBlock, mainNetVars, restarts, stale>>

InsertBlock == \E failed, gone \in Losses : Insert(failed, gone)

\* The loop over committedTxes returns at the first one not in the pool.
RemoveCommitted ==
  LET missing == {k \in DOMAIN committed : committed[k] \notin txpool}
      found   == {k \in DOMAIN committed : \A m \in missing : k < m}
  IN txpool' = RemoveTransaction({committed[k] : k \in found})

\* submitBlock of the contract, which takes any number.
SubmitBlock(number) ==
  /\ childChain' = [childChain EXCEPT ![number] = chain[blockNumber]]
  /\ published' = Append(published, [blknum |-> number, currentDepositIndex |-> Len(onL1)])
  /\ stale' = stale \ {number}

\* publishBlock, whose error InsertChainForPOA ignores, and the removal of the
\* committed transactions from the pool.
PublishBlock ==
  /\ pc = "publish"
  /\ \/ SubmitBlock(blockNumber)
     \/ "publish" \in Failures /\ UNCHANGED <<mainNetVars, stale>>
  /\ RemoveCommitted
  /\ pc' = "idle" /\ NewLoop
  /\ UNCHANGED <<stateVars, clientVars, blockNumber, chain, txBlock, restarts, losses, lost>>

-----------------------------------------------------------------------------
(* Restart *)

\* The events GetPublishedBlock returns: the first one of every block number.
GetPublishedBlock ==
  {k \in DOMAIN published : \A j \in 1 .. k - 1 : published[j].blknum # published[k].blknum}

\* Mutant: the range leaves out its first index.
GetPastDepositAfter(start, end) ==
  {onL1[k] : k \in {j \in DOMAIN onL1 : start < j - 1 /\ j - 1 <= end}}

\* Deposits with an index from start to end.
GetPastDeposit(start, end) ==
  {onL1[k] : k \in {j \in DOMAIN onL1 : start <= j - 1 /\ j - 1 <= end}}

\* The deposit index of the last of them before the k-th event.
PrevDepositIndex(k) ==
  LET before == {j \in GetPublishedBlock : j < k}
  IN IF before = {} THEN 0 ELSE published[Max(before)].currentDepositIndex

\* The index of a block published before any deposit wraps around.
PastDeposits(k) ==
  GetPastDeposit(PrevDepositIndex(k), (published[k].currentDepositIndex - 1) % Word)

\* The deposits up to each published block, then up to now.
ReplayedDeposits ==
  (UNION {PastDeposits(k) : k \in GetPublishedBlock})
    \cup GetPastDeposit(PrevDepositIndex(Len(published) + 1), Len(onL1))

InitDeposit == {DepositTx(t) : t \in ReplayedDeposits}

\* New, loadLastState and initDeposit: the node starts at block 0 again with
\* the deposits of the main net in its pool.  The chunk store persists.
Restart ==
  /\ restarts < MaxRestarts
  /\ restarts' = restarts + 1
  /\ lost' = {} /\ stale' = {b \in 1 .. MaxBlk : childChain[b] # {}}
  /\ tokens' = [t \in Tokens |-> None]
  /\ accounts' = [a \in Addresses |-> NoAccount]
  /\ appended' = [t \in Tokens |-> None]
  /\ accountObjects' = [a \in Addresses |-> None]
  /\ unread' = {}
  /\ txpool' = InitDeposit
  /\ blockNumber' = 0 /\ chain' = NoBlocks
  /\ pc' = "idle" /\ NewLoop
  /\ UNCHANGED <<clientVars, txBlock, mainNetVars, losses>>

\* GetPlasmaTransactionReceipt compares numbers only.
Receipt(tx) == IF txBlock[tx] # 0 /\ txBlock[tx] <= blockNumber THEN 1 ELSE 0

MinterStep ==
  \/ MintNewBlock \/ CommitTransaction \/ DropTransaction \/ NothingCommitted
  \/ InsertBlock \/ PublishBlock \/ Panic

Next ==
  \/ \E tx \in unsent : SendPlasmaTransaction(tx)
  \/ \E t \in Tokens : Deposit(t)
  \/ \E t \in Range(onL1) : ProcessDeposit(t)
  \/ MinterStep
  \/ FailToStore
  \/ FailToInsert
  \/ Restart

Spec == Init /\ [][Next]_vars

\* The ticker of mintingLoop keeps calling mintNewBlock, which runs to its end;
\* a Deposit event is delivered only finitely often.
Redelivery == \E t \in Range(onL1) : ProcessDeposit(t)
FairSpec   == Spec /\ WF_vars(MinterStep) /\ <>[][~Redelivery]_vars

-----------------------------------------------------------------------------
(* Properties *)

\* The blocks that hold a transaction of a token.
Moves(t) == {b \in 1 .. blockNumber : \E tx \in chain[b] : tx.token = t}

\* Every variable of the node has its type, and the loop of commitTransactions
\* stays inside its copy of the pool.
TypeOK ==
  /\ tokens \in [Tokens -> Token \cup {None}]
  /\ \A a \in Addresses : accounts[a] \in Account \cup {None}
  /\ \A t \in Tokens : appended[t] # None =>
       appended[t].tx \in AllTxs /\ appended[t].obj \in Token
  /\ txpool \subseteq AllTxs
  /\ blockNumber \in Blk
  /\ \A b \in 1 .. MaxBlk : chain[b] \subseteq AllTxs /\ childChain[b] \subseteq AllTxs
  /\ pc \in {"idle", "commit", "publish", "crashed"}
  /\ Len(committed) = i - 1 /\ numtxns <= Len(txes) /\ i <= Len(txes) + 1

\* PrevBlock of a token is the last block that moved it and Owner its recipient
\* there, also after transactions that failed half way, objects that were not
\* updated or a block that was not written, for every token that the states of
\* the blocks have found.
TokensFollowChain ==
  \A t \in Tokens \ lost :
    IF Moves(t) = {} THEN tokens[t] = None
    ELSE /\ tokens[t] # None
         /\ tokens[t].prevBlk = Max(Moves(t)) /\ tokens[t].denom = Denom[t]
         /\ \E tx \in chain[Max(Moves(t))] : tx.token = t /\ tx.recipient = tokens[t].owner

\* The history of a token is a chain: a block holds at most one transaction of
\* it, the first is its deposit, and every other one spends the transaction in
\* the last block before it that moved the token, signed by that one's
\* recipient.  The exit game of the contract relies on this.  And the token
\* trie is the state that history leads to (TokensFollowChain).  A token that a
\* lost header or trie node hid from the minter has no such history: its deposit
\* can be mined again.  The other tokens keep theirs.
LinearHistory ==
  /\ \A b \in 1 .. blockNumber : \A tx \in chain[b] :
       LET earlier == {c \in Moves(tx.token) : c < b}
       IN /\ \A other \in chain[b] : other.token = tx.token => other = tx
          /\ tx.token \notin lost =>
               IF earlier = {} THEN tx = DepositTx(tx.token)
               ELSE /\ tx.prevBlk = Max(earlier)
                    /\ \E p \in chain[tx.prevBlk] :
                         p.token = tx.token /\ p.recipient = tx.signer
  /\ TokensFollowChain

\* "total balance owned by address": an account lists the tokens its address
\* owns and holds the sums of their denominations and balances, whichever
\* transactions of a block were reverted.  The amounts of each token add up to
\* its denomination: ApplyPlasmaTransaction refuses every later transfer of one
\* for which they do not.
AccountsAgree ==
  /\ TypeOK
  /\ \A a \in Addresses :
       LET owned == {t \in Tokens : tokens[t] # None /\ tokens[t].owner = a}
       IN /\ accounts[a] # None
          /\ accounts[a].tokens = owned
          /\ accounts[a].denom = SumFunctionOnSet([t \in owned |-> tokens[t].denom], owned)
          /\ accounts[a].balance = SumFunctionOnSet([t \in owned |-> tokens[t].balance], owned)
  /\ \A t \in Tokens : tokens[t] # None =>
       tokens[t].balance + tokens[t].allowance + tokens[t].spent = tokens[t].denom

\* "pending transaction will have receipt status of 0 until it's mined": the
\* status is 1 only for a transaction that is in the block the receipt names.
\* This and AccountsAgree are about a node whose chunk store does not fail and
\* clients whose spent amounts do not decrease.
ReceiptMined ==
  \A tx \in AllTxs : Receipt(tx) = 1 => tx \in chain[txBlock[tx]]

\* initDeposit asks for the deposits of every published block and then for the
\* later ones: together it gets all of them, whichever blocks were published
\* twice, late or not at all.  No block is published before the first deposit,
\* for which the index before currentDepositIndex would wrap around.
ReplayComplete ==
  /\ ReplayedDeposits = Range(onL1)
  /\ \A k \in DOMAIN published : published[k].currentDepositIndex > 0

\* What users prove their exits against: a block of the contract is the node's
\* block of that number, whichever writes and submissions fail, unless it was
\* submitted before the node restarted and the restarted node has not replaced
\* it so far.
PublishedAgrees ==
  \A b \in 1 .. MaxBlk :
    childChain[b] # {} /\ b \notin stale => b <= blockNumber /\ childChain[b] = chain[b]

\* Every transaction in the pool is mined or dropped, although a transaction
\* that fails makes the minter skip the rest of its copy of the pool: again and
\* again the pool is empty, until the bound on blocks.
PoolDrains == []<>(txpool = {} \/ blockNumber = MaxBlk)
=============================================================================
