------------------------ MODULE PlasmaPublishProofs ------------------------
(***************************************************************************)
(* What clients, the contract and a restarted node can rely on, from the   *)
(* invariant HistoryInv of PlasmaChainProofs: receipts (ReceiptInv), the   *)
(* blocks of the contract (AgreeInv) and the replay of the deposits        *)
(* (ReplayInv).                                                            *)
(***************************************************************************)
EXTENDS PlasmaChainProofs, WellFoundedInduction

\* Time for the larger steps.
USE SMTT(60), ZenonT(60)

-----------------------------------------------------------------------------
(* Receipts *)

\* Where the block number of a transaction points: at a block that holds it, or
\* at the block under construction, to which it is appended.
ReceiptOf(tx) ==
  /\ txBlock[tx] \in 0 .. blockNumber + 1
  /\ txBlock[tx] \in 1 .. blockNumber => tx \in chain[txBlock[tx]]
  /\ txBlock[tx] = blockNumber + 1 =>
       pc \in {"commit", "crashed"} /\ appended[tx.token] # None /\ appended[tx.token].tx = tx

ReceiptInv ==
  /\ restarts = 0 /\ committed \in Seq(Valid) /\ txBlock \in [AllTxs -> Nat]
  /\ pc = "commit" /\ committed = <<>> => \A t \in Tokens : appended[t] = None
  /\ \A tx \in AllTxs : ReceiptOf(tx)

\* The chunk store does not fail and the node does not restart.
NoFaults ==
  /\ "store" \notin Failures /\ "insert" \notin Failures
  /\ Losses = {{}} /\ MaxRestarts = 0

LEMMA TxToken ==
  ASSUME NEW tx \in AllTxs
  PROVE  tx.token \in Tokens
  BY ChainAssumption, DepositFields DEF AllTxs, Transaction

LEMMA CommitReceipt ==
  ASSUME HistoryInv, ReceiptInv, CommitTransaction
  PROVE  ReceiptInv'
<1> DEFINE new == txes[i]
<1>1. /\ pc = "commit" /\ i <= numtxns /\ Applies(new) /\ AppendTx(new, blockNumber + 1)
      /\ txBlock' = [txBlock EXCEPT ![new] = blockNumber + 1]
      /\ committed' = Append(committed, new)
      /\ UNCHANGED <<pc, blockNumber, chain, restarts>>
  BY DEF CommitTransaction, Apply, StoreTransaction, runVars
<1>2. new \in Valid /\ new \in AllTxs /\ new.token \in Tokens /\ blockNumber \in Nat
  BY <1>1, NextTx, TxToken, StateAssumption DEF HistoryInv, Types, Valid, Blk
<1>3. /\ appended[new.token] = None
      /\ appended' = [appended EXCEPT ![new.token] =
                        [tx |-> new, obj |-> TokenAfter(new, blockNumber + 1)]]
  BY <1>1 DEF Applies, AppendTx
<1>4. appended'[new.token] # None /\ appended'[new.token].tx = new
  <2>1. /\ appended'[new.token] = [tx |-> new, obj |-> TokenAfter(new, blockNumber + 1)]
        /\ new \in Transaction /\ TokenAfter(new, blockNumber + 1) \in Token
    BY <1>1, <1>2, <1>3, ValidFacts, TokenAfterFields, ZenonT(60) DEF HistoryInv, Types
  <2> HIDE DEF new
  <2> QED BY <2>1, StateAssumption
<1> HIDE DEF new
<1>5. committed' \in Seq(Valid) /\ committed' # <<>>
  BY <1>1, <1>2 DEF ReceiptInv
<1>6. ASSUME NEW tx \in AllTxs PROVE ReceiptOf(tx)'
  <2>1. CASE tx = new
    <3>1. txBlock'[tx] = blockNumber + 1
      BY <1>1, <1>2, <2>1 DEF ReceiptInv
    <3> QED BY <1>1, <1>2, <1>4, <2>1, <3>1 DEF ReceiptOf
  <2>2. CASE tx # new
    <3>1. txBlock'[tx] = txBlock[tx] /\ ReceiptOf(tx)
      BY <1>1, <1>2, <2>2 DEF ReceiptInv
    <3>2. txBlock[tx] = blockNumber + 1 => tx.token # new.token
      BY <1>3, <3>1 DEF ReceiptOf
    <3>3. txBlock[tx] = blockNumber + 1 => appended'[tx.token] = appended[tx.token]
      BY <1>2, <1>3, <3>2, TxToken DEF HistoryInv, Types
    <3> QED BY <1>1, <3>1, <3>3 DEF ReceiptOf
  <2> QED BY <2>1, <2>2
<1>7. txBlock' \in [AllTxs -> Nat]
  BY <1>1, <1>2 DEF ReceiptInv
<1> QED BY <1>1, <1>5, <1>6, <1>7 DEF ReceiptInv

LEMMA InsertReceipt ==
  ASSUME NoFaults, HistoryInv, ReceiptInv, InsertBlock
  PROVE  ReceiptInv'
<1>0. Insert({}, {})
  BY DEF InsertBlock, NoFaults
<1>1. /\ pc = "commit" /\ pc' = "publish" /\ UNCHANGED <<committed, txBlock, restarts>>
  BY <1>0 DEF Insert, loopVars
<1>2. ASSUME NEW tx \in AllTxs PROVE ReceiptOf(tx)'
  <2>1. ReceiptOf(tx) /\ txBlock[tx] \in Nat
    BY DEF ReceiptInv
  <2>2. CASE txBlock[tx] = blockNumber + 1
    <3>1. tx \in BlockTxs({})
      BY <2>1, <2>2, TxToken DEF ReceiptOf, BlockTxs, Updated
    <3>2. tx \in chain'[txBlock[tx]]
      BY <1>0, <2>2, <3>1, InsertedBlock
    <3> QED BY <1>0, <1>1, <2>1, <2>2, <3>2, InsertedBlock DEF ReceiptOf
  <2>3. CASE txBlock[tx] \in 1 .. blockNumber
    <3>1. tx \in chain'[txBlock[tx]]
      BY <1>0, <2>1, <2>3, InsertedBlock DEF ReceiptOf
    <3> QED BY <1>0, <1>1, <2>3, <3>1, InsertedBlock DEF ReceiptOf
  <2>4. CASE txBlock[tx] = 0
    BY <1>0, <1>1, <2>4, InsertedBlock DEF ReceiptOf
  <2> QED BY <1>0, <2>1, <2>2, <2>3, <2>4, InsertedBlock DEF ReceiptOf
<1> QED BY <1>1, <1>2 DEF ReceiptInv

\* A step that leaves the blocks, the objects and the block numbers alone.
LEMMA ReceiptFrame ==
  ASSUME ReceiptInv, UNCHANGED <<restarts, txBlock, blockNumber, chain, appended, pc, committed>>
  PROVE  ReceiptInv'
  BY DEF ReceiptInv, ReceiptOf

\* The block under construction is given up, or there was none.
LEMMA NoneAppended ==
  ASSUME HistoryInv, ReceiptInv, \A t \in Tokens : appended[t] = None,
         UNCHANGED <<restarts, txBlock, blockNumber, chain>>, committed' = <<>>,
         appended' = [t \in Tokens |-> None]
  PROVE  ReceiptInv'
<1>1. blockNumber \in Nat
  BY StateAssumption DEF HistoryInv, Types, Blk
<1>2. ASSUME NEW tx \in AllTxs PROVE ReceiptOf(tx)'
  <2>1. ReceiptOf(tx) /\ txBlock[tx] # blockNumber + 1
    BY TxToken DEF ReceiptInv, ReceiptOf
  <2> QED BY <1>1, <2>1 DEF ReceiptOf
<1> QED BY <1>2 DEF ReceiptInv

LEMMA InitReceipt == Init => ReceiptInv
<1> SUFFICES ASSUME Init PROVE ReceiptInv
  OBVIOUS
<1> USE DEF Init, InitWith
<1>1. ASSUME NEW tx \in AllTxs PROVE ReceiptOf(tx)
  BY <1>1 DEF ReceiptOf
<1> QED BY <1>1 DEF ReceiptInv

\* Requests and deposits, and a step of none, leave the minter and the blocks alone.
LEMMA SendFrame ==
  ASSUME NEW tx, SendPlasmaTransaction(tx)
  PROVE  UNCHANGED <<restarts, stale, txBlock, blockNumber, chain, childChain, published, tokens,
                     appended, pc, committed, txes, onL1>>
  BY ZenonT(60) DEF SendPlasmaTransaction, stateVars, loopVars, chainVars, mainNetVars,
                    runVars

LEMMA DepositFrame ==
  ASSUME NEW t, Deposit(t)
  PROVE  UNCHANGED <<restarts, stale, txBlock, blockNumber, chain, childChain, published, tokens,
                     appended, pc, committed, txes>>
  BY ZenonT(60) DEF Deposit, stateVars, loopVars, chainVars, mainNetVars,
                    runVars

LEMMA ProcessFrame ==
  ASSUME NEW t, ProcessDeposit(t)
  PROVE  UNCHANGED <<restarts, stale, txBlock, blockNumber, chain, childChain, published, tokens,
                     appended, pc, committed, txes, onL1>>
  BY ZenonT(60) DEF ProcessDeposit, stateVars, clientVars, loopVars, chainVars, mainNetVars,
                    runVars

LEMMA StutterFrame ==
  ASSUME UNCHANGED vars
  PROVE  UNCHANGED <<restarts, stale, txBlock, blockNumber, chain, childChain, published, tokens,
                     appended, pc, committed, txes, onL1, txpool>>
  BY ZenonT(60) DEF vars, stateVars, clientVars, loopVars, chainVars, mainNetVars,
                    runVars

\* Minting ends without a block.
LEMMA NoBlockFrame ==
  ASSUME NothingCommitted \/ FailToInsert
  PROVE  /\ pc' = "idle" /\ committed' = <<>> /\ txes' = <<>>
         /\ appended' = [t \in Tokens |-> None]
         /\ UNCHANGED <<restarts, stale, txBlock, blockNumber, chain, childChain, published, tokens,
                        txpool, onL1>>
  BY ZenonT(60)
  DEF NothingCommitted, FailToInsert, NewLoop, DropState, NewStateDB, clientVars, chainVars,
      mainNetVars, runVars

LEMMA MintReceipt ==
  ASSUME HistoryInv, ReceiptInv, MintNewBlock
  PROVE  ReceiptInv'
<1>1. /\ pc = "idle" /\ committed' = <<>> /\ appended' = [t \in Tokens |-> None]
      /\ UNCHANGED <<restarts, txBlock, blockNumber, chain>>
  BY ZenonT(60) DEF MintNewBlock, NewStateDB, chainVars
<1>2. \A t \in Tokens : appended[t] = None
  BY <1>1, ZenonT(60) DEF HistoryInv, Pending, PendingOf
<1> QED BY <1>1, <1>2, NoneAppended, ZenonT(60)

LEMMA DropReceipt ==
  ASSUME ReceiptInv, DropTransaction
  PROVE  ReceiptInv'
<1>1. UNCHANGED <<restarts, txBlock, blockNumber, chain, appended, pc, committed>>
  BY ZenonT(60) DEF DropTransaction, MarkForRemoval, Reject, stateVars, runVars
<1> QED BY <1>1, ReceiptFrame, ZenonT(60)

LEMMA PanicReceipt ==
  ASSUME ReceiptInv, Panic
  PROVE  ReceiptInv'
<1>1. /\ pc = "commit" /\ pc' = "crashed"
      /\ UNCHANGED <<restarts, txBlock, blockNumber, chain, appended, committed>>
  BY ZenonT(60) DEF Panic, stateVars, loopVars, chainVars, runVars
<1> QED BY <1>1 DEF ReceiptInv, ReceiptOf

LEMMA NoBlockReceipt ==
  ASSUME HistoryInv, ReceiptInv, NothingCommitted
  PROVE  ReceiptInv'
<1>1. \A t \in Tokens : appended[t] = None
  BY ZenonT(60) DEF NothingCommitted, ReceiptInv
<1> QED BY <1>1, NoBlockFrame, NoneAppended, ZenonT(60)

LEMMA PublishReceipt ==
  ASSUME HistoryInv, ReceiptInv, PublishBlock
  PROVE  ReceiptInv'
<1>1. /\ pc = "publish" /\ committed' = <<>>
      /\ UNCHANGED <<restarts, txBlock, blockNumber, chain, appended>>
  BY ZenonT(60) DEF PublishBlock, NewLoop, stateVars
<1>2. \A t \in Tokens : appended[t] = None
  BY <1>1, ZenonT(60) DEF HistoryInv, Pending, PendingOf
<1>3. appended' = [t \in Tokens |-> None]
  BY <1>1, <1>2 DEF HistoryInv, Types
<1> QED BY <1>1, <1>2, <1>3, NoneAppended, ZenonT(60)

LEMMA FaultReceipt ==
  ASSUME NoFaults, ReceiptInv
  PROVE  ~ FailToStore /\ ~ FailToInsert /\ ~ Restart
  BY DEF NoFaults, ReceiptInv, FailToStore, FailToInsert, Restart

LEMMA ClientReceipt ==
  ASSUME ReceiptInv,
         \/ \E tx \in unsent : SendPlasmaTransaction(tx)
         \/ \E t \in Tokens : Deposit(t)
         \/ \E t \in Range(onL1) : ProcessDeposit(t)
         \/ UNCHANGED vars
  PROVE  ReceiptInv'
<1>1. UNCHANGED <<restarts, txBlock, blockNumber, chain, appended, pc, committed>>
  BY SendFrame, DepositFrame, ProcessFrame, StutterFrame, ZenonT(60)
<1> QED BY <1>1, ReceiptFrame, ZenonT(60)

LEMMA StepReceipt ==
  ASSUME NoFaults
  PROVE  HistoryInv /\ ReceiptInv /\ [Next]_vars => ReceiptInv'
  BY ClientReceipt, MintReceipt, CommitReceipt, DropReceipt, FaultReceipt, PanicReceipt,
     NoBlockReceipt, InsertReceipt, PublishReceipt, ZenonT(60) DEF Next, MinterStep

LEMMA ReceiptHolds == HistoryInv /\ ReceiptInv => ReceiptMined
<1> SUFFICES ASSUME HistoryInv, ReceiptInv, NEW tx \in AllTxs, Receipt(tx) = 1
             PROVE  tx \in chain[txBlock[tx]]
  BY DEF ReceiptMined
<1>1. txBlock[tx] \in 1 .. blockNumber
  BY StateAssumption DEF Receipt, ReceiptInv, HistoryInv, Types, Blk
<1> QED BY <1>1 DEF ReceiptInv, ReceiptOf

\* While the chunk store does not fail and the node does not restart, a receipt
\* has status 1 only for a transaction that is in the block the receipt names,
\* although StoreTransaction writes the number before the block exists and
\* minting may end without one (GetPlasmaTransactionReceipt).
THEOREM ReceiptsMined ==
  ASSUME NoFaults
  PROVE  Spec => []ReceiptMined
<1>1. Init => HistoryInv /\ ReceiptInv
  BY InitHistory, InitReceipt
<1>2. HistoryInv /\ ReceiptInv /\ [Next]_vars => (HistoryInv /\ ReceiptInv)'
  BY StepHistory, StepReceipt
<1>3. HistoryInv /\ ReceiptInv => ReceiptMined
  BY ReceiptHolds, ZenonT(60)
<1> QED BY <1>1, <1>2, <1>3, PTL DEF Spec

-----------------------------------------------------------------------------
(* Published blocks *)

\* A block of the contract that this run submitted is the node's.
AgreeInv ==
  /\ childChain \in [1 .. MaxBlk -> SUBSET Transaction]
  /\ pc = "publish" => blockNumber > 0
  /\ PublishedAgrees

LEMMA InsertAgree ==
  ASSUME HistoryInv, AgreeInv, InsertBlock
  PROVE  AgreeInv'
<1>1. PICK failed, gone \in Losses : Insert(failed, gone)
  BY ZenonT(60) DEF InsertBlock
<1>2. /\ blockNumber \in Nat /\ blockNumber' = blockNumber + 1
      /\ \A b \in 1 .. blockNumber : chain'[b] = chain[b]
  BY <1>1, InsertedBlock, ZenonT(60)
<1>3. UNCHANGED <<childChain, stale>>
  BY <1>1, ZenonT(60) DEF Insert, mainNetVars
<1>4. ASSUME NEW b \in 1 .. MaxBlk, childChain[b] # {}, b \notin stale
      PROVE  b <= blockNumber' /\ childChain[b] = chain'[b]
  <2>1. b <= blockNumber /\ childChain[b] = chain[b] /\ b \in 1 .. blockNumber
    BY <1>2, <1>4, StateAssumption DEF AgreeInv, PublishedAgrees
  <2> QED BY <1>2, <2>1
<1> QED BY <1>2, <1>3, <1>4 DEF AgreeInv, PublishedAgrees

LEMMA SubmitAgree ==
  ASSUME HistoryInv, AgreeInv, PublishBlock
  PROVE  AgreeInv'
<1>1. blockNumber \in Nat /\ MaxBlk \in Nat
  BY StateAssumption DEF HistoryInv, Types, Blk
<1>2. pc = "publish" /\ pc' = "idle" /\ UNCHANGED <<blockNumber, chain>>
  BY ZenonT(60) DEF PublishBlock
<1>3. \/ /\ childChain' = [childChain EXCEPT ![blockNumber] = chain[blockNumber]]
         /\ stale' = stale \ {blockNumber}
      \/ UNCHANGED <<childChain, stale>>
  BY ZenonT(60) DEF PublishBlock, SubmitBlock, mainNetVars
<1>4. /\ childChain \in [1 .. MaxBlk -> SUBSET Transaction]
      /\ blockNumber \in 1 .. MaxBlk /\ chain[blockNumber] \in SUBSET Transaction
  BY <1>1, <1>2 DEF AgreeInv, HistoryInv, Types, Blk
<1>5. CASE UNCHANGED <<childChain, stale>>
  BY <1>2, <1>5 DEF AgreeInv, PublishedAgrees
<1>6. CASE /\ childChain' = [childChain EXCEPT ![blockNumber] = chain[blockNumber]]
           /\ stale' = stale \ {blockNumber}
  <2>1. childChain' \in [1 .. MaxBlk -> SUBSET Transaction]
    BY <1>4, <1>6
  <2>2. ASSUME NEW b \in 1 .. MaxBlk, childChain'[b] # {}, b \notin stale'
        PROVE  b <= blockNumber /\ childChain'[b] = chain[b]
    <3>1. CASE b = blockNumber
      BY <1>4, <1>6, <3>1
    <3>2. CASE b # blockNumber
      <4>1. childChain'[b] = childChain[b] /\ b \notin stale
        BY <1>4, <1>6, <2>2, <3>2
      <4> QED BY <2>2, <4>1 DEF AgreeInv, PublishedAgrees
    <3> QED BY <3>1, <3>2
  <2> QED BY <1>2, <2>1, <2>2 DEF AgreeInv, PublishedAgrees
<1> QED BY <1>3, <1>5, <1>6, ZenonT(60)

LEMMA RestartAgree ==
  ASSUME AgreeInv, Restart
  PROVE  AgreeInv'
<1>1. /\ pc' = "idle" /\ UNCHANGED childChain
      /\ stale' = {b \in 1 .. MaxBlk : childChain[b] # {}}
  BY ZenonT(60) DEF Restart, mainNetVars
<1> QED BY <1>1 DEF AgreeInv, PublishedAgrees

LEMMA AgreeFrame ==
  ASSUME AgreeInv, UNCHANGED <<childChain, blockNumber, chain, stale>>,
         pc' = pc \/ pc' \in {"idle", "commit", "crashed"}
  PROVE  AgreeInv'
  BY DEF AgreeInv, PublishedAgrees

LEMMA MinterAgree ==
  ASSUME AgreeInv, \/ MintNewBlock \/ CommitTransaction \/ DropTransaction
                   \/ FailToStore \/ Panic
  PROVE  AgreeInv'
<1>1. UNCHANGED <<childChain, blockNumber, chain, stale>>
  BY ZenonT(60)
  DEF MintNewBlock, CommitTransaction, DropTransaction, FailToStore, Panic, MarkForRemoval,
      chainVars, mainNetVars, runVars
<1>2. pc' = pc \/ pc' \in {"idle", "commit", "crashed"}
  BY ZenonT(60)
  DEF MintNewBlock, CommitTransaction, DropTransaction, FailToStore, Panic, MarkForRemoval
<1> QED BY <1>1, <1>2, AgreeFrame, ZenonT(60)

LEMMA OtherAgree ==
  ASSUME AgreeInv,
         \/ \E tx \in unsent : SendPlasmaTransaction(tx)
         \/ \E t \in Tokens : Deposit(t)
         \/ \E t \in Range(onL1) : ProcessDeposit(t)
         \/ NothingCommitted \/ FailToInsert
         \/ UNCHANGED vars
  PROVE  AgreeInv'
<1>1. /\ UNCHANGED <<childChain, blockNumber, chain, stale>>
      /\ pc' = pc \/ pc' = "idle"
  BY SendFrame, DepositFrame, ProcessFrame, StutterFrame, NoBlockFrame, ZenonT(60)
<1> QED BY <1>1, AgreeFrame, ZenonT(60)

LEMMA StepAgree == HistoryInv /\ AgreeInv /\ [Next]_vars => AgreeInv'
  BY InsertAgree, SubmitAgree, RestartAgree, MinterAgree, OtherAgree, ZenonT(60)
  DEF Next, MinterStep

\* Whichever writes, submissions and trie entries are lost and however often the
\* node restarts, a block of the contract is the node's block of that number,
\* except the ones submitted before the last restart that have not been replaced
\* (InsertChainForPOA, publishBlock, loadLastState).
THEOREM PublishedBlocksAgree == Spec => []PublishedAgrees
<1>1. Init => HistoryInv /\ AgreeInv
  <2>1. Init => AgreeInv
    BY DEF Init, InitWith, NoBlocks, AgreeInv, PublishedAgrees
  <2> QED BY <2>1, InitHistory
<1>2. HistoryInv /\ AgreeInv /\ [Next]_vars => (HistoryInv /\ AgreeInv)'
  BY StepHistory, StepAgree
<1>3. AgreeInv => PublishedAgrees
  BY ZenonT(60) DEF AgreeInv
<1> QED BY <1>1, <1>2, <1>3, PTL DEF Spec

-----------------------------------------------------------------------------
(* Replayed deposits *)

LEMMA LeastNumber ==
  ASSUME NEW S \in SUBSET Nat, S # {}
  PROVE  \E n \in S : \A m \in S : n <= m
<1>1. PICK n \in S : \A m \in S : ~ (<<m, n>> \in OpToRel(<, Nat))
  BY NatLessThanWellFounded, WFMin, ZenonT(60)
<1>2. \A m \in S : ~ (m < n)
  BY <1>1, ZenonT(60) DEF OpToRel
<1> QED BY <1>2

LEMMA MaxFacts ==
  ASSUME NEW n \in Nat, NEW S \in SUBSET (0 .. n), S # {}
  PROVE  Max(S) \in S /\ \A y \in S : y <= Max(S)
<1> DEFINE above == {k \in Nat : \A y \in S : y <= k}
<1>1. PICK m \in above : \A k \in above : m <= k
  <2>1. n \in above /\ above \in SUBSET Nat
    OBVIOUS
  <2> QED BY <2>1, LeastNumber, ZenonT(60)
<1>2. m \in S
  <2> SUFFICES ASSUME m \notin S PROVE FALSE
    OBVIOUS
  <2>1. PICK y \in S : TRUE
    BY ZenonT(60)
  <2>2. m \in Nat /\ m > 0 /\ \A z \in S : z <= m - 1
    BY <2>1
  <2>3. m - 1 \in above
    BY <2>2
  <2> QED BY <1>1, <2>2, <2>3
<1>3. Max(S) = m
  BY <1>2, MaxIs
<1> QED BY <1>2, <1>3

\* Every event of the contract has an index the main net has reached, and before
\* the first deposit there is nothing to publish.
NoDeposit ==
  /\ \A tx \in txpool : tx.prevBlk # 0
  /\ \A k \in DOMAIN txes : txes[k].prevBlk # 0
  /\ \A t \in Tokens : tokens[t] = None
  /\ committed = <<>> /\ pc # "publish" /\ published = <<>>

Event == [blknum : Nat, currentDepositIndex : Nat]

ReplayInv ==
  /\ published \in Seq(Event)
  /\ \A k \in DOMAIN published : published[k].currentDepositIndex \in 1 .. Len(onL1)
  /\ IsInjective(onL1)
  /\ onL1 = <<>> => NoDeposit

LEMMA SmallMod ==
  ASSUME NEW w \in Nat \ {0}, NEW x \in 0 .. w - 1
  PROVE  x % w = x
OBVIOUS

\* There are no more tokens than a deposit index can count.
FewTokens == \A s \in Seq(Tokens) : IsInjective(s) => Len(s) <= Word

\* The replay asks for every deposit, whatever the order of the indexes.
LEMMA Replays ==
  ASSUME HistoryInv, ReplayInv, FewTokens
  PROVE  ReplayComplete
<1> DEFINE F == GetPublishedBlock
           index(k) == published[k].currentDepositIndex
<1>1. /\ onL1 \in Seq(Tokens) /\ Len(onL1) \in Nat /\ Len(onL1) <= Word /\ Word \in Nat \ {0}
      /\ Len(published) \in Nat /\ DOMAIN published = 1 .. Len(published)
      /\ DOMAIN onL1 = 1 .. Len(onL1)
  BY StateAssumption DEF FewTokens, HistoryInv, Types, ReplayInv
<1>2. /\ F \subseteq 1 .. Len(published)
      /\ \A k \in F : k \in Nat /\ k <= Len(published) /\ index(k) \in 1 .. Len(onL1)
  BY <1>1 DEF GetPublishedBlock, ReplayInv
<1> HIDE DEF F
<1>3. ASSUME NEW k \in Nat, NEW j \in 1 .. Len(onL1), \A f \in F : f < k => index(f) < j
      PROVE  PrevDepositIndex(k) <= j - 1
  <2> DEFINE before == {f \in F : f < k}
  <2>1. CASE before = {}
    <3>1. PrevDepositIndex(k) = 0
      BY <2>1 DEF PrevDepositIndex, F
    <3> QED BY <1>1, <3>1
  <2>2. CASE before # {}
    <3>1. before \in SUBSET (0 .. Len(published))
      <4>1. ASSUME NEW f \in before PROVE f \in 0 .. Len(published)
        BY <1>1, <1>2
      <4> HIDE DEF before
      <4> QED BY <4>1
    <3> HIDE DEF before
    <3>2. Max(before) \in before
      BY <1>1, <2>2, <3>1, MaxFacts, ZenonT(60)
    <3>3. PrevDepositIndex(k) = index(Max(before))
      BY <2>2 DEF PrevDepositIndex, before, F
    <3>4. index(Max(before)) \in Int /\ index(Max(before)) < j
      <4>1. Max(before) \in F /\ Max(before) < k
        BY <3>2 DEF before
      <4>2. index(Max(before)) < j
        BY <1>3, <4>1
      <4>3. index(Max(before)) \in 1 .. Len(onL1)
        BY <1>2, <4>1, ZenonT(60)
      <4> QED BY <1>1, <4>2, <4>3
    <3> QED BY <3>3, <3>4
  <2> QED BY <2>1, <2>2
<1>4. ASSUME NEW j \in 1 .. Len(onL1) PROVE onL1[j] \in ReplayedDeposits
  <2> DEFINE later == {f \in F : j <= index(f)}
  <2>1. CASE later = {}
    <3>1. \A f \in F : index(f) < j
      BY <1>1, <1>2, <2>1
    <3>2. PrevDepositIndex(Len(published) + 1) <= j - 1
      BY <1>1, <1>3, <3>1
    <3>3. onL1[j] \in GetPastDeposit(PrevDepositIndex(Len(published) + 1), Len(onL1))
      BY <1>1, <3>2 DEF GetPastDeposit
    <3> QED BY <3>3 DEF ReplayedDeposits
  <2>2. CASE later # {}
    <3>1. PICK k \in later : \A f \in later : k <= f
      <4>1. later \in SUBSET Nat
        BY <1>1, <1>2, ZenonT(60)
      <4> HIDE DEF later
      <4> QED BY <2>2, <4>1, LeastNumber
    <3>2. k \in F /\ k \in Nat /\ index(k) \in 1 .. Len(onL1) /\ j <= index(k)
      BY <1>1, <1>2
    <3>3. \A f \in F : f < k => index(f) < j
      BY <1>1, <1>2, <3>1, <3>2
    <3>4. PrevDepositIndex(k) <= j - 1
      BY <1>3, <3>2, <3>3, ZenonT(60)
    <3>5. (index(k) - 1) % Word = index(k) - 1
      <4>1. index(k) - 1 \in 0 .. Word - 1
        BY <1>1, <3>2
      <4> QED BY <1>1, <4>1, SmallMod, ZenonT(60)
    <3>6. onL1[j] \in PastDeposits(k)
      <4>1. PrevDepositIndex(k) <= j - 1 /\ j - 1 <= (index(k) - 1) % Word
        BY <1>1, <3>2, <3>4, <3>5
      <4> QED BY <1>1, <4>1, ZenonT(60) DEF PastDeposits, GetPastDeposit
    <3> QED BY <3>2, <3>6 DEF ReplayedDeposits, F
  <2> QED BY <2>1, <2>2
<1>5. ReplayedDeposits \subseteq Range(onL1)
  <2>1. \A start, end : GetPastDeposit(start, end) \subseteq Range(onL1)
    BY DEF GetPastDeposit, Range
  <2>2. ASSUME NEW d \in ReplayedDeposits
        PROVE  \/ d \in GetPastDeposit(PrevDepositIndex(Len(published) + 1), Len(onL1))
               \/ \E k \in GetPublishedBlock : d \in PastDeposits(k)
    BY DEF ReplayedDeposits
  <2> QED BY <2>1, <2>2 DEF PastDeposits
<1>6. Range(onL1) \subseteq ReplayedDeposits
  BY <1>1, <1>4 DEF Range
<1>7. \A k \in DOMAIN published : published[k].currentDepositIndex > 0
  BY <1>1 DEF ReplayInv
<1> QED BY <1>5, <1>6, <1>7, ZenonT(60) DEF ReplayComplete

LEMMA ReplayFrame ==
  ASSUME ReplayInv, UNCHANGED <<onL1, published>>, onL1 = <<>> => NoDeposit'
  PROVE  ReplayInv'
BY ZenonT(60) DEF ReplayInv

\* Without a deposit, the pool holds only transfers, which nothing accepts.
LEMMA NothingApplies ==
  ASSUME HistoryInv, NoDeposit, i <= numtxns
  PROVE  ~ Applies(txes[i])
<1>1. i \in DOMAIN txes /\ txes[i] \in Valid /\ txes[i].prevBlk # 0
  BY NextTx DEF HistoryInv, NoDeposit
<1>2. txes[i].token \in Tokens
  BY <1>1, ValidFacts DEF Transaction
<1>3. tokens[txes[i].token] = None
  BY <1>2 DEF NoDeposit
<1> QED BY <1>1, <1>3 DEF Applies, Accepts, TokenFound, GetTokenObject

LEMMA DepositReplay ==
  ASSUME HistoryInv, ReplayInv, NEW t \in Tokens, Deposit(t)
  PROVE  ReplayInv'
<1>1. /\ onL1' = Append(onL1, t) /\ t \notin Range(onL1) /\ UNCHANGED published
      /\ onL1 \in Seq(Tokens)
  BY DEF Deposit, chainVars, mainNetVars, HistoryInv, Types
<1>2. /\ Len(onL1) \in Nat /\ DOMAIN onL1 = 1 .. Len(onL1) /\ Len(onL1') = Len(onL1) + 1
      /\ DOMAIN onL1' = 1 .. Len(onL1) + 1 /\ onL1'[Len(onL1) + 1] = t
      /\ \A k \in 1 .. Len(onL1) : onL1'[k] = onL1[k]
  BY <1>1
<1>3. IsInjective(onL1')
  <2>1. \A k \in 1 .. Len(onL1) : onL1'[k] # t
    BY <1>1, <1>2, ZenonT(60) DEF Range
  <2>2. \A j, k \in 1 .. Len(onL1) : onL1'[j] = onL1'[k] => j = k
    BY <1>2 DEF ReplayInv, IsInjective
  <2>3. ASSUME NEW j \in DOMAIN onL1', NEW k \in DOMAIN onL1', onL1'[j] = onL1'[k]
        PROVE  j = k
    <3>1. /\ j \in 1 .. Len(onL1) \/ j = Len(onL1) + 1
          /\ k \in 1 .. Len(onL1) \/ k = Len(onL1) + 1
      BY <1>2
    <3> QED BY <1>2, <2>1, <2>2, <2>3, <3>1, ZenonT(60)
  <2> QED BY <2>3 DEF IsInjective
<1>4. onL1' # <<>>
  BY <1>2
<1>5. \A x \in 1 .. Len(onL1) : x \in 1 .. Len(onL1')
  BY <1>2
<1> QED BY <1>1, <1>3, <1>4, <1>5, ZenonT(60) DEF ReplayInv

LEMMA PublishReplay ==
  ASSUME HistoryInv, ReplayInv, PublishBlock
  PROVE  ReplayInv'
<1>1. /\ pc = "publish" /\ UNCHANGED onL1 /\ onL1 \in Seq(Tokens) /\ blockNumber \in Nat
      /\ onL1 # <<>>
  BY StateAssumption DEF PublishBlock, clientVars, HistoryInv, Types, Blk, ReplayInv, NoDeposit
<1> DEFINE e == [blknum |-> blockNumber, currentDepositIndex |-> Len(onL1)]
<1>2. published' = Append(published, e) \/ published' = published
  BY DEF PublishBlock, SubmitBlock, mainNetVars
<1>3. CASE published' = published
  BY <1>1, <1>3, ReplayFrame, ZenonT(60)
<1>4. CASE published' = Append(published, e)
  <2>1. e \in Event /\ e.currentDepositIndex = Len(onL1) /\ Len(onL1) \in Nat \ {0}
    BY <1>1 DEF Event
  <2> HIDE DEF e
  <2>2. /\ published \in Seq(Event) /\ Len(published) \in Nat /\ DOMAIN published = 1 .. Len(published)
    BY DEF ReplayInv
  <2>3. /\ published' \in Seq(Event) /\ DOMAIN published' = 1 .. Len(published) + 1
        /\ published'[Len(published) + 1] = e
        /\ \A k \in 1 .. Len(published) : published'[k] = published[k]
    BY <1>4, <2>1, <2>2
  <2>4. ASSUME NEW k \in DOMAIN published'
        PROVE  published'[k].currentDepositIndex \in 1 .. Len(onL1)
    <3>1. CASE k \in 1 .. Len(published)
      BY <2>2, <2>3, <3>1 DEF ReplayInv
    <3>2. CASE k = Len(published) + 1
      BY <2>1, <2>3, <3>2
    <3> QED BY <2>2, <2>3, <3>1, <3>2
  <2> QED BY <1>1, <2>3, <2>4 DEF ReplayInv
<1> QED BY <1>2, <1>3, <1>4, ZenonT(60)

\* Nothing is added to the pool or committed.
LEMMA NoDepositFrame ==
  ASSUME ReplayInv, UNCHANGED <<onL1, published, tokens>>, txpool' \subseteq txpool,
         txes' = txes \/ txes' = <<>>, committed' = committed \/ committed' = <<>>,
         pc' = pc \/ pc' \in {"idle", "crashed"}
  PROVE  ReplayInv'
<1>1. NoDeposit => NoDeposit'
  BY DEF NoDeposit
<1> QED BY <1>1, ReplayFrame, ZenonT(60) DEF ReplayInv

LEMMA SendReplay ==
  ASSUME HistoryInv, ReplayInv, NEW tx \in unsent, SendPlasmaTransaction(tx)
  PROVE  ReplayInv'
<1>1. txpool' = txpool \/ (txpool' = txpool \cup {tx} /\ ValidateTx(tx))
  BY ZenonT(60) DEF SendPlasmaTransaction, AddTransactionToPool
<1>2. ValidateTx(tx) => tx.prevBlk # 0
  BY ChainAssumption, StateAssumption, ZenonT(60) DEF HistoryInv, Types, ValidateTx
<1>3. NoDeposit => NoDeposit'
  BY <1>1, <1>2, SendFrame, ZenonT(60) DEF NoDeposit
<1> QED BY <1>3, SendFrame, ReplayFrame, ZenonT(60) DEF ReplayInv

LEMMA ProcessReplay ==
  ASSUME ReplayInv, NEW t \in Range(onL1), ProcessDeposit(t)
  PROVE  ReplayInv'
<1>1. onL1 # <<>>
  BY DEF Range
<1> QED BY <1>1, ProcessFrame, ReplayFrame, ZenonT(60)

LEMMA MintReplay ==
  ASSUME ReplayInv, MintNewBlock
  PROVE  ReplayInv'
<1>1. /\ txes' \in GetTransactions /\ pc' = "commit" /\ committed' = <<>>
      /\ UNCHANGED <<onL1, published, tokens, txpool>>
  BY ZenonT(60) DEF MintNewBlock, NewStateDB, clientVars, chainVars, mainNetVars
<1>2. \A k \in DOMAIN txes' : txes'[k] \in txpool
  BY <1>1 DEF GetTransactions, Injection
<1>3. NoDeposit => NoDeposit'
  BY <1>1, <1>2 DEF NoDeposit
<1> QED BY <1>1, <1>3, ReplayFrame, ZenonT(60) DEF ReplayInv

LEMMA ApplyReplay ==
  ASSUME HistoryInv, ReplayInv, CommitTransaction \/ FailToStore
  PROVE  ReplayInv'
<1>1. i <= numtxns /\ Applies(txes[i]) /\ UNCHANGED <<onL1, published>>
  BY ZenonT(60)
  DEF CommitTransaction, FailToStore, Apply, StoreError, MarkForRemoval, clientVars, mainNetVars
<1>2. onL1 # <<>>
  BY <1>1, NothingApplies, ZenonT(60) DEF ReplayInv
<1> QED BY <1>1, <1>2, ReplayFrame, ZenonT(60)

LEMMA DropReplay ==
  ASSUME ReplayInv, DropTransaction
  PROVE  ReplayInv'
<1>1. /\ txpool' \subseteq txpool
      /\ UNCHANGED <<onL1, published, tokens, committed, pc, txes>>
  BY ZenonT(60) DEF DropTransaction, Reject, MarkForRemoval, RemoveTransaction, stateVars,
                    clientVars, mainNetVars
<1> QED BY <1>1, NoDepositFrame, ZenonT(60)

LEMMA NoBlockReplay ==
  ASSUME ReplayInv, NothingCommitted \/ FailToInsert
  PROVE  ReplayInv'
  BY NoBlockFrame, NoDepositFrame, ZenonT(60)

LEMMA PanicReplay ==
  ASSUME ReplayInv, Panic
  PROVE  ReplayInv'
<1>1. pc' = "crashed" /\ UNCHANGED <<onL1, published, tokens, committed, txpool, txes>>
  BY ZenonT(60) DEF Panic, stateVars, clientVars, loopVars, chainVars, mainNetVars,
                    runVars
<1> QED BY <1>1, NoDepositFrame, ZenonT(60)

LEMMA InsertReplay ==
  ASSUME ReplayInv, InsertBlock
  PROVE  ReplayInv'
<1>1. committed # <<>> /\ UNCHANGED <<onL1, published>>
  BY ZenonT(60) DEF InsertBlock, Insert, clientVars, mainNetVars
<1>2. onL1 # <<>>
  BY <1>1, ZenonT(60) DEF ReplayInv, NoDeposit
<1> QED BY <1>1, <1>2, ReplayFrame, ZenonT(60)

LEMMA RestartReplay ==
  ASSUME ReplayInv, Restart
  PROVE  ReplayInv'
<1>1. /\ pc' = "idle" /\ committed' = <<>> /\ txes' = <<>> /\ txpool' = InitDeposit
      /\ tokens' = [t \in Tokens |-> None] /\ UNCHANGED <<onL1, published>>
  BY DEF Restart, NewLoop, clientVars, mainNetVars
<1>2. onL1 = <<>> => ReplayedDeposits = {}
  <2>1. onL1 = <<>> => \A start, end : GetPastDeposit(start, end) = {}
    BY DEF GetPastDeposit
  <2>2. ASSUME NEW d \in ReplayedDeposits
        PROVE  \/ d \in GetPastDeposit(PrevDepositIndex(Len(published) + 1), Len(onL1))
               \/ \E k \in GetPublishedBlock : d \in PastDeposits(k)
    BY DEF ReplayedDeposits
  <2> QED BY <2>1, <2>2 DEF PastDeposits
<1>3. onL1 = <<>> => txpool' = {}
  BY <1>1, <1>2 DEF InitDeposit
<1>4. onL1 = <<>> => NoDeposit'
  BY <1>1, <1>3 DEF ReplayInv, NoDeposit
<1> QED BY <1>1, <1>4, ReplayFrame, ZenonT(60)

LEMMA StutterReplay ==
  ASSUME ReplayInv, UNCHANGED vars
  PROVE  ReplayInv'
  BY StutterFrame, NoDepositFrame, ZenonT(60)

LEMMA StepReplay == HistoryInv /\ ReplayInv /\ [Next]_vars => ReplayInv'
  BY SendReplay, DepositReplay, ProcessReplay, MintReplay, ApplyReplay, DropReplay,
     NoBlockReplay, PanicReplay, InsertReplay, PublishReplay, RestartReplay, StutterReplay,
     ZenonT(60) DEF Next, MinterStep

\* A restarted node gets back every deposit of the main net, whichever blocks were
\* published twice, late or not at all, as long as the deposit index does not
\* overflow; and no block is published before the first deposit (initDeposit,
\* GetPublishedBlock, GetPastDeposit).
THEOREM ReplaysComplete ==
  ASSUME FewTokens
  PROVE  Spec => []ReplayComplete
<1>1. Init => HistoryInv /\ ReplayInv
  <2>1. Init => ReplayInv
    <3> SUFFICES ASSUME Init PROVE ReplayInv
      OBVIOUS
    <3>1. /\ onL1 = <<>> /\ published = <<>> /\ txpool = {} /\ txes = <<>> /\ committed = <<>>
          /\ pc = "idle" /\ tokens = [t \in Tokens |-> None]
      BY DEF Init, InitWith, StateInit
    <3>2. NoDeposit
      BY <3>1 DEF NoDeposit
    <3> QED BY <3>1, <3>2 DEF ReplayInv, IsInjective
  <2> QED BY <2>1, InitHistory
<1>2. HistoryInv /\ ReplayInv /\ [Next]_vars => (HistoryInv /\ ReplayInv)'
  BY StepHistory, StepReplay
<1>3. HistoryInv /\ ReplayInv => ReplayComplete
  BY Replays
<1> QED BY <1>1, <1>2, <1>3, PTL DEF Spec
=============================================================================
