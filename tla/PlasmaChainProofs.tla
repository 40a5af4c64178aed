------------------------- MODULE PlasmaChainProofs -------------------------
(***************************************************************************)
(* Machine-checked proofs about PlasmaChain, for any tokens, users, clients' *)
(* transactions, failures, lost trie entries and restarts.                 *)
(*                                                                         *)
(* The inductive invariant HistoryInv has five parts: the types and the    *)
(* validity of pooled transactions; what every token object of the trie    *)
(* says (Objects); what it says of the last block that moved the token, if *)
(* the states of the blocks have found it (Heads); what a transaction      *)
(* appended to the block under construction spends (Pending); and the      *)
(* chain itself (History).                                                 *)
(***************************************************************************)
EXTENDS PlasmaChain, TLAPS

\* Time for the larger steps.
USE SMTT(60), ZenonT(60)

\* What the pool lets in.
Valid == {tx \in AllTxs : ValidateTx(tx)}

Types ==
  /\ tokens \in [Tokens -> Token \cup {None}]
  /\ appended \in [Tokens -> [tx : Transaction, obj : Token] \cup {None}]
  /\ onL1 \in Seq(Tokens) /\ unsent \subseteq Transfers
  /\ txpool \subseteq Valid
  /\ txes \in Seq(Valid) /\ i \in Nat \ {0} /\ numtxns \in Nat /\ numtxns <= Len(txes)
  /\ blockNumber \in Blk /\ chain \in [1 .. MaxBlk -> SUBSET Transaction]
  /\ pc \in {"idle", "commit", "publish", "crashed"}
  /\ pc = "commit" => blockNumber < MaxBlk

\* Block b is the last one that moved token t.
LastMove(t, b) == b \in Moves(t) /\ \A c \in Moves(t) : c <= b

\* A transaction of token t in block b went to the owner.
WentTo(t, b, owner) == \E tx \in chain[b] : tx.token = t /\ tx.recipient = owner

Objects ==
  \A t \in Tokens : tokens[t] # None =>
    tokens[t].denom = Denom[t] /\ tokens[t].prevBlk \in 1 .. blockNumber

HeadOf(t) ==
  IF tokens[t] = None THEN Moves(t) = {}
  ELSE /\ LastMove(t, tokens[t].prevBlk)
       /\ WentTo(t, tokens[t].prevBlk, tokens[t].owner)

Heads == \A t \in Tokens \ lost : HeadOf(t)

\* The transaction a token object was made of spends the token as the trie has it.
SpendsHead(t, tx) ==
  IF tokens[t] = None THEN tx = DepositTx(t)
  ELSE tx.prevBlk = tokens[t].prevBlk /\ tx.signer = tokens[t].owner

PendingOf(t) ==
  appended[t] # None =>
    /\ pc \in {"commit", "crashed"}
    /\ appended[t].tx.token = t
    /\ appended[t].obj.prevBlk = blockNumber + 1
    /\ appended[t].obj.owner = appended[t].tx.recipient
    /\ appended[t].obj.denom = Denom[t]
    /\ t \notin unread => SpendsHead(t, appended[t].tx)

Pending == \A t \in Tokens : PendingOf(t)

\* A transaction of block b spends the move of its token before b.
SpendsBefore(b, tx) ==
  /\ tx.prevBlk \in Moves(tx.token) /\ tx.prevBlk < b
  /\ \A c \in Moves(tx.token) : c < b => c <= tx.prevBlk
  /\ WentTo(tx.token, tx.prevBlk, tx.signer)

HistoryOf(b, tx) ==
  /\ \A other \in chain[b] : other.token = tx.token => other = tx
  /\ tx.token \notin lost =>
       \/ tx = DepositTx(tx.token) /\ \A c \in Moves(tx.token) : c >= b
       \/ SpendsBefore(b, tx)

History == \A b \in 1 .. blockNumber : \A tx \in chain[b] : HistoryOf(b, tx)

HistoryInv == Types /\ Objects /\ Heads /\ Pending /\ History

-----------------------------------------------------------------------------
(* Transactions *)

LEMMA MaxIs ==
  ASSUME NEW S \in SUBSET Int, NEW m \in S, \A y \in S : y <= m
  PROVE  Max(S) = m
<1>1. \E x \in S : \A y \in S : x >= y
  OBVIOUS
<1>2. Max(S) \in S /\ \A y \in S : Max(S) >= y
  BY <1>1, ZenonT(60) DEF Max
<1>3. Max(S) \in Int /\ m \in Int /\ Max(S) >= m /\ Max(S) <= m
  BY <1>2, ZenonT(60)
<1> QED BY <1>3

LEMMA DepositFields ==
  ASSUME NEW t \in Tokens
  PROVE  /\ DepositTx(t) \in Transaction
         /\ DepositTx(t).token = t /\ DepositTx(t).prevBlk = 0
         /\ DepositTx(t).recipient = Depositor[t] /\ DepositTx(t).denom = Denom[t]
         /\ DepositTx(t).signer = Operator /\ DepositTx(t).prevOwner = Operator
<1>1. DepositTx(t) = [token |-> t, denom |-> Denom[t], prevBlk |-> 0, prevOwner |-> Operator,
                      recipient |-> Depositor[t], allowance |-> 0, spent |-> 0,
                      signer |-> Operator]
  <2>1. NewTransaction(NewToken(Denom[t], Depositor[t]), TokenInit(t), Depositor[t]) =
          [token |-> t, denom |-> Denom[t], prevBlk |-> 0, prevOwner |-> Depositor[t],
           recipient |-> Depositor[t], allowance |-> 0, spent |-> 0, signer |-> None]
    BY DEF TokenInit, NewToken, NewTransaction
  <2>2. /\ TokenInit(t).denom = Denom[t] /\ TokenInit(t).depositor = Depositor[t]
    BY DEF TokenInit
  <2> DEFINE r == NewTransaction(NewToken(Denom[t], Depositor[t]), TokenInit(t), Depositor[t])
  <2>3. DepositTx(t) = SignTx([r EXCEPT !.prevOwner = Operator], Operator)
    BY <2>2, ZenonT(60) DEF DepositTx
  <2> HIDE DEF r
  <2>4. [r EXCEPT !.prevOwner = Operator] =
          [token |-> t, denom |-> Denom[t], prevBlk |-> 0, prevOwner |-> Operator,
           recipient |-> Depositor[t], allowance |-> 0, spent |-> 0, signer |-> None]
    BY <2>1 DEF r
  <2> QED BY <2>3, <2>4, ZenonT(60) DEF SignTx
<1>2. Denom[t] \in Uint64 /\ Depositor[t] \in Users /\ 0 \in Uint64 /\ 0 \in Blk
  BY StateAssumption DEF Uint64, Blk
<1> QED BY <1>1, <1>2 DEF Transaction, Addresses

LEMMA DepositValid ==
  ASSUME NEW t \in Tokens
  PROVE  DepositTx(t) \in Valid
<1>1. TokenInit(t) = [token |-> t, denom |-> Denom[t], depositor |-> Depositor[t]]
  BY DEF TokenInit
<1>2. ValidateTx(DepositTx(t))
  BY <1>1, DepositFields DEF ValidateTx, ValidateSig
<1> QED BY <1>2 DEF Valid, AllTxs

LEMMA ValidFacts ==
  ASSUME NEW tx \in Valid
  PROVE  /\ tx \in Transaction /\ tx.signer = tx.prevOwner
         /\ tx.prevBlk = 0 => tx = DepositTx(tx.token)
<1>1. tx \in AllTxs /\ tx.signer = tx.prevOwner /\ (tx.prevBlk = 0 => tx.signer = Operator)
  BY DEF Valid, ValidateTx, ValidateSig
<1>2. CASE tx \in Transfers
  <2>1. tx \in Transaction /\ tx.signer \in Users
    BY <1>2, ChainAssumption
  <2> QED BY <1>1, <2>1, StateAssumption
<1>3. CASE tx \in {DepositTx(t) : t \in Tokens}
  BY <1>1, <1>3, DepositFields
<1> QED BY <1>1, <1>2, <1>3 DEF AllTxs

\* The minter's copy of the pool.
LEMMA CopyOfPool ==
  ASSUME txpool \subseteq Valid, NEW s \in GetTransactions
  PROVE  s \in Seq(Valid) /\ Len(s) \in Nat
<1>1. Cardinality(txpool) \in Nat
  BY ChainAssumption DEF Valid
<1>2. s \in [1 .. Cardinality(txpool) -> txpool]
  BY DEF GetTransactions, Injection
<1> QED BY <1>1, <1>2

-----------------------------------------------------------------------------
(* A transaction that is appended to a block *)

LEMMA AppliedSpends ==
  ASSUME Types, Objects, NEW tx \in Valid, Applies(tx)
  PROVE  /\ tx.token \in Tokens
         /\ tx.prevBlk # 0 => tokens[tx.token] # None
         /\ tx.token \notin unread => SpendsHead(tx.token, tx)
<1> DEFINE t == tx.token
<1>1. t \in Tokens /\ tx.prevBlk \in Nat
  BY ValidFacts, StateAssumption DEF Transaction, Blk
<1>2. Accepts(tx)
  BY DEF Applies
<1>3. CASE tx.prevBlk = 0
  <2>1. t \notin unread => tokens[t] = None
    BY <1>2, <1>3 DEF Accepts, TokenFound, GetTokenObject
  <2> QED BY <1>1, <1>3, <2>1, ValidFacts DEF SpendsHead
<1>4. CASE tx.prevBlk # 0
  <2>1. /\ tokens[t] # None /\ tokens[t].owner = tx.prevOwner
        /\ tokens[t].prevBlk # tx.prevBlk => tokens[t].prevBlk = 0
    BY <1>2, <1>4 DEF Accepts, TokenFound, GetTokenObject
  <2>2. tokens[t].prevBlk \in 1 .. blockNumber
    BY <1>1, <2>1 DEF Objects
  <2>3. tokens[t].prevBlk = tx.prevBlk
    BY <2>1, <2>2
  <2> QED BY <1>1, <2>1, <2>3, ValidFacts DEF SpendsHead
<1> QED BY <1>3, <1>4

LEMMA TokenAfterFields ==
  ASSUME Types, Objects, NEW tx \in Valid, Applies(tx), blockNumber < MaxBlk
  PROVE  LET new == TokenAfter(tx, blockNumber + 1)
         IN  /\ new \in Token
             /\ new.prevBlk = blockNumber + 1 /\ new.owner = tx.recipient
             /\ new.denom = Denom[tx.token]
<1> DEFINE t == tx.token
           blk == blockNumber + 1
<1>1. /\ tx \in Transaction /\ t \in Tokens /\ tx.recipient \in Users /\ tx.denom \in Uint64
      /\ tx.spent \in Uint64 /\ tx.allowance \in Uint64
  BY ValidFacts DEF Transaction
<1>2. blk \in Blk /\ 0 \in Uint64 /\ TxBalance(tx) \in Uint64
  <2>1. tx.denom - tx.allowance - tx.spent \in Int /\ Word \in Nat \ {0}
    BY <1>1, StateAssumption DEF Uint64
  <2>2. TxBalance(tx) \in 0 .. Word - 1
    BY <2>1 DEF TxBalance
  <2> QED BY <2>1, <2>2, StateAssumption DEF Types, Blk, Uint64
<1>4. CASE tx.prevBlk = 0
  <2>1. tx.denom = Denom[t]
    BY <1>1, <1>4, ValidFacts, DepositFields
  <2>2. TokenAfter(tx, blk) = [denom |-> tx.denom, prevBlk |-> blk, owner |-> tx.recipient,
                               balance |-> tx.denom, allowance |-> 0, spent |-> 0]
    BY <1>4 DEF TokenAfter, CreateDeposit, NewToken
  <2> QED BY <1>1, <1>2, <2>1, <2>2 DEF Token
<1>5. CASE tx.prevBlk # 0
  <2>1. tokens[t] # None
    BY <1>5, AppliedSpends
  <2>2. tokens[t] \in Token /\ tokens[t].denom = Denom[t]
    BY <1>1, <2>1 DEF Types, Objects
  <2> DEFINE old == tokens[t]
             spent == IF Withdraws(tx) THEN tx.spent ELSE old.spent
             allowance == IF Withdraws(tx) \/ NewBalance(tx) THEN tx.allowance ELSE old.allowance
  <2>3. TokenAfter(tx, blk) = [old EXCEPT !.owner = tx.recipient, !.prevBlk = blk,
                                 !.spent = spent, !.allowance = allowance,
                                 !.balance = TxBalance(tx)]
    BY <1>5 DEF TokenAfter
  <2>4. spent \in Uint64 /\ allowance \in Uint64
    BY <1>1, <2>2 DEF Token
  <2> HIDE DEF old, spent, allowance
  <2> QED BY <1>1, <1>2, <2>2, <2>3, <2>4, ZenonT(60) DEF Token, old
<1> QED BY <1>4, <1>5

LEMMA AppendKeeps ==
  ASSUME HistoryInv, NEW tx \in Valid, Applies(tx), AppendTx(tx, blockNumber + 1),
         pc = "commit", pc' = pc, UNCHANGED <<tokens, unread, blockNumber>>
  PROVE  /\ appended' \in [Tokens -> [tx : Transaction, obj : Token] \cup {None}]
         /\ Pending'
<1> DEFINE t == tx.token
           new == TokenAfter(tx, blockNumber + 1)
<1>1. t \in Tokens /\ (t \notin unread => SpendsHead(t, tx)) /\ tx \in Transaction
  BY AppliedSpends, ValidFacts DEF HistoryInv
<1>2. /\ new \in Token /\ new.prevBlk = blockNumber + 1 /\ new.owner = tx.recipient
      /\ new.denom = Denom[t]
  BY TokenAfterFields DEF HistoryInv, Types
<1>3. appended' = [appended EXCEPT ![t] = [tx |-> tx, obj |-> new]]
  BY DEF AppendTx
<1> HIDE DEF new
<1>4. appended' \in [Tokens -> [tx : Transaction, obj : Token] \cup {None}]
  BY <1>1, <1>2, <1>3 DEF HistoryInv, Types
<1>5. ASSUME NEW u \in Tokens
      PROVE  PendingOf(u)'
  <2>1. CASE u = t
    <3>1. appended'[u] = [tx |-> tx, obj |-> new]
      BY <1>1, <1>3, <2>1 DEF HistoryInv, Types
    <3> QED BY <1>1, <1>2, <2>1, <3>1 DEF PendingOf, SpendsHead
  <2>2. CASE u # t
    <3>1. appended'[u] = appended[u] /\ PendingOf(u)
      BY <1>1, <1>3, <2>2 DEF HistoryInv, Types, Pending
    <3> QED BY <3>1 DEF PendingOf, SpendsHead
  <2> QED BY <2>1, <2>2
<1> QED BY <1>4, <1>5 DEF Pending

-----------------------------------------------------------------------------
(* A block that is inserted *)

LEMMA BlockHolds ==
  ASSUME HistoryInv, NEW failed, NEW t \in Tokens
  PROVE  \A tx \in BlockTxs(failed) :
           tx.token = t <=> (t \in Updated(failed) /\ tx = appended[t].tx)
<1> SUFFICES ASSUME NEW tx \in BlockTxs(failed)
             PROVE  tx.token = t <=> (t \in Updated(failed) /\ tx = appended[t].tx)
  OBVIOUS
<1>1. PICK u \in Updated(failed) : tx = appended[u].tx
  BY DEF BlockTxs
<1>2. u \in Tokens /\ tx.token = u
  BY <1>1 DEF HistoryInv, Pending, PendingOf, Updated
<1>3. t \in Updated(failed) => appended[t].tx.token = t
  BY DEF HistoryInv, Pending, PendingOf, Updated
<1> QED BY <1>1, <1>2, <1>3

LEMMA InsertedBlock ==
  ASSUME HistoryInv, NEW failed, NEW gone, Insert(failed, gone)
  PROVE  /\ blockNumber \in Nat /\ MaxBlk \in Nat /\ blockNumber + 1 \in 1 .. MaxBlk
         /\ blockNumber' = blockNumber + 1
         /\ chain'[blockNumber + 1] = BlockTxs(failed)
         /\ \A b \in 1 .. blockNumber : chain'[b] = chain[b]
         /\ BlockTxs(failed) \subseteq Transaction
         /\ chain' \in [1 .. MaxBlk -> SUBSET Transaction]
<1>1. blockNumber \in Nat /\ MaxBlk \in Nat /\ blockNumber < MaxBlk
  BY StateAssumption DEF HistoryInv, Types, Insert, Blk
<1>2. BlockTxs(failed) \subseteq Transaction
  BY DEF HistoryInv, Types, BlockTxs, Updated
<1>3. chain' = [chain EXCEPT ![blockNumber + 1] = BlockTxs(failed)] /\ blockNumber' = blockNumber + 1
  BY DEF Insert
<1> QED BY <1>1, <1>2, <1>3 DEF HistoryInv, Types

LEMMA InsertedMoves ==
  ASSUME HistoryInv, NEW failed, NEW gone, Insert(failed, gone), NEW t \in Tokens
  PROVE  /\ Moves(t) \subseteq 1 .. blockNumber
         /\ Moves(t)' = IF t \in Updated(failed) THEN Moves(t) \cup {blockNumber + 1} ELSE Moves(t)
<1>1. Moves(t) \subseteq 1 .. blockNumber
  BY DEF Moves
<1>2. Moves(t)' = {b \in 1 .. blockNumber + 1 : \E tx \in chain'[b] : tx.token = t}
  BY InsertedBlock DEF Moves
<1>3. \A b \in 1 .. blockNumber : b \in Moves(t)' <=> b \in Moves(t)
  BY <1>2, InsertedBlock DEF Moves
<1>4. blockNumber + 1 \in Moves(t)' <=> \E tx \in BlockTxs(failed) : tx.token = t
  BY <1>2, InsertedBlock
<1>5. (\E tx \in BlockTxs(failed) : tx.token = t) <=> t \in Updated(failed)
  BY BlockHolds DEF BlockTxs
<1> QED BY <1>1, <1>2, <1>3, <1>4, <1>5, InsertedBlock

\* What the trie holds of a token that was updated, and of one that was not.
LEMMA InsertedToken ==
  ASSUME HistoryInv, NEW failed, NEW gone, Insert(failed, gone), NEW t \in Tokens
  PROVE  /\ lost' = lost \cup (unread \cap Tokens)
         /\ t \in Updated(failed) =>
              /\ tokens'[t] = appended[t].obj /\ tokens'[t] \in Token /\ tokens'[t] # None
              /\ tokens'[t].prevBlk = blockNumber + 1 /\ tokens'[t].denom = Denom[t]
              /\ tokens'[t].owner = appended[t].tx.recipient /\ appended[t].tx.token = t
         /\ t \notin Updated(failed) =>
              /\ tokens'[t] \in {tokens[t], None}
              /\ t \notin unread => tokens'[t] = tokens[t]
<1>1. /\ lost' = lost \cup (unread \cap Tokens)
      /\ tokens' = [u \in Tokens |-> UpdateTokenObject(u, failed, gone)]
  BY ZenonT(60) DEF Insert, Commit
<1>2. tokens'[t] = IF t \in Updated(failed) THEN appended[t].obj ELSE KeptToken(t, gone)
  BY <1>1 DEF UpdateTokenObject
<1>3. ASSUME t \in Updated(failed)
      PROVE  /\ appended[t].obj \in Token /\ appended[t].obj # None
             /\ appended[t].obj.prevBlk = blockNumber + 1 /\ appended[t].obj.denom = Denom[t]
             /\ appended[t].obj.owner = appended[t].tx.recipient /\ appended[t].tx.token = t
  BY <1>3, StateAssumption DEF Updated, HistoryInv, Types, Pending, PendingOf
<1> QED BY <1>1, <1>2, <1>3 DEF KeptToken

LEMMA InsertObjects ==
  ASSUME HistoryInv, NEW failed, NEW gone, Insert(failed, gone)
  PROVE  Objects' /\ tokens' \in [Tokens -> Token \cup {None}]
<1>1. blockNumber \in Nat /\ blockNumber' = blockNumber + 1
  BY InsertedBlock
<1>2. ASSUME NEW t \in Tokens
      PROVE  /\ tokens'[t] \in Token \cup {None}
             /\ tokens'[t] # None =>
                  tokens'[t].denom = Denom[t] /\ tokens'[t].prevBlk \in 1 .. blockNumber'
  <2>1. CASE t \in Updated(failed)
    BY <1>1, <2>1, InsertedToken
  <2>2. CASE t \notin Updated(failed)
    <3>1. tokens'[t] \in {tokens[t], None}
      BY <2>2, InsertedToken
    <3>2. tokens[t] \in Token \cup {None}
      BY DEF HistoryInv, Types
    <3>3. tokens[t] # None => tokens[t].denom = Denom[t] /\ tokens[t].prevBlk \in 1 .. blockNumber
      BY DEF HistoryInv, Objects
    <3> QED BY <1>1, <3>1, <3>2, <3>3
  <2> QED BY <2>1, <2>2
<1>3. tokens' = [t \in Tokens |-> tokens'[t]]
  BY DEF Insert, Commit
<1> QED BY <1>2, <1>3 DEF Objects

LEMMA InsertHeads ==
  ASSUME HistoryInv, NEW failed, NEW gone, Insert(failed, gone)
  PROVE  Heads'
<1> SUFFICES ASSUME NEW t \in Tokens, t \notin lost'
             PROVE  HeadOf(t)'
  BY DEF Heads
<1>0. t \notin lost /\ t \notin unread /\ HeadOf(t)
  BY InsertedToken DEF HistoryInv, Heads
<1>1. CASE t \notin Updated(failed)
  <2>1. tokens'[t] = tokens[t] /\ Moves(t)' = Moves(t)
    BY <1>0, <1>1, InsertedMoves, InsertedToken
  <2>2. CASE tokens[t] = None
    BY <1>0, <2>1, <2>2 DEF HeadOf
  <2>3. CASE tokens[t] # None
    <3>1. /\ LastMove(t, tokens[t].prevBlk)
          /\ WentTo(t, tokens[t].prevBlk, tokens[t].owner)
      BY <1>0, <2>3 DEF HeadOf
    <3>2. tokens[t].prevBlk \in 1 .. blockNumber
      BY <3>1 DEF LastMove, Moves
    <3>3. chain'[tokens[t].prevBlk] = chain[tokens[t].prevBlk]
      BY <3>2, InsertedBlock
    <3> QED BY <2>1, <2>3, <3>1, <3>3 DEF HeadOf, LastMove, WentTo
  <2> QED BY <2>2, <2>3
<1>2. CASE t \in Updated(failed)
  <2> DEFINE b == blockNumber + 1
  <2>1. /\ tokens'[t] # None /\ tokens'[t].prevBlk = b
        /\ tokens'[t].owner = appended[t].tx.recipient /\ appended[t].tx.token = t
    BY <1>2, InsertedToken
  <2>3. Moves(t)' = Moves(t) \cup {b} /\ Moves(t) \subseteq 1 .. blockNumber
    BY <1>2, InsertedMoves
  <2>4. LastMove(t, tokens[t].prevBlk)'
    BY <2>1, <2>3, InsertedBlock DEF LastMove
  <2>5. appended[t].tx \in chain'[b]
    BY <1>2, InsertedBlock DEF BlockTxs
  <2>6. WentTo(t, tokens[t].prevBlk, tokens[t].owner)'
    BY <2>1, <2>5 DEF WentTo
  <2> QED BY <2>1, <2>4, <2>6 DEF HeadOf
<1> QED BY <1>1, <1>2

LEMMA InsertHistory ==
  ASSUME HistoryInv, NEW failed, NEW gone, Insert(failed, gone)
  PROVE  History'
<1> SUFFICES ASSUME NEW b \in 1 .. blockNumber', NEW tx \in chain'[b]
             PROVE  HistoryOf(b, tx)'
  BY DEF History
<1> DEFINE t == tx.token
<1>1. CASE b \in 1 .. blockNumber
  <2>1. tx \in chain[b] /\ HistoryOf(b, tx) /\ chain'[b] = chain[b]
    BY <1>1, InsertedBlock DEF HistoryInv, History
  <2>2. t \in Tokens
    <3>1. blockNumber \in 0 .. MaxBlk /\ MaxBlk \in Nat
      BY StateAssumption DEF HistoryInv, Types, Blk
    <3>2. b \in 1 .. MaxBlk
      BY <1>1, <3>1
    <3>3. chain[b] \subseteq Transaction
      BY <3>2, ZenonT(60) DEF HistoryInv, Types
    <3> QED BY <2>1, <3>3 DEF Transaction
  <2>3. /\ Moves(t) \subseteq 1 .. blockNumber
        /\ Moves(t) \subseteq Moves(t)' /\ Moves(t)' \subseteq Moves(t) \cup {blockNumber + 1}
    BY <2>2, InsertedMoves
  <2>4. CASE tx.token \in lost
    <3>1. tx.token \in lost'
      BY <2>2, <2>4, InsertedToken
    <3> QED BY <2>1, <3>1 DEF HistoryOf
  <2>5. CASE tx = DepositTx(t) /\ \A c \in Moves(t) : c >= b
    <3>1. \A c \in Moves(t)' : c >= b
      BY <1>1, <2>3, <2>5, InsertedBlock
    <3> QED BY <2>1, <2>5, <3>1 DEF HistoryOf
  <2>6. CASE SpendsBefore(b, tx)
    <3>1. \A c \in Moves(t)' : c < b => c <= tx.prevBlk
      BY <1>1, <2>3, <2>6, InsertedBlock DEF SpendsBefore
    <3>2. chain'[tx.prevBlk] = chain[tx.prevBlk]
      BY <2>3, <2>6, InsertedBlock DEF SpendsBefore
    <3>3. SpendsBefore(b, tx)'
      BY <2>3, <2>6, <3>1, <3>2 DEF SpendsBefore, WentTo
    <3> QED BY <2>1, <3>3 DEF HistoryOf
  <2> QED BY <2>1, <2>4, <2>5, <2>6 DEF HistoryOf
<1>2. CASE b = blockNumber + 1
  <2>1. tx \in BlockTxs(failed) /\ chain'[b] = BlockTxs(failed) /\ t \in Tokens
    BY <1>2, InsertedBlock DEF Transaction
  <2>2. /\ t \in Updated(failed) /\ tx = appended[t].tx
        /\ t \notin unread => SpendsHead(t, tx)
    BY <2>1, BlockHolds DEF HistoryInv, Pending, PendingOf, Updated
  <2>3. \A other \in chain'[b] : other.token = t => other = tx
    BY <2>1, <2>2, BlockHolds
  <2>4. Moves(t)' = Moves(t) \cup {b} /\ Moves(t) \subseteq 1 .. blockNumber
    BY <1>2, <2>1, <2>2, InsertedMoves
  <2> SUFFICES ASSUME t \notin lost'
               PROVE  \/ tx = DepositTx(t) /\ \A c \in Moves(t)' : c >= b
                      \/ SpendsBefore(b, tx)'
    BY <2>3 DEF HistoryOf
  <2>5. SpendsHead(t, tx) /\ HeadOf(t)
    BY <2>1, <2>2, InsertedToken DEF HistoryInv, Heads
  <2>6. CASE tokens[t] = None
    <3>1. tx = DepositTx(t) /\ Moves(t) = {}
      BY <2>5, <2>6 DEF SpendsHead, HeadOf
    <3>2. \A c \in Moves(t)' : c >= b
      BY <1>2, <2>4, <3>1, InsertedBlock
    <3> QED BY <3>1, <3>2
  <2>7. CASE tokens[t] # None
    <3>1. /\ tx.prevBlk = tokens[t].prevBlk /\ tx.signer = tokens[t].owner
          /\ LastMove(t, tx.prevBlk) /\ WentTo(t, tx.prevBlk, tx.signer)
      BY <2>5, <2>7 DEF SpendsHead, HeadOf
    <3>2. tx.prevBlk \in 1 .. blockNumber
      BY <2>4, <3>1 DEF LastMove
    <3>3. tx.prevBlk \in Moves(t)' /\ tx.prevBlk < b
      BY <1>2, <2>4, <3>1, <3>2, InsertedBlock DEF LastMove
    <3>4. \A c \in Moves(t)' : c < b => c <= tx.prevBlk
      BY <2>4, <3>1 DEF LastMove
    <3>5. WentTo(t, tx.prevBlk, tx.signer)'
      BY <3>1, <3>2, InsertedBlock DEF WentTo
    <3>6. SpendsBefore(b, tx)'
      BY <3>3, <3>4, <3>5 DEF SpendsBefore
    <3> QED BY <3>6
  <2> QED BY <2>6, <2>7
<1> QED BY <1>1, <1>2, InsertedBlock

LEMMA InsertKeeps ==
  ASSUME HistoryInv, InsertBlock
  PROVE  HistoryInv'
<1>0. PICK failed, gone \in Losses : Insert(failed, gone)
  BY ZenonT(60) DEF InsertBlock
<1>1. Objects' /\ tokens' \in [Tokens -> Token \cup {None}]
  BY <1>0, InsertObjects, ZenonT(60)
<1>2. /\ appended' = [t \in Tokens |-> None] /\ pc' = "publish"
      /\ UNCHANGED <<onL1, unsent, txpool, txes, i, numtxns>>
  BY <1>0, ZenonT(60) DEF Insert, Commit, clientVars, loopVars
<1>3. Pending'
  BY <1>2 DEF Pending, PendingOf
<1>4. blockNumber' \in Blk /\ chain' \in [1 .. MaxBlk -> SUBSET Transaction]
  BY <1>0, InsertedBlock DEF Blk
<1>5. Types'
  BY <1>1, <1>2, <1>4 DEF HistoryInv, Types
<1>6. Heads' /\ History'
  BY <1>0, InsertHeads, InsertHistory, ZenonT(60)
<1> QED BY <1>1, <1>3, <1>5, <1>6, ZenonT(60) DEF HistoryInv

-----------------------------------------------------------------------------
(* The other steps *)

LEMMA ChainFrame ==
  ASSUME HistoryInv, UNCHANGED <<tokens, chain, blockNumber, lost>>
  PROVE  Objects' /\ Heads' /\ History'
<1>1. \A t : Moves(t)' = Moves(t)
  BY DEF Moves
<1>2. Objects' /\ Heads'
  BY <1>1 DEF HistoryInv, Objects, Heads, HeadOf, LastMove, WentTo
<1>3. History'
  BY <1>1 DEF HistoryInv, History, HistoryOf, SpendsBefore, WentTo
<1> QED BY <1>2, <1>3

LEMMA NothingAppended ==
  ASSUME appended' = [t \in Tokens |-> None]
  PROVE  Pending'
  BY DEF Pending, PendingOf

\* The next transaction of the minter's copy.
LEMMA NextTx ==
  ASSUME Types, i <= numtxns
  PROVE  i \in DOMAIN txes /\ txes[i] \in Valid
<1>1. Len(txes) \in Nat /\ DOMAIN txes = 1 .. Len(txes)
  BY DEF Types
<1> QED BY <1>1 DEF Types

LEMMA ReplayedOnL1 ==
  ASSUME onL1 \in Seq(Tokens)
  PROVE  ReplayedDeposits \subseteq Tokens
<1>1. \A start, end : GetPastDeposit(start, end) \subseteq Tokens
  BY DEF GetPastDeposit
<1>2. ASSUME NEW d \in ReplayedDeposits
      PROVE  \/ d \in GetPastDeposit(PrevDepositIndex(Len(published) + 1), Len(onL1))
             \/ \E k \in GetPublishedBlock : d \in PastDeposits(k)
  BY DEF ReplayedDeposits
<1> QED BY <1>1, <1>2 DEF PastDeposits

LEMMA InitHistory == Init => HistoryInv
<1> SUFFICES ASSUME Init PROVE HistoryInv
  OBVIOUS
<1> USE DEF Init, InitWith
<1>1. /\ tokens = [t \in Tokens |-> None] /\ appended = [t \in Tokens |-> None]
  BY DEF StateInit, NoObjects
<1>2. Types
  <2>1. blockNumber \in Blk /\ chain \in [1 .. MaxBlk -> SUBSET Transaction]
    BY StateAssumption DEF NoBlocks, Blk
  <2> QED BY <1>1, <2>1 DEF Types
<1>3. \A t : Moves(t) = {}
  BY DEF Moves
<1> QED BY <1>1, <1>2, <1>3 DEF HistoryInv, Objects, Heads, HeadOf, Pending, PendingOf, History

LEMMA RestartKeeps ==
  ASSUME HistoryInv, Restart
  PROVE  HistoryInv'
<1>1. /\ tokens' = [t \in Tokens |-> None] /\ appended' = [t \in Tokens |-> None]
      /\ blockNumber' = 0 /\ chain' = NoBlocks /\ pc' = "idle"
  BY DEF Restart
<1>2. txpool' \subseteq Valid
  BY ReplayedOnL1, DepositValid, ZenonT(60) DEF HistoryInv, Types, Restart, InitDeposit
<1>3. Types'
  <2>1. blockNumber' \in Blk /\ chain' \in [1 .. MaxBlk -> SUBSET Transaction]
    BY <1>1, StateAssumption DEF NoBlocks, Blk
  <2> QED BY <1>1, <1>2, <2>1 DEF HistoryInv, Types, Restart, NewLoop, clientVars
<1>4. \A t : Moves(t)' = {}
  BY <1>1 DEF Moves
<1>5. Objects' /\ Heads' /\ History'
  BY <1>1, <1>4 DEF Objects, Heads, HeadOf, History
<1> QED BY <1>1, <1>3, <1>5, NothingAppended DEF HistoryInv

LEMMA RemovalKeeps ==
  ASSUME Types, i <= numtxns, MarkForRemoval
  PROVE  /\ txpool' \subseteq Valid /\ numtxns' \in Nat /\ numtxns' <= Len(txes')
         /\ UNCHANGED <<onL1, unsent, txes, i, blockNumber, chain, pc, lost>>
<1>1. Len(txes) \in Nat
  BY DEF Types
<1> QED BY <1>1 DEF Types, MarkForRemoval, RemoveTransaction, clientVars, runVars

\* A step that leaves the minter and the chain alone.
LEMMA MinterUntouched ==
  ASSUME HistoryInv, txpool' \subseteq Valid, onL1' \in Seq(Tokens), unsent' \subseteq Transfers,
         UNCHANGED <<tokens, unread, appended, blockNumber, chain, pc, txes, i, numtxns, lost>>
  PROVE  HistoryInv'
<1>1. Types'
  BY ZenonT(60) DEF HistoryInv, Types
<1>2. Pending'
  BY ZenonT(60) DEF HistoryInv, Pending, PendingOf, SpendsHead
<1> QED BY <1>1, <1>2, ChainFrame, ZenonT(60) DEF HistoryInv

\* A step that ends the minter's loop without a new block.
LEMMA LoopEnds ==
  ASSUME HistoryInv, Pending',
         appended' \in [Tokens -> [tx : Transaction, obj : Token] \cup {None}],
         txpool' \subseteq txpool, pc' = "idle", txes' = <<>>, i' = 1, numtxns' = 0,
         UNCHANGED <<tokens, onL1, unsent, blockNumber, chain, lost>>
  PROVE  HistoryInv'
<1>1. Types'
  BY DEF HistoryInv, Types
<1> QED BY <1>1, ChainFrame, ZenonT(60) DEF HistoryInv

\* A step that takes the next transaction off the pool.
LEMMA TxRemoved ==
  ASSUME HistoryInv, Pending',
         appended' \in [Tokens -> [tx : Transaction, obj : Token] \cup {None}],
         i <= numtxns, MarkForRemoval, UNCHANGED tokens
  PROVE  HistoryInv'
<1>1. Types
  BY ZenonT(60) DEF HistoryInv
<1>2. /\ txpool' \subseteq Valid /\ numtxns' \in Nat /\ numtxns' <= Len(txes')
      /\ UNCHANGED <<onL1, unsent, txes, i, blockNumber, chain, pc, lost>>
  BY <1>1, RemovalKeeps, ZenonT(60)
<1>3. Types'
  BY <1>1, <1>2, ZenonT(60) DEF Types
<1> QED BY <1>2, <1>3, ChainFrame, ZenonT(60) DEF HistoryInv

LEMMA SendKeeps ==
  ASSUME HistoryInv, NEW tx \in unsent, SendPlasmaTransaction(tx)
  PROVE  HistoryInv'
<1>1. txpool \subseteq Valid /\ onL1 \in Seq(Tokens) /\ unsent \subseteq Transfers
  BY ZenonT(60) DEF HistoryInv, Types
<1>2. txpool' \subseteq Valid /\ unsent' \subseteq Transfers
  BY <1>1, ZenonT(60)
  DEF SendPlasmaTransaction, AddTransactionToPool, Valid, AllTxs
<1>3. UNCHANGED <<tokens, unread, appended, blockNumber, chain, pc, txes, i, numtxns, onL1, lost>>
  BY ZenonT(60) DEF SendPlasmaTransaction, stateVars, loopVars, chainVars, runVars
<1> QED BY <1>1, <1>2, <1>3, MinterUntouched, ZenonT(60)

LEMMA DepositKeeps ==
  ASSUME HistoryInv, NEW t \in Tokens, Deposit(t)
  PROVE  HistoryInv'
<1>1. txpool \subseteq Valid /\ onL1 \in Seq(Tokens) /\ unsent \subseteq Transfers
  BY ZenonT(60) DEF HistoryInv, Types
<1>2. /\ onL1' = Append(onL1, t)
      /\ UNCHANGED <<tokens, unread, appended, blockNumber, chain, pc, txes, i, numtxns, txpool,
                     unsent, lost>>
  BY ZenonT(60) DEF Deposit, stateVars, loopVars, chainVars, runVars
<1>3. onL1' \in Seq(Tokens)
  BY <1>1, <1>2
<1> QED BY <1>1, <1>2, <1>3, MinterUntouched, ZenonT(60)

LEMMA ProcessKeeps ==
  ASSUME HistoryInv, NEW t \in Range(onL1), ProcessDeposit(t)
  PROVE  HistoryInv'
<1>1. txpool \subseteq Valid /\ onL1 \in Seq(Tokens) /\ unsent \subseteq Transfers
  BY ZenonT(60) DEF HistoryInv, Types
<1>2. t \in Tokens
  BY <1>1 DEF Range
<1>3. txpool' \subseteq Valid
  BY <1>1, <1>2, DepositValid, ZenonT(60) DEF ProcessDeposit, AddTransactionToPool
<1>4. UNCHANGED <<tokens, unread, appended, blockNumber, chain, pc, txes, i, numtxns, onL1,
                  unsent, lost>>
  BY ZenonT(60) DEF ProcessDeposit, stateVars, clientVars, loopVars, chainVars, runVars
<1> QED BY <1>1, <1>3, <1>4, MinterUntouched, ZenonT(60)

LEMMA StutterKeeps ==
  ASSUME HistoryInv, UNCHANGED vars
  PROVE  HistoryInv'
<1>1. txpool \subseteq Valid /\ onL1 \in Seq(Tokens) /\ unsent \subseteq Transfers
  BY ZenonT(60) DEF HistoryInv, Types
<1>2. UNCHANGED <<tokens, unread, appended, blockNumber, chain, pc, txes, i, numtxns, onL1,
                  unsent, txpool, lost>>
  BY ZenonT(60) DEF vars, stateVars, clientVars, loopVars, chainVars, runVars
<1> QED BY <1>1, <1>2, MinterUntouched, ZenonT(60)

LEMMA MintKeeps ==
  ASSUME HistoryInv, MintNewBlock
  PROVE  HistoryInv'
<1>1. Types
  BY ZenonT(60) DEF HistoryInv
<1>2. /\ txes' \in GetTransactions /\ numtxns' = Len(txes') /\ i' = 1 /\ pc' = "commit"
      /\ blockNumber < MaxBlk /\ appended' = [t \in Tokens |-> None]
      /\ UNCHANGED <<tokens, onL1, unsent, txpool, blockNumber, chain, lost>>
  BY ZenonT(60) DEF MintNewBlock, NewStateDB, clientVars, chainVars
<1>3. txes' \in Seq(Valid) /\ Len(txes') \in Nat
  BY <1>1, <1>2, CopyOfPool, ZenonT(60) DEF Types
<1>4. Types'
  BY <1>1, <1>2, <1>3 DEF Types
<1> QED BY <1>2, <1>4, ChainFrame, NothingAppended, ZenonT(60) DEF HistoryInv

LEMMA CommitTxKeeps ==
  ASSUME HistoryInv, CommitTransaction
  PROVE  HistoryInv'
<1>1. Types
  BY ZenonT(60) DEF HistoryInv
<1>2. /\ pc = "commit" /\ i <= numtxns /\ Applies(txes[i])
      /\ AppendTx(txes[i], blockNumber + 1) /\ i' = i + 1
      /\ UNCHANGED <<tokens, unread, onL1, unsent, txpool, pc, txes, numtxns, blockNumber, chain,
                     lost>>
  BY ZenonT(60) DEF CommitTransaction, Apply, clientVars, runVars
<1>3. /\ appended' \in [Tokens -> [tx : Transaction, obj : Token] \cup {None}]
      /\ Pending'
  BY <1>1, <1>2, NextTx, AppendKeeps, ZenonT(60)
<1>4. i' \in Nat \ {0}
  BY <1>1, <1>2 DEF Types
<1>5. Types'
  BY <1>1, <1>2, <1>3, <1>4, ZenonT(60) DEF Types
<1> QED BY <1>2, <1>3, <1>5, ChainFrame, ZenonT(60) DEF HistoryInv

LEMMA DropKeeps ==
  ASSUME HistoryInv, DropTransaction
  PROVE  HistoryInv'
<1>1. /\ i <= numtxns /\ MarkForRemoval /\ UNCHANGED <<tokens, unread, appended>>
  BY ZenonT(60) DEF DropTransaction, Reject, stateVars
<1>2. UNCHANGED <<blockNumber, pc>>
  BY <1>1, ZenonT(60) DEF MarkForRemoval
<1>3. /\ appended' \in [Tokens -> [tx : Transaction, obj : Token] \cup {None}]
      /\ Pending'
  BY <1>1, <1>2, ZenonT(60) DEF HistoryInv, Types, Pending, PendingOf, SpendsHead
<1> QED BY <1>1, <1>3, TxRemoved, ZenonT(60)

LEMMA StoreFailureKeeps ==
  ASSUME HistoryInv, FailToStore
  PROVE  HistoryInv'
<1>1. /\ pc = "commit" /\ i <= numtxns /\ Applies(txes[i])
      /\ AppendTx(txes[i], blockNumber + 1)
      /\ MarkForRemoval /\ UNCHANGED <<tokens, unread>>
  BY ZenonT(60) DEF FailToStore, StoreError
<1>2. UNCHANGED <<blockNumber, pc>>
  BY <1>1, ZenonT(60) DEF MarkForRemoval
<1>3. txes[i] \in Valid
  BY <1>1, NextTx, ZenonT(60) DEF HistoryInv
<1>4. /\ appended' \in [Tokens -> [tx : Transaction, obj : Token] \cup {None}]
      /\ Pending'
  BY <1>1, <1>2, <1>3, AppendKeeps, ZenonT(60)
<1> QED BY <1>1, <1>4, TxRemoved, ZenonT(60)

LEMMA PanicKeeps ==
  ASSUME HistoryInv, Panic
  PROVE  HistoryInv'
<1>1. /\ pc = "commit" /\ pc' = "crashed"
      /\ UNCHANGED <<tokens, unread, appended, onL1, unsent, txpool, txes, i, numtxns, blockNumber,
                     chain, lost>>
  BY ZenonT(60) DEF Panic, stateVars, clientVars, loopVars, chainVars, runVars
<1>2. Types'
  BY <1>1, ZenonT(60) DEF HistoryInv, Types
<1>3. Pending'
  BY <1>1, ZenonT(60) DEF HistoryInv, Pending, PendingOf, SpendsHead
<1> QED BY <1>1, <1>2, <1>3, ChainFrame, ZenonT(60) DEF HistoryInv

LEMMA NoBlockKeeps ==
  ASSUME HistoryInv, NothingCommitted \/ FailToInsert
  PROVE  HistoryInv'
<1>1. /\ appended' = [t \in Tokens |-> None] /\ pc' = "idle"
      /\ txes' = <<>> /\ i' = 1 /\ numtxns' = 0
      /\ UNCHANGED <<tokens, onL1, unsent, txpool, blockNumber, chain, lost>>
  BY ZenonT(60) DEF NothingCommitted, FailToInsert, DropState, NewStateDB, NewLoop, clientVars,
                    chainVars, runVars
<1>2. appended' \in [Tokens -> [tx : Transaction, obj : Token] \cup {None}]
  BY <1>1
<1> QED BY <1>1, <1>2, LoopEnds, NothingAppended, ZenonT(60)

LEMMA PublishKeeps ==
  ASSUME HistoryInv, PublishBlock
  PROVE  HistoryInv'
<1>1. /\ pc = "publish" /\ pc' = "idle" /\ txes' = <<>> /\ i' = 1 /\ numtxns' = 0
      /\ txpool' \subseteq txpool
      /\ UNCHANGED <<tokens, appended, onL1, unsent, blockNumber, chain, lost>>
  BY ZenonT(60) DEF PublishBlock, NewLoop, RemoveCommitted, RemoveTransaction, stateVars,
                    clientVars
<1>2. /\ appended' \in [Tokens -> [tx : Transaction, obj : Token] \cup {None}]
      /\ Pending'
  BY <1>1, ZenonT(60) DEF HistoryInv, Types, Pending, PendingOf
<1> QED BY <1>1, <1>2, LoopEnds, ZenonT(60)

LEMMA StepHistory == HistoryInv /\ [Next]_vars => HistoryInv'
  BY SendKeeps, DepositKeeps, ProcessKeeps, StutterKeeps, MintKeeps, CommitTxKeeps, DropKeeps,
     StoreFailureKeeps, PanicKeeps, NoBlockKeeps, PublishKeeps, InsertKeeps, RestartKeeps,
     ZenonT(60) DEF Next, MinterStep

-----------------------------------------------------------------------------
(* What the invariant says of the chain *)

LEMMA HistoryLinear == HistoryInv => LinearHistory
<1> SUFFICES ASSUME HistoryInv PROVE LinearHistory
  BY ZenonT(60)
<1>0. \A t : Moves(t) \subseteq Int /\ Moves(t) \subseteq 1 .. blockNumber
  BY DEF Moves
<1>1. ASSUME NEW b \in 1 .. blockNumber, NEW tx \in chain[b], tx.token \notin lost
      PROVE  LET earlier == {c \in Moves(tx.token) : c < b}
             IN IF earlier = {} THEN tx = DepositTx(tx.token)
                ELSE /\ tx.prevBlk = Max(earlier)
                     /\ \E p \in chain[tx.prevBlk] :
                          p.token = tx.token /\ p.recipient = tx.signer
  <2> DEFINE earlier == {c \in Moves(tx.token) : c < b}
  <2>1. CASE tx = DepositTx(tx.token) /\ \A c \in Moves(tx.token) : c >= b
    <3>1. earlier = {}
      BY <1>0, <2>1
    <3> QED BY <2>1, <3>1
  <2>2. CASE SpendsBefore(b, tx)
    <3>1. /\ earlier \in SUBSET Int /\ tx.prevBlk \in earlier
          /\ \A c \in earlier : c <= tx.prevBlk
      BY <1>0, <2>2 DEF SpendsBefore
    <3> HIDE DEF earlier
    <3>2. Max(earlier) = tx.prevBlk
      BY <3>1, MaxIs, ZenonT(60)
    <3>3. \E p \in chain[tx.prevBlk] : p.token = tx.token /\ p.recipient = tx.signer
      BY <2>2, ZenonT(60) DEF SpendsBefore, WentTo
    <3> QED BY <3>1, <3>2, <3>3, ZenonT(60) DEF earlier
  <2> QED BY <1>1, <2>1, <2>2 DEF HistoryInv, History, HistoryOf
<1>2. ASSUME NEW t \in Tokens \ lost
      PROVE  IF Moves(t) = {} THEN tokens[t] = None
             ELSE /\ tokens[t] # None
                  /\ tokens[t].prevBlk = Max(Moves(t)) /\ tokens[t].denom = Denom[t]
                  /\ \E tx \in chain[Max(Moves(t))] : tx.token = t /\ tx.recipient = tokens[t].owner
  <2>1. CASE tokens[t] = None
    BY <2>1, ZenonT(60) DEF HistoryInv, Heads, HeadOf
  <2>2. CASE tokens[t] # None
    <3>1. /\ tokens[t].denom = Denom[t] /\ LastMove(t, tokens[t].prevBlk)
          /\ WentTo(t, tokens[t].prevBlk, tokens[t].owner)
      BY <2>2, ZenonT(60) DEF HistoryInv, Objects, Heads, HeadOf
    <3>2. Max(Moves(t)) = tokens[t].prevBlk
      BY <1>0, <3>1, MaxIs, ZenonT(60) DEF LastMove
    <3> QED BY <2>2, <3>1, <3>2, ZenonT(60) DEF LastMove, WentTo
  <2> QED BY <2>1, <2>2, ZenonT(60)
<1>3. \A b \in 1 .. blockNumber : \A tx, other \in chain[b] : other.token = tx.token => other = tx
  BY ZenonT(60) DEF HistoryInv, History, HistoryOf
<1>4. TokensFollowChain
  BY <1>2 DEF TokensFollowChain
<1> QED BY <1>1, <1>3, <1>4 DEF LinearHistory

\* Whatever clients send, whichever calls of the chunk store or of the main net
\* fail, whichever entries of the tries are lost and however often the node
\* restarts: the transactions of a token that the states of the blocks have found
\* form one chain from its deposit, each spends the one before and is signed by
\* its recipient, and the token trie is where that chain ends
\* (commitTransactions, ApplyPlasmaTransaction, Commit).
THEOREM HistoriesLinear == Spec => []LinearHistory
<1>1. Init => HistoryInv
  BY InitHistory
<1>2. HistoryInv /\ [Next]_vars => HistoryInv'
  BY StepHistory
<1>3. HistoryInv => LinearHistory
  BY HistoryLinear
<1> QED BY <1>1, <1>2, <1>3, PTL DEF Spec
=============================================================================
