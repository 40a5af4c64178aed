------------------------------ MODULE StateDB ------------------------------
(***************************************************************************)
(* The state of the plasma chain: the token and account tries at the       *)
(* current block, the objects a block under construction has changed, and  *)
(* what ApplyPlasmaTransaction does to them.                               *)
(*                                                                         *)
(* A trie is the function it stores.  The header of a block and the nodes  *)
(* of its tries are chunks whose write errors are ignored or come after    *)
(* the write was counted as done: the next state then does not find the    *)
(* entries below them (unread).  A signature is the signer.  A transaction *)
(* carries no balance: SendPlasmaTransaction computes it.  Uint64          *)
(* arithmetic is modulo Word; account balances are big integers.           *)
(***************************************************************************)
EXTENDS Integers, Sequences, FiniteSetsExt

CONSTANTS
  Users,       \* addresses of token owners
  Operator,    \* the address of the authority
  Tokens,      \* token IDs
  Depositor,   \* token -> the address that deposited it
  Denom,       \* token -> its denomination
  Word,        \* 2^64
  MaxBlk,      \* bound on block numbers
  None         \* an entry that a map does not have

Addresses == Users \cup {Operator}
Uint64    == 0 .. Word - 1
Blk       == 0 .. MaxBlk

Transaction == [token : Tokens, denom : Uint64, prevBlk : Blk, prevOwner : Addresses,
                recipient : Users, allowance : Uint64, spent : Uint64,
                signer : Addresses]

Token == [denom : Uint64, prevBlk : Blk, owner : Users,
          balance : Uint64, allowance : Uint64, spent : Uint64]

Account == [tokens : SUBSET Tokens, denom : Int, balance : Int]

ASSUME StateAssumption ==
  /\ Operator \notin Users
  /\ Word \in Nat \ {0} /\ MaxBlk \in Nat
  /\ Tokens \subseteq Nat /\ IsFiniteSet(Tokens)
  /\ Depositor \in [Tokens -> Users]
  /\ Denom \in [Tokens -> Uint64 \ {0}]
  /\ None \notin Token /\ None \notin Account /\ None \notin [tx : Transaction, obj : Token]

VARIABLES
  tokens,          \* tokenStorage at the root of the current block
  accounts,        \* accountStorage at that root; None for a chunk without RLP
  unread,          \* entries of the two tries that the new state does not find
  appended,        \* tokenObjects, tokenIsSet and thashList of the new block
  accountObjects   \* accountObjects of the new block

stateVars == <<tokens, accounts, unread, appended, accountObjects>>

NoAccount == [tokens |-> {}, denom |-> 0, balance |-> 0]
NoObjects == /\ appended = [t \in Tokens |-> None]
             /\ accountObjects = [a \in Addresses |-> None]

StateInit ==
  /\ tokens = [t \in Tokens |-> None]
  /\ accounts = [a \in Addresses |-> NoAccount]
  /\ unread = {}
  /\ NoObjects

-----------------------------------------------------------------------------
(* Transactions *)

\* The information of a deposit, which the token ID is a hash of.
TokenInit(t) == [token |-> t, denom |-> Denom[t], depositor |-> Depositor[t]]

NewToken(denom, depositor) ==
  [denom |-> denom, prevBlk |-> 0, owner |-> depositor,
   balance |-> denom, allowance |-> 0, spent |-> 0]

NewTransaction(tok, tinfo, recipient) ==
  [token |-> tinfo.token, denom |-> tinfo.denom, prevBlk |-> 0, prevOwner |-> tok.owner,
   recipient |-> recipient, allowance |-> tok.allowance, spent |-> tok.spent, signer |-> None]

SignTx(tx, signer) == [tx EXCEPT !.signer = signer]

\* The transaction processDeposit makes of a Deposit event.
DepositTx(t) ==
  LET tinfo == TokenInit(t)
      tx    == NewTransaction(NewToken(tinfo.denom, tinfo.depositor), tinfo, tinfo.depositor)
  IN SignTx([tx EXCEPT !.prevOwner = Operator], Operator)

TxBalance(tx) == (tx.denom - tx.allowance - tx.spent) % Word

\* Mutant: the signature of a transfer is not checked.
ValidateTxUnsigned(tx) == tx.prevBlk = 0 => tx.signer = Operator

\* tokenKey, the hash of index, denomination and depositor, has no collisions.
ValidateSig(tx) ==
  /\ tx.signer = tx.prevOwner
  /\ tx.prevBlk = 0 =>
       TokenInit(tx.token) = [token |-> tx.token, denom |-> tx.denom, depositor |-> tx.recipient]

ValidateTx(tx) == ValidateSig(tx) /\ (tx.prevBlk = 0 => tx.signer = Operator)

-----------------------------------------------------------------------------
(* Token objects *)

ValidDemination(tok) == (tok.balance + tok.spent + tok.allowance) % Word = tok.denom

\* The objects of a state, None if it has none or it cannot be decoded.
GetTokenObject(trie, t)   == trie[t]
GetAccountObject(trie, a) == trie[a]

\* SparseMerkleTree.Get: below a chunk that is not found there is nothing.
TokenFound(t)   == IF t \in unread THEN None ELSE GetTokenObject(tokens, t)
AccountFound(a) == IF a \in unread THEN NoAccount ELSE GetAccountObject(accounts, a)

GetOrCreateAccount(a) ==
  IF accountObjects[a] # None THEN accountObjects[a] ELSE AccountFound(a)

\* The recipient's account, then createDeposit, or getTokenObject and the checks
\* on a transfer.  Both read the storage of the last block, not the objects of
\* the new one.
Accepts(tx) ==
  LET tok == TokenFound(tx.token)
  IN /\ GetOrCreateAccount(tx.recipient) # None
     /\ IF tx.prevBlk = 0 THEN tok = None
        ELSE /\ tok # None
             /\ tok.prevBlk # tx.prevBlk => tok.prevBlk = 0 /\ tok.denom > 0
             /\ tok.owner = tx.prevOwner
             /\ ValidDemination(tok)
             /\ tok.denom = tx.denom
             /\ tx.denom = (tx.spent + tx.allowance + TxBalance(tx)) % Word

NewOwner(tx)   == tokens[tx.token].owner # tx.recipient
Withdraws(tx)  == tx.spent > tokens[tx.token].spent
NewBalance(tx) == TxBalance(tx) # tokens[tx.token].balance

Dirtied(tx) == tx.prevBlk # 0 => NewOwner(tx) \/ Withdraws(tx) \/ NewBalance(tx)

CreateDeposit(tx) == NewToken(tx.denom, tx.recipient)

\* SetOwner, SetWithdrawal, SetBalance and SetPrevBlock.
TokenAfter(tx, blk) ==
  IF tx.prevBlk = 0 THEN [CreateDeposit(tx) EXCEPT !.prevBlk = blk]
    ELSE [tokens[tx.token] EXCEPT
            !.owner = tx.recipient,
            !.prevBlk = blk,
            !.spent = IF Withdraws(tx) THEN tx.spent ELSE @,
            !.allowance = IF Withdraws(tx) \/ NewBalance(tx) THEN tx.allowance ELSE @,
            !.balance = TxBalance(tx)]

-----------------------------------------------------------------------------
(* Account objects and their journal *)

AddToken(acct, t, balance, denom) ==
  [tokens |-> acct.tokens \cup {t}, denom |-> acct.denom + denom,
   balance |-> acct.balance + balance]

RemoveToken(acct, t, balance, denom) ==
  [tokens |-> acct.tokens \ {t}, denom |-> acct.denom - denom,
   balance |-> acct.balance - balance]

\* The entries of the journal, with the account before and after the change.
AccountTokenChange(addr, prev, next)   == [addr |-> addr, prev |-> prev, next |-> next, all |-> TRUE]
AccountBalanceChange(addr, prev, next) == [addr |-> addr, prev |-> prev, next |-> next, all |-> FALSE]

\* The changes a transaction makes to accounts, in order.
AccountChanges(tx) ==
  LET tok  == IF tx.prevBlk = 0 THEN CreateDeposit(tx) ELSE tokens[tx.token]
      from == GetOrCreateAccount(tx.prevOwner)
      to   == GetOrCreateAccount(tx.recipient)
      to1  == AddToken(to, tx.token, tok.balance, tok.denom)
      adds == tx.prevBlk = 0 \/ NewOwner(tx)
      add  == AccountTokenChange(tx.recipient, to, to1)
      rem  == AccountTokenChange(tx.prevOwner, from,
                                 RemoveToken(from, tx.token, tok.balance, tok.denom))
      old  == IF adds THEN to1 ELSE to
      bal  == AccountBalanceChange(tx.recipient, old,
                [old EXCEPT !.balance = @ - ((tok.balance - TxBalance(tx)) % Word)])
  IN IF tx.prevBlk = 0 THEN <<add>>
     ELSE (IF adds THEN <<add, rem>> ELSE <<>>) \o (IF NewBalance(tx) THEN <<bal>> ELSE <<>>)

\* The entries of the journal for an address.
Entries(changes, a) == {k \in DOMAIN changes : changes[k].addr = a}

\* The changes, made in order, act on the object in accountObjects if the map has
\* one.  Each replaces it, so the last one stays.
Write(objs, changes) ==
  [a \in Addresses |->
     IF objs[a] = None \/ Entries(changes, a) = {} THEN objs[a]
     ELSE changes[Max(Entries(changes, a))].next]

\* An entry of the journal restores the account, or only its balance.
Undo(obj, c) == IF c.all THEN c.prev ELSE [obj EXCEPT !.balance = c.prev.balance]

\* Mutant: the journal is replayed first entry first.
RevertToSnapshotForward(objs, changes) ==
  [a \in Addresses |->
     IF objs[a] = None \/ Entries(changes, a) = {} THEN objs[a]
     ELSE Undo(objs[a], changes[Max(Entries(changes, a))])]

\* RevertToSnapshot: the journal of the failed transaction, last entry first, so
\* that the first entry of an address decides.
RevertToSnapshot(objs, changes) ==
  [a \in Addresses |->
     IF objs[a] = None \/ Entries(changes, a) = {} THEN objs[a]
     ELSE Undo(objs[a], changes[Min(Entries(changes, a))])]

Written(tx) == Write(accountObjects, AccountChanges(tx))

\* The objects once the accounts a dirtied transaction touches are registered.
Registered(tx) ==
  LET touched == {tx.recipient} \cup {AccountChanges(tx)[k].addr : k \in DOMAIN AccountChanges(tx)}
  IN Write([a \in Addresses |-> IF a \in touched THEN GetOrCreateAccount(a) ELSE accountObjects[a]],
           AccountChanges(tx))

-----------------------------------------------------------------------------
(* ApplyPlasmaTransaction and the RevertToSnapshot of commitTransaction *)

\* The error for the sender's account is overwritten: RemoveToken gets nil.
Panics(tx) ==
  Accepts(tx) /\ tx.prevBlk # 0 /\ NewOwner(tx) /\ GetOrCreateAccount(tx.prevOwner) = None

Applies(tx) == Accepts(tx) /\ appended[tx.token] = None /\ Dirtied(tx)

\* Append and the registration of the account objects.
AppendTx(tx, blk) ==
  appended' = [appended EXCEPT ![tx.token] = [tx |-> tx, obj |-> TokenAfter(tx, blk)]]

Apply(tx, blk) ==
  /\ Applies(tx) /\ ~Panics(tx)
  /\ AppendTx(tx, blk)
  /\ accountObjects' = Registered(tx)
  /\ UNCHANGED <<tokens, accounts, unread>>

\* A check fails: the ones after the setters fail on objects already changed.
Reject(tx) ==
  /\ ~Applies(tx) /\ ~Panics(tx)
  /\ accountObjects' = IF Accepts(tx)
                         THEN RevertToSnapshot(Written(tx), AccountChanges(tx))
                         ELSE accountObjects
  /\ UNCHANGED <<tokens, accounts, unread, appended>>

\* StoreTransaction fails after Append: the journal's entries for the token are
\* undone on a copy that getTokenObject reads again, tokenObjects keeps its own.
StoreError(tx, blk) ==
  /\ Applies(tx) /\ ~Panics(tx)
  /\ AppendTx(tx, blk)
  /\ accountObjects' = RevertToSnapshot(Registered(tx), AccountChanges(tx))
  /\ UNCHANGED <<tokens, accounts, unread>>

\* NewStateDB and InitTrie at the header of the current block, whose error and
\* missing chunk InitTrie ignores: the entries below a chunk that is not found
\* are not in the new state.
NewStateDB(absent) ==
  /\ appended' = [t \in Tokens |-> None]
  /\ accountObjects' = [a \in Addresses |-> None]
  /\ unread' = absent
  /\ UNCHANGED <<tokens, accounts>>

\* The state is given up.
DropState == NewStateDB({})

\* The entry a trie keeps.  One that was not found is gone if its node is written
\* again without it.
KeptToken(t, gone)   == IF t \in gone \cap unread THEN None ELSE tokens[t]
KeptAccount(a, gone) == IF a \in gone \cap unread THEN NoAccount ELSE accounts[a]

\* updateTokenObject: what goes to the token trie and to the transaction SMT.  If
\* SetChunk fails neither changes, and Commit ignores the error.
Updated(failed) == {t \in Tokens : appended[t] # None /\ t \notin failed}

UpdateTokenObject(t, failed, gone) ==
  IF t \in Updated(failed) THEN appended[t].obj ELSE KeptToken(t, gone)

BlockTxs(failed) == {appended[t].tx : t \in Updated(failed)}

\* RLP has no negative integers and updateAccountObject ignores that error;
\* Commit ignores the one of its SetChunk.
Encoded(acct) == IF acct # None /\ acct.denom >= 0 /\ acct.balance >= 0 THEN acct ELSE None

UpdateAccountObject(a, failed, gone) ==
  IF accountObjects[a] # None /\ a \notin failed THEN Encoded(accountObjects[a])
  ELSE KeptAccount(a, gone)

\* Commit: the objects go to the tries, whose roots the new block holds.
Commit(failed, gone) ==
  /\ tokens' = [t \in Tokens |-> UpdateTokenObject(t, failed, gone)]
  /\ accounts' = [a \in Addresses |-> UpdateAccountObject(a, failed, gone)]
  /\ appended' = [t \in Tokens |-> None]
  /\ accountObjects' = [a \in Addresses |-> None]
  /\ unread' = {}
=============================================================================
