----------------------------- MODULE RootChain -----------------------------
(***************************************************************************)
(* The Plasma Cash contract on the main net: RootChain.sol and the library *)
(* code it calls.  Every external function is one action, because a        *)
(* transaction of the main net runs alone and a failed require reverts all *)
(* of it: a revert is a disabled action.                                   *)
(*                                                                         *)
(* Abstractions.  A token ID, the truncated hash of (depositor, index,     *)
(* amount), is that triple: the hash is taken to be free of collisions.    *)
(* The root of a block is the set of transactions in its sparse Merkle     *)
(* tree, so checkMembership is membership.  A signature is the signer.     *)
(* Allowance and Spent enter the contract only through their sum, spent.   *)
(* The priority queue is a set of entries; PriorityQueue is the heap.      *)
(***************************************************************************)
EXTENDS Integers, FiniteSets

CONSTANTS
  Users,            \* addresses that deposit, receive and exit
  Nobody,           \* the zero address
  NoToken,          \* the zero token ID
  Values,           \* msg.value of the calls to deposit
  Uint64,           \* 2^64
  MaxDeposits,      \* bound on currentDepositIndex
  MaxBlk,           \* bound on block numbers
  MaxTime,          \* bound on block.timestamp
  MaxQueue,         \* bound on the length of exitsQueue
  Period,           \* the 60 s between an exit and its exitableTS
  FinalizeCap,      \* the 21 iterations of finalizeExits
  Rejecting,        \* addresses whose fallback rejects a transfer
  Roots             \* block number -> block contents the operator may submit

Index    == 0 .. MaxDeposits - 1
Blk      == 0 .. MaxBlk
Amounts  == {v \in Values : 0 < v /\ v < Uint64 - 2}
TokenIDs == Users \X Index \X Amounts

IndexOf(t)  == t[2]
AmountOf(t) == t[3]

PlasmaTx == [token : TokenIDs, denom : Amounts, dep : Index, prevBlk : Blk,
             prevOwner : Users \cup {Nobody}, recipient : Users,
             spent : Nat, signer : Users \cup {Nobody}]

Exit == [prevBlk : Blk, exitBlk : Nat, exitor : Users \cup {Nobody},
         balance : Nat, exitableTS : Nat]

Entry == [ts : Nat, dep : Index, copy : Nat]

ASSUME ConstantsAssumption ==
  /\ Nobody \notin Users
  /\ NoToken \notin TokenIDs
  /\ Values \subseteq Nat
  /\ {Uint64, MaxDeposits, MaxBlk, MaxTime, MaxQueue} \subseteq Nat
  /\ Period \in Nat
  /\ FinalizeCap \in Nat \ {0}
  /\ Rejecting \subseteq Users
  /\ Roots \in [Blk -> SUBSET SUBSET PlasmaTx]

VARIABLES
  now,                  \* block.timestamp
  alive,                \* FALSE once the contract has self-destructed
  currentDepositIndex,
  currentBlkNum,
  childChain,           \* block number -> published root
  depositIndex,         \* deposit index -> token ID
  depositBalance,       \* token ID -> amount held
  exits,                \* token ID -> pending exit
  exitsQueue,           \* the entries of the priority queue
  deposited,            \* history: what deposit took for a token
  paidOut,              \* history: what finalizeExits paid for a token
  challenged,           \* history: tokens an exit of which was challenged
  started               \* history: token and deposit index of the StartExit events

chainVars   == <<currentBlkNum, childChain>>
depositVars == <<currentDepositIndex, depositIndex, depositBalance>>
exitVars    == <<exits, exitsQueue>>
history     == <<deposited, paidOut, challenged, started>>
vars == <<now, alive, chainVars, depositVars, exitVars, history>>

NoExit == [prevBlk |-> 0, exitBlk |-> 0, exitor |-> Nobody,
           balance |-> 0, exitableTS |-> 0]

Init ==
  /\ now = 1
  /\ alive = TRUE
  /\ currentDepositIndex = 0
  /\ currentBlkNum = 0
  /\ childChain = [b \in Blk |-> {}]
  /\ depositIndex = [d \in Index |-> NoToken]
  /\ depositBalance = [t \in TokenIDs |-> 0]
  /\ exits = [t \in TokenIDs |-> NoExit]
  /\ exitsQueue = {}
  /\ deposited = [t \in TokenIDs |-> 0]
  /\ paidOut = [t \in TokenIDs |-> 0]
  /\ challenged = {}
  /\ started = {}

-----------------------------------------------------------------------------
(* Transaction.sol and SparseMerkle.sol *)

\* parseTx reverts when the subtractions that give Balance underflow.
Parses(tx)  == tx.spent <= tx.denom
Balance(tx) == tx.denom - tx.spent

VerifyTx(tx) ==
  IF tx.prevBlk = 0
    THEN tx.token = <<tx.recipient, tx.dep, tx.denom>>
    ELSE tx.spent <= tx.denom /\ tx.signer = tx.prevOwner

CheckMembership(tx, blk) == tx \in childChain[blk]

-----------------------------------------------------------------------------
(* The exit queue: least (exitableTS, depositIndex) first. *)

Before(e, f) ==
  \/ e.ts < f.ts
  \/ e.ts = f.ts /\ e.dep < f.dep
  \/ e.ts = f.ts /\ e.dep = f.dep /\ e.copy > f.copy

Ahead(e) == {f \in exitsQueue : Before(f, e)}

Twins(ts, dep) == {e \in exitsQueue : e.ts = ts /\ e.dep = dep}

\* Mutant: the priority loses the deposit index.
AddExitToQueueNoDep(token, dep, etx) ==
  /\ exits[token].exitableTS = 0
  /\ Cardinality(exitsQueue) < MaxQueue /\ etx.exitableTS < MaxTime
  /\ exitsQueue' = exitsQueue \cup
       {[ts |-> etx.exitableTS, dep |-> 0,
         copy |-> Cardinality(Twins(etx.exitableTS, 0))]}
  /\ exits' = [exits EXCEPT ![token] = etx]
  /\ started' = started \cup {<<token, dep>>}

\* The entry and the record of an exit, and the event its caller emits.
AddExitToQueue(token, dep, etx) ==
  /\ exits[token].exitableTS = 0
  /\ Cardinality(exitsQueue) < MaxQueue /\ etx.exitableTS < MaxTime
  /\ exitsQueue' = exitsQueue \cup
       {[ts |-> etx.exitableTS, dep |-> dep,
         copy |-> Cardinality(Twins(etx.exitableTS, dep))]}
  /\ exits' = [exits EXCEPT ![token] = etx]
  /\ started' = started \cup {<<token, dep>>}

-----------------------------------------------------------------------------
(* The functions of the contract *)

SubmitBlock(root, blknum) ==
  /\ alive
  /\ childChain' = [childChain EXCEPT ![blknum] = root]
  /\ currentBlkNum' = blknum
  /\ UNCHANGED <<now, alive, depositVars, exitVars, history>>

\* Mutant: the index is incremented before it is recorded.
DepositIndexLate(sender, value) ==
  LET token == <<sender, currentDepositIndex, value % Uint64>>
  IN /\ alive
     /\ currentDepositIndex < MaxDeposits
     /\ value < Uint64 - 2 /\ value > 0 /\ depositBalance[token] = 0
     /\ depositBalance' = [depositBalance EXCEPT ![token] = value]
     /\ depositIndex' = [depositIndex EXCEPT ![currentDepositIndex + 1] = token]
     /\ currentDepositIndex' = currentDepositIndex + 1
     /\ deposited' = [deposited EXCEPT ![token] = @ + value]
     /\ UNCHANGED <<now, alive, chainVars, exitVars, paidOut, challenged, started>>

\* deposit, and the fallback function, which calls it.
Deposit(sender, value) ==
  LET amount == value % Uint64
      token  == <<sender, currentDepositIndex, amount>>
  IN /\ alive
     /\ currentDepositIndex < MaxDeposits
     /\ value < Uint64 - 2
     /\ amount > 0 /\ depositBalance[token] = 0
     /\ depositBalance' = [depositBalance EXCEPT ![token] = amount]
     /\ depositIndex' = [depositIndex EXCEPT ![currentDepositIndex] = token]
     /\ currentDepositIndex' = currentDepositIndex + 1
     /\ deposited' = [deposited EXCEPT ![token] = @ + value]
     /\ UNCHANGED <<now, alive, chainVars, exitVars, paidOut, challenged, started>>

\* Mutant: the sender is not compared with the depositor in the token ID.
DepositExitAnyone(sender, dep) ==
  LET token == depositIndex[dep]
  IN /\ alive
     /\ token # NoToken
     /\ AddExitToQueue(token, dep,
          [prevBlk |-> 0, exitBlk |-> 1, exitor |-> sender,
           balance |-> depositBalance[token], exitableTS |-> now + Period])
     /\ UNCHANGED <<now, alive, chainVars, depositVars, deposited, paidOut, challenged>>

DepositExit(sender, dep) ==
  LET token == depositIndex[dep]
  IN /\ alive
     /\ token # NoToken
     /\ <<sender, dep, depositBalance[token]>> = token
     /\ depositBalance[token] > 0
     /\ AddExitToQueue(token, dep,
          [prevBlk |-> 0, exitBlk |-> 1, exitor |-> sender,
           balance |-> depositBalance[token], exitableTS |-> now + Period])
     /\ UNCHANGED <<now, alive, chainVars, depositVars, deposited, paidOut, challenged>>

StartExit(sender, prevTx, prevBlk, exitTx, blk) ==
  /\ alive
  /\ Parses(exitTx)
  /\ exits[exitTx.token].exitableTS = 0
  /\ Parses(prevTx)
  /\ exitTx.recipient = sender
  /\ exitTx.prevOwner = prevTx.recipient
  /\ exitTx.token = prevTx.token
  /\ VerifyTx(exitTx) /\ VerifyTx(prevTx)
  /\ prevBlk < blk
  /\ prevBlk = exitTx.prevBlk
  /\ CheckMembership(prevTx, prevBlk) /\ CheckMembership(exitTx, blk)
  /\ AddExitToQueue(exitTx.token, exitTx.dep,
       [prevBlk |-> prevBlk, exitBlk |-> blk, exitor |-> sender,
        balance |-> Balance(exitTx), exitableTS |-> now + Period])
  /\ UNCHANGED <<now, alive, chainVars, depositVars, deposited, paidOut, challenged>>

\* Mutant: a later spend is compared with the block before the exit.
ChallengeCondPrev(tx, blk, etx) ==
  /\ blk > etx.exitBlk => tx.prevOwner = etx.exitor /\ tx.prevBlk = etx.prevBlk
  /\ etx.prevBlk < blk /\ blk < etx.exitBlk => tx.recipient # etx.exitor

\* What challenge requires of the challenging transaction and its block.
ChallengeCond(tx, blk, etx) ==
  /\ blk > etx.exitBlk =>
       IF etx.prevBlk = 0
         THEN tx.prevBlk # 0 /\ tx.prevOwner = etx.exitor
         ELSE tx.prevOwner = etx.exitor /\ tx.prevBlk = etx.exitBlk
  /\ etx.prevBlk < blk /\ blk < etx.exitBlk => tx.recipient # etx.exitor

\* "delete exits[tokenID]"; the queue keeps its entry.
DropExit(token) ==
  /\ exits' = [exits EXCEPT ![token] = NoExit]
  /\ challenged' = challenged \cup {token}
  /\ UNCHANGED <<now, alive, chainVars, depositVars, exitsQueue, deposited,
                 paidOut, started>>

CanChallenge(tx, blk) ==
  /\ alive
  /\ Parses(tx)
  /\ exits[tx.token].exitableTS > 0
  /\ ChallengeCond(tx, blk, exits[tx.token])
  /\ VerifyTx(tx)
  /\ CheckMembership(tx, blk)

Challenge(tx, blk) == CanChallenge(tx, blk) /\ DropExit(tx.token)

ChallengeBefore(lastValidTx, blk, faultyTx, faultyBlk) ==
  /\ alive
  /\ Parses(lastValidTx)
  /\ exits[lastValidTx.token].exitableTS > 0
  /\ Parses(faultyTx)
  /\ lastValidTx.token = faultyTx.token
  /\ lastValidTx.recipient # faultyTx.prevOwner
  /\ VerifyTx(lastValidTx) /\ VerifyTx(faultyTx)
  /\ blk = faultyTx.prevBlk
  /\ blk < faultyBlk /\ faultyBlk <= exits[lastValidTx.token].prevBlk
  /\ CheckMembership(lastValidTx, blk) /\ CheckMembership(faultyTx, faultyBlk)
  /\ DropExit(lastValidTx.token)

\* Mutants: the loop ignores exitableTS; the loop stops for good at an entry
\* whose exit was cancelled.
DueEarly == {e \in exitsQueue : Cardinality(Ahead(e)) < FinalizeCap}
DueStuck ==
  {e \in exitsQueue :
     /\ e.ts < now /\ Cardinality(Ahead(e)) < FinalizeCap
     /\ \A f \in Ahead(e) \cup {e} :
          depositIndex[f.dep] # NoToken /\ exits[depositIndex[f.dep]].exitor # Nobody}

\* The entries the loop of finalizeExits pops, and the tokens it pays.
Due    == {e \in exitsQueue : e.ts < now /\ Cardinality(Ahead(e)) < FinalizeCap}
Popped == {depositIndex[e.dep] : e \in Due} \ {NoToken}
Paid   == {t \in Popped : exits[t].exitor # Nobody}

\* Mutant: the balance of a paid token is kept.
FinalizeExitsKeep ==
  /\ alive
  /\ Due # {}
  /\ \A t \in Paid : exits[t].exitor \notin Rejecting
  /\ paidOut' = [t \in TokenIDs |->
       IF t \in Paid THEN paidOut[t] + depositBalance[t] ELSE paidOut[t]]
  /\ exits' = [t \in TokenIDs |-> IF t \in Popped THEN NoExit ELSE exits[t]]
  /\ exitsQueue' = exitsQueue \ Due
  /\ UNCHANGED <<now, alive, chainVars, depositVars, deposited, challenged, started>>

\* One call runs the loop.  An iteration that underflows or whose transfer
\* is rejected reverts the call.  The last conjunct of the guard leaves out
\* the calls that change nothing.
FinalizeExits ==
  /\ alive
  /\ Due # {}
  /\ \A t \in Paid : /\ exits[t].balance <= depositBalance[t]
                     /\ exits[t].exitor \notin Rejecting
  /\ paidOut' = [t \in TokenIDs |->
       IF t \in Paid THEN paidOut[t] + depositBalance[t] ELSE paidOut[t]]
  /\ depositBalance' = [t \in TokenIDs |->
       IF t \in Paid THEN 0 ELSE depositBalance[t]]
  /\ depositIndex' = [d \in Index |->
       IF depositIndex[d] \in Paid THEN NoToken ELSE depositIndex[d]]
  /\ exits' = [t \in TokenIDs |-> IF t \in Popped THEN NoExit ELSE exits[t]]
  /\ exitsQueue' = exitsQueue \ Due
  /\ UNCHANGED <<now, alive, chainVars, currentDepositIndex, deposited,
                 challenged, started>>

\* selfdestruct sends the ether held to the authority and removes the code: no
\* function can be called any more, and the state keeps its last values.
Kill ==
  /\ alive
  /\ alive' = FALSE
  /\ UNCHANGED <<now, chainVars, depositVars, exitVars, history>>

\* The next main-net block has a later timestamp.
Tick ==
  /\ now < MaxTime
  /\ now' = now + 1
  /\ UNCHANGED <<alive, chainVars, depositVars, exitVars, history>>

Published == UNION {childChain[b] : b \in Blk}

Next ==
  \/ \E b \in Blk : \E root \in Roots[b] : SubmitBlock(root, b)
  \/ \E u \in Users, v \in Values : Deposit(u, v)
  \/ \E u \in Users, d \in Index : DepositExit(u, d)
  \/ \E u \in Users, p, x \in Published, pb, xb \in Blk : StartExit(u, p, pb, x, xb)
  \/ \E x \in Published, b \in Blk : Challenge(x, b)
  \/ \E l, f \in Published, b, fb \in Blk : ChallengeBefore(l, b, f, fb)
  \/ FinalizeExits
  \/ Kill
  \/ Tick

Spec == Init /\ [][Next]_vars

-----------------------------------------------------------------------------
(* What an operator that runs the plasma node does and the contract does not *)
(* check.  Nobody checks that a transfer carries its token's deposit index.  *)

\* The blocks of an operator that applies every check of the plasma node: one
\* block for a number, in which a token moves at most once.  A token's first
\* transaction is its deposit; each later one is a transfer by the recipient
\* of the one in the last block before it that has one, and signed by them.
CheckedRoots(roots) ==
  LET Moves(t, n) == {tx \in UNION roots[n] : tx.token = t}
  IN \A n \in Blk :
       /\ \A r, s \in roots[n] : r = s
       /\ \A tx \in UNION roots[n] :
            /\ Moves(tx.token, n) = {tx}
            /\ Parses(tx) /\ VerifyTx(tx)
            /\ tx.prevBlk < n
            /\ \A k \in tx.prevBlk + 1 .. n - 1 : Moves(tx.token, k) = {}
            /\ tx.prevBlk > 0 =>
                 \E ty \in Moves(tx.token, tx.prevBlk) : ty.recipient = tx.prevOwner

\* A transaction is published only after the Deposit event of its token.
AfterDeposit == \A b \in Blk : \A tx \in childChain'[b] : deposited[tx.token] > 0

OperatorSpec == Init /\ [][Next /\ AfterDeposit]_vars

\* Somebody keeps calling finalizeExits, and main-net time keeps passing.
Fairness == WF_vars(FinalizeExits) /\ WF_vars(Tick)
FairSpec == OperatorSpec /\ Fairness

-----------------------------------------------------------------------------
(* Properties *)

Pending(t) == exits[t].exitableTS > 0
Held(t)    == depositBalance[t] > 0

\* The published blocks have no gap, and the owner they give a token.
NoGap == \A b \in 1 .. MaxBlk : childChain[b] = {} =>
           \A c \in b .. MaxBlk : childChain[c] = {}

OwnerOf(t) ==
  LET In(b) == \E tx \in childChain[b] : tx.token = t
      last  == CHOOSE b \in Blk : In(b) /\ \A c \in Blk : In(c) => c <= b
  IN IF \E b \in Blk : In(b)
       THEN (CHOOSE tx \in childChain[last] : tx.token = t).recipient
       ELSE t[1]

\* Every variable of the contract has its declared type.
TypeOK ==
  /\ now \in Nat \ {0}
  /\ alive \in BOOLEAN
  /\ currentDepositIndex \in 0 .. MaxDeposits
  /\ currentBlkNum \in Blk
  /\ childChain \in [Blk -> SUBSET PlasmaTx]
  /\ depositIndex \in [Index -> TokenIDs \cup {NoToken}]
  /\ depositBalance \in [TokenIDs -> Nat]
  /\ exits \in [TokenIDs -> Exit]
  /\ exitsQueue \subseteq Entry /\ IsFiniteSet(exitsQueue)
  /\ deposited \in [TokenIDs -> Nat]
  /\ paidOut \in [TokenIDs -> Nat]
  /\ challenged \subseteq TokenIDs
  /\ started \subseteq TokenIDs \X Index

\* What deposit took for a token is what the contract still holds for it plus
\* what finalizeExits paid out, and the payout happens once, in full: an exit
\* that is started again after the token was finalised pays nothing.
PaidOnce ==
  \A t \in TokenIDs :
    /\ deposited[t] = depositBalance[t] + paidOut[t]
    /\ deposited[t] \in {0, AmountOf(t)}
    /\ paidOut[t] \in {0, AmountOf(t)}

\* depositIndex and depositBalance agree: a live index names the token made
\* at that index, and money held for a token is always reachable through the
\* token's own index, which is the only way finalizeExits can find it.
IndexAgrees ==
  /\ \A d \in Index : depositIndex[d] # NoToken =>
       IndexOf(depositIndex[d]) = d /\ Held(depositIndex[d])
  /\ \A t \in TokenIDs : Held(t) => depositIndex[IndexOf(t)] = t

\* "depositExit validation uniquely checked by exit.prevBlk": a pending exit
\* with prevBlk 0 is the depositor's own and for no more than the deposit,
\* whatever blocks are published, a block 0 included.
DepositExitMarked ==
  \A t \in TokenIDs : Pending(t) /\ exits[t].prevBlk = 0 =>
    exits[t].exitor = t[1] /\ exits[t].balance <= AmountOf(t)

\* All exits of t were queued under t's own index; no exit of another token
\* was queued under it.
OwnIndex(t) == \A d \in Index : <<t, d>> \in started => d = IndexOf(t)
Unshared(t) == \A u \in TokenIDs : <<u, IndexOf(t)>> \in started => u = t

\* A pending exit of a token that is still held has an entry in the queue that
\* comes due no later than the exit: a challenge, a new exit, a call of
\* finalizeExits that pops only some entries and other tokens' exits queued
\* under this token's index never strand it.  Only a token one of whose own
\* exits was started with a foreign index is left out.
ExitQueued ==
  \A t \in TokenIDs : Pending(t) /\ Held(t) /\ OwnIndex(t) =>
    \E e \in exitsQueue : e.dep = IndexOf(t) /\ e.ts <= exits[t].exitableTS

\* An exit is paid only after its own exitableTS has passed, so there was a
\* whole period in which to challenge it, unless finalizeExits met an older
\* entry under the token's index: that of an exit of the token which was
\* challenged, or that of another token's exit.
FullPeriod ==
  [][\A t \in TokenIDs :
        paidOut'[t] # paidOut[t] /\ t \notin challenged /\ Unshared(t) =>
          exits[t].exitableTS < now]_vars

\* Every pending exit of a held token is finalised or challenged, when it was
\* queued under the token's own index, transfers carry their token's own
\* denomination and no exitor rejects its payment.
ExitResolved ==
  \A t \in TokenIDs :
    (alive /\ Pending(t) /\ Held(t) /\ OwnIndex(t)) ~> (~alive \/ ~Pending(t))

\* Blocks without gaps and an operator that applies every check: an exit by
\* somebody the published chain no longer names as owner can be challenged
\* with a spend that is neither of the exit's own two transactions, whichever
\* way it was started and however often the token moved since.
NonOwnerChallengeable ==
  \A t \in TokenIDs : alive /\ Pending(t) /\ NoGap /\ exits[t].exitor # OwnerOf(t) =>
    \E x \in Published, b \in Blk :
      /\ x.token = t /\ b > exits[t].prevBlk /\ b # exits[t].exitBlk
      /\ CanChallenge(x, b)
=============================================================================
