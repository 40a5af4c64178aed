-------------------------- MODULE RootChainProofs --------------------------
(***************************************************************************)
(* Machine-checked proofs about RootChain, for any number of users,        *)
(* deposits, blocks and amounts.  TypeOK is inductive; Books strengthens   *)
(* PaidOnce and IndexAgrees with the fact that an index not yet reached    *)
(* has no deposit.                                                         *)
(***************************************************************************)
EXTENDS RootChain, FiniteSetTheorems, TLAPS

\* Time for the larger steps.
USE SMTT(60), ZenonT(60)

LEMMA TokenShape ==
  ASSUME NEW t \in TokenIDs
  PROVE  /\ t = <<t[1], t[2], t[3]>>
         /\ t[1] \in Users /\ t[2] \in Index /\ t[3] \in Amounts
  BY DEF TokenIDs

LEMMA AmountFacts ==
  ASSUME NEW v \in Amounts
  PROVE  v \in Nat /\ v > 0 /\ v \in Values
  BY ConstantsAssumption DEF Amounts

\* deposit's truncation to 64 bits loses nothing below its own limit.
LEMMA TruncationExact ==
  ASSUME NEW v \in Values, v < Uint64 - 2
  PROVE  v % Uint64 = v
<1>1. v \in Nat /\ Uint64 \in Nat /\ v < Uint64
  BY ConstantsAssumption
<1> QED BY <1>1

LEMMA NoExitType == NoExit \in Exit
  BY ConstantsAssumption DEF NoExit, Exit, Blk

LEMMA AddExitType ==
  ASSUME TypeOK, NEW token \in TokenIDs, NEW dep \in Index, NEW etx \in Exit,
         AddExitToQueue(token, dep, etx)
  PROVE  /\ exits' \in [TokenIDs -> Exit]
         /\ exitsQueue' \subseteq Entry /\ IsFiniteSet(exitsQueue')
         /\ started' \subseteq TokenIDs \X Index
<1> DEFINE twins == Twins(etx.exitableTS, dep)
           new == [ts |-> etx.exitableTS, dep |-> dep, copy |-> Cardinality(twins)]
<1>1. IsFiniteSet(twins)
  BY FS_Subset DEF TypeOK, Twins
<1>2. Cardinality(twins) \in Nat
  BY <1>1, FS_CardinalityType
<1>3. new \in Entry
  BY <1>2 DEF Entry, Exit
<1>4. exitsQueue' = exitsQueue \cup {new}
  BY DEF AddExitToQueue
<1>5. IsFiniteSet(exitsQueue')
  BY <1>4, FS_AddElement, ZenonT(60) DEF TypeOK
<1>6. exits' \in [TokenIDs -> Exit]
  BY DEF AddExitToQueue, TypeOK
<1>7. started' \subseteq TokenIDs \X Index
  <2>1. started' = started \cup {<<token, dep>>}
    BY ZenonT(60) DEF AddExitToQueue
  <2>2. started \subseteq TokenIDs \X Index
    BY ZenonT(60) DEF TypeOK
  <2> QED BY <2>1, <2>2
<1> QED BY <1>3, <1>4, <1>5, <1>6, <1>7 DEF TypeOK

LEMMA PublishedType ==
  ASSUME TypeOK, NEW x \in Published
  PROVE  x \in PlasmaTx
  BY DEF Published, TypeOK

LEMMA PaidTokens ==
  ASSUME TypeOK
  PROVE  Popped \subseteq TokenIDs /\ Paid \subseteq Popped
<1>1. \A e \in Due : e.dep \in Index
  BY DEF Due, TypeOK, Entry
<1> QED BY <1>1 DEF Popped, Paid, TypeOK

\* Each function of the contract keeps the types of what it writes.
LEMMA TypeStep ==
  ASSUME TypeOK, [Next]_vars
  PROVE  TypeOK'
<1> USE DEF chainVars, depositVars, exitVars, history
<1>1. ASSUME NEW b \in Blk, NEW root \in Roots[b], SubmitBlock(root, b)
      PROVE  TypeOK'
  <2>1. root \in SUBSET PlasmaTx
    BY <1>1, ConstantsAssumption
  <2> QED BY <1>1, <2>1 DEF TypeOK, SubmitBlock
<1>2. ASSUME NEW u \in Users, NEW v \in Values, Deposit(u, v)
      PROVE  TypeOK'
  <2> DEFINE token == <<u, currentDepositIndex, v>>
  <2>1. v % Uint64 = v
    BY <1>2, TruncationExact DEF Deposit
  <2>2. v \in Nat /\ v \in Amounts /\ currentDepositIndex \in Index
    BY <1>2, <2>1, ConstantsAssumption DEF Deposit, Amounts, Index, TypeOK
  <2>3. token \in TokenIDs
    BY <2>2 DEF TokenIDs
  <2>4. /\ depositBalance' = [depositBalance EXCEPT ![token] = v]
        /\ depositIndex' = [depositIndex EXCEPT ![currentDepositIndex] = token]
        /\ currentDepositIndex' = currentDepositIndex + 1
        /\ currentDepositIndex < MaxDeposits
        /\ deposited' = [deposited EXCEPT ![token] = @ + v]
        /\ UNCHANGED <<now, alive, chainVars, exitVars, paidOut, challenged, started>>
    BY <1>2, <2>1, ZenonT(60) DEF Deposit
  <2>5. currentDepositIndex' \in 0 .. MaxDeposits
    BY <2>4, ConstantsAssumption DEF TypeOK
  <2> QED BY <2>2, <2>3, <2>4, <2>5 DEF TypeOK
<1>3. ASSUME NEW u \in Users, NEW d \in Index, DepositExit(u, d)
      PROVE  TypeOK'
  <2> DEFINE token == depositIndex[d]
             etx == [prevBlk |-> 0, exitBlk |-> 1, exitor |-> u,
                     balance |-> depositBalance[token], exitableTS |-> now + Period]
  <2>1. token \in TokenIDs /\ etx \in Exit
    BY <1>3, ConstantsAssumption DEF DepositExit, TypeOK, Exit, Blk
  <2>2. AddExitToQueue(token, d, etx)
    BY <1>3 DEF DepositExit
  <2> HIDE DEF etx
  <2>3. /\ exits' \in [TokenIDs -> Exit]
        /\ exitsQueue' \subseteq Entry /\ IsFiniteSet(exitsQueue')
        /\ started' \subseteq TokenIDs \X Index
    BY <2>1, <2>2, AddExitType
  <2> QED BY <1>3, <2>3 DEF TypeOK, DepositExit
<1>4. ASSUME NEW u \in Users, NEW p \in Published, NEW x \in Published,
             NEW pb \in Blk, NEW xb \in Blk, StartExit(u, p, pb, x, xb)
      PROVE  TypeOK'
  <2> DEFINE etx == [prevBlk |-> pb, exitBlk |-> xb, exitor |-> u,
                     balance |-> Balance(x), exitableTS |-> now + Period]
  <2>1. x \in PlasmaTx
    BY PublishedType
  <2>2. x.denom \in Nat /\ x.spent \in Nat /\ x.spent <= x.denom
    BY <1>4, <2>1, AmountFacts DEF PlasmaTx, StartExit, Parses
  <2>3. Balance(x) \in Nat
    BY <2>2 DEF Balance
  <2>4. x.token \in TokenIDs /\ x.dep \in Index /\ etx \in Exit
    BY <2>1, <2>3, ConstantsAssumption DEF PlasmaTx, Exit, TypeOK, Blk
  <2>5. AddExitToQueue(x.token, x.dep, etx)
    BY <1>4 DEF StartExit
  <2> HIDE DEF etx
  <2>6. /\ exits' \in [TokenIDs -> Exit]
        /\ exitsQueue' \subseteq Entry /\ IsFiniteSet(exitsQueue')
        /\ started' \subseteq TokenIDs \X Index
    BY <2>4, <2>5, AddExitType
  <2> QED BY <1>4, <2>6 DEF TypeOK, StartExit
<1>5. ASSUME NEW x \in Published, DropExit(x.token)
      PROVE  TypeOK'
  <2>1. x.token \in TokenIDs
    BY PublishedType DEF PlasmaTx
  <2> QED BY <1>5, <2>1, NoExitType DEF TypeOK, DropExit
<1>6. CASE FinalizeExits
  <2>1. Popped \subseteq TokenIDs /\ Paid \subseteq Popped
    BY PaidTokens
  <2>2. /\ paidOut' \in [TokenIDs -> Nat] /\ depositBalance' \in [TokenIDs -> Nat]
        /\ depositIndex' \in [Index -> TokenIDs \cup {NoToken}]
    BY <1>6 DEF FinalizeExits, TypeOK
  <2>3. exits' \in [TokenIDs -> Exit]
    BY <1>6, NoExitType DEF FinalizeExits, TypeOK
  <2>4. exitsQueue' \subseteq Entry /\ IsFiniteSet(exitsQueue')
    BY <1>6, FS_Difference, ZenonT(60) DEF FinalizeExits, TypeOK
  <2> QED BY <1>6, <2>2, <2>3, <2>4 DEF FinalizeExits, TypeOK
<1>7. CASE Kill
  BY <1>7, ZenonT(60) DEF Kill, TypeOK
<1>8. CASE Tick
  BY <1>8 DEF Tick, TypeOK
<1>9. CASE UNCHANGED vars
  BY <1>9 DEF vars, TypeOK
<1> QED
  BY <1>1, <1>2, <1>3, <1>4, <1>5, <1>6, <1>7, <1>8, <1>9
  DEF Next, Challenge, ChallengeBefore

LEMMA TypeInit == Init => TypeOK
  BY ConstantsAssumption, NoExitType, FS_EmptySet DEF Init, TypeOK, Blk, Index

\* Whatever blocks the operator submits, every variable keeps its type.
THEOREM TypeCorrect == Spec => []TypeOK
  BY TypeInit, TypeStep, PTL DEF Spec

-----------------------------------------------------------------------------
(* Conservation of deposits. *)

\* The inductive invariant: the books balance, and an index that
\* currentDepositIndex has not reached has taken no deposit.
Books ==
  /\ PaidOnce /\ IndexAgrees
  /\ \A t \in TokenIDs : IndexOf(t) >= currentDepositIndex => deposited[t] = 0

LEMMA BooksInit == Init => Books
<1> SUFFICES ASSUME Init PROVE Books
  OBVIOUS
<1>1. PaidOnce
  BY DEF Init, PaidOnce
<1>2. IndexAgrees
  BY DEF Init, IndexAgrees, Held
<1> QED BY <1>1, <1>2 DEF Init, Books

\* The steps that leave deposits and payouts alone leave the books alone.
LEMMA BooksUnchanged ==
  ASSUME Books, UNCHANGED <<depositVars, deposited, paidOut>>
  PROVE  Books'
  BY DEF depositVars, Books, PaidOnce, IndexAgrees, Held

LEMMA BooksDeposit ==
  ASSUME TypeOK, Books, NEW u \in Users, NEW v \in Values, Deposit(u, v)
  PROVE  Books'
<1> DEFINE cur == currentDepositIndex
           token == <<u, cur, v>>
<1>1. v % Uint64 = v
  BY TruncationExact DEF Deposit
<1>2. v \in Nat /\ v > 0 /\ v \in Amounts /\ cur \in Index /\ cur \in Nat
  BY <1>1, ConstantsAssumption DEF Deposit, Amounts, Index, TypeOK
<1>3. token \in TokenIDs /\ IndexOf(token) = cur /\ AmountOf(token) = v
  BY <1>2 DEF TokenIDs, IndexOf, AmountOf
<1>4. /\ depositBalance' = [depositBalance EXCEPT ![token] = v]
      /\ depositIndex' = [depositIndex EXCEPT ![cur] = token]
      /\ currentDepositIndex' = cur + 1
      /\ deposited' = [deposited EXCEPT ![token] = @ + v]
      /\ paidOut' = paidOut
  BY <1>1, ZenonT(60) DEF Deposit
<1>5. deposited[token] = 0 /\ depositBalance[token] = 0 /\ paidOut[token] = 0
  BY <1>2, <1>3 DEF Books, PaidOnce, TypeOK
<1>6. PaidOnce'
  <2> SUFFICES ASSUME NEW t \in TokenIDs
               PROVE  /\ deposited'[t] = depositBalance'[t] + paidOut'[t]
                      /\ deposited'[t] \in {0, AmountOf(t)}
                      /\ paidOut'[t] \in {0, AmountOf(t)}
    BY DEF PaidOnce
  <2>1. CASE t = token
    BY <1>2, <1>3, <1>4, <1>5, <2>1 DEF TypeOK
  <2>2. CASE t # token
    BY <1>4, <2>2 DEF TypeOK, Books, PaidOnce
  <2> QED BY <2>1, <2>2
<1>7. \A t \in TokenIDs : Held(t) => IndexOf(t) # cur
  BY <1>2 DEF Held, Books, PaidOnce, TypeOK
<1>8. IndexAgrees'
  <2>1. ASSUME NEW d \in Index, depositIndex'[d] # NoToken
        PROVE  IndexOf(depositIndex'[d]) = d /\ depositBalance'[depositIndex'[d]] > 0
    <3>1. CASE d = cur
      BY <1>2, <1>3, <1>4, <3>1 DEF TypeOK
    <3>2. CASE d # cur
      <4>1. depositIndex'[d] = depositIndex[d] /\ depositIndex[d] \in TokenIDs
        BY <1>4, <2>1, <3>2 DEF TypeOK
      <4>2. IndexOf(depositIndex[d]) = d /\ depositBalance[depositIndex[d]] > 0
        BY <4>1, <2>1 DEF Books, IndexAgrees, Held
      <4>3. depositIndex[d] # token
        BY <4>2, <1>3, <3>2
      <4> QED BY <1>4, <4>1, <4>2, <4>3 DEF TypeOK
    <3> QED BY <3>1, <3>2
  <2>2. ASSUME NEW t \in TokenIDs, depositBalance'[t] > 0
        PROVE  depositIndex'[IndexOf(t)] = t
    <3>1. CASE t = token
      BY <1>2, <1>3, <1>4, <3>1 DEF TypeOK
    <3>2. CASE t # token
      <4>1. Held(t)
        BY <1>4, <2>2, <3>2 DEF Held, TypeOK
      <4>2. depositIndex[IndexOf(t)] = t /\ IndexOf(t) # cur /\ IndexOf(t) \in Index
        BY <4>1, <1>7, TokenShape DEF Books, IndexAgrees, IndexOf
      <4> QED BY <1>4, <4>2 DEF TypeOK
    <3> QED BY <3>1, <3>2
  <2> QED BY <2>1, <2>2 DEF IndexAgrees, Held
<1>9. \A t \in TokenIDs : IndexOf(t) >= currentDepositIndex' => deposited'[t] = 0
  <2> TAKE t \in TokenIDs
  <2> HAVE IndexOf(t) >= currentDepositIndex'
  <2>1. IndexOf(t) \in Nat
    BY TokenShape, ConstantsAssumption DEF Index, IndexOf
  <2>2. t # token /\ IndexOf(t) >= cur
    BY <1>2, <1>3, <1>4, <2>1
  <2> QED BY <1>4, <2>2 DEF Books, TypeOK
<1> QED BY <1>6, <1>8, <1>9 DEF Books

LEMMA BooksFinalize ==
  ASSUME TypeOK, Books, FinalizeExits
  PROVE  Books'
<1>1. Popped \subseteq TokenIDs /\ Paid \subseteq Popped
  BY PaidTokens
<1>2. \A t \in Paid : Held(t)
  <2> TAKE t \in Paid
  <2>1. PICK e \in Due : t = depositIndex[e.dep] /\ t # NoToken
    BY DEF Paid, Popped
  <2>2. e.dep \in Index
    BY DEF Due, TypeOK, Entry
  <2> QED BY <2>1, <2>2 DEF Books, IndexAgrees
<1>3. \A t \in TokenIDs :
        /\ paidOut'[t] = IF t \in Paid THEN paidOut[t] + depositBalance[t] ELSE paidOut[t]
        /\ depositBalance'[t] = IF t \in Paid THEN 0 ELSE depositBalance[t]
        /\ deposited'[t] = deposited[t]
  BY DEF FinalizeExits
<1>4. \A d \in Index : depositIndex'[d] =
        IF depositIndex[d] \in Paid THEN NoToken ELSE depositIndex[d]
  BY DEF FinalizeExits
<1>5. PaidOnce'
  <2> SUFFICES ASSUME NEW t \in TokenIDs
               PROVE  /\ deposited'[t] = depositBalance'[t] + paidOut'[t]
                      /\ deposited'[t] \in {0, AmountOf(t)}
                      /\ paidOut'[t] \in {0, AmountOf(t)}
    BY DEF PaidOnce
  <2>1. AmountOf(t) \in Nat
    BY TokenShape, AmountFacts DEF AmountOf
  <2>2. CASE t \in Paid
    BY <1>2, <1>3, <2>1, <2>2 DEF TypeOK, Books, PaidOnce, Held
  <2>3. CASE t \notin Paid
    BY <1>3, <2>3 DEF TypeOK, Books, PaidOnce
  <2> QED BY <2>2, <2>3
<1>6. IndexAgrees'
  <2>1. ASSUME NEW d \in Index, depositIndex'[d] # NoToken
        PROVE  IndexOf(depositIndex'[d]) = d /\ depositBalance'[depositIndex'[d]] > 0
    BY <1>3, <1>4, <2>1 DEF TypeOK, Books, IndexAgrees, Held
  <2>2. ASSUME NEW t \in TokenIDs, depositBalance'[t] > 0
        PROVE  depositIndex'[IndexOf(t)] = t
    <3>1. IndexOf(t) \in Index
      BY TokenShape DEF IndexOf
    <3> QED BY <1>3, <1>4, <2>2, <3>1 DEF TypeOK, Books, IndexAgrees, Held
  <2> QED BY <2>1, <2>2 DEF IndexAgrees, Held
<1> QED BY <1>3, <1>5, <1>6 DEF Books, FinalizeExits

LEMMA BooksStep ==
  ASSUME TypeOK, Books, [Next]_vars
  PROVE  Books'
<1>1. ASSUME NEW u \in Users, NEW v \in Values, Deposit(u, v)
      PROVE  Books'
  BY <1>1, BooksDeposit
<1>2. CASE FinalizeExits
  BY <1>2, BooksFinalize
<1>3. ASSUME NEW b \in Blk, NEW root \in Roots[b], SubmitBlock(root, b)
      PROVE  Books'
  BY <1>3, BooksUnchanged DEF SubmitBlock, history
<1>4. ASSUME NEW u \in Users, NEW d \in Index, DepositExit(u, d)
      PROVE  Books'
  BY <1>4, BooksUnchanged DEF DepositExit
<1>5. ASSUME NEW u \in Users, NEW p \in Published, NEW x \in Published,
             NEW pb \in Blk, NEW xb \in Blk, StartExit(u, p, pb, x, xb)
      PROVE  Books'
  BY <1>5, BooksUnchanged DEF StartExit
<1>6. ASSUME NEW x \in Published, DropExit(x.token)
      PROVE  Books'
  BY <1>6, BooksUnchanged DEF DropExit
<1>7. CASE Kill \/ Tick \/ UNCHANGED vars
  BY <1>7, BooksUnchanged DEF Kill, Tick, vars, history
<1> QED
  BY <1>1, <1>2, <1>3, <1>4, <1>5, <1>6, <1>7
  DEF Next, Challenge, ChallengeBefore

LEMMA BooksInvariant == Spec => [](TypeOK /\ Books)
<1>1. TypeOK /\ Books /\ [Next]_vars => (TypeOK /\ Books)'
  BY TypeStep, BooksStep
<1> QED BY <1>1, TypeInit, BooksInit, PTL DEF Spec

\* Whatever blocks are published and whoever exits or challenges: what
\* deposit took for a token is held or was paid out once, in full.
THEOREM DepositsConserved == Spec => []PaidOnce
<1>1. Books => PaidOnce
  BY DEF Books
<1> QED BY <1>1, BooksInvariant, PTL

\* And money held is reachable through the token's own deposit index, where
\* finalizeExits looks for it; an index names no token that is not held.
THEOREM IndexesAgree == Spec => []IndexAgrees
<1>1. Books => IndexAgrees
  BY DEF Books
<1> QED BY <1>1, BooksInvariant, PTL
=============================================================================
