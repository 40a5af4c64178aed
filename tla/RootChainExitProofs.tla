------------------------ MODULE RootChainExitProofs -------------------------
(***************************************************************************)
(* What the record of an exit says of its origin, how long an exit waits,  *)
(* and that an owner who has spent a token cannot keep an exit of it.      *)
(***************************************************************************)
EXTENDS RootChainQueueProofs, WellFoundedInduction

\* Time for the larger steps.
USE SMTT(60), ZenonT(60)

LEMMA MarkedStep ==
  ASSUME TypeOK, DepositExitMarked, [Next]_vars
  PROVE  DepositExitMarked'
<1> USE DEF DepositExitMarked, Pending
<1>1. ASSUME NEW b \in Blk, NEW root \in Roots[b], SubmitBlock(root, b)
      PROVE  DepositExitMarked'
  BY <1>1, ZenonT(60) DEF SubmitBlock, exitVars
<1>2. ASSUME NEW u \in Users, NEW d \in Index, DepositExit(u, d)
      PROVE  DepositExitMarked'
  <2> DEFINE token == depositIndex[d]
  <2>1. token \in TokenIDs /\ token[1] = u /\ AmountOf(token) = depositBalance[token]
    BY <1>2 DEF DepositExit, TypeOK, AmountOf
  <2> QED BY <1>2, <2>1 DEF DepositExit, AddExitToQueue, chainVars, TypeOK
<1>3. ASSUME NEW u \in Users, NEW p \in Published, NEW x \in Published,
             NEW pb \in Blk, NEW xb \in Blk, StartExit(u, p, pb, x, xb)
      PROVE  DepositExitMarked'
  <2> DEFINE etx == [prevBlk |-> pb, exitBlk |-> xb, exitor |-> u,
                     balance |-> Balance(x), exitableTS |-> now + Period]
  <2>1. x \in PlasmaTx /\ x.token \in TokenIDs
    BY PublishedType DEF PlasmaTx
  <2>2. x.denom \in Nat /\ x.spent \in Nat
    BY <2>1, AmountFacts DEF PlasmaTx
  <2>3. pb = x.prevBlk /\ x.recipient = u /\ VerifyTx(x)
    BY <1>3, ZenonT(60) DEF StartExit
  <2>4. pb = 0 => x.token[1] = u /\ Balance(x) <= AmountOf(x.token)
    BY <2>2, <2>3 DEF VerifyTx, Balance, AmountOf
  <2>5. exits' = [exits EXCEPT ![x.token] = etx]
    BY <1>3, ZenonT(60) DEF StartExit, AddExitToQueue
  <2> QED BY <2>1, <2>4, <2>5 DEF TypeOK
<1>4. ASSUME NEW x \in Published, DropExit(x.token)
      PROVE  DepositExitMarked'
  <2>1. childChain' = childChain /\ exits' = [exits EXCEPT ![x.token] = NoExit]
    BY <1>4 DEF DropExit, chainVars
  <2>2. \A t \in TokenIDs : exits'[t] = exits[t] \/ exits'[t].exitableTS = 0
    BY <2>1 DEF NoExit, TypeOK
  <2> QED BY <2>1, <2>2
<1>5. CASE FinalizeExits
  <2>1. \A t \in TokenIDs : exits'[t] = exits[t] \/ exits'[t].exitableTS = 0
    BY <1>5 DEF FinalizeExits, NoExit
  <2> QED BY <1>5, <2>1 DEF FinalizeExits, chainVars
<1>6. ASSUME NEW u \in Users, NEW v \in Values, Deposit(u, v)
      PROVE  DepositExitMarked'
  BY <1>6 DEF Deposit, chainVars, exitVars
<1>7. CASE Kill \/ Tick \/ UNCHANGED vars
  BY <1>7 DEF Kill, Tick, vars, chainVars, exitVars
<1> QED
  BY <1>1, <1>2, <1>3, <1>4, <1>5, <1>6, <1>7 DEF Next, Challenge, ChallengeBefore

\* An exit record with prevBlk 0 is the depositor's, made by depositExit or, if
\* a block 0 is published, from a transaction that verifyTx accepts only as a
\* deposit.
THEOREM DepositExitsMarked == Spec => []DepositExitMarked
<1>1. Init => DepositExitMarked
  BY DEF Init, DepositExitMarked, Pending, NoExit
<1>2. TypeOK /\ DepositExitMarked /\ [Next]_vars => (TypeOK /\ DepositExitMarked)'
  BY TypeStep, MarkedStep
<1> QED BY <1>1, <1>2, TypeInit, PTL DEF Spec
-----------------------------------------------------------------------------
(* The challenge period. *)

LEMMA OnlyFinalizePays ==
  ASSUME Next, paidOut' # paidOut
  PROVE  FinalizeExits
<1> USE DEF history
<1>1. \A b, root : SubmitBlock(root, b) => paidOut' = paidOut
  BY DEF SubmitBlock
<1>2. \A u, v : Deposit(u, v) => paidOut' = paidOut
  BY DEF Deposit
<1>3. \A u, d : DepositExit(u, d) => paidOut' = paidOut
  BY DEF DepositExit
<1>4. \A u, p, pb, x, xb : StartExit(u, p, pb, x, xb) => paidOut' = paidOut
  BY DEF StartExit
<1>5. \A t : DropExit(t) => paidOut' = paidOut
  BY DEF DropExit
<1>6. Kill \/ Tick => paidOut' = paidOut
  BY DEF Kill, Tick
<1> QED
  BY <1>1, <1>2, <1>3, <1>4, <1>5, <1>6 DEF Next, Challenge, ChallengeBefore

\* Whatever is published, a token is paid only after the whole challenge period
\* of its exit, unless an exit of it was challenged or another token's exit was
\* queued under its index.
THEOREM UnchallengedWaitFullPeriod == Spec => FullPeriod
<1> DEFINE Late == \A t \in TokenIDs :
                     paidOut'[t] # paidOut[t] /\ t \notin challenged /\ Unshared(t) =>
                       exits[t].exitableTS < now
<1>1. TypeOK /\ Books /\ EntryInv /\ [Next]_vars => [Late]_vars
  <2> SUFFICES ASSUME TypeOK, Books, EntryInv, Next, NEW t \in TokenIDs,
                      paidOut'[t] # paidOut[t], t \notin challenged, Unshared(t)
               PROVE  exits[t].exitableTS < now
    OBVIOUS
  <2>1. FinalizeExits
    BY OnlyFinalizePays
  <2>2. t \in Paid
    BY <2>1 DEF FinalizeExits
  <2>3. PICK e \in Due : t = depositIndex[e.dep]
    BY <2>2 DEF Paid, Popped
  <2>4. e \in exitsQueue /\ e.ts < now /\ e.dep \in Index
    BY DEF Due, TypeOK, Entry
  <2>5. IndexOf(t) = e.dep /\ Held(t)
    BY <2>3, <2>4, ConstantsAssumption DEF Books, IndexAgrees
  <2>6. e.ts = exits[t].exitableTS
    BY <2>4, <2>5 DEF EntryInv, Live
  <2> QED BY <2>4, <2>6
<1>2. Spec => [][Late]_vars
  BY <1>1, EntryInvariant, PTL DEF Spec
<1> QED BY <1>2 DEF FullPeriod

-----------------------------------------------------------------------------
(* Challenges.  Founded adds to the exits what NonOwnerChallengeable needs   *)
(* of their origin: the record of depositExit, or that of a published        *)
(* transaction.                                                              *)

Moves(t, n) == {tx \in UNION Roots[n] : tx.token = t}
In(t, n)    == \E tx \in childChain[n] : tx.token = t

FromBlock(chain, t, etx) ==
  /\ etx.prevBlk > 0 /\ etx.exitBlk \in 1 .. MaxBlk /\ etx.prevBlk < etx.exitBlk
  /\ \E x \in chain[etx.exitBlk] : x.token = t /\ x.recipient = etx.exitor

FromDeposit(t, etx) == etx.prevBlk = 0 /\ etx.exitBlk = 1 /\ etx.exitor = t[1]

BlocksKept(chain) == \A n \in Blk : chain[n] = {} \/ (n > 0 /\ chain[n] \in Roots[n])

Founded ==
  /\ BlocksKept(childChain)
  /\ \A t \in TokenIDs :
       Pending(t) => FromDeposit(t, exits[t]) \/ FromBlock(childChain, t, exits[t])

\* Every non-empty set of numbers has a least element.
LEMMA LeastNumber ==
  ASSUME NEW S \in SUBSET Nat, S # {}
  PROVE  \E n \in S : \A m \in S : n <= m
<1>1. PICK n \in S : \A m \in S : ~ (<<m, n>> \in OpToRel(<, Nat))
  BY NatLessThanWellFounded, WFMin
<1>2. \A m \in S : ~ (m < n)
  BY <1>1, ZenonT(60) DEF OpToRel
<1> QED BY <1>2

\* What the checks of the operator say of one transaction.
LEMMA CheckedFacts ==
  ASSUME CheckedRoots(Roots), NEW n \in 1 .. MaxBlk, NEW tx \in UNION Roots[n]
  PROVE  /\ tx \in PlasmaTx
         /\ Moves(tx.token, n) = {tx}
         /\ Parses(tx) /\ VerifyTx(tx)
         /\ tx.prevBlk \in Nat /\ tx.prevBlk < n
         /\ \A k \in tx.prevBlk + 1 .. n - 1 : Moves(tx.token, k) = {}
         /\ tx.prevBlk > 0 =>
              \E ty \in Moves(tx.token, tx.prevBlk) : ty.recipient = tx.prevOwner
<1>1. n \in Blk
  BY ConstantsAssumption DEF Blk
<1>2. tx \in PlasmaTx
  BY <1>1, ConstantsAssumption
<1>3. tx.prevBlk \in Nat
  BY <1>2, ConstantsAssumption DEF PlasmaTx, Blk
<1> QED BY <1>1, <1>2, <1>3 DEF CheckedRoots, Moves

\* A published block is the only one the operator has for its number.
LEMMA OneBlock ==
  ASSUME CheckedRoots(Roots), BlocksKept(childChain),
         NEW n \in 1 .. MaxBlk, childChain[n] # {}
  PROVE  childChain[n] = UNION Roots[n]
<1>1. childChain[n] \in Roots[n]
  BY DEF BlocksKept, Blk
<1>2. n \in Blk
  BY ConstantsAssumption DEF Blk
<1>3. \A r, s \in Roots[n] : r = s
  BY <1>2, ZenonT(60) DEF CheckedRoots
<1> QED BY <1>1, <1>3, ZenonT(60)

\* No transaction can precede block 0, so a checked block 0 is empty.
LEMMA NoBlockZero ==
  ASSUME CheckedRoots(Roots), NEW root \in Roots[0]
  PROVE  root = {}
<1>1. 0 \in Blk
  BY ConstantsAssumption DEF Blk
<1>2. \A tx \in root : tx.prevBlk < 0
  BY <1>1, ZenonT(60) DEF CheckedRoots
<1>3. \A tx \in root : tx \in PlasmaTx
  BY <1>1, ConstantsAssumption
<1>4. \A tx \in root : tx.prevBlk \in Nat
  BY <1>3, ConstantsAssumption DEF PlasmaTx, Blk
<1> QED BY <1>2, <1>4

LEMMA FoundedStep ==
  ASSUME CheckedRoots(Roots), TypeOK, Founded, [Next]_vars
  PROVE  Founded'
<1> USE DEF Founded, Pending
<1>1. ASSUME NEW b \in Blk, NEW root \in Roots[b], SubmitBlock(root, b)
      PROVE  Founded'
  <2>1. /\ childChain' = [childChain EXCEPT ![b] = root]
        /\ exits' = exits
    BY <1>1, ZenonT(60) DEF SubmitBlock, exitVars
  <2>2. b = 0 => root = {}
    BY NoBlockZero, ZenonT(60)
  <2>3. BlocksKept(childChain')
    BY <2>1, <2>2 DEF BlocksKept, TypeOK, Blk
  <2>4. childChain[b] = {} \/ childChain[b] = root
    <3>1. \A r, s \in Roots[b] : r = s
      BY ZenonT(60) DEF CheckedRoots
    <3>2. childChain[b] = {} \/ childChain[b] \in Roots[b]
      BY DEF BlocksKept
    <3> QED BY <3>1, <3>2, ZenonT(60)
  <2>5. ASSUME NEW t \in TokenIDs, FromBlock(childChain, t, exits[t])
        PROVE  FromBlock(childChain', t, exits[t])
    BY <2>1, <2>4, <2>5 DEF FromBlock, TypeOK, Blk
  <2> QED BY <2>1, <2>3, <2>5, ZenonT(60)
<1>2. ASSUME NEW u \in Users, NEW d \in Index, DepositExit(u, d)
      PROVE  Founded'
  <2> DEFINE token == depositIndex[d]
  <2>1. token \in TokenIDs /\ token[1] = u
    BY <1>2 DEF DepositExit, TypeOK
  <2> QED BY <1>2, <2>1 DEF DepositExit, AddExitToQueue, chainVars, TypeOK, FromDeposit
<1>3. ASSUME NEW u \in Users, NEW p \in Published, NEW x \in Published,
             NEW pb \in Blk, NEW xb \in Blk, StartExit(u, p, pb, x, xb)
      PROVE  Founded'
  <2> DEFINE etx == [prevBlk |-> pb, exitBlk |-> xb, exitor |-> u,
                     balance |-> Balance(x), exitableTS |-> now + Period]
  <2>1. x.token \in TokenIDs
    BY PublishedType, ZenonT(60) DEF PlasmaTx
  <2>2. /\ childChain' = childChain
        /\ exits' = [exits EXCEPT ![x.token] = etx]
        /\ p \in childChain[pb] /\ x \in childChain[xb]
        /\ pb < xb /\ x.recipient = u
    BY <1>3, ZenonT(60) DEF StartExit, AddExitToQueue, chainVars, CheckMembership
  <2>3. pb > 0
    BY <2>2, ZenonT(60) DEF BlocksKept
  <2>4. FromBlock(childChain, x.token, etx)
    BY <2>2, <2>3, ConstantsAssumption DEF FromBlock, Blk
  <2> HIDE DEF etx
  <2> QED BY <2>1, <2>2, <2>4 DEF TypeOK
<1>4. ASSUME NEW x \in Published, DropExit(x.token)
      PROVE  Founded'
  <2>1. childChain' = childChain /\ exits' = [exits EXCEPT ![x.token] = NoExit]
    BY <1>4 DEF DropExit, chainVars
  <2>2. \A t \in TokenIDs : exits'[t] = exits[t] \/ exits'[t].exitableTS = 0
    BY <2>1 DEF NoExit, TypeOK
  <2> QED BY <2>1, <2>2
<1>5. CASE FinalizeExits
  <2>1. \A t \in TokenIDs : exits'[t] = exits[t] \/ exits'[t].exitableTS = 0
    BY <1>5 DEF FinalizeExits, NoExit
  <2> QED BY <1>5, <2>1 DEF FinalizeExits, chainVars
<1>6. ASSUME NEW u \in Users, NEW v \in Values, Deposit(u, v)
      PROVE  Founded'
  BY <1>6 DEF Deposit, chainVars, exitVars
<1>7. CASE Kill \/ Tick \/ UNCHANGED vars
  BY <1>7 DEF Kill, Tick, vars, chainVars, exitVars
<1> QED
  BY <1>1, <1>2, <1>3, <1>4, <1>5, <1>6, <1>7 DEF Next, Challenge, ChallengeBefore

\* A token that is in a published block is in every block that has it before.
LEMMA Backwards ==
  ASSUME CheckedRoots(Roots), BlocksKept(childChain), NoGap, NEW t,
         NEW n \in 1 .. MaxBlk, NEW k \in 1 .. n, childChain[n] # {}, Moves(t, k) # {}
  PROVE  In(t, k)
<1>1. k \in 1 .. MaxBlk /\ n \in k .. MaxBlk
  BY ConstantsAssumption
<1>2. childChain[k] # {}
  BY <1>1 DEF NoGap
<1>3. childChain[k] = UNION Roots[k]
  BY <1>1, <1>2, OneBlock, ZenonT(60)
<1> QED BY <1>3 DEF In, Moves

\* The first transaction after block n that moves a token spends the one in n.
LEMMA NextMove ==
  ASSUME CheckedRoots(Roots), BlocksKept(childChain), NoGap, NEW t,
         NEW n \in 1 .. MaxBlk, NEW y \in childChain[n], y.token = t,
         NEW m \in n + 1 .. MaxBlk, In(t, m)
  PROVE  \E k \in n + 1 .. MaxBlk : \E x \in childChain[k] :
           x.token = t /\ x.prevBlk = n /\ x.prevOwner = y.recipient
<1> DEFINE S == {k \in n + 1 .. MaxBlk : In(t, k)}
<1>1. PICK k \in S : \A j \in S : k <= j
  <2>1. S \in SUBSET Nat /\ m \in S
    BY ConstantsAssumption
  <2> HIDE DEF S
  <2> QED BY <2>1, LeastNumber
<1>2. k \in n + 1 .. MaxBlk /\ k \in 1 .. MaxBlk /\ k \in Nat /\ n < k /\ n \in Nat
  BY ConstantsAssumption
<1>3. PICK x \in childChain[k] : x.token = t
  BY DEF In
<1>4. childChain[k] = UNION Roots[k] /\ childChain[n] = UNION Roots[n]
  BY <1>2, <1>3, OneBlock, ZenonT(60)
<1>5. /\ x.prevBlk \in Nat /\ x.prevBlk < k
      /\ \A j \in x.prevBlk + 1 .. k - 1 : Moves(t, j) = {}
      /\ x.prevBlk > 0 => \E ty \in Moves(t, x.prevBlk) : ty.recipient = x.prevOwner
  BY <1>2, <1>3, <1>4, CheckedFacts, ZenonT(60)
<1>6. Moves(t, n) = {y}
  BY <1>4, CheckedFacts, ZenonT(60)
<1>7. ~ (x.prevBlk < n)
  <2> SUFFICES ASSUME x.prevBlk < n PROVE FALSE
    OBVIOUS
  <2>1. n \in x.prevBlk + 1 .. k - 1
    BY <1>2, <1>5
  <2> QED BY <2>1, <1>5, <1>6
<1>8. ~ (x.prevBlk > n)
  <2> SUFFICES ASSUME x.prevBlk > n PROVE FALSE
    OBVIOUS
  <2>1. /\ x.prevBlk \in 1 .. k /\ x.prevBlk \in n + 1 .. MaxBlk
        /\ Moves(t, x.prevBlk) # {}
    BY <1>2, <1>5, ConstantsAssumption
  <2>2. In(t, x.prevBlk)
    BY <1>2, <1>3, <2>1, Backwards, ZenonT(60)
  <2> QED BY <2>1, <2>2, <1>1, <1>2, <1>5
<1>9. x.prevBlk = n
  BY <1>2, <1>5, <1>7, <1>8
<1> QED BY <1>2, <1>3, <1>5, <1>6, <1>9

\* The owner of a token that was published is the recipient of its last
\* transaction.
LEMMA LastOwner ==
  ASSUME CheckedRoots(Roots), BlocksKept(childChain), NEW t, \E n \in Blk : In(t, n)
  PROVE  \E m \in 1 .. MaxBlk : \E x \in childChain[m] :
           /\ x.token = t /\ OwnerOf(t) = x.recipient
           /\ \A c \in Blk : In(t, c) => c <= m
<1> DEFINE S    == {MaxBlk - n : n \in {c \in Blk : In(t, c)}}
           Last(b) == In(t, b) /\ \A c \in Blk : In(t, c) => c <= b
           last == CHOOSE b \in Blk : Last(b)
           tx   == CHOOSE y \in childChain[last] : y.token = t
<1>1. \E b \in Blk : Last(b)
  <2>1. S \in SUBSET Nat /\ S # {}
    BY ConstantsAssumption DEF Blk
  <2>2. PICK s \in S : \A r \in S : s <= r
    <3> HIDE DEF S
    <3> QED BY <2>1, LeastNumber
  <2>3. PICK b \in {c \in Blk : In(t, c)} : s = MaxBlk - b
    OBVIOUS
  <2>4. \A c \in Blk : In(t, c) => MaxBlk - b <= MaxBlk - c
    BY <2>2, <2>3
  <2>5. \A c \in Blk : In(t, c) => c <= b
    BY <2>3, <2>4, ConstantsAssumption DEF Blk
  <2> QED BY <2>3, <2>5
<1>2. last \in Blk /\ Last(last)
  <2> HIDE DEF Last
  <2> QED BY <1>1
<1>3. tx \in childChain[last] /\ tx.token = t
  BY <1>2, ZenonT(60) DEF In
<1>4. OwnerOf(t) = tx.recipient
  BY DEF OwnerOf, In
<1>5. last \in 1 .. MaxBlk
  BY <1>2, <1>3, ConstantsAssumption DEF BlocksKept, Blk
<1> HIDE DEF last, tx
<1> QED BY <1>2, <1>3, <1>4, <1>5

\* A transaction of a token is the deposit of the depositor, or one before it
\* is published too: the first one is the deposit.
LEMMA FirstMove ==
  ASSUME CheckedRoots(Roots), BlocksKept(childChain), NoGap, NEW t \in TokenIDs,
         \E n \in Blk : In(t, n)
  PROVE  \E n \in 1 .. MaxBlk : \E y \in childChain[n] :
           y.token = t /\ y.recipient = t[1]
<1> DEFINE S == {n \in 1 .. MaxBlk : In(t, n)}
<1>1. S \in SUBSET Nat /\ S # {}
  BY ConstantsAssumption DEF BlocksKept, In, Blk
<1>2. PICK n \in S : \A m \in S : n <= m
  <2> HIDE DEF S
  <2> QED BY <1>1, LeastNumber
<1>3. n \in 1 .. MaxBlk /\ n \in Nat /\ n <= MaxBlk
  BY ConstantsAssumption
<1>4. PICK y \in childChain[n] : y.token = t
  BY DEF In
<1>5. childChain[n] = UNION Roots[n]
  BY <1>3, <1>4, OneBlock, ZenonT(60)
<1>6. /\ VerifyTx(y) /\ y.prevBlk \in Nat /\ y.prevBlk < n
      /\ y.prevBlk > 0 => Moves(t, y.prevBlk) # {}
  BY <1>3, <1>4, <1>5, CheckedFacts
<1>7. y.prevBlk = 0
  <2> SUFFICES ASSUME y.prevBlk > 0 PROVE FALSE
    BY <1>6
  <2>1. y.prevBlk \in 1 .. n /\ y.prevBlk \in 1 .. MaxBlk
    BY <1>3, <1>6, ConstantsAssumption
  <2>2. In(t, y.prevBlk)
    BY <1>3, <1>4, <1>6, <2>1, Backwards
  <2> QED BY <1>2, <1>3, <1>6, <2>1, <2>2
<1>8. y.recipient = t[1]
  BY <1>4, <1>6, <1>7 DEF VerifyTx
<1> QED BY <1>3, <1>4, <1>8

LEMMA Challengeable ==
  ASSUME CheckedRoots(Roots), TypeOK, Founded, NEW t \in TokenIDs,
         alive, Pending(t), NoGap, exits[t].exitor # OwnerOf(t)
  PROVE  \E x \in Published, b \in Blk :
           /\ x.token = t /\ b > exits[t].prevBlk /\ b # exits[t].exitBlk
           /\ CanChallenge(x, b)
<1> DEFINE etx == exits[t]
<1>1. BlocksKept(childChain) /\ (FromDeposit(t, etx) \/ FromBlock(childChain, t, etx))
  BY DEF Founded
<1>2. etx \in Exit /\ etx.prevBlk \in Nat
  BY ConstantsAssumption DEF TypeOK, Exit, Blk
<1>3. \E b \in Blk : In(t, b)
  <2>1. CASE FromDeposit(t, etx)
    BY <2>1 DEF FromDeposit, OwnerOf, In
  <2>2. CASE FromBlock(childChain, t, etx)
    BY <2>2, ConstantsAssumption DEF FromBlock, In, Blk
  <2> QED BY <1>1, <2>1, <2>2, ZenonT(60)
\* The transaction the exit rests on is spent later.
<1>4. PICK n \in 1 .. MaxBlk : \E y \in childChain[n] :
        /\ y.token = t /\ y.recipient = etx.exitor
        /\ etx.prevBlk > 0 => n = etx.exitBlk
        /\ etx.prevBlk = 0 => etx.exitBlk = 1
        /\ etx.prevBlk < n
  <2>1. CASE FromDeposit(t, etx)
    BY <1>1, <1>3, <2>1, FirstMove DEF FromDeposit
  <2>2. CASE FromBlock(childChain, t, etx)
    BY <2>2 DEF FromBlock
  <2> QED BY <1>1, <2>1, <2>2
<1>5. PICK y \in childChain[n] :
        /\ y.token = t /\ y.recipient = etx.exitor
        /\ etx.prevBlk > 0 => n = etx.exitBlk
        /\ etx.prevBlk = 0 => etx.exitBlk = 1
        /\ etx.prevBlk < n
  BY <1>4
<1>6. PICK m \in 1 .. MaxBlk : \E x \in childChain[m] :
        /\ x.token = t /\ OwnerOf(t) = x.recipient
        /\ \A c \in Blk : In(t, c) => c <= m
  BY <1>1, <1>3, LastOwner
<1>7. n \in Nat /\ n \in Blk /\ In(t, n) /\ In(t, m) /\ n <= m
  BY <1>5, <1>6, ConstantsAssumption DEF In, Blk
<1>8. n # m
  <2>1. childChain[n] = UNION Roots[n]
    BY <1>1, <1>5, OneBlock, ZenonT(60)
  <2>2. \A x \in childChain[n] : x.token = t => x = y
    BY <1>5, <2>1, CheckedFacts DEF Moves
  <2> QED BY <1>5, <1>6, <2>2
<1>9. m \in n + 1 .. MaxBlk
  BY <1>7, <1>8
<1>10. PICK k \in n + 1 .. MaxBlk : \E x \in childChain[k] :
         x.token = t /\ x.prevBlk = n /\ x.prevOwner = y.recipient
  BY <1>1, <1>5, <1>7, <1>9, NextMove
<1>11. PICK x \in childChain[k] :
         x.token = t /\ x.prevBlk = n /\ x.prevOwner = y.recipient
  BY <1>10
<1>12. k \in 1 .. MaxBlk /\ k \in Blk /\ k > n /\ k > 1
  BY <1>7, ConstantsAssumption DEF Blk
<1>13. Parses(x) /\ VerifyTx(x)
  <2>1. x \in UNION Roots[k]
    BY <1>1, <1>11, <1>12, OneBlock, ZenonT(60)
  <2> QED BY <1>12, <2>1, CheckedFacts
<1>14. ChallengeCond(x, k, etx) /\ k > etx.prevBlk /\ k # etx.exitBlk
  BY <1>2, <1>5, <1>7, <1>11, <1>12 DEF ChallengeCond
<1>15. CanChallenge(x, k)
  BY <1>11, <1>13, <1>14 DEF CanChallenge, CheckMembership, Pending
<1> QED BY <1>11, <1>12, <1>14, <1>15 DEF Published

\* If the operator applies every check and leaves no gap, an exit by anybody
\* but the owner the published chain names can be challenged with a spend
\* after the transaction the exit rests on, however often the token moved.
THEOREM NonOwnersChallengeable ==
  ASSUME CheckedRoots(Roots)
  PROVE  Spec => []NonOwnerChallengeable
<1>1. Init => Founded
  <2> SUFFICES ASSUME Init PROVE Founded
    OBVIOUS
  <2>1. BlocksKept(childChain)
    <3>1. childChain = [b \in Blk |-> {}]
      BY DEF Init
    <3>2. \A n \in Blk : childChain[n] = {}
      BY <3>1
    <3> QED BY <3>2 DEF BlocksKept
  <2>2. \A t \in TokenIDs : exits[t].exitableTS = 0
    BY DEF Init, NoExit
  <2> QED BY <2>1, <2>2 DEF Founded, Pending
<1>2. TypeOK /\ Founded /\ [Next]_vars => (TypeOK /\ Founded)'
  BY TypeStep, FoundedStep
<1>3. TypeOK /\ Founded => NonOwnerChallengeable
  BY Challengeable DEF NonOwnerChallengeable
<1> QED BY <1>1, <1>2, <1>3, TypeInit, PTL DEF Spec
=============================================================================
