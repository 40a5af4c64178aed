------------------------ MODULE RootChainQueueProofs ------------------------
(***************************************************************************)
(* The exit queue and the pending exits.  EntryInv, with TypeOK and Books, *)
(* is inductive whatever the operator publishes; QueueInv needs that a     *)
(* transaction is published after its token's deposit.                     *)
(***************************************************************************)
EXTENDS RootChainProofs

\* Time for the larger steps.
USE SMTT(60), ZenonT(60)

\* A token whose index may still be looked up by finalizeExits.
Live(t) == Held(t) \/ IndexOf(t) >= currentDepositIndex

\* An exit names an exitor.  Until an exit of a token is challenged or another
\* token's exit is queued under its index, every entry under the index is that
\* of the token's pending exit.
EntryInv ==
  /\ \A t \in TokenIDs : Pending(t) => exits[t].exitor # Nobody
  /\ \A t \in TokenIDs : t \notin challenged /\ Unshared(t) /\ Live(t) =>
       \A e \in exitsQueue : e.dep = IndexOf(t) =>
         Pending(t) /\ e.ts = exits[t].exitableTS

\* Published transactions and pending exits are of deposited tokens.
QueueInv ==
  /\ \A b \in Blk : \A tx \in childChain[b] : deposited[tx.token] > 0
  /\ \A t \in TokenIDs : Pending(t) => deposited[t] > 0
  /\ ExitQueued

LEMMA QueueInit == Init => EntryInv /\ QueueInv
<1> SUFFICES ASSUME Init PROVE EntryInv /\ QueueInv
  OBVIOUS
<1>1. \A b \in Blk : childChain[b] = {}
  BY DEF Init
<1>2. \A t \in TokenIDs : ~Pending(t)
  BY DEF Init, Pending, NoExit
<1>3. exitsQueue = {}
  BY DEF Init
<1> QED BY <1>1, <1>2, <1>3 DEF QueueInv, EntryInv, ExitQueued

\* What entering an exit changes.
LEMMA AddFacts ==
  ASSUME TypeOK, NEW t \in TokenIDs, NEW dep \in Index, NEW etx \in Exit,
         AddExitToQueue(t, dep, etx)
  PROVE  /\ \E new : /\ new.ts = etx.exitableTS /\ new.dep = dep
                     /\ exitsQueue' = exitsQueue \cup {new}
         /\ \A u \in TokenIDs : exits'[u] = IF u = t THEN etx ELSE exits[u]
         /\ ~Pending(t)
         /\ started' = started \cup {<<t, dep>>}
<1>1. \E new : /\ new.ts = etx.exitableTS /\ new.dep = dep
               /\ exitsQueue' = exitsQueue \cup {new}
  BY ZenonT(60) DEF AddExitToQueue
<1>2. \A u \in TokenIDs : exits'[u] = IF u = t THEN etx ELSE exits[u]
  BY DEF AddExitToQueue, TypeOK
<1>3. ~Pending(t)
  BY DEF AddExitToQueue, Pending
<1>4. started' = started \cup {<<t, dep>>}
  BY ZenonT(60) DEF AddExitToQueue
<1> QED BY <1>1, <1>2, <1>3, <1>4

LEMMA EntryAdd ==
  ASSUME TypeOK, EntryInv, NEW t \in TokenIDs, NEW dep \in Index, NEW etx \in Exit,
         etx.exitableTS > 0, etx.exitor # Nobody, AddExitToQueue(t, dep, etx),
         UNCHANGED <<depositVars, challenged>>
  PROVE  EntryInv'
<1>1. PICK new : /\ new.ts = etx.exitableTS /\ new.dep = dep
                 /\ exitsQueue' = exitsQueue \cup {new}
  BY AddFacts
<1>2. /\ \A u \in TokenIDs : exits'[u] = IF u = t THEN etx ELSE exits[u]
      /\ ~Pending(t) /\ started' = started \cup {<<t, dep>>}
  BY AddFacts
<1>3. \A u \in TokenIDs : Pending(u)' => exits'[u].exitor # Nobody
  BY <1>2 DEF EntryInv, Pending
<1>4. \A u \in TokenIDs : Live(u)' <=> Live(u)
  BY DEF Live, Held, depositVars
<1>5. ASSUME NEW u \in TokenIDs, u \notin challenged, Unshared(u)', Live(u),
             NEW e \in exitsQueue', e.dep = IndexOf(u)
      PROVE  Pending(u)' /\ e.ts = exits'[u].exitableTS
  <2>1. Unshared(u)
    BY <1>2, <1>5 DEF Unshared
  <2>2. CASE e = new
    <3>1. u = t
      BY <1>1, <1>2, <1>5, <2>2 DEF Unshared
    <3> QED BY <1>1, <1>2, <2>2, <3>1 DEF Pending
  <2>3. CASE e # new
    <3>1. Pending(u) /\ e.ts = exits[u].exitableTS
      BY <1>1, <1>5, <2>1, <2>3 DEF EntryInv
    <3> QED BY <1>2, <3>1 DEF Pending
  <2> QED BY <2>2, <2>3
<1> QED BY <1>3, <1>4, <1>5 DEF EntryInv

LEMMA QueueAdd ==
  ASSUME TypeOK, QueueInv, NEW t \in TokenIDs, NEW dep \in Index, NEW etx \in Exit,
         deposited[t] > 0, AddExitToQueue(t, dep, etx),
         UNCHANGED <<childChain, depositVars, deposited>>
  PROVE  QueueInv'
<1>1. PICK new : /\ new.ts = etx.exitableTS /\ new.dep = dep
                 /\ exitsQueue' = exitsQueue \cup {new}
  BY AddFacts
<1>2. /\ \A u \in TokenIDs : exits'[u] = IF u = t THEN etx ELSE exits[u]
      /\ started' = started \cup {<<t, dep>>}
  BY AddFacts
<1>3. ASSUME NEW u \in TokenIDs, Pending(u)', Held(u)', OwnIndex(u)'
      PROVE  \E e \in exitsQueue' :
               e.dep = IndexOf(u) /\ e.ts <= exits'[u].exitableTS
  <2>1. CASE u = t
    <3>1. dep = IndexOf(t)
      BY <1>2, <1>3, <2>1 DEF OwnIndex
    <3> QED BY <1>1, <1>2, <2>1, <3>1 DEF Exit
  <2>2. CASE u # t
    <3>1. Pending(u) /\ Held(u) /\ OwnIndex(u)
      BY <1>2, <1>3, <2>2 DEF Pending, Held, OwnIndex, depositVars
    <3> QED BY <1>1, <1>2, <2>2, <3>1 DEF QueueInv, ExitQueued
  <2> QED BY <2>1, <2>2
<1>4. \A u \in TokenIDs : Pending(u)' => deposited'[u] > 0
  BY <1>2 DEF QueueInv, Pending
<1> QED BY <1>3, <1>4 DEF QueueInv, ExitQueued

\* What a deposit changes.
LEMMA DepositFacts ==
  ASSUME TypeOK, Books, NEW u \in Users, NEW v \in Values, Deposit(u, v)
  PROVE  /\ UNCHANGED <<childChain, exits, exitsQueue, challenged, started>>
         /\ \A t \in TokenIDs : deposited[t] > 0 => deposited'[t] > 0
         /\ \A t \in TokenIDs : Held(t)' => Held(t) \/ deposited[t] = 0
         /\ \A t \in TokenIDs : Live(t)' => Live(t)
<1> DEFINE cur == currentDepositIndex
           token == <<u, cur, v>>
<1>1. v % Uint64 = v
  BY TruncationExact DEF Deposit
<1>2. v \in Nat /\ v > 0 /\ v \in Amounts /\ cur \in Index /\ cur \in Nat
  BY <1>1, ConstantsAssumption DEF Deposit, Amounts, Index, TypeOK
<1>3. token \in TokenIDs /\ IndexOf(token) = cur
  BY <1>2 DEF TokenIDs, IndexOf
<1>4. /\ depositBalance' = [depositBalance EXCEPT ![token] = v]
      /\ currentDepositIndex' = cur + 1
      /\ deposited' = [deposited EXCEPT ![token] = @ + v]
      /\ UNCHANGED <<childChain, exits, exitsQueue, challenged, started>>
  BY <1>1, ZenonT(60) DEF Deposit, chainVars, exitVars
<1>5. deposited[token] = 0
  BY <1>2, <1>3 DEF Books
<1>6. \A t \in TokenIDs : deposited[t] > 0 => deposited'[t] > 0
  BY <1>2, <1>4 DEF TypeOK
<1>7. \A t \in TokenIDs : Held(t)' => Held(t) \/ t = token
  BY <1>4 DEF Held, TypeOK
<1>8. \A t \in TokenIDs : IndexOf(t) >= cur + 1 => IndexOf(t) >= cur
  <2> TAKE t \in TokenIDs
  <2>1. IndexOf(t) \in Nat
    BY TokenShape, ConstantsAssumption DEF Index, IndexOf
  <2> QED BY <1>2, <2>1
<1>9. \A t \in TokenIDs : Live(t)' => Live(t)
  BY <1>2, <1>3, <1>4, <1>7, <1>8 DEF Live
<1> QED BY <1>4, <1>5, <1>6, <1>7, <1>9

LEMMA QueueDeposit ==
  ASSUME TypeOK, Books, NEW u \in Users, NEW v \in Values, Deposit(u, v)
  PROVE  (EntryInv => EntryInv') /\ (QueueInv => QueueInv')
<1>1. UNCHANGED <<childChain, exits, exitsQueue, challenged, started>>
  BY DepositFacts
<1>2. \A t \in TokenIDs : /\ Pending(t)' <=> Pending(t)
                          /\ Unshared(t)' <=> Unshared(t)
                          /\ OwnIndex(t)' <=> OwnIndex(t)
  BY <1>1 DEF Pending, Unshared, OwnIndex
<1>3. EntryInv => EntryInv'
  <2>1. \A t \in TokenIDs : Live(t)' => Live(t)
    BY DepositFacts
  <2> QED BY <1>1, <1>2, <2>1 DEF EntryInv
<1>4. ASSUME QueueInv PROVE QueueInv'
  <2>1. \A t \in TokenIDs : deposited[t] > 0 => deposited'[t] > 0
    BY DepositFacts
  <2>2. \A b \in Blk : \A tx \in childChain'[b] : deposited'[tx.token] > 0
    BY <1>1, <1>4, <2>1 DEF QueueInv, TypeOK, PlasmaTx
  <2>3. \A t \in TokenIDs : Pending(t)' => deposited'[t] > 0
    BY <1>2, <1>4, <2>1 DEF QueueInv
  <2>4. \A t \in TokenIDs : Held(t)' /\ Pending(t)' => Held(t)
    BY <1>2, <1>4, DepositFacts DEF QueueInv
  <2>5. ExitQueued'
    BY <1>1, <1>2, <1>4, <2>4 DEF QueueInv, ExitQueued
  <2> QED BY <2>2, <2>3, <2>5 DEF QueueInv
<1> QED BY <1>3, <1>4

LEMMA QueueFinalize ==
  ASSUME TypeOK, Books, EntryInv, FinalizeExits
  PROVE  EntryInv' /\ (QueueInv => QueueInv')
<1>1. Popped \subseteq TokenIDs /\ Paid \subseteq Popped
  BY PaidTokens
<1>2. /\ exitsQueue' = exitsQueue \ Due
      /\ UNCHANGED <<childChain, currentDepositIndex, deposited, challenged, started>>
  BY ZenonT(60) DEF FinalizeExits, chainVars
<1>3. \A t \in TokenIDs :
        /\ exits'[t] = IF t \in Popped THEN NoExit ELSE exits[t]
        /\ depositBalance'[t] = IF t \in Paid THEN 0 ELSE depositBalance[t]
  BY DEF FinalizeExits
<1>4. \A t \in TokenIDs : Pending(t)' => t \notin Popped /\ Pending(t)
  BY <1>3 DEF Pending, NoExit
<1>5. \A t \in TokenIDs : Held(t)' => t \notin Paid /\ Held(t)
  BY <1>3 DEF Held
<1>6. \A t \in TokenIDs : \A e \in Due : Held(t) /\ e.dep = IndexOf(t) => t \in Popped
  <2> TAKE t \in TokenIDs
  <2> TAKE e \in Due
  <2> HAVE Held(t) /\ e.dep = IndexOf(t)
  <2>1. depositIndex[e.dep] = t /\ t # NoToken
    BY ConstantsAssumption DEF Books, IndexAgrees
  <2> QED BY <2>1 DEF Popped
<1>7. \A t \in Popped : Held(t) /\ ~(IndexOf(t) >= currentDepositIndex)
  <2> TAKE t \in Popped
  <2>1. PICK e \in Due : t = depositIndex[e.dep] /\ t # NoToken
    BY DEF Popped
  <2>2. e.dep \in Index
    BY DEF Due, TypeOK, Entry
  <2>3. Held(t)
    BY <2>1, <2>2 DEF Books, IndexAgrees
  <2>4. deposited[t] # 0
    BY <1>1, <2>3 DEF Books, PaidOnce, TypeOK, Held
  <2> QED BY <1>1, <2>3, <2>4 DEF Books
<1>8. \A t \in TokenIDs : Unshared(t)' <=> Unshared(t)
  BY <1>2 DEF Unshared
<1>9. \A t \in TokenIDs : OwnIndex(t)' <=> OwnIndex(t)
  BY <1>2 DEF OwnIndex
<1>10. EntryInv'
  <2>1. \A t \in TokenIDs : Pending(t)' => exits'[t].exitor # Nobody
    BY <1>3, <1>4 DEF EntryInv
  <2>2. ASSUME NEW t \in TokenIDs, t \notin challenged, Unshared(t), Live(t)',
               NEW e \in exitsQueue, e \notin Due, e.dep = IndexOf(t)
        PROVE  Pending(t)' /\ e.ts = exits'[t].exitableTS
    <3>1. Live(t) /\ t \notin Paid
      BY <1>1, <1>2, <1>5, <1>7, <2>2 DEF Live
    <3>2. Pending(t) /\ e.ts = exits[t].exitableTS
      BY <2>2, <3>1 DEF EntryInv
    <3>3. t \notin Popped
      BY <3>1, <3>2 DEF Paid, EntryInv
    <3> QED BY <1>3, <3>2, <3>3 DEF Pending
  <2> QED BY <1>2, <1>8, <2>1, <2>2 DEF EntryInv
<1>11. ASSUME QueueInv PROVE QueueInv'
  <2>1. ASSUME NEW t \in TokenIDs, Pending(t)', Held(t)', OwnIndex(t)
        PROVE  \E e \in exitsQueue' :
                 e.dep = IndexOf(t) /\ e.ts <= exits'[t].exitableTS
    <3>1. Pending(t) /\ Held(t) /\ t \notin Popped
      BY <1>4, <1>5, <2>1
    <3>2. PICK e \in exitsQueue : e.dep = IndexOf(t) /\ e.ts <= exits[t].exitableTS
      BY <1>11, <2>1, <3>1 DEF QueueInv, ExitQueued
    <3> QED BY <1>2, <1>3, <1>6, <3>1, <3>2
  <2>2. ExitQueued'
    BY <1>9, <2>1 DEF ExitQueued
  <2> QED BY <1>2, <1>4, <1>11, <2>2 DEF QueueInv
<1> QED BY <1>10, <1>11

LEMMA QueueDrop ==
  ASSUME TypeOK, NEW token \in TokenIDs, DropExit(token)
  PROVE  (EntryInv => EntryInv') /\ (QueueInv => QueueInv')
<1>1. /\ UNCHANGED <<childChain, depositVars, exitsQueue, deposited, started>>
      /\ challenged' = challenged \cup {token}
  BY ZenonT(60) DEF DropExit, chainVars
<1>2. \A t \in TokenIDs : exits'[t] = IF t = token THEN NoExit ELSE exits[t]
  BY DEF DropExit, TypeOK
<1>3. \A t \in TokenIDs : Pending(t)' => t # token /\ Pending(t)
  BY <1>2 DEF Pending, NoExit
<1>4. \A t \in TokenIDs : /\ Held(t)' <=> Held(t)
                          /\ Live(t)' <=> Live(t)
                          /\ Unshared(t)' <=> Unshared(t)
                          /\ OwnIndex(t)' <=> OwnIndex(t)
  BY <1>1 DEF Held, Live, Unshared, OwnIndex, depositVars
<1>5. EntryInv => EntryInv'
  BY <1>1, <1>2, <1>3, <1>4 DEF EntryInv, Pending
<1>6. QueueInv => QueueInv'
  BY <1>1, <1>2, <1>3, <1>4 DEF QueueInv, ExitQueued
<1> QED BY <1>5, <1>6

\* The steps that touch neither deposits nor exits.
LEMMA QueueUnchanged ==
  ASSUME UNCHANGED <<depositVars, exitVars, history>>
  PROVE  /\ EntryInv => EntryInv'
         /\ ExitQueued => ExitQueued'
         /\ \A t \in TokenIDs : Pending(t)' <=> Pending(t)
<1> USE DEF depositVars, exitVars, history
<1>1. \A t \in TokenIDs : /\ Pending(t)' <=> Pending(t)
                          /\ Held(t)' <=> Held(t)
                          /\ Live(t)' <=> Live(t)
                          /\ Unshared(t)' <=> Unshared(t)
                          /\ OwnIndex(t)' <=> OwnIndex(t)
  BY DEF Pending, Held, Live, Unshared, OwnIndex
<1> QED BY <1>1 DEF EntryInv, ExitQueued

LEMMA QueueStep ==
  ASSUME TypeOK, Books, EntryInv, [Next]_vars
  PROVE  EntryInv' /\ (QueueInv /\ (AfterDeposit \/ UNCHANGED vars) => QueueInv')
<1> DEFINE Goal == EntryInv' /\ (QueueInv /\ (AfterDeposit \/ UNCHANGED vars) => QueueInv')
<1>1. ASSUME NEW b \in Blk, NEW root \in Roots[b], SubmitBlock(root, b)
      PROVE  Goal
  <2>1. UNCHANGED <<depositVars, exitVars, history>>
    BY <1>1, ZenonT(60) DEF SubmitBlock
  <2>2. deposited' = deposited
    BY <2>1 DEF history
  <2>3. UNCHANGED vars => childChain' = childChain
    BY DEF vars, chainVars
  <2>4. QueueInv /\ (AfterDeposit \/ UNCHANGED vars) => QueueInv'
    BY <2>1, <2>2, <2>3, QueueUnchanged DEF AfterDeposit, QueueInv
  <2> QED BY <2>1, <2>4, QueueUnchanged
<1>2. ASSUME NEW u \in Users, NEW v \in Values, Deposit(u, v)
      PROVE  Goal
  BY <1>2, QueueDeposit
<1>3. ASSUME NEW u \in Users, NEW d \in Index, DepositExit(u, d)
      PROVE  Goal
  <2> DEFINE token == depositIndex[d]
             etx == [prevBlk |-> 0, exitBlk |-> 1, exitor |-> u,
                     balance |-> depositBalance[token], exitableTS |-> now + Period]
  <2>1. token \in TokenIDs /\ depositBalance[token] > 0
    BY <1>3 DEF DepositExit, TypeOK
  <2>2. depositBalance[token] \in Nat /\ now + Period \in Nat \ {0}
    BY <2>1, ConstantsAssumption DEF TypeOK
  <2>3. etx \in Exit /\ etx.exitableTS > 0 /\ etx.exitor # Nobody
    BY <2>2, ConstantsAssumption DEF Exit, Blk
  <2>4. deposited[token] > 0
    BY <2>1, <2>2 DEF Books, PaidOnce, TypeOK
  <2>5. AddExitToQueue(token, d, etx)
    BY <1>3, ZenonT(60) DEF DepositExit
  <2>6. UNCHANGED <<childChain, depositVars, deposited, challenged>>
    BY <1>3, ZenonT(60) DEF DepositExit, chainVars
  <2> HIDE DEF etx, token
  <2> QED BY <2>1, <2>3, <2>4, <2>5, <2>6, QueueAdd, EntryAdd
<1>4. ASSUME NEW u \in Users, NEW p \in Published, NEW x \in Published,
             NEW pb \in Blk, NEW xb \in Blk, StartExit(u, p, pb, x, xb)
      PROVE  Goal
  <2> DEFINE etx == [prevBlk |-> pb, exitBlk |-> xb, exitor |-> u,
                     balance |-> Balance(x), exitableTS |-> now + Period]
  <2>1. x \in PlasmaTx /\ x.token \in TokenIDs /\ x.dep \in Index
    BY PublishedType DEF PlasmaTx
  <2>2. x.denom \in Nat /\ x.spent \in Nat /\ x.spent <= x.denom
    BY <1>4, <2>1, AmountFacts DEF PlasmaTx, StartExit, Parses
  <2>3. Balance(x) \in Nat
    BY <2>2 DEF Balance
  <2>4. etx \in Exit /\ etx.exitableTS > 0 /\ etx.exitor # Nobody
    BY <2>3, ConstantsAssumption DEF Exit, TypeOK, Blk
  <2>5. QueueInv => deposited[x.token] > 0
    BY DEF Published, QueueInv
  <2>6. AddExitToQueue(x.token, x.dep, etx)
    BY <1>4, ZenonT(60) DEF StartExit
  <2>7. UNCHANGED <<childChain, depositVars, deposited, challenged>>
    BY <1>4, ZenonT(60) DEF StartExit, chainVars
  <2> HIDE DEF etx
  <2> QED BY <2>1, <2>4, <2>5, <2>6, <2>7, QueueAdd, EntryAdd
<1>5. ASSUME NEW x \in Published, DropExit(x.token)
      PROVE  Goal
  <2>1. x.token \in TokenIDs
    BY PublishedType DEF PlasmaTx
  <2> QED BY <1>5, <2>1, QueueDrop
<1>6. CASE FinalizeExits
  BY <1>6, QueueFinalize
<1>7. CASE Kill \/ Tick \/ UNCHANGED vars
  <2>1. UNCHANGED <<depositVars, exitVars, history>> /\ childChain' = childChain
    BY <1>7 DEF Kill, Tick, vars, chainVars
  <2>2. deposited' = deposited
    BY <2>1 DEF history
  <2> QED BY <2>1, <2>2, QueueUnchanged DEF QueueInv
<1> QED
  BY <1>1, <1>2, <1>3, <1>4, <1>5, <1>6, <1>7, ZenonT(60)
  DEF Next, Challenge, ChallengeBefore

LEMMA EntryInvariant == Spec => [](TypeOK /\ Books /\ EntryInv)
<1>1. Init => TypeOK /\ Books /\ EntryInv
  BY TypeInit, BooksInit, QueueInit
<1>2. TypeOK /\ Books /\ EntryInv /\ [Next]_vars => (TypeOK /\ Books /\ EntryInv)'
  BY TypeStep, BooksStep, QueueStep
<1> QED BY <1>1, <1>2, PTL DEF Spec

\* Once a transaction is published only after its token's deposit, no pending
\* exit of a held token is ever left without an entry that comes due in time,
\* whatever is challenged, exited again, finalised or queued by other tokens
\* under its index.
THEOREM ExitsStayQueued == OperatorSpec => []ExitQueued
<1> DEFINE Inv == TypeOK /\ Books /\ EntryInv /\ QueueInv
<1>1. Init => Inv
  BY TypeInit, BooksInit, QueueInit
<1>2. Inv /\ [Next /\ AfterDeposit]_vars => Inv'
  <2> SUFFICES ASSUME Inv, [Next /\ AfterDeposit]_vars PROVE Inv'
    OBVIOUS
  <2>1. [Next]_vars /\ (AfterDeposit \/ UNCHANGED vars)
    OBVIOUS
  <2> QED BY <2>1, TypeStep, BooksStep, QueueStep
<1>3. Inv => ExitQueued
  BY DEF QueueInv
<1> QED BY <1>1, <1>2, <1>3, PTL DEF OperatorSpec
=============================================================================
