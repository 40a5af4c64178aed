------------------------------ MODULE Anchors ------------------------------
(***************************************************************************)
(* Layer-3 chains on the Plasma chain: anchor transactions from the client *)
(* through the pool and the minting loop to the chain objects of StateDB,  *)
(* the chain and anchor tries of the block (SMT) and the chunk store.      *)
(*                                                                         *)
(* The nodes of a trie are stored by goroutines that outlive the block;    *)
(* a write of the store may fail, and most of the code goes on regardless. *)
(***************************************************************************)
EXTENDS SMT, FiniteSets, Functions, TLC

CONSTANTS Chains,      \* BlockChainIDs: non-zero keys of the chain trie
          AnchorTxs,   \* the anchors that clients sign
          Other,       \* an address that a broken signature leads to
          MaxSends,    \* bound on the anchors sent
          MaxBlk,      \* bound on the blocks
          MaxFails     \* bound on the writes that fail

\* computeMerkleRoot needs keys that differ before their last piece.
ASSUME KeysAssumption ==
    /\ Chains \subseteq 1 .. 2 ^ TreeDepth - 1
    /\ \A c, d \in Chains : c # d => c \div nchildren # d \div nchildren

VARIABLES pool,       \* wtxpool
          sends,
          pc, txes, i, numtxns, committed,     \* mintNewBlock
          chainObjects, chainIsSet, atxList,   \* the StateDB of the block
          store, roots, writes,                \* chunk store; pending goroutines
          headers, bodies,                     \* blocks 1 .. Len(headers)
          unwritten,  \* numbers of blocks whose header chunk is not in the store
          fails,
          lossy,      \* history: a chunk or a write was missed silently
          states      \* history: the chain objects after each block

poolVars  == <<pool, sends>>
loopVars  == <<txes, i, numtxns, committed>>
stateVars == <<chainObjects, chainIsSet, atxList>>
chunkVars == <<store, roots, writes>>
chainVars == <<headers, bodies, states, unwritten>>
vars == <<poolVars, pc, loopVars, stateVars, chunkVars, chainVars, fails, lossy>>

NewChainObject == [owners |-> <<>>, start |-> 0, end |-> 0]
NoRoot == <<>>

\* InitTrie ignores that a header is missing, which then has no roots.
CurrentRoot ==
    IF headers = <<>> \/ Len(headers) \in unwritten THEN NoRoot ELSE Last(headers).chain

Init ==
    /\ pool = {} /\ sends = 0
    /\ pc = "idle" /\ txes = <<>> /\ i = 1 /\ numtxns = 0 /\ committed = <<>>
    /\ chainObjects = <<>> /\ chainIsSet = {} /\ atxList = <<>>
    /\ store = {} /\ roots = {} /\ writes = {}
    /\ headers = <<>> /\ bodies = <<>> /\ states = <<>> /\ unwritten = {}
    /\ fails = 0 /\ lossy = FALSE

-----------------------------------------------------------------------------
(* Clients and the pool *)

\* ValidateExtraData replaces the lists by those of a map's keys, in any order:
\* the signature, which covers them, may then lead to another address.
ValidateExtraData(tx) ==
    {[tx EXCEPT !.added = a, !.removed = r,
                !.signer = IF a = tx.added /\ r = tx.removed THEN @ ELSE Other] :
        <<a, r>> \in SetToSeqs(Range(tx.added)) \X SetToSeqs(Range(tx.removed))}

ValidateAnchor(tx) == Range(tx.added) \cap Range(tx.removed) = {} /\ tx.chain # 0

\* The pool has a transaction once; its order is lost when it is sorted.
addAnchorTransactionToPool(tx) == pool \cup {tx}

SendAnchorTransaction(tx) ==
    /\ sends < MaxSends
    /\ sends' = sends + 1
    /\ IF ValidateAnchor(tx)
       THEN \E t \in ValidateExtraData(tx) : pool' = addAnchorTransactionToPool(t)
       ELSE UNCHANGED pool
    /\ UNCHANGED <<pc, loopVars, stateVars, chunkVars, chainVars, fails, lossy>>

Less(s, t) == s.chain < t.chain \/ (s.chain = t.chain /\ s.number < t.number)

\* Ties are sorted in any order.
GetTransactions ==
    {s \in SetToSeqs(pool) : \A k \in 1 .. Len(s) - 1 : ~Less(s[k + 1], s[k])}

RemoveTransaction(tx) == pool' = pool \ {tx}

-----------------------------------------------------------------------------
(* Chain objects and their journal *)

Trie == InitWithRoot(roots, CurrentRoot)

\* A read of the trie finds everything that was written to it.
Intact == (headers # <<>> => \E r \in roots : r[1] = CurrentRoot) /\ Loadable(store, Trie)

getOrCreateChain(c) ==
    IF c \in DOMAIN chainObjects THEN chainObjects[c]
    ELSE LET v == Get(store, Trie, c) IN IF v = <<>> THEN NewChainObject ELSE v[1]

\* Below, s has the object under change, the entries the journal got since the
\* snapshot, and whether the transaction has failed.
AddOwner(s, addr) ==
    [s EXCEPT !.journal = Append(@, [kind |-> "owners", prev |-> s.obj.owners]),
              !.obj.owners = Append(@, addr)]

\* "remove" compares pointers, and the address of a parameter is a new one.
RemoveOwner(s, addr) ==
    [s EXCEPT !.journal = Append(@, [kind |-> "owners", prev |-> s.obj.owners])]

SetStartBlock(s, n) ==
    [s EXCEPT !.journal = Append(@, [kind |-> "block", prev |-> s.obj.end]), !.obj.start = n]

SetEndBlock(s, n) ==
    [s EXCEPT !.journal = Append(@, [kind |-> "block", prev |-> s.obj.end]), !.obj.end = n]

\* Mutant: the owners are not restored.
MutRevert(obj, e) ==
    IF e.kind = "owners" THEN obj ELSE [obj EXCEPT !.start = e.prev, !.end = e.prev]

\* An anchorBlockChange has the old end block as both ends.
revert(obj, e) ==
    IF e.kind = "owners" THEN [obj EXCEPT !.owners = e.prev]
    ELSE [obj EXCEPT !.start = e.prev, !.end = e.prev]

RevertToSnapshot(s) == FoldRight(LAMBDA e, obj : revert(obj, e), s.journal, s.obj)

Existed(s, addr) == addr \in Range(s.obj.owners)
Fail(s) == [s EXCEPT !.err = TRUE]

AddOwners(s, tx) ==
    FoldLeft(LAMBDA r, a : IF Existed(r, a) THEN r ELSE AddOwner(r, a), s, tx.added)

RemoveOwners(s, tx) ==
    FoldLeft(LAMBDA r, a : IF r.err \/ ~Existed(r, a) THEN r
                           ELSE IF Len(r.obj.owners) = 1 THEN Fail(r)
                           ELSE RemoveOwner(r, a),
             s, tx.removed)

Register(s, tx) ==
    IF s.obj.owners # <<>> \/ s.obj.end > 0 THEN Fail(s)
    ELSE IF tx.removed # <<>> THEN Fail(AddOwner(s, tx.signer))
    ELSE AddOwners(AddOwner(s, tx.signer), tx)

\* A normal anchor: the next number of a registered chain, by an owner.
Extend(s, tx) ==
    IF \/ s.obj.owners = <<>>
       \/ s.obj.end = tx.number
       \/ s.obj.end + 1 # tx.number
       \/ ~Existed(s, tx.signer)
    THEN Fail(s)
    ELSE RemoveOwners(AddOwners(s, tx), tx)

\* ApplyAnchorTransaction up to AppendAnchor.
ApplyAnchorTransaction(tx) ==
    LET s == [obj |-> getOrCreateChain(tx.chain), journal |-> <<>>, err |-> FALSE]
        t == IF tx.number = 0 THEN Register(s, tx) ELSE Extend(s, tx)
    IN IF t.err THEN t
       ELSE IF tx.chain \in chainIsSet THEN SetEndBlock(t, tx.number)
       ELSE SetEndBlock(SetStartBlock(t, tx.number), tx.number)

With(f, k, v) == (k :> v) @@ f

AppendAnchor(tx, obj) ==
    /\ chainObjects' = With(chainObjects, tx.chain, obj)
    /\ chainIsSet' = chainIsSet \cup {tx.chain}

AddAnchorTx(tx) ==
    atxList' = With(atxList, tx.chain,
                    Append(IF tx.chain \in DOMAIN atxList THEN atxList[tx.chain] ELSE <<>>, tx))

NewLoop == txes' = <<>> /\ i' = 1 /\ numtxns' = 0 /\ committed' = <<>>

NewStateDB == chainObjects' = <<>> /\ chainIsSet' = {} /\ atxList' = <<>>

-----------------------------------------------------------------------------
(* mintNewBlock *)

MintNewBlock ==
    /\ pc = "idle" /\ pool # {} /\ Len(headers) < MaxBlk
    /\ txes' \in GetTransactions
    /\ pc' = "commit" /\ i' = 1 /\ numtxns' = Len(txes') /\ committed' = <<>>
    /\ NewStateDB
    /\ UNCHANGED <<poolVars, chunkVars, chainVars, fails, lossy>>

Applying == pc = "commit" /\ i <= numtxns
Read     == lossy' = (lossy \/ ~Intact)

CommitTransaction ==
    LET tx == txes[i]  s == ApplyAnchorTransaction(tx) IN
    /\ Applying /\ ~s.err
    /\ AppendAnchor(tx, s.obj)
    /\ AddAnchorTx(tx)
    /\ committed' = Append(committed, tx) /\ i' = i + 1
    /\ Read
    /\ UNCHANGED <<poolVars, pc, txes, numtxns, chunkVars, chainVars, fails>>

\* "i--" and "numtxns--": the loop stays at index i of its copy.
MarkForRemoval ==
    /\ RemoveTransaction(txes[i])
    /\ numtxns' = numtxns - 1
    /\ UNCHANGED <<sends, pc, txes, i, committed, chunkVars, chainVars>>

\* An object that the state does not have yet is changed and forgotten.
DropTransaction ==
    LET tx == txes[i]  s == ApplyAnchorTransaction(tx) IN
    /\ Applying /\ s.err
    /\ chainObjects' = IF tx.chain \notin DOMAIN chainObjects THEN chainObjects
                       ELSE With(chainObjects, tx.chain, RevertToSnapshot(s))
    /\ MarkForRemoval
    /\ Read
    /\ UNCHANGED <<chainIsSet, atxList, fails>>

\* StoreAnchorTransaction fails; the journal has no entry for AppendAnchor.
FailToStore ==
    LET tx == txes[i]  s == ApplyAnchorTransaction(tx) IN
    /\ Applying /\ ~s.err
    /\ fails < MaxFails /\ fails' = fails + 1
    /\ AppendAnchor(tx, RevertToSnapshot(s))
    /\ AddAnchorTx(tx)
    /\ MarkForRemoval
    /\ Read

NothingCommitted ==
    /\ pc = "commit" /\ i > numtxns /\ committed = <<>>
    /\ pc' = "idle" /\ NewLoop
    /\ NewStateDB
    /\ UNCHANGED <<poolVars, chunkVars, chainVars, fails, lossy>>

\* Flush of a trie: its Merkle root, the node's chunks and the root's.
FlushTrie(n) == flush(computeMerkleRoot(store, n))

\* Commit inserts the chain objects, except those whose own chunk it could not
\* store, and the lists of anchors.
updateChainObjects(failed) ==
    FoldLeft(LAMBDA n, c : Insert(store, n, c, <<chainObjects[c]>>), Trie,
             SetToSeq(DOMAIN chainObjects \ failed))

ByNumber(s) == SortSeq(s, LAMBDA x, y : x.number < y.number)

AnchorTrie ==
    FoldLeft(LAMBDA n, c : Insert(store, n, c, <<[list |-> ByNumber(atxList[c])]>>),
             NewSparseMerkleTree, SetToSeq(DOMAIN atxList))

\* What Commit leaves in the chunk store; the chunks of the anchor trie, which
\* the next block does not open, are left out.
Commit(failed) ==
    LET chain == FlushTrie(updateChainObjects(failed))
    IN /\ writes' = writes \cup (chain.chunks \ store)
       /\ roots' = flushRoot(roots, chain.node)
       /\ lossy' = (lossy \/ ~Intact \/ failed # {})
       /\ UNCHANGED store

Header(failed) == [chain  |-> FlushTrie(updateChainObjects(failed)).node.merkleRoot,
                   anchor |-> FlushTrie(AnchorTrie).node.merkleRoot]

\* WriteHeader, whose error WriteBlock ignores.
WriteHeader(failed) ==
    /\ headers' = Append(headers, Header(failed))
    /\ \/ fails' = fails + Cardinality(failed) /\ UNCHANGED unwritten
       \/ /\ fails + Cardinality(failed) < MaxFails
          /\ fails' = fails + Cardinality(failed) + 1
          /\ unwritten' = unwritten \cup {Len(headers) + 1}

RemoveCommitted ==
    LET missing == {k \in DOMAIN committed : committed[k] \notin pool}
        done == {committed[k] : k \in {k \in DOMAIN committed : \A m \in missing : k < m}}
    IN pool' = pool \ done

FailedUpdates == {f \in SUBSET DOMAIN chainObjects : fails + Cardinality(f) <= MaxFails}

\* Commit, MakeBlock, WriteBlock and InsertChainForPOA; the committed
\* anchors leave the pool, up to one that has left it before.
InsertBlock ==
    /\ pc = "commit" /\ i > numtxns /\ committed # <<>>
    /\ \E failed \in FailedUpdates :
         /\ Commit(failed)
         /\ WriteHeader(failed)
    /\ bodies' = Append(bodies, committed)
    /\ states' = Append(states, chainObjects @@ (IF states = <<>> THEN <<>> ELSE Last(states)))
    /\ RemoveCommitted
    /\ pc' = "idle" /\ NewLoop
    /\ NewStateDB
    /\ UNCHANGED sends

\* WriteBlock cannot store the block after Commit: the head stays.
FailToInsert ==
    /\ pc = "commit" /\ i > numtxns /\ committed # <<>>
    /\ fails < MaxFails /\ fails' = fails + 1
    /\ Commit({})
    /\ pc' = "idle" /\ NewLoop
    /\ NewStateDB
    /\ UNCHANGED <<poolVars, chainVars>>

\* A goroutine of flush, whose SetChunk may fail.
SetChunk(chunk) ==
    /\ writes' = writes \ {chunk}
    /\ \/ store' = store \cup {chunk} /\ UNCHANGED fails
       \/ fails < MaxFails /\ fails' = fails + 1 /\ UNCHANGED store
    /\ UNCHANGED <<poolVars, pc, loopVars, stateVars, roots, chainVars, lossy>>

Next ==
    \/ \E tx \in AnchorTxs : SendAnchorTransaction(tx)
    \/ MintNewBlock
    \/ CommitTransaction
    \/ DropTransaction
    \/ FailToStore
    \/ NothingCommitted
    \/ InsertBlock
    \/ FailToInsert
    \/ \E chunk \in writes : SetChunk(chunk)

Spec == Init /\ [][Next]_vars

-----------------------------------------------------------------------------
(* Properties *)

Of(c, txs)  == SelectSeq(txs, LAMBDA tx : tx.chain = c)
Accepted(c) == Of(c, FlattenSeq(bodies))
Stored(c)   == c \in UNION {DOMAIN states[b] : b \in DOMAIN states}

\* The loop of commitTransactions stays inside its copy of the pool, and the
\* state under construction has an object for the chain of every anchor it lists.
TypeOK ==
    /\ pc \in {"idle", "commit"} /\ lossy \in BOOLEAN
    /\ pc = "commit" => Len(committed) = i - 1 /\ i <= numtxns + 1 /\ numtxns <= Len(txes)
    /\ DOMAIN atxList = DOMAIN chainObjects /\ chainIsSet = DOMAIN chainObjects
    /\ Len(bodies) = Len(headers) /\ Len(states) = Len(headers)

Owners(txs) == IF txs = <<>> THEN {} ELSE {txs[1].signer} \cup UNION {Range(tx.added) : tx \in Range(txs)}

\* The anchors of a Layer-3 chain are in the blocks in the order of their
\* numbers from 0, none twice and none left out, and the chain object has the
\* last of them, whatever ApplyAnchorTransaction refused or could not store.
\* Its owners are the signer of its registration and those that its accepted
\* anchors add, none from an anchor that was reverted, and every anchor after
\* the registration is signed by an owner of that time.
AnchorSequence ==
    /\ TypeOK
    /\ ~lossy => \A c \in Chains :
           /\ \A k \in DOMAIN Accepted(c) : Accepted(c)[k].number = k - 1
           /\ Stored(c) =>
                /\ Last(states)[c].end = (IF Accepted(c) = <<>> THEN 0 ELSE Len(Accepted(c)) - 1)
                /\ Range(Last(states)[c].owners) = Owners(Accepted(c))
           /\ \A k \in 2 .. Len(Accepted(c)) :
                Accepted(c)[k].signer \in Owners(SubSeq(Accepted(c), 1, k - 1))

\* The roots that a block publishes are those of the full Merkle trees over its
\* chain objects and, if every write succeeds, over the anchors of its body.
RootsMatch ==
    ~lossy => \A b \in DOMAIN headers :
        /\ headers[b].chain =
             ReferenceRoot(TreeDepth, [c \in DOMAIN states[b] |-> <<states[b][c]>>])
        /\ fails = 0 => headers[b].anchor =
             ReferenceRoot(TreeDepth, [c \in {tx.chain : tx \in Range(bodies[b])} |->
                                         <<[list |-> Of(c, bodies[b])]>>])

\* Once its chunks are stored, the trie of every block, the old ones included,
\* gives each chain the object it had after that block, with a proof that Check
\* leads to the root in the header.
TrieReads ==
    ~lossy => \A b \in DOMAIN headers :
        LET trie == InitWithRoot(roots, headers[b].chain) IN
        Loadable(store, trie) => \A c \in Chains :
            IF c \notin DOMAIN states[b] THEN Get(store, trie, c) = <<>>
            ELSE /\ Get(store, trie, c) = <<states[b][c]>>
                 /\ Check(c, GenerateProof(store, trie, c), <<states[b][c]>>) = headers[b].chain
=============================================================================
