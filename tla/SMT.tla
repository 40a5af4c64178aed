-------------------------------- MODULE SMT --------------------------------
(***************************************************************************)
(* The sparse Merkle tree of smt/: nodes of nchildren children in memory,  *)
(* their chunks in the chunk store, Merkle roots and inclusion proofs.     *)
(* Nothing in the repository uses storage bytes, so they are left out.     *)
(*                                                                         *)
(* Keccak256 is a constructor: the empty hash is << >>, the hash of a value*)
(* <<v>>, that of two hashes <<l, r>>, that of a chunk the chunk itself.   *)
(* The operators take the set of the chunks that can be read as "store".   *)
(***************************************************************************)
EXTENDS Naturals, Integers, Sequences, SequencesExt

CONSTANTS bitsPerPiece, keyPieces \* 4 and 16 in the code

TreeDepth == bitsPerPiece * keyPieces
nchildren == 2 ^ bitsPerPiece
Index     == 0 .. nchildren - 1

keypiece(k, i) == (k \div 2 ^ (bitsPerPiece * (keyPieces - 1 - i))) % nchildren
Bit(k, i)      == (k \div 2 ^ i) % 2

Keccak256(l, r) == <<l, r>>

ComputeDefaultHashes[level \in 0 .. TreeDepth] ==
    IF level = 0 THEN <<>>
    ELSE Keccak256(ComputeDefaultHashes[level - 1], ComputeDefaultHashes[level - 1])

\* Hashing cur at position i of the path of a key, with its sibling.
HashAt(k, i, cur, sibling) ==
    IF Bit(k, i) = 1 THEN Keccak256(sibling, cur) ELSE Keccak256(cur, sibling)

Nil == [nil |-> TRUE]

NewNode(level) ==
    [level |-> level, terminal |-> FALSE, unloaded |-> FALSE, dirty |-> FALSE, key |-> 0,
     chunkHash |-> <<>>, merkleRoot |-> <<>>, children |-> [j \in Index |-> Nil]]

NewSparseMerkleTree == NewNode(TreeDepth - 1)

SetHash(n, hash) == [n EXCEPT !.unloaded = TRUE, !.chunkHash = hash]

\* The roots are stored as pairs of a Merkle root and the chunk of its node.
InitWithRoot(roots, merkleroot) ==
    LET known == {r \in roots : r[1] = merkleroot /\ r[2] # <<>>}
    IN IF known = {} THEN NewSparseMerkleTree
       ELSE SetHash(NewSparseMerkleTree, (CHOOSE r \in known : TRUE)[2])

flushRoot(roots, n) ==
    {r \in roots : r[1] # n.merkleRoot} \cup {<<n.merkleRoot, n.chunkHash>>}

Blank == <<0, <<>>, <<>>>>

\* The child that a row of a chunk describes: one without a key is a node.
LoadChild(level, row) ==
    IF row[2] = <<>> THEN Nil
    ELSE [NewNode(level - bitsPerPiece) EXCEPT
            !.terminal = row[1] # 0, !.unloaded = row[1] = 0, !.key = row[1],
            !.chunkHash = row[2], !.merkleRoot = row[3]]

\* A chunk that is not there leaves the node unloaded and without children.
load(store, n) ==
    IF ~n.unloaded \/ n.chunkHash \notin store THEN n
    ELSE LET rows == n.chunkHash[1]
         IN [n EXCEPT !.unloaded = FALSE,
                      !.children = [j \in Index |->
                         IF rows[j + 1][2] = <<>> THEN n.children[j]
                         ELSE LoadChild(n.level, rows[j + 1])]]

-----------------------------------------------------------------------------
RECURSIVE insert(_, _, _, _, _)

insert(store, n, k, v, i) ==
    LET m == load(store, n)
        c == m.children[keypiece(k, i)]
        leaf == [NewNode(m.level - bitsPerPiece) EXCEPT
                   !.terminal = TRUE, !.key = k, !.chunkHash = v, !.dirty = TRUE]
        \* two keys: the child becomes a node and both go below it
        split == [c EXCEPT !.terminal = FALSE, !.dirty = TRUE]
        child == CASE c = Nil                -> leaf
                   [] c # Nil /\ ~c.terminal -> insert(store, c, k, v, i + 1)
                   [] c # Nil /\ c.terminal /\ c.key = k ->
                        IF c.chunkHash = v THEN c ELSE [c EXCEPT !.dirty = TRUE, !.chunkHash = v]
                   [] OTHER ->
                        insert(store, insert(store, split, c.key, c.chunkHash, i + 1), k, v, i + 1)
    IN [m EXCEPT !.dirty = TRUE, !.children[keypiece(k, i)] = child]

Insert(store, root, k, v) == insert(store, root, k, v, 0)

RECURSIVE get(_, _, _, _)

\* The value at a key, or the empty sequence.
get(store, n, k, i) ==
    LET c == load(store, n).children[keypiece(k, i)]
    IN CASE c = Nil                -> <<>>
         [] c # Nil /\ c.terminal  -> IF c.key = k THEN c.chunkHash ELSE <<>>
         [] OTHER                  -> get(store, c, k, i + 1)

-----------------------------------------------------------------------------
\* Mutant: the default of the level below.
MutCache(n) ==
    LET dh == ComputeDefaultHashes[n.level - bitsPerPiece]
        mrcache[level \in 0 .. bitsPerPiece, j \in Index] ==
            IF level = bitsPerPiece
            THEN IF n.children[j] = Nil THEN dh ELSE n.children[j].merkleRoot
            ELSE IF j >= 2 ^ level THEN <<>>
            ELSE Keccak256(mrcache[level + 1, 2 * j], mrcache[level + 1, 2 * j + 1])
    IN mrcache

\* Row "level" of a node's cache has 2^level hashes; the last has its children's.
computeMerkleRootCache(n) ==
    LET dh == ComputeDefaultHashes[n.level - (bitsPerPiece - 1)]
        mrcache[level \in 0 .. bitsPerPiece, j \in Index] ==
            IF level = bitsPerPiece
            THEN IF n.children[j] = Nil THEN dh ELSE n.children[j].merkleRoot
            ELSE IF j >= 2 ^ level THEN <<>>
            ELSE Keccak256(mrcache[level + 1, 2 * j], mrcache[level + 1, 2 * j + 1])
    IN mrcache

\* A leaf alone in its subtree: its value hashed with the defaults up to its level.
TerminalRoot(n) ==
    FoldLeft(LAMBDA cur, i : HashAt(n.key, i, cur, ComputeDefaultHashes[i]),
             n.chunkHash, [j \in 1 .. n.level + 1 |-> j - 1])

RECURSIVE computeMerkleRoot(_, _)

computeMerkleRoot(store, n) ==
    LET m == load(store, n)
        kids == [m EXCEPT !.children = [j \in Index |->
                   IF @[j] = Nil THEN Nil ELSE computeMerkleRoot(store, @[j])]]
    IN IF m.terminal THEN [m EXCEPT !.merkleRoot = TerminalRoot(m)]
       ELSE [kids EXCEPT !.merkleRoot = computeMerkleRootCache(kids)[0, 0]]

RECURSIVE flush(_)

\* The node after it is flushed, and the chunks that goroutines are to store.
flush(n) ==
    LET done == [j \in Index |->
                   IF n.children[j] = Nil \/ n.children[j].terminal
                   THEN [node |-> n.children[j], chunks |-> {}] ELSE flush(n.children[j])]
        row(c) == IF c = Nil THEN Blank
                  ELSE <<IF c.terminal THEN c.key ELSE 0, c.chunkHash, c.merkleRoot>>
        chunkID == <<[j \in 1 .. nchildren |-> row(done[j - 1].node)]>>
    IN IF ~n.dirty THEN [node |-> n, chunks |-> {}]
       ELSE [node |-> [n EXCEPT !.chunkHash = chunkID, !.dirty = FALSE,
                                !.children = [j \in Index |-> done[j].node]],
             chunks |-> {chunkID} \cup UNION {done[j].chunks : j \in Index}]

-----------------------------------------------------------------------------
RECURSIVE generateProof(_, _, _, _)

\* Mutant: the sibling is recorded one level too low.
MutProof(store, n, k, i) ==
    LET m == load(store, n)
        idx == keypiece(k, i)
        c == m.children[idx]
        below == IF c.terminal THEN [proof |-> <<>>, proofBits |-> {}]
                 ELSE generateProof(store, c, k, i + 1)
        mrcache == computeMerkleRootCache(m)
        at(level) == idx \div 2 ^ (bitsPerPiece - level)
        sister(level) == mrcache[level, IF at(level) % 2 = 1 THEN at(level) - 1 ELSE at(level) + 1]
        step(p, level) ==
            IF sister(level) = ComputeDefaultHashes[TreeDepth - level] THEN p
            ELSE [proof |-> Append(p.proof, sister(level)),
                  proofBits |-> p.proofBits \cup {m.level - level}]
    IN FoldLeft(step, below, [j \in 1 .. bitsPerPiece |-> bitsPerPiece + 1 - j])

\* The siblings on the path of a key, from the leaf up, and the levels of those
\* that are given; whether a sibling is a default is only known at the root.
generateProof(store, n, k, i) ==
    LET m == load(store, n)
        idx == keypiece(k, i)
        c == m.children[idx]
        below == IF c.terminal THEN [proof |-> <<>>, proofBits |-> {}]
                 ELSE generateProof(store, c, k, i + 1)
        mrcache == computeMerkleRootCache(m)
        at(level) == idx \div 2 ^ (bitsPerPiece - level)
        sister(level) == mrcache[level, IF at(level) % 2 = 1 THEN at(level) - 1 ELSE at(level) + 1]
        step(p, level) ==
            IF sister(level) = ComputeDefaultHashes[TreeDepth - level] THEN p
            ELSE [proof |-> Append(p.proof, sister(level)),
                  proofBits |-> p.proofBits \cup {m.level - level + 1}]
    IN FoldLeft(step, below, [j \in 1 .. bitsPerPiece |-> bitsPerPiece + 1 - j])

Get(store, root, k) == get(store, root, k, 0)
GenerateProof(store, root, k) == generateProof(store, root, k, 0)

\* Proof.Check: the root that a proof leads to from a value.
Check(k, p, v) ==
    LET step(s, i) ==
            IF i \in p.proofBits
            THEN [cur |-> HashAt(k, i, s.cur, p.proof[s.p + 1]), p |-> s.p + 1]
            ELSE [cur |-> HashAt(k, i, s.cur, ComputeDefaultHashes[i]), p |-> s.p]
    IN FoldLeft(step, [cur |-> v, p |-> 0], [j \in 1 .. TreeDepth |-> j - 1]).cur

-----------------------------------------------------------------------------
(* Reference definitions, for the properties *)

RECURSIVE ReferenceRoot(_, _)

\* The Merkle root of the full binary tree of the height over a map of keys,
\* relative to the subtree, to hashes of values.
ReferenceRoot(height, f) ==
    LET half == 2 ^ (height - 1)
        side(b) == [k \in {k % half : k \in {j \in DOMAIN f : j \div half = b}} |-> f[k + b * half]]
    IN IF DOMAIN f = {} THEN ComputeDefaultHashes[height]
       ELSE IF height = 0 THEN f[0]
       ELSE Keccak256(ReferenceRoot(height - 1, side(0)), ReferenceRoot(height - 1, side(1)))

RECURSIVE Loadable(_, _)

\* Every chunk below the node is in the store.
Loadable(store, n) ==
    LET m == load(store, n)
    IN /\ ~m.unloaded
       /\ \A j \in Index : m.children[j] = Nil \/ Loadable(store, m.children[j])
=============================================================================
