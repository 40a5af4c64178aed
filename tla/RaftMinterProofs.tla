--------------------------- MODULE RaftMinterProofs ---------------------------
(***************************************************************************)
(* Proofs about RaftMinter, for every set of transactions and any number   *)
(* of mintNewBlock goroutines, leader changes and failing writes.          *)
(***************************************************************************)
EXTENDS RaftMinter, TLAPS

\* Time for the larger steps.
USE SMTT(60), ZenonT(60)

Block == [number : Nat, txs : SUBSET Txs]
Entry == [id : Txs, value : Nat]
Held == {"parent", "commit", "flush", "post"}
Dated == {"commit", "flush", "post"}
Stage == {"idle", "called", "load", "store", "lock", "parent", "commit", "flush", "post"}

OneEach(q) == \A i, j \in DOMAIN q : q[i].id = q[j].id => i = j

-----------------------------------------------------------------------------
(* The operators of the model. *)

\* Listing lists the members of a set of transactions, each of them once.
LEMMA Listed ==
  ASSUME NEW S \in SUBSET Txs
  PROVE  /\ Listing(S) \in Seq(S)
         /\ \A i, j \in DOMAIN Listing(S) : Listing(S)[i] = Listing(S)[j] => i = j
         /\ \A t \in S : \E i \in DOMAIN Listing(S) : Listing(S)[i] = t
<1> DEFINE n == Cardinality(S)  f == Listing(S)
<1>1. n \in Nat /\ Orders(S) # {}
  BY MinterAssumption DEF Orders, ExistsBijection
<1>2. f \in Orders(S)
  BY <1>1 DEF Listing
<1> HIDE DEF f
<1>3. /\ f \in [1 .. n -> S] /\ \A a, b \in 1 .. n : f[a] = f[b] => a = b
      /\ \A t \in S : \E i \in 1 .. n : f[i] = t
  BY <1>2 DEF Orders, Bijection, Injection, Surjection, IsInjective
<1>4. f \in Seq(S) /\ DOMAIN f = 1 .. n
  BY <1>1, <1>3
<1> QED BY <1>3, <1>4 DEF f

\* Queueing the chunks of a commit leaves one entry per id: the entries of other
\* ids as they were, and one with the new value for each id of the commit.
LEMMA Queued ==
  ASSUME NEW q \in Seq(Entry), OneEach(q), NEW ids \in SUBSET Txs, NEW value \in Nat
  PROVE  LET r == QueueChunk(q, ids, value)
         IN  /\ r \in Seq(Entry) /\ OneEach(r)
             /\ \A k \in DOMAIN r :
                  \/ r[k].id \in ids /\ r[k].value = value
                  \/ \E i \in DOMAIN q : r[k] = q[i]
             /\ \A t \in ids : \E k \in DOMAIN r : r[k] = Chunk(t, value)
<1> DEFINE old == {q[i].id : i \in DOMAIN q}
           new == Listing(ids \ old)
           a == [i \in DOMAIN q |-> IF q[i].id \in ids THEN Chunk(q[i].id, value) ELSE q[i]]
           c == [k \in DOMAIN new |-> Chunk(new[k], value)]
           r == a \o c
<1>1. /\ new \in Seq(ids \ old)
      /\ \A i, j \in DOMAIN new : new[i] = new[j] => i = j
      /\ \A t \in ids \ old : \E i \in DOMAIN new : new[i] = t
  BY Listed, ZenonT(60)
<1>2. /\ a \in Seq(Entry) /\ DOMAIN a = DOMAIN q
      /\ \A i \in DOMAIN q : a[i].id = q[i].id
      /\ \A i \in DOMAIN q : a[i] = IF q[i].id \in ids THEN Chunk(q[i].id, value) ELSE q[i]
  <2>1. \A i \in DOMAIN q : q[i] \in Entry
    OBVIOUS
  <2>2. \A i \in DOMAIN q : a[i] \in Entry /\ a[i].id = q[i].id
    BY <2>1 DEF Entry, Chunk
  <2>3. DOMAIN a = 1 .. Len(q) /\ Len(q) \in Nat /\ DOMAIN q = 1 .. Len(q)
    OBVIOUS
  <2>4. a \in [1 .. Len(q) -> Entry]
    BY <2>2, <2>3
  <2>5. a \in Seq(Entry)
    BY <2>3, <2>4
  <2> QED BY <2>2, <2>3, <2>5
<1>3. /\ c \in Seq(Entry) /\ DOMAIN c = DOMAIN new
      /\ \A k \in DOMAIN new : c[k] = Chunk(new[k], value) /\ c[k].id = new[k] /\ c[k].value = value
  <2>1. \A k \in DOMAIN new : new[k] \in ids \ old
    BY <1>1
  <2>2. \A k \in DOMAIN new : c[k] \in Entry /\ c[k].id = new[k] /\ c[k].value = value
    BY <2>1, ZenonT(60) DEF Entry, Chunk
  <2>3. DOMAIN c = 1 .. Len(new) /\ Len(new) \in Nat /\ DOMAIN new = 1 .. Len(new)
    BY <1>1
  <2>4. c \in [1 .. Len(new) -> Entry]
    BY <2>2, <2>3
  <2>5. \A k \in DOMAIN new : c[k] = Chunk(new[k], value)
    OBVIOUS
  <2> HIDE DEF c, new
  <2>6. c \in Seq(Entry)
    BY <2>3, <2>4
  <2> QED BY <2>2, <2>3, <2>5, <2>6
<1>4. QueueChunk(q, ids, value) = r
  BY DEF QueueChunk
<1>5. \A k \in DOMAIN new : new[k] \in ids /\ new[k] \notin old
  BY <1>1
<1> HIDE DEF a, c, new
<1>6. /\ r \in Seq(Entry) /\ DOMAIN r = 1 .. Len(a) + Len(c)
      /\ \A k \in 1 .. Len(a) : r[k] = a[k]
      /\ \A k \in 1 .. Len(c) : r[Len(a) + k] = c[k]
      /\ \A k \in DOMAIN r : k \in 1 .. Len(a) \/ \E m \in 1 .. Len(c) : k = Len(a) + m
  <2>1. Len(a) \in Nat /\ Len(c) \in Nat
    BY <1>2, <1>3
  <2>2. r \in Seq(Entry) /\ DOMAIN r = 1 .. Len(a) + Len(c)
    BY <1>2, <1>3
  <2>3. /\ \A k \in 1 .. Len(a) : r[k] = a[k]
        /\ \A k \in 1 .. Len(c) : r[Len(a) + k] = c[k]
    BY <1>2, <1>3
  <2>4. ASSUME NEW k \in 1 .. Len(a) + Len(c), k \notin 1 .. Len(a)
        PROVE  k - Len(a) \in 1 .. Len(c) /\ k = Len(a) + (k - Len(a))
    BY <2>1, <2>4
  <2> QED BY <2>2, <2>3, <2>4, ZenonT(60)
<1>7. DOMAIN q = 1 .. Len(a) /\ DOMAIN new = 1 .. Len(c)
  BY <1>2, <1>3
<1> HIDE DEF r
<1>8. OneEach(r)
  <2> SUFFICES ASSUME NEW i \in DOMAIN r, NEW j \in DOMAIN r, r[i].id = r[j].id
               PROVE  i = j
    BY DEF OneEach
  <2>1. CASE i \in 1 .. Len(a) /\ j \in 1 .. Len(a)
    BY <2>1, <1>2, <1>6, <1>7 DEF OneEach
  <2>2. ASSUME NEW k \in 1 .. Len(a), NEW m \in 1 .. Len(c)
        PROVE  r[k].id # r[Len(a) + m].id
    <3>1. r[k].id = q[k].id /\ q[k].id \in old
      BY <1>2, <1>6, <1>7
    <3>2. r[Len(a) + m].id = new[m] /\ new[m] \notin old
      BY <1>3, <1>5, <1>6, <1>7, ZenonT(60)
    <3> QED BY <3>1, <3>2
  <2>3. ASSUME NEW k \in 1 .. Len(c), NEW m \in 1 .. Len(c), i = Len(a) + k, j = Len(a) + m
        PROVE  i = j
    <3>1. new[k] = new[m]
      BY <2>3, <1>3, <1>6, <1>7, ZenonT(60)
    <3> QED BY <1>1, <1>7, <2>3, <3>1, ZenonT(60)
  <2> QED BY <1>6, <2>1, <2>2, <2>3
<1>9. \A k \in DOMAIN r : \/ r[k].id \in ids /\ r[k].value = value
                          \/ \E i \in DOMAIN q : r[k] = q[i]
  <2>1. ASSUME NEW k \in 1 .. Len(a)
        PROVE  \/ r[k].id \in ids /\ r[k].value = value
               \/ \E i \in DOMAIN q : r[k] = q[i]
    BY <1>2, <1>6, <1>7 DEF Chunk
  <2>2. ASSUME NEW m \in 1 .. Len(c)
        PROVE  r[Len(a) + m].id \in ids /\ r[Len(a) + m].value = value
    BY <1>3, <1>5, <1>6, <1>7
  <2> QED BY <1>6, <2>1, <2>2
<1>10. ASSUME NEW t \in ids PROVE \E k \in DOMAIN r : r[k] = Chunk(t, value)
  <2>1. CASE t \in old
    <3>1. PICK i \in DOMAIN q : q[i].id = t
      BY <2>1
    <3>2. r[i] = Chunk(t, value) /\ i \in DOMAIN r
      <4>1. r[i] = Chunk(t, value)
        BY <1>2, <1>6, <1>7, <3>1
      <4>2. Len(a) \in Nat /\ Len(c) \in Nat
        BY <1>2, <1>3
      <4> QED BY <1>6, <1>7, <4>1, <4>2
    <3> QED BY <3>2
  <2>2. CASE t \notin old
    <3>1. PICK i \in DOMAIN new : new[i] = t
      BY <1>1, <2>2
    <3>2. r[Len(a) + i] = Chunk(t, value) /\ Len(a) + i \in DOMAIN r
      <4>1. r[Len(a) + i] = Chunk(t, value)
        BY <1>3, <1>6, <1>7, <3>1
      <4>2. Len(a) \in Nat /\ Len(c) \in Nat
        BY <1>2, <1>3
      <4> QED BY <1>6, <1>7, <4>1, <4>2
    <3> QED BY <3>2
  <2> QED BY <2>1, <2>2
<1> QED BY <1>4, <1>6, <1>8, <1>9, <1>10

\* A batch stores the value of every queued chunk and leaves the others.
LEMMA Written ==
  ASSUME NEW q \in Seq(Entry), OneEach(q), NEW store \in [Txs -> Nat]
  PROVE  LET s == SetChunkBatchLocal(store, q)
         IN  /\ s \in [Txs -> Nat]
             /\ \A i \in DOMAIN q : s[q[i].id] = q[i].value
             /\ \A t \in Txs : (\A i \in DOMAIN q : q[i].id # t) => s[t] = store[t]
<1> DEFINE at(t) == {i \in DOMAIN q : q[i].id = t}
           last(t) == CHOOSE i \in at(t) : \A j \in at(t) : j <= i
           s == SetChunkBatchLocal(store, q)
<1>1. s = [t \in Txs |-> IF at(t) = {} THEN store[t] ELSE q[last(t)].value]
  BY DEF SetChunkBatchLocal
<1>2. \A i \in DOMAIN q : q[i] \in Entry /\ q[i].id \in Txs /\ q[i].value \in Nat /\ i \in Nat
  <2>1. \A i \in DOMAIN q : q[i] \in Entry /\ i \in Nat
    OBVIOUS
  <2> QED BY <2>1 DEF Entry
<1>3. ASSUME NEW i \in DOMAIN q
      PROVE  last(q[i].id) = i /\ at(q[i].id) # {}
  <2>1. at(q[i].id) = {i}
    BY DEF OneEach
  <2>2. \A j \in at(q[i].id) : j <= i
    BY <1>2, <2>1
  <2>3. last(q[i].id) \in at(q[i].id)
    BY <2>1, <2>2
  <2> QED BY <2>1, <2>3
<1>4. \A t \in Txs : at(t) = {} \/ \E i \in DOMAIN q : q[i].id = t
  OBVIOUS
<1> HIDE DEF last, at, s
<1>5. \A i \in DOMAIN q : s[q[i].id] = q[i].value
  BY <1>1, <1>2, <1>3
<1>6. \A t \in Txs : (\A i \in DOMAIN q : q[i].id # t) => s[t] = store[t]
  BY <1>1, <1>4
<1>7. \A t \in Txs : s[t] \in Nat
  BY <1>2, <1>4, <1>5, <1>6
<1> QED BY <1>1, <1>5, <1>6, <1>7, ZenonT(60) DEF s

\* A mint commits and removes transactions of the pool only.
LEMMA Committed ==
  ASSUME NEW S, NEW txes \in Orders(S)
  PROVE  commitTransactions(txes).committed \subseteq S
BY DEF commitTransactions, Orders, Bijection, Injection

-----------------------------------------------------------------------------
(* The flag and the mutex. *)

Typed ==
  /\ mint \in [Mints -> [pc : Stage, block : Block]]
  /\ mu \in Mints \cup {NoMint} /\ mineflag \in {0, 1} /\ minting \in {0, 1}
  /\ mined \in Block /\ proposing \in Block /\ log \in Seq(Block) /\ Len(log) <= MaxLag
  /\ head \in Nat /\ pool \subseteq Txs /\ fails \in Nat
  /\ chunkQueue \in Seq(Entry) /\ ldb \in [Txs -> Nat]

\* What one goroutine contributes: it holds the mutex exactly while it is past
\* lockMinter, and the block it mints has a number from readParent on.
MintOK(g) ==
  /\ mu = g <=> mint[g].pc \in Held
  /\ mint[g].pc \in Dated => mint[g].block.number > 0

Owner == \E g \in Mints : mint[g].pc \in {"lock", "parent", "commit", "flush", "post"}

\* The inductive invariant behind FlagOwned.
FlagInv ==
  /\ Typed
  /\ \A g \in Mints : MintOK(g)
  /\ OneEach(chunkQueue)
  /\ mineflag = 1 => Owner \/ mined # NoBlock \/ fails > 0

\* The step of a goroutine is described by its new stage and block.
Moves(g, stage, b) ==
  /\ mint' \in [Mints -> [pc : Stage, block : Block]]
  /\ mint'[g].pc = stage /\ mint'[g].block = b
  /\ \A h \in Mints : h # g => mint'[h] = mint[h]

LEMMA MintMoves ==
  ASSUME Typed, NEW g \in Mints, NEW stage \in Stage
  PROVE  /\ mint' = [mint EXCEPT ![g].pc = stage] => Moves(g, stage, mint[g].block)
         /\ \A b \in Block :
              mint' = [mint EXCEPT ![g] = [pc |-> stage, block |-> b]] => Moves(g, stage, b)
<1>1. mint \in [Mints -> [pc : Stage, block : Block]] /\ mint[g] \in [pc : Stage, block : Block]
  BY DEF Typed
<1> DEFINE B == Block  S == Stage
<1> HIDE DEF B, S
<1>2. mint \in [Mints -> [pc : S, block : B]] /\ mint[g] \in [pc : S, block : B] /\ stage \in S
  BY <1>1 DEF S, B
<1>3. ASSUME NEW b \in B, mint' = [mint EXCEPT ![g] = [pc |-> stage, block |-> b]]
      PROVE  Moves(g, stage, b)
  <2>1. mint' \in [Mints -> [pc : S, block : B]]
    BY <1>2, <1>3
  <2>2. mint'[g] = [pc |-> stage, block |-> b]
    BY <1>2, <1>3
  <2>3. \A h \in Mints : h # g => mint'[h] = mint[h]
    BY <1>2, <1>3
  <2> QED BY <2>1, <2>2, <2>3 DEF Moves, S, B
<1>4. ASSUME mint' = [mint EXCEPT ![g].pc = stage]
      PROVE  mint' = [mint EXCEPT ![g] = [pc |-> stage, block |-> mint[g].block]]
  <2>1. \A m \in [pc : S, block : B] : [m EXCEPT !.pc = stage] = [pc |-> stage, block |-> m.block]
    BY <1>2
  <2>2. mint' = [mint EXCEPT ![g] = [mint[g] EXCEPT !.pc = stage]]
    BY <1>4
  <2> QED BY <1>2, <2>1, <2>2, ZenonT(60)
<1> QED BY <1>2, <1>3, <1>4 DEF B

\* NoBlock is a block without a number, so that a minted block differs from it.
LEMMA NoBlockFacts == NoBlock \in Block /\ \A b \in Block : b.number > 0 => b # NoBlock
BY DEF NoBlock, Block

\* readParent starts the block that follows the head.
NextBlock == [number |-> head + 1, txs |-> {}]

LEMMA ReadMoves ==
  ASSUME Typed, NEW g \in Mints, readParent(g)
  PROVE  /\ NextBlock \in Block /\ NextBlock.number = head + 1 /\ NextBlock.number > 0
         /\ NextBlock.txs = {} /\ mint[g].pc = "parent" /\ Moves(g, "commit", NextBlock)
<1>1. NextBlock \in Block /\ NextBlock.number = head + 1 /\ NextBlock.number > 0 /\ NextBlock.txs = {}
  BY DEF Block, Typed, NextBlock
<1>2. \A m \in [pc : Stage, block : Block] :
        [[m EXCEPT !.pc = "commit"] EXCEPT !.block = NextBlock] = [pc |-> "commit", block |-> NextBlock]
  <2>1. \A m \in [pc : Stage, block : Block] :
          [m EXCEPT !.pc = "commit"] = [pc |-> "commit", block |-> m.block]
    OBVIOUS
  <2>2. \A c : [[pc |-> "commit", block |-> c] EXCEPT !.block = NextBlock]
                 = [pc |-> "commit", block |-> NextBlock]
    OBVIOUS
  <2> QED BY <2>1, <2>2, ZenonT(60)
<1>3. mint' = [mint EXCEPT ![g] = [[mint[g] EXCEPT !.pc = "commit"] EXCEPT !.block = NextBlock]]
  BY ZenonT(60) DEF readParent, Typed, NextBlock
<1>4. mint' = [mint EXCEPT ![g] = [pc |-> "commit", block |-> NextBlock]]
  BY <1>2, <1>3, ZenonT(60) DEF Typed
<1> QED BY <1>1, <1>4, MintMoves, ZenonT(60) DEF readParent, Stage

LEMMA InitFlag == Init => FlagInv
<1> SUFFICES ASSUME Init PROVE FlagInv
  OBVIOUS
<1>1. Idle \in [pc : Stage, block : Block] /\ Idle.pc = "idle"
  BY NoBlockFacts DEF Idle, Stage
<1>2. mint = [g \in Mints |-> Idle]
  BY DEF Init, newMinter
<1>3. mint \in [Mints -> [pc : Stage, block : Block]] /\ \A g \in Mints : mint[g].pc = "idle"
  BY <1>1, <1>2
<1>4. MaxLag \in Nat /\ Len(<<>>) = 0 /\ <<>> \in Seq(Block) /\ <<>> \in Seq(Entry) /\ DOMAIN <<>> = {}
  BY MinterAssumption
<1>5. minting = 0 /\ mineflag = 0 /\ mu = 0
  BY DEF Init, newMinter, NoMint
<1>6. /\ mined = NoBlock /\ proposing = NoBlock /\ log = <<>> /\ head = 0 /\ pool = Txs
      /\ chunkQueue = <<>> /\ ldb = [t \in Txs |-> 0] /\ fails = 0
  BY DEF Init
<1>7. Typed
  <2>1. ldb \in [Txs -> Nat]
    BY <1>6
  <2> QED BY <1>3, <1>4, <1>5, <1>6, <2>1, NoBlockFacts DEF Typed, NoMint
<1>8. \A g \in Mints : MintOK(g)
  BY <1>3, <1>5, MinterAssumption DEF MintOK, Held, Dated, Mints
<1>9. OneEach(chunkQueue)
  BY <1>4, <1>6 DEF OneEach
<1> QED BY <1>5, <1>7, <1>8, <1>9 DEF FlagInv

\* The step of one goroutine keeps the flag's invariant.
LEMMA MintFlag ==
  ASSUME FlagInv, NEW g \in Mints, throttle(g) \/ mintStep(g)
  PROVE  FlagInv'
<1> USE DEF MintUnchanged, chain, flags, storage, pipeline, Mints, NoMint
<1>0. /\ Typed /\ MintOK(g) /\ (\A h \in Mints : MintOK(h)) /\ OneEach(chunkQueue)
      /\ mint[g] \in [pc : Stage, block : Block] /\ mint[g].block \in Block
      /\ Idle = [pc |-> "idle", block |-> NoBlock]
  BY DEF FlagInv, Typed, Idle
\* A step that changes neither the mutex nor the queue.
<1>1. ASSUME NEW stage \in Stage, NEW b \in Block, Moves(g, stage, b),
             UNCHANGED <<pipeline, chain, storage, mu, pool, minting>>,
             mint[g].pc \in Held <=> stage \in Held,
             stage \in Dated => b.number > 0,
             \/ mineflag' = mineflag /\ (mint[g].pc \in Held \cup {"lock"} => stage \in Held \cup {"lock"})
             \/ mineflag' = 1 /\ stage = "lock"
      PROVE  FlagInv'
  <2>1. Typed'
    BY <1>0, <1>1 DEF Typed, Moves
  <2>2. ASSUME NEW h \in Mints PROVE MintOK(h)'
    BY <1>0, <1>1 DEF MintOK, Moves
  <2>3. Owner => Owner'
    BY <1>1 DEF Owner, Moves, Held
  <2>4. mineflag' = 1 => Owner' \/ mined' # NoBlock \/ fails' > 0
    <3>1. CASE mineflag' = mineflag
      BY <1>1, <2>3, <3>1 DEF FlagInv
    <3>2. CASE stage = "lock"
      BY <1>1, <3>2, ZenonT(60) DEF Owner, Moves
    <3> QED BY <1>1, <3>1, <3>2
  <2>5. OneEach(chunkQueue)'
    BY <1>0, <1>1 DEF OneEach
  <2> QED BY <2>1, <2>2, <2>4, <2>5 DEF FlagInv
\* A step that gives the mutex back.
<1>2. ASSUME NEW b \in Block, Moves(g, "idle", b), mint[g].pc \in Held, mu' = NoMint,
             UNCHANGED <<log, head, minting>>, pool' \subseteq pool,
             mineflag' \in {0, mineflag}, mined' \in Block, proposing' = proposing,
             fails' \in Nat, fails' >= fails, chunkQueue' = chunkQueue, ldb' \in [Txs -> Nat],
             mineflag' = 1 => mined' # NoBlock \/ fails' > 0
      PROVE  FlagInv'
  <2>1. Typed'
    BY <1>0, <1>2 DEF Typed, Moves
  <2>2. ASSUME NEW h \in Mints PROVE MintOK(h)'
    BY <1>0, <1>2 DEF MintOK, Moves, Held, Dated
  <2>5. OneEach(chunkQueue)'
    BY <1>0, <1>2 DEF OneEach
  <2> QED BY <1>2, <2>1, <2>2, <2>5 DEF FlagInv
<1>3. CASE throttle(g)
  <2>1. mint[g].pc = "idle" /\ mint' = [mint EXCEPT ![g].pc = "called"]
    BY <1>0, <1>3 DEF throttle
  <2>2. Moves(g, "called", mint[g].block)
    BY <1>0, <2>1, MintMoves, ZenonT(60) DEF Stage
  <2> QED BY <1>0, <1>1, <1>3, <2>1, <2>2 DEF throttle, Stage, Held, Dated
<1>4. CASE checkMinting(g)
  <2>1. mint[g].pc = "called"
        /\ (Moves(g, "load", mint[g].block) \/ Moves(g, "idle", NoBlock))
    BY <1>0, <1>4, MintMoves, NoBlockFacts, ZenonT(60) DEF checkMinting, Stage
  <2> QED BY <1>0, <1>1, <1>4, <2>1, NoBlockFacts DEF checkMinting, Stage, Held, Dated
<1>5. CASE loadMineflag(g)
  <2>1. mint[g].pc = "load"
        /\ (Moves(g, "store", mint[g].block) \/ Moves(g, "idle", NoBlock))
    BY <1>0, <1>5, MintMoves, NoBlockFacts, ZenonT(60) DEF loadMineflag, Stage
  <2> QED BY <1>0, <1>1, <1>5, <2>1, NoBlockFacts DEF loadMineflag, Stage, Held, Dated
<1>6. CASE storeMineflag(g)
  <2>1. mint[g].pc = "store" /\ Moves(g, "lock", mint[g].block) /\ mineflag' = 1
    BY <1>0, <1>6, MintMoves, ZenonT(60) DEF storeMineflag, Stage
  <2> QED BY <1>0, <1>1, <1>6, <2>1 DEF storeMineflag, Stage, Held, Dated
<1>7. CASE lockMinter(g)
  <2>1. mint[g].pc = "lock" /\ Moves(g, "parent", mint[g].block) /\ mu = 0 /\ mu' = g
    BY <1>0, <1>7, MintMoves, ZenonT(60) DEF lockMinter, Stage
  <2>2. Typed'
    BY <1>0, <1>7, <2>1 DEF Typed, Moves, lockMinter
  <2>3. ASSUME NEW h \in Mints PROVE MintOK(h)'
    BY <1>0, <2>1 DEF MintOK, Moves, Held, Dated
  <2>4. Owner'
    BY <2>1 DEF Owner, Moves
  <2>5. OneEach(chunkQueue)'
    BY <1>0, <1>7 DEF OneEach, lockMinter
  <2> QED BY <2>2, <2>3, <2>4, <2>5 DEF FlagInv
<1>8. CASE readParent(g)
  <2>1. NextBlock \in Block /\ NextBlock.number > 0 /\ mint[g].pc = "parent" /\ Moves(g, "commit", NextBlock)
    BY <1>0, <1>8, ReadMoves
  <2> QED BY <1>0, <1>1, <1>8, <2>1 DEF readParent, Stage, Held, Dated
<1>9. CASE mintNewBlock(g)
  <2>1. PICK txes \in Orders(pool) : mintNewBlock(g)!2!(txes)
    BY <1>9 DEF mintNewBlock
  <2> DEFINE r == commitTransactions(txes)
             n == mint[g].block.number
             b == [mint[g].block EXCEPT !.txs = r.committed]
  <2>2. r.committed \in SUBSET Txs /\ pool' \subseteq pool
    BY <1>0, <2>1, Committed DEF Typed
  <2>3. b \in Block /\ b.number = n /\ n \in Nat /\ n > 0 /\ mint[g].pc = "commit"
    BY <1>0, <1>9, <2>2 DEF Block, MintOK, Dated, mintNewBlock
  <2>4. UNCHANGED <<pipeline, log, head, minting, ldb, fails>>
    BY <1>9 DEF mintNewBlock
  <2>5. CASE r.committed = {}
    <3>1. mineflag' = 0 /\ mu' = 0 /\ mint' = [mint EXCEPT ![g] = Idle] /\ chunkQueue' = chunkQueue
      BY <2>1, <2>5
    <3>2. Moves(g, "idle", NoBlock)
      BY <1>0, <3>1, MintMoves, NoBlockFacts, ZenonT(60) DEF Stage
    <3> HIDE DEF r, b, n
    <3>3. /\ mint[g].pc \in Held /\ mined' \in Block /\ fails' \in Nat /\ fails' >= fails
          /\ ldb' \in [Txs -> Nat]
      BY <1>0, <2>3, <2>4 DEF Held, Typed
    <3> QED BY <1>2, <2>2, <2>4, <3>1, <3>2, <3>3, NoBlockFacts
  <2>6. CASE r.committed # {}
    <3>1. /\ chunkQueue' = QueueChunk(chunkQueue, r.committed, n) /\ UNCHANGED <<mineflag, mu>>
          /\ mint' = [mint EXCEPT ![g] = [pc |-> "flush", block |-> b]]
      BY <2>1, <2>3, <2>6
    <3>2. Moves(g, "flush", b)
      BY <1>0, <2>3, <3>1, MintMoves, ZenonT(60) DEF Stage
    <3> HIDE DEF r, b, n
    <3>3. chunkQueue' \in Seq(Entry) /\ OneEach(chunkQueue')
      BY <1>0, <2>2, <2>3, <3>1, Queued, ZenonT(60) DEF Typed
    <3>4. Typed'
      BY <1>0, <2>2, <2>4, <3>1, <3>2, <3>3 DEF Typed, Moves
    <3>5. ASSUME NEW h \in Mints PROVE MintOK(h)'
      BY <1>0, <2>3, <3>1, <3>2 DEF MintOK, Moves, Held, Dated
    <3>6. Owner'
      BY <3>2 DEF Owner, Moves
    <3> QED BY <3>3, <3>4, <3>5, <3>6 DEF FlagInv, OneEach
  <2> QED BY <2>5, <2>6
<1>10. ASSUME NEW wrote \in BOOLEAN, flushChunks(g, wrote) PROVE FlagInv'
  <2>1. mint[g].pc = "flush" /\ UNCHANGED <<pipeline, log, head, flags, pool>>
    BY <1>10 DEF flushChunks
  <2>2. ldb' \in [Txs -> Nat]
    BY <1>0, <1>10, Written DEF flushChunks, Flush, Typed
  <2>3. fails' \in Nat /\ fails' >= fails /\ (~Flushed(wrote) => fails' > 0)
    BY <1>0, <1>10 DEF flushChunks, Flush, Flushed, SetChunkBatch, Typed
  <2>4. CASE Flushed(wrote)
    <3>1. /\ mint' = [mint EXCEPT ![g].pc = "post"] /\ mu' = mu
          /\ chunkQueue' = <<>>
      BY <1>10, <2>4 DEF flushChunks, Flush, Flushed
    <3>2. Moves(g, "post", mint[g].block)
      BY <1>0, <3>1, MintMoves, ZenonT(60) DEF Stage
    <3>3. chunkQueue' \in Seq(Entry) /\ OneEach(chunkQueue')
      BY <3>1 DEF OneEach
    <3>4. Typed'
      BY <1>0, <2>1, <2>2, <2>3, <3>1, <3>2, <3>3 DEF Typed, Moves
    <3>5. ASSUME NEW h \in Mints PROVE MintOK(h)'
      BY <1>0, <2>1, <3>1, <3>2 DEF MintOK, Moves, Held, Dated
    <3>6. Owner'
      BY <3>2 DEF Owner, Moves
    <3> QED BY <3>3, <3>4, <3>5, <3>6 DEF FlagInv, OneEach
  <2>5. CASE ~Flushed(wrote)
    <3>1. /\ mint' = [mint EXCEPT ![g] = Idle] /\ mu' = 0
          /\ chunkQueue' = chunkQueue
      BY <1>10, <2>5 DEF flushChunks, Flush, Flushed
    <3>2. Moves(g, "idle", NoBlock)
      BY <1>0, <3>1, MintMoves, NoBlockFacts, ZenonT(60) DEF Stage
    <3> QED BY <1>0, <1>2, <2>1, <2>2, <2>3, <2>5, <3>1, <3>2, NoBlockFacts DEF Held, Typed
  <2> QED BY <2>4, <2>5
<1>11. CASE postMined(g)
  <2>1. mint[g].pc = "post" /\ Moves(g, "idle", NoBlock) /\ mined' = mint[g].block
    BY <1>0, <1>11, MintMoves, NoBlockFacts, ZenonT(60) DEF postMined, Stage
  <2>2. mint[g].block # NoBlock
    BY <1>0, <2>1, NoBlockFacts DEF MintOK, Dated
  <2> QED BY <1>0, <1>2, <1>11, <2>1, <2>2, NoBlockFacts DEF postMined, Held, Typed
<1> QED BY <1>3, <1>4, <1>5, <1>6, <1>7, <1>8, <1>9, <1>10, <1>11 DEF mintStep

LEMMA StepFlag == FlagInv /\ [Next]_vars => FlagInv'
<1> SUFFICES ASSUME FlagInv, [Next]_vars PROVE FlagInv'
  OBVIOUS
<1> USE DEF chain, flags, storage, pipeline
<1>0. Typed /\ (\A g \in Mints : MintOK(g)) /\ OneEach(chunkQueue)
  BY DEF FlagInv
\* The steps of the other goroutines leave the mints, the mutex and the queue alone.
<1>1. ASSUME Typed', UNCHANGED <<mint, mu, chunkQueue, fails>>,
             mineflag' = 0 \/ (mineflag' = mineflag /\ (mined # NoBlock => mined' # NoBlock))
      PROVE  FlagInv'
  <2>1. \A g \in Mints : MintOK(g)'
    BY <1>0, <1>1 DEF MintOK
  <2>2. OneEach(chunkQueue)'
    BY <1>0, <1>1 DEF OneEach
  <2>3. Owner => Owner'
    BY <1>1 DEF Owner
  <2> QED BY <1>1, <2>1, <2>2, <2>3 DEF FlagInv
<1>2. ASSUME NEW g \in Mints, throttle(g) \/ mintStep(g) PROVE FlagInv'
  BY <1>2, MintFlag
<1>3. CASE triggerLoop \/ onMintRequest \/ onChainHead \/ passMutex \/ mintingLoop \/ sendChainHead
  BY <1>0, <1>1, <1>3
     DEF Typed, triggerLoop, onMintRequest, onChainHead, passMutex, mintingLoop, sendChainHead
<1>4. CASE ResetMiningFlag
  BY <1>0, <1>1, <1>4, NoBlockFacts DEF Typed, ResetMiningFlag
<1>5. ASSUME NEW lost \in BOOLEAN, Propose(lost) PROVE FlagInv'
  <2>0. /\ log \in Seq(Block) /\ Len(log) <= MaxLag /\ proposing \in Block
        /\ log' = log \/ (Len(log) < MaxLag /\ log' = Append(log, proposing))
    BY <1>0, <1>5, ZenonT(60) DEF Typed, Propose
  <2>1. log' \in Seq(Block) /\ Len(log') <= MaxLag
    BY <2>0, MinterAssumption
  <2> QED BY <1>0, <1>1, <1>5, <2>1, NoBlockFacts DEF Typed, Propose
<1>6. CASE applyNewChainHead
  <2>1. Head(log) \in Block /\ Tail(log) \in Seq(Block) /\ Len(Tail(log)) <= MaxLag
    <3>1. log \in Seq(Block) /\ Len(log) <= MaxLag /\ log # <<>>
      BY <1>0, <1>6, ZenonT(60) DEF Typed, applyNewChainHead
    <3> QED BY <3>1, MinterAssumption
  <2>2. Head(log).number \in Nat
    BY <2>1 DEF Block
  <2>3. Typed'
    BY <1>0, <1>6, <2>1, <2>2, ZenonT(60) DEF Typed, applyNewChainHead
  <2> QED BY <1>1, <1>6, <2>3, ZenonT(60) DEF applyNewChainHead
<1>7. ASSUME NEW l \in {"self", "other", "none"}, ChangeLeader(l) PROVE FlagInv'
  BY <1>0, <1>1, <1>7 DEF Typed, ChangeLeader
<1>8. CASE handleRoleChange
  BY <1>0, <1>1, <1>8 DEF Typed, handleRoleChange, start, stop
<1>9. CASE UNCHANGED vars
  BY <1>0, <1>1, <1>9 DEF Typed, vars
<1> QED BY <1>2, <1>3, <1>4, <1>5, <1>6, <1>7, <1>8, <1>9 DEF Next

LEMMA FlagHolds == Spec => []FlagInv
BY InitFlag, StepFlag, PTL DEF Spec

\* While mineflag is set a goroutine owns it or a posted block is about to reset
\* it, unless a Flush failed; the mutex is held by exactly the mint past
\* lockMinter, and the chunk queue has one entry per id.  For any number of
\* concurrent mintNewBlock goroutines.
THEOREM FlagAlwaysOwned == Spec => []FlagOwned
<1>1. FlagInv => FlagOwned
  <2> SUFFICES ASSUME FlagInv PROVE FlagOwned
    OBVIOUS
  <2>1. \A g \in Mints : mint[g] \in [pc : Stage, block : Block]
    BY DEF FlagInv, Typed
  <2>2. \A g \in Mints : mint[g].block.txs \subseteq Txs
    BY <2>1, ZenonT(60) DEF Block
  <2>3. TypeOK
    BY <2>2 DEF FlagInv, Typed, MintOK, TypeOK, OneEach, Held
  <2> QED BY <2>3 DEF FlagInv, FlagOwned, Owner
<1> QED BY <1>1, FlagHolds, PTL

-----------------------------------------------------------------------------
(* Blocks are stored before they are proposed. *)

Stored(b) == \A t \in b.txs : ldb[t] >= b.number

\* No block in flight, queued chunk or stored chunk is newer than n.
AtMost(L, p, m, q, s, n) ==
  /\ \A i \in DOMAIN L : L[i].number <= n
  /\ p.number <= n /\ m.number <= n
  /\ \A i \in DOMAIN q : q[i].value <= n
  /\ \A t \in Txs : s[t] <= n

Bound(n) == AtMost(log, proposing, mined, chunkQueue, ldb, n)

\* The blocks in flight (in the log L, being proposed, mined) are numbered in the
\* order in which they reach the chain, from the head h on.
InOrder(L, p, m, h) ==
  /\ \A i \in DOMAIN L : h <= L[i].number
  /\ \A i, j \in DOMAIN L : i <= j => L[i].number <= L[j].number
  /\ p # NoBlock => h <= p.number /\ \A i \in DOMAIN L : L[i].number <= p.number
  /\ m # NoBlock => /\ h <= m.number /\ p.number <= m.number
                    /\ \A i \in DOMAIN L : L[i].number <= m.number

\* The head never moves back, and by at most one number forward.
Ordered == InOrder(log, proposing, mined, head) /\ Bound(head + 1)

\* The block being minted is as new as anything else; its chunks are queued when
\* it waits for Flush and stored when it waits for Post.
MintStored(g) ==
  /\ mint[g].pc \in Dated => /\ mint[g].block.number \in {head, head + 1}
                             /\ Bound(mint[g].block.number)
  /\ mint[g].pc = "flush" =>
       \A t \in mint[g].block.txs :
         \E i \in DOMAIN chunkQueue : chunkQueue[i] = Chunk(t, mint[g].block.number)
  /\ mint[g].pc = "post" => Stored(mint[g].block)

\* The inductive invariant behind ProposedStored.  A chunk left in the queue by a
\* failed Flush is never older than the stored one: a later Flush replaces no
\* chunk by an older one.
StoredInv ==
  /\ Ordered
  /\ \A i \in DOMAIN chunkQueue : ldb[chunkQueue[i].id] <= chunkQueue[i].value
  /\ \A g \in Mints : MintStored(g)
  /\ Stored(mined) /\ Stored(proposing) /\ \A i \in DOMAIN log : Stored(log[i])

\* The fields of blocks and queued chunks.
LEMMA Numbered ==
  /\ \A b \in Block : b.number \in Nat /\ b.txs \subseteq Txs
  /\ \A e \in Entry : e.id \in Txs /\ e.value \in Nat
BY DEF Block, Entry

\* A bound may be raised from the head to the number after it.
LEMMA BoundRaised ==
  ASSUME NEW L \in Seq(Block), NEW p \in Block, NEW m \in Block, NEW q \in Seq(Entry),
         NEW s \in [Txs -> Nat], NEW h \in Nat, NEW n \in {h, h + 1}, AtMost(L, p, m, q, s, n)
  PROVE  AtMost(L, p, m, q, s, h + 1)
<1>0. (\A i \in DOMAIN L : L[i] \in Block) /\ \A i \in DOMAIN q : q[i] \in Entry
  OBVIOUS
<1>1. p.number \in Nat /\ m.number \in Nat /\ \A i \in DOMAIN L : L[i].number \in Nat
  BY <1>0, Numbered
<1>2. \A i \in DOMAIN q : q[i].value \in Nat
  BY <1>0, Numbered
<1>3. \A t \in Txs : s[t] \in Nat
  OBVIOUS
<1> QED BY <1>1, <1>2, <1>3 DEF AtMost

\* A block of the newest number is posted after the blocks in flight.
LEMMA PostOrdered ==
  ASSUME NEW L, NEW p \in Block, NEW m, NEW q, NEW s, NEW h \in Nat, NEW b \in Block,
         b.number \in {h, h + 1}, InOrder(L, p, m, h), AtMost(L, p, m, q, s, h + 1),
         AtMost(L, p, m, q, s, b.number)
  PROVE  InOrder(L, p, b, h) /\ AtMost(L, p, b, q, s, h + 1)
<1>1. h <= b.number /\ b.number <= h + 1
  OBVIOUS
<1> QED BY <1>1 DEF InOrder, AtMost

\* The mined block replaces the proposed one.
LEMMA ResetOrdered ==
  ASSUME NEW L, NEW p, NEW m, NEW q, NEW s, NEW h, InOrder(L, p, m, h), m # NoBlock
  PROVE  /\ InOrder(L, m, NoBlock, h)
         /\ \A n \in Nat : AtMost(L, p, m, q, s, n) => AtMost(L, m, NoBlock, q, s, n)
<1>1. NoBlock.number = 0
  BY DEF NoBlock
<1> QED BY <1>1 DEF InOrder, AtMost

\* The proposed block is lost, or goes to the end of the log.
LEMMA ProposeOrdered ==
  ASSUME NEW L \in Seq(Block), NEW p \in Block, NEW m \in Block, NEW q, NEW s, NEW h \in Nat,
         InOrder(L, p, m, h), p # NoBlock, NEW M, M = L \/ M = Append(L, p)
  PROVE  /\ InOrder(M, NoBlock, m, h)
         /\ \A n \in Nat : AtMost(L, p, m, q, s, n) => AtMost(M, NoBlock, m, q, s, n)
         /\ \A i \in DOMAIN M : (i \in DOMAIN L /\ M[i] = L[i]) \/ M[i] = p
<1>0. NoBlock.number = 0 /\ \A i \in DOMAIN L : i \in Nat /\ L[i] \in Block
  BY DEF NoBlock
<1>1. NoBlock.number = 0 /\ p.number \in Nat /\ m.number \in Nat
      /\ \A i \in DOMAIN L : i \in Nat /\ L[i].number \in Nat
  BY <1>0, Numbered
<1>2. \A i \in DOMAIN M : i \in Nat /\ ((i \in DOMAIN L /\ M[i] = L[i]) \/ (M[i] = p /\ \A j \in DOMAIN M : j <= i))
  OBVIOUS
<1>3. \A i \in DOMAIN M : M[i].number \in Nat /\ h <= M[i].number /\ M[i].number <= p.number
  BY <1>1, <1>2 DEF InOrder
<1>4. \A i, j \in DOMAIN M : i <= j => M[i].number <= M[j].number
  BY <1>1, <1>2, <1>3 DEF InOrder
<1>5. InOrder(M, NoBlock, m, h)
  BY <1>1, <1>2, <1>3, <1>4 DEF InOrder
<1>6. ASSUME NEW n \in Nat, AtMost(L, p, m, q, s, n) PROVE AtMost(M, NoBlock, m, q, s, n)
  BY <1>1, <1>2, <1>6 DEF AtMost
<1> QED BY <1>2, <1>5, <1>6

\* The first block of the log becomes the head.
LEMMA HeadOrdered ==
  ASSUME NEW L \in Seq(Block), L # <<>>, NEW p \in Block, NEW m \in Block, NEW q \in Seq(Entry),
         NEW s \in [Txs -> Nat], NEW h \in Nat, NEW k, k = Head(L).number,
         InOrder(L, p, m, h), AtMost(L, p, m, q, s, h + 1)
  PROVE  /\ k \in {h, h + 1} /\ InOrder(Tail(L), p, m, k) /\ AtMost(Tail(L), p, m, q, s, k + 1)
         /\ \A n \in {h, h + 1} :
              AtMost(L, p, m, q, s, n) => n \in {k, k + 1} /\ AtMost(Tail(L), p, m, q, s, n)
         /\ \A i \in DOMAIN Tail(L) : i + 1 \in DOMAIN L /\ Tail(L)[i] = L[i + 1]
<1>0. Head(L) = L[1] /\ 1 \in DOMAIN L /\ \A i \in DOMAIN L : i \in Nat /\ 1 <= i /\ L[i] \in Block
  OBVIOUS
<1>1. k = L[1].number /\ k \in Nat /\ 1 \in DOMAIN L /\ \A i \in DOMAIN L : i \in Nat /\ 1 <= i /\ L[i].number \in Nat
  BY <1>0, Numbered
<1>2. k \in {h, h + 1}
  BY <1>1 DEF InOrder, AtMost
<1>3. \A i \in DOMAIN Tail(L) : i + 1 \in DOMAIN L /\ Tail(L)[i] = L[i + 1] /\ i \in Nat
  OBVIOUS
<1>4. InOrder(Tail(L), p, m, k)
  <2>1. \A i \in DOMAIN Tail(L) : k <= Tail(L)[i].number
    BY <1>1, <1>3 DEF InOrder
  <2>2. \A i, j \in DOMAIN Tail(L) : i <= j => Tail(L)[i].number <= Tail(L)[j].number
    BY <1>1, <1>3 DEF InOrder
  <2> QED BY <1>1, <1>3, <2>1, <2>2 DEF InOrder
<1>5. ASSUME NEW n, AtMost(L, p, m, q, s, n) PROVE AtMost(Tail(L), p, m, q, s, n)
  BY <1>3, <1>5 DEF AtMost
<1>6. ASSUME NEW n \in {h, h + 1}, AtMost(L, p, m, q, s, n) PROVE n \in {k, k + 1}
  BY <1>1, <1>2, <1>6 DEF AtMost
<1>7. AtMost(Tail(L), p, m, q, s, k + 1)
  <2>1. Tail(L) \in Seq(Block)
    OBVIOUS
  <2>2. AtMost(Tail(L), p, m, q, s, h + 1)
    BY <1>5
  <2>3. CASE k = h
    BY <2>2, <2>3
  <2>4. CASE k = h + 1
    <3>1. k \in Nat /\ h + 1 \in {k, k + 1}
      BY <1>1, <2>4
    <3> QED BY <2>1, <2>2, <3>1, BoundRaised, ZenonT(60)
  <2> QED BY <1>2, <2>3, <2>4
<1> QED BY <1>2, <1>3, <1>4, <1>5, <1>6, <1>7

\* A step that leaves the pipeline, the chain and the chunks alone.
LEMMA StoredFrame ==
  ASSUME StoredInv, UNCHANGED <<mined, proposing, log, head, chunkQueue, ldb>>,
         \A h \in Mints : mint'[h] = mint[h] \/ mint'[h].pc \notin Dated
  PROVE  StoredInv'
<1>1. Ordered'
  BY ZenonT(60) DEF StoredInv, Ordered, Bound
<1>2. ASSUME NEW h \in Mints PROVE MintStored(h)'
  <2>1. MintStored(h) /\ Dated = {"commit", "flush", "post"}
    BY DEF StoredInv, Dated
  <2>2. CASE mint'[h] = mint[h]
    BY <2>1, <2>2, ZenonT(60) DEF MintStored, Bound, Stored
  <2>3. CASE mint'[h].pc \notin Dated
    BY <2>1, <2>3, ZenonT(60) DEF MintStored
  <2> QED BY <2>2, <2>3, ZenonT(60)
<1> QED BY <1>1, <1>2 DEF StoredInv, Stored

LEMMA InitStored == Init => StoredInv
<1> SUFFICES ASSUME Init PROVE StoredInv
  OBVIOUS
<1>1. /\ mined = NoBlock /\ proposing = NoBlock /\ log = <<>> /\ head = 0
      /\ chunkQueue = <<>> /\ ldb = [t \in Txs |-> 0]
  BY DEF Init
<1>2. \A g \in Mints : mint[g].pc = "idle"
  BY DEF Init, newMinter, Idle
<1>3. NoBlock.number = 0 /\ NoBlock.txs = {} /\ DOMAIN <<>> = {}
  BY DEF NoBlock
<1>4. Ordered
  BY <1>1, <1>3 DEF Ordered, Bound, InOrder, AtMost
<1>5. \A g \in Mints : MintStored(g)
  BY <1>2, ZenonT(60) DEF MintStored, Dated
<1> QED BY <1>1, <1>3, <1>4, <1>5 DEF StoredInv, Stored

\* The step of one goroutine, when a failed write is reported (localOnly).
LEMMA MintStores ==
  ASSUME localOnly, FlagInv, FlagInv', StoredInv, NEW g \in Mints, throttle(g) \/ mintStep(g)
  PROVE  StoredInv'
<1> USE DEF MintUnchanged, chain, flags, storage, pipeline
<1>a. /\ Typed /\ MintOK(g) /\ Ordered /\ MintStored(g) /\ OneEach(chunkQueue)
      /\ Bound(head + 1) /\ InOrder(log, proposing, mined, head)
  BY ZenonT(60) DEF FlagInv, StoredInv, Ordered
<1>b. /\ log \in Seq(Block) /\ proposing \in Block /\ mined \in Block /\ head \in Nat
      /\ chunkQueue \in Seq(Entry) /\ ldb \in [Txs -> Nat] /\ mint \in [Mints -> [pc : Stage, block : Block]]
  BY <1>a, ZenonT(60) DEF Typed
<1>0. /\ Typed /\ MintOK(g) /\ Ordered /\ MintStored(g) /\ OneEach(chunkQueue)
      /\ mint[g] \in [pc : Stage, block : Block] /\ mint[g].block \in Block
      /\ Idle = [pc |-> "idle", block |-> NoBlock]
  BY <1>a, <1>b, ZenonT(60) DEF Idle
<1>1. mint[g].pc \in Held => \A h \in Mints : h # g => mint[h].pc \notin Dated
  BY DEF FlagInv, MintOK, Held, Dated
<1>2. \A b \in Block : b.number \in Nat /\ b.txs \subseteq Txs
  BY Numbered
<1>3. mined \in Block /\ proposing \in Block /\ \A i \in DOMAIN log : log[i] \in Block
  BY <1>b
<1>4. ASSUME NEW stage \in Stage \ Dated, NEW b \in Block, Moves(g, stage, b),
             UNCHANGED <<pipeline, log, head, chunkQueue, ldb>>
      PROVE  StoredInv'
  BY <1>4, StoredFrame DEF Moves
<1>5. CASE throttle(g)
  <2>1. mint' = [mint EXCEPT ![g].pc = "called"]
    BY <1>5 DEF throttle
  <2>2. Moves(g, "called", mint[g].block)
    BY <1>0, <2>1, MintMoves, ZenonT(60) DEF Stage
  <2> QED BY <1>0, <1>4, <1>5, <2>2 DEF throttle, Stage, Dated
<1>6. CASE checkMinting(g)
  <2>1. Moves(g, "load", mint[g].block) \/ Moves(g, "idle", NoBlock)
    BY <1>0, <1>6, MintMoves, NoBlockFacts, ZenonT(60) DEF checkMinting, Stage
  <2> QED BY <1>0, <1>4, <1>6, <2>1, NoBlockFacts DEF checkMinting, Stage, Dated
<1>7. CASE loadMineflag(g)
  <2>1. Moves(g, "store", mint[g].block) \/ Moves(g, "idle", NoBlock)
    BY <1>0, <1>7, MintMoves, NoBlockFacts, ZenonT(60) DEF loadMineflag, Stage
  <2> QED BY <1>0, <1>4, <1>7, <2>1, NoBlockFacts DEF loadMineflag, Stage, Dated
<1>8. CASE storeMineflag(g)
  <2>1. Moves(g, "lock", mint[g].block)
    BY <1>0, <1>8, MintMoves, ZenonT(60) DEF storeMineflag, Stage
  <2> QED BY <1>0, <1>4, <1>8, <2>1 DEF storeMineflag, Stage, Dated
<1>9. CASE lockMinter(g)
  <2>1. Moves(g, "parent", mint[g].block)
    BY <1>0, <1>9, MintMoves, ZenonT(60) DEF lockMinter, Stage
  <2> QED BY <1>0, <1>4, <1>9, <2>1 DEF lockMinter, Stage, Dated
<1>10. CASE readParent(g)
  <2>1. /\ NextBlock.number = head + 1 /\ mint[g].pc = "parent" /\ Moves(g, "commit", NextBlock)
        /\ UNCHANGED <<pipeline, log, head, chunkQueue, ldb>>
    BY <1>0, <1>10, ReadMoves, ZenonT(60) DEF readParent
  <2>2. Ordered'
    BY <1>0, <2>1, ZenonT(60) DEF Ordered, Bound
  <2>3. ASSUME NEW h \in Mints PROVE MintStored(h)'
    <3>1. CASE h = g
      BY <1>a, <2>1, <3>1, ZenonT(60) DEF MintStored, Bound, Moves
    <3>2. CASE h # g
      BY <1>1, <2>1, <3>2, ZenonT(60) DEF MintStored, Moves, Held, Dated
    <3> QED BY <3>1, <3>2
  <2> QED BY <2>1, <2>2, <2>3 DEF StoredInv, Stored
<1>11. CASE mintNewBlock(g)
  <2>1. PICK txes \in Orders(pool) : mintNewBlock(g)!2!(txes)
    BY <1>11 DEF mintNewBlock
  <2> DEFINE r == commitTransactions(txes)
             n == mint[g].block.number
             b == [mint[g].block EXCEPT !.txs = r.committed]
  <2>2. r.committed \in SUBSET Txs
    BY <1>0, <2>1, Committed DEF Typed
  <2>3. b \in Block /\ b.number = n /\ b.txs = r.committed /\ n \in Nat /\ mint[g].pc = "commit"
    BY <1>0, <1>11, <2>2 DEF Block, mintNewBlock
  <2>4. UNCHANGED <<pipeline, log, head, ldb>>
    BY <1>11 DEF mintNewBlock
  <2>5. CASE r.committed = {}
    <3>1. mint' = [mint EXCEPT ![g] = Idle] /\ chunkQueue' = chunkQueue
      BY <2>1, <2>5
    <3>2. Moves(g, "idle", NoBlock)
      BY <1>0, <3>1, MintMoves, NoBlockFacts, ZenonT(60) DEF Stage
    <3> HIDE DEF r, b, n
    <3> QED BY <1>4, <2>4, <3>1, <3>2, NoBlockFacts DEF Stage, Dated
  <2>6. CASE r.committed # {}
    <3>1. /\ chunkQueue' = QueueChunk(chunkQueue, r.committed, n)
          /\ mint' = [mint EXCEPT ![g] = [pc |-> "flush", block |-> b]]
      BY <2>1, <2>3, <2>6
    <3>2. Moves(g, "flush", b)
      BY <1>0, <2>3, <3>1, MintMoves, ZenonT(60) DEF Stage
    <3>3. n \in {head, head + 1} /\ Bound(n)
      BY <1>0, <2>3, ZenonT(60) DEF MintStored, Dated
    <3> HIDE DEF r, b, n
    <3>4. /\ chunkQueue' \in Seq(Entry)
          /\ \A k \in DOMAIN chunkQueue' :
               \/ chunkQueue'[k].id \in r.committed /\ chunkQueue'[k].value = n
               \/ \E i \in DOMAIN chunkQueue : chunkQueue'[k] = chunkQueue[i]
          /\ \A t \in r.committed : \E k \in DOMAIN chunkQueue' : chunkQueue'[k] = Chunk(t, n)
      <4>1. chunkQueue \in Seq(Entry) /\ OneEach(chunkQueue)
        BY <1>0 DEF Typed
      <4>2. n \in Nat /\ r.committed \in SUBSET Txs
        BY <2>2, <2>3
      <4> DEFINE q == QueueChunk(chunkQueue, r.committed, n)
      <4>3. /\ q \in Seq(Entry)
            /\ \A k \in DOMAIN q :
                 \/ q[k].id \in r.committed /\ q[k].value = n
                 \/ \E i \in DOMAIN chunkQueue : q[k] = chunkQueue[i]
            /\ \A t \in r.committed : \E k \in DOMAIN q : q[k] = Chunk(t, n)
        BY <4>1, <4>2, Queued, ZenonT(60)
      <4> HIDE DEF q
      <4>4. chunkQueue' = q
        BY <3>1 DEF q
      <4> QED BY <4>3, <4>4
    <3>5. \A i \in DOMAIN chunkQueue : chunkQueue[i] \in Entry /\ chunkQueue[i].value \in Nat
      <4>1. \A i \in DOMAIN chunkQueue : chunkQueue[i] \in Entry
        BY <1>0 DEF Typed
      <4> QED BY <4>1 DEF Entry
    <3>6. AtMost(log, proposing, mined, chunkQueue', ldb, n)
      <4>1. \A k \in DOMAIN chunkQueue' : chunkQueue'[k].value <= n
        BY <2>3, <3>3, <3>4 DEF Bound, AtMost
      <4> QED BY <3>3, <4>1, ZenonT(60) DEF Bound, AtMost
    <3>7. AtMost(log, proposing, mined, chunkQueue', ldb, head + 1)
      BY <1>b, <3>3, <3>4, <3>6, BoundRaised, ZenonT(60)
    <3>8. Ordered'
      BY <1>a, <2>4, <3>7, ZenonT(60) DEF Ordered, Bound
    <3>9. \A k \in DOMAIN chunkQueue' : ldb'[chunkQueue'[k].id] <= chunkQueue'[k].value
      BY <2>2, <2>3, <2>4, <3>3, <3>4, ZenonT(60) DEF Bound, AtMost, StoredInv
    <3>10. ASSUME NEW h \in Mints PROVE MintStored(h)'
      <4>1. CASE h = g
        <5>1. mint'[g].pc = "flush" /\ mint'[g].block.number = n /\ mint'[g].block.txs = r.committed
          BY <2>3, <3>2, ZenonT(60) DEF Moves
        <5>2. Bound(mint[g].block.number)'
          BY <2>4, <3>6, <5>1, ZenonT(60) DEF Bound
        <5> QED BY <2>4, <3>3, <3>4, <4>1, <5>1, <5>2, ZenonT(60) DEF MintStored
      <4>2. CASE h # g
        BY <1>1, <2>3, <3>2, <4>2 DEF MintStored, Moves, Held, Dated
      <4> QED BY <4>1, <4>2
    <3> QED BY <2>4, <3>8, <3>9, <3>10 DEF StoredInv, Stored
  <2> QED BY <2>5, <2>6
<1>12. ASSUME NEW wrote \in BOOLEAN, flushChunks(g, wrote) PROVE StoredInv'
  <2> DEFINE n == mint[g].block.number
             s == SetChunkBatchLocal(ldb, chunkQueue)
  <2>1. mint[g].pc = "flush" /\ UNCHANGED <<pipeline, log, head>>
    BY <1>12 DEF flushChunks
  <2>2. Flushed(wrote) <=> chunkQueue = <<>> \/ wrote
    BY DEF Flushed, SetChunkBatch
  <2>3. /\ n \in {head, head + 1} /\ n \in Nat /\ Bound(n)
        /\ \A t \in mint[g].block.txs : \E i \in DOMAIN chunkQueue : chunkQueue[i] = Chunk(t, n)
    BY <1>0, <1>2, <2>1, ZenonT(60) DEF MintStored, Dated
  <2>4. CASE ~Flushed(wrote)
    <3>1. mint' = [mint EXCEPT ![g] = Idle] /\ UNCHANGED <<chunkQueue, ldb>>
      BY <1>12, <2>2, <2>4 DEF flushChunks, Flush, Flushed
    <3>2. Moves(g, "idle", NoBlock)
      BY <1>0, <3>1, MintMoves, NoBlockFacts, ZenonT(60) DEF Stage
    <3> QED BY <1>4, <2>1, <3>1, <3>2, NoBlockFacts DEF Stage, Dated
  <2>5. CASE Flushed(wrote)
    <3>1. /\ mint' = [mint EXCEPT ![g].pc = "post"] /\ chunkQueue' = <<>>
          /\ ldb' = IF wrote THEN s ELSE ldb
      BY <1>12, <2>5 DEF flushChunks, Flush, Flushed
    <3>2. Moves(g, "post", mint[g].block)
      BY <1>0, <3>1, MintMoves, ZenonT(60) DEF Stage
    <3>3. ldb \in [Txs -> Nat] /\ \A i \in DOMAIN chunkQueue :
            chunkQueue[i] \in Entry /\ chunkQueue[i].id \in Txs /\ chunkQueue[i].value \in Nat
      <4>1. ldb \in [Txs -> Nat] /\ \A i \in DOMAIN chunkQueue : chunkQueue[i] \in Entry
        BY <1>0 DEF Typed
      <4> QED BY <4>1 DEF Entry
    <3>4. /\ s \in [Txs -> Nat]
          /\ \A i \in DOMAIN chunkQueue : s[chunkQueue[i].id] = chunkQueue[i].value
          /\ \A t \in Txs : (\A i \in DOMAIN chunkQueue : chunkQueue[i].id # t) => s[t] = ldb[t]
      BY <1>0, <1>b, Written, ZenonT(60)
    <3> HIDE DEF s
    <3>5. \A t \in Txs : ldb'[t] \in Nat /\ ldb'[t] >= ldb[t] /\ ldb'[t] <= n
      <4>1. \A t \in Txs : s[t] \in Nat /\ s[t] >= ldb[t] /\ s[t] <= n
        <5> SUFFICES ASSUME NEW t \in Txs PROVE s[t] \in Nat /\ s[t] >= ldb[t] /\ s[t] <= n
          BY ZenonT(60)
        <5>1. CASE \A i \in DOMAIN chunkQueue : chunkQueue[i].id # t
          <6>1. s[t] = ldb[t] /\ ldb[t] \in Nat /\ ldb[t] <= n
            BY <2>3, <3>3, <3>4, <5>1, ZenonT(60) DEF Bound, AtMost
          <6> QED BY <6>1
        <5>2. CASE \E i \in DOMAIN chunkQueue : chunkQueue[i].id = t
          BY <2>3, <3>3, <3>4, <5>2, ZenonT(60) DEF Bound, AtMost, StoredInv
        <5> QED BY <5>1, <5>2, ZenonT(60)
      <4>2. \A t \in Txs : ldb[t] \in Nat /\ ldb[t] <= n
        BY <2>3, <3>3, ZenonT(60) DEF Bound, AtMost
      <4>3. ldb' = s \/ ldb' = ldb
        BY <3>1
      <4> QED BY <4>1, <4>2, <4>3
    <3>6. \A t \in mint[g].block.txs : ldb'[t] >= n
      <4> SUFFICES ASSUME NEW t \in mint[g].block.txs PROVE ldb'[t] >= n
        BY ZenonT(60)
      <4>1. PICK i \in DOMAIN chunkQueue : chunkQueue[i] = Chunk(t, n)
        BY <2>3
      <4>2. chunkQueue # <<>>
        BY <4>1
      <4>3. chunkQueue[i].id = t /\ chunkQueue[i].value = n
        BY <4>1 DEF Chunk
      <4> QED BY <2>2, <2>3, <2>5, <3>1, <3>4, <4>2, <4>3
    <3>7. \A b \in Block : Stored(b) => Stored(b)'
      <4> SUFFICES ASSUME NEW b \in Block, Stored(b), NEW t \in b.txs PROVE ldb'[t] >= b.number
        BY DEF Stored
      <4>1. t \in Txs /\ b.number \in Nat /\ ldb[t] \in Nat /\ ldb[t] >= b.number
        BY <1>2, <3>3 DEF Stored
      <4> QED BY <3>5, <4>1
    <3>8. DOMAIN chunkQueue' = {} /\ chunkQueue' \in Seq(Entry)
      BY <3>1
    <3>a. ldb' \in [Txs -> Nat]
      BY <3>1, <3>3, <3>4
    <3>b. AtMost(log, proposing, mined, chunkQueue', ldb', n)
      BY <2>3, <3>5, <3>8, ZenonT(60) DEF Bound, AtMost
    <3>c. AtMost(log, proposing, mined, chunkQueue', ldb', head + 1)
      BY <1>b, <2>3, <3>8, <3>a, <3>b, BoundRaised, ZenonT(60)
    <3>9. Ordered'
      BY <1>a, <2>1, <3>c, ZenonT(60) DEF Ordered, Bound
    <3>10. ASSUME NEW h \in Mints PROVE MintStored(h)'
      <4>1. CASE h = g
        <5>1. mint'[g].pc = "post" /\ mint'[g].block = mint[g].block
          BY <3>2 DEF Moves
        <5>2. Bound(mint[g].block.number)'
          BY <2>1, <3>b, <5>1, ZenonT(60) DEF Bound
        <5> QED BY <2>1, <2>3, <3>6, <4>1, <5>1, <5>2, ZenonT(60) DEF MintStored, Stored
      <4>2. CASE h # g
        BY <1>1, <2>1, <3>2, <4>2, ZenonT(60) DEF MintStored, Moves, Held, Dated
      <4> QED BY <4>1, <4>2
    <3>11. Stored(mined)' /\ Stored(proposing)' /\ \A i \in DOMAIN log' : Stored(log[i])'
      BY <1>3, <2>1, <3>7, ZenonT(60) DEF StoredInv, Stored
    <3> QED BY <3>8, <3>9, <3>10, <3>11 DEF StoredInv
  <2> QED BY <2>4, <2>5
<1>13. CASE postMined(g)
  <2>1. /\ mint[g].pc = "post" /\ Moves(g, "idle", NoBlock) /\ mined' = mint[g].block
        /\ UNCHANGED <<proposing, log, head, chunkQueue, ldb>>
    BY <1>0, <1>13, MintMoves, NoBlockFacts, ZenonT(60) DEF postMined, Stage
  <2> DEFINE n == mint[g].block.number
  <2>2. n \in {head, head + 1} /\ Bound(n) /\ Stored(mint[g].block) /\ n \in Nat
    BY <1>0, <1>2, <2>1, ZenonT(60) DEF MintStored, Dated
  <2>3. Ordered'
    <3>1. /\ InOrder(log, proposing, mint[g].block, head)
          /\ AtMost(log, proposing, mint[g].block, chunkQueue, ldb, head + 1)
      BY <1>0, <1>a, <1>b, <2>2, PostOrdered, ZenonT(60) DEF Bound
    <3> QED BY <2>1, <3>1, ZenonT(60) DEF Ordered, Bound
  <2>4. ASSUME NEW h \in Mints PROVE MintStored(h)'
    BY <1>1, <2>1, ZenonT(60) DEF Held, Dated, Moves, MintStored
  <2> QED BY <2>1, <2>2, <2>3, <2>4, ZenonT(60) DEF StoredInv, Stored
<1> QED BY <1>5, <1>6, <1>7, <1>8, <1>9, <1>10, <1>11, <1>12, <1>13 DEF mintStep

\* The steps of the other goroutines.
LEMMA StepStored ==
  ASSUME localOnly
  PROVE  FlagInv /\ FlagInv' /\ StoredInv /\ [Next]_vars => StoredInv'
<1> SUFFICES ASSUME FlagInv, FlagInv', StoredInv, [Next]_vars PROVE StoredInv'
  OBVIOUS
<1> USE DEF chain, flags, storage, pipeline
<1>0. Typed /\ Ordered /\ Bound(head + 1) /\ InOrder(log, proposing, mined, head) /\ NoBlock.txs = {}
  BY ZenonT(60) DEF FlagInv, StoredInv, Ordered, NoBlock
<1>1. /\ log \in Seq(Block) /\ proposing \in Block /\ mined \in Block /\ head \in Nat
      /\ chunkQueue \in Seq(Entry) /\ ldb \in [Txs -> Nat] /\ mint \in [Mints -> [pc : Stage, block : Block]]
  BY <1>0, ZenonT(60) DEF Typed
<1>a. \A h \in Mints : /\ MintStored(h) /\ mint[h].block.number \in Nat
                       /\ (mint[h].pc \in Dated => mint[h].block.number \in {head, head + 1} /\ Bound(mint[h].block.number))
  <2> SUFFICES ASSUME NEW h \in Mints
               PROVE  /\ MintStored(h) /\ mint[h].block.number \in Nat
                      /\ (mint[h].pc \in Dated => mint[h].block.number \in {head, head + 1} /\ Bound(mint[h].block.number))
    OBVIOUS
  <2>1. mint[h].block \in Block
    BY <1>1
  <2>2. MintStored(h)
    BY ZenonT(60) DEF StoredInv
  <2> QED BY <2>1, <2>2, Numbered, ZenonT(60) DEF MintStored
<1>2. ASSUME NEW g \in Mints, throttle(g) \/ mintStep(g) PROVE StoredInv'
  BY <1>2, MintStores, ZenonT(60)
<1>3. CASE triggerLoop \/ onMintRequest \/ onChainHead \/ passMutex \/ mintingLoop \/ sendChainHead
  BY <1>3, StoredFrame
     DEF triggerLoop, onMintRequest, onChainHead, passMutex, mintingLoop, sendChainHead
<1>4. CASE ResetMiningFlag
  <2>1. /\ mined # NoBlock /\ proposing' = mined /\ mined' = NoBlock
        /\ UNCHANGED <<log, head, chunkQueue, ldb, mint>>
    BY <1>4 DEF ResetMiningFlag
  <2>2. /\ InOrder(log, mined, NoBlock, head)
        /\ \A n \in Nat : AtMost(log, proposing, mined, chunkQueue, ldb, n)
                            => AtMost(log, mined, NoBlock, chunkQueue, ldb, n)
    BY <1>0, <2>1, ResetOrdered, ZenonT(60)
  <2>3. \A n \in Nat : Bound(n) => AtMost(log, mined, NoBlock, chunkQueue, ldb, n)
    BY <2>2, ZenonT(60) DEF Bound
  <2>4. Ordered'
    <3>1. head + 1 \in Nat
      BY <1>1
    <3> QED BY <1>0, <2>1, <2>2, <2>3, <3>1, ZenonT(60) DEF Ordered, Bound
  <2>5. ASSUME NEW h \in Mints PROVE MintStored(h)'
    BY <1>a, <2>1, <2>3, ZenonT(60) DEF MintStored, Bound, Stored
  <2> QED BY <1>0, <2>1, <2>4, <2>5, ZenonT(60) DEF StoredInv, Stored
<1>5. ASSUME NEW lost \in BOOLEAN, Propose(lost) PROVE StoredInv'
  <2>1. /\ proposing # NoBlock /\ proposing' = NoBlock /\ UNCHANGED <<mined, head, chunkQueue, ldb, mint>>
        /\ log' = log \/ log' = Append(log, proposing)
    BY <1>5 DEF Propose
  <2>2. /\ InOrder(log', NoBlock, mined, head)
        /\ \A n \in Nat : AtMost(log, proposing, mined, chunkQueue, ldb, n)
                            => AtMost(log', NoBlock, mined, chunkQueue, ldb, n)
        /\ \A i \in DOMAIN log' : (i \in DOMAIN log /\ log'[i] = log[i]) \/ log'[i] = proposing
    BY <1>0, <1>1, <2>1, ProposeOrdered, ZenonT(60)
  <2>3. \A n \in Nat : Bound(n) => AtMost(log', NoBlock, mined, chunkQueue, ldb, n)
    BY <2>2, ZenonT(60) DEF Bound
  <2>4. Ordered'
    <3>1. head + 1 \in Nat
      BY <1>1
    <3> QED BY <1>0, <2>1, <2>2, <2>3, <3>1, ZenonT(60) DEF Ordered, Bound
  <2>5. ASSUME NEW h \in Mints PROVE MintStored(h)'
    BY <1>a, <2>1, <2>3, ZenonT(60) DEF MintStored, Bound, Stored
  <2> QED BY <1>0, <2>1, <2>2, <2>4, <2>5, ZenonT(60) DEF StoredInv, Stored
<1>6. CASE applyNewChainHead
  <2>1. /\ log # <<>> /\ log' = Tail(log) /\ head' = Head(log).number
        /\ UNCHANGED <<mined, proposing, chunkQueue, ldb, mint>>
    BY <1>6, ZenonT(60) DEF applyNewChainHead
  <2>2. /\ InOrder(Tail(log), proposing, mined, head')
        /\ AtMost(Tail(log), proposing, mined, chunkQueue, ldb, head' + 1)
        /\ \A n \in {head, head + 1} :
             AtMost(log, proposing, mined, chunkQueue, ldb, n)
               => n \in {head', head' + 1} /\ AtMost(Tail(log), proposing, mined, chunkQueue, ldb, n)
        /\ \A i \in DOMAIN Tail(log) : i + 1 \in DOMAIN log /\ Tail(log)[i] = log[i + 1]
    <3>1. AtMost(log, proposing, mined, chunkQueue, ldb, head + 1) /\ InOrder(log, proposing, mined, head)
      BY <1>0, ZenonT(60) DEF Bound
    <3>2. /\ log \in Seq(Block) /\ proposing \in Block /\ mined \in Block /\ head \in Nat
          /\ chunkQueue \in Seq(Entry) /\ ldb \in [Txs -> Nat] /\ log # <<>> /\ head' = Head(log).number
      BY <1>1, <2>1, ZenonT(60)
    <3> QED BY <3>1, <3>2, HeadOrdered
  <2>3. \A n \in {head, head + 1} :
          Bound(n) => n \in {head', head' + 1} /\ AtMost(Tail(log), proposing, mined, chunkQueue, ldb, n)
    BY <2>2, ZenonT(60) DEF Bound
  <2>4. Ordered'
    BY <2>1, <2>2, ZenonT(60) DEF Ordered, Bound
  <2>5. ASSUME NEW h \in Mints PROVE MintStored(h)'
    BY <1>a, <2>1, <2>3, ZenonT(60) DEF MintStored, Bound, Stored
  <2> QED BY <2>1, <2>2, <2>4, <2>5, ZenonT(60) DEF StoredInv, Stored
<1>7. ASSUME NEW l \in {"self", "other", "none"}, ChangeLeader(l) PROVE StoredInv'
  BY <1>7, StoredFrame DEF ChangeLeader
<1>8. CASE handleRoleChange
  BY <1>8, StoredFrame DEF handleRoleChange, start, stop
<1>9. CASE UNCHANGED vars
  BY <1>9, StoredFrame DEF vars
<1> QED BY <1>2, <1>3, <1>4, <1>5, <1>6, <1>7, <1>8, <1>9 DEF Next

\* A node in local mode offers a block to raft only after the chunks of all its
\* transactions are in leveldb, and no later Flush replaces them by older ones:
\* for any number of concurrent mints, failed writes and blocks in flight.
THEOREM ProposedBlocksStored ==
  ASSUME localOnly
  PROVE  Spec => []ProposedStored
<1>1. StoredInv => ProposedStored
  <2>1. \A b \in Range(log) : \E i \in DOMAIN log : b = log[i]
    BY ZenonT(60) DEF Range
  <2> QED BY <2>1, ZenonT(60) DEF StoredInv, Stored, ProposedStored
<1>2. FlagInv /\ FlagInv' /\ StoredInv /\ [Next]_vars => StoredInv'
  BY StepStored
<1>3. Init => StoredInv
  BY InitStored
<1> QED BY <1>1, <1>2, <1>3, FlagHolds, PTL DEF Spec
=============================================================================
