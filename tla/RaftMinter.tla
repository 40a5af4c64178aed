----------------------------- MODULE RaftMinter -----------------------------
(***************************************************************************)
(* The minter of a raft node (deep/minter.go) with the parts of the        *)
(* protocol manager it talks to (deep/handler.go) and the chunk queue it   *)
(* flushes (deep/remotestorage.go).                                        *)
(*                                                                         *)
(* Everything here runs concurrently: the ticker of triggerLoop, the event *)
(* loop, the throttle that starts `go f()`, any number of mintNewBlock     *)
(* goroutines, handleRoleChange, minedBroadcastLoop, serveLocalProposals   *)
(* and the raft event loop that inserts committed blocks.  raft itself is  *)
(* outside src/: a leader that is this node, another one or none.  The     *)
(* chain is one whose Commit stores its chunks with the QueueChunk of the  *)
(* StorageLayer interface, for which Flush is there; plasmachain's writes  *)
(* them with SetChunk and leaves the queue empty.                          *)
(***************************************************************************)
EXTENDS Naturals, Sequences, FiniteSets, Functions

CONSTANTS
    Txs,        \* transactions
    Bad,        \* those that ApplyTransaction refuses
    MaxMints,   \* mintNewBlock goroutines that may exist at a time
    localOnly,  \* RemoteStorage.localOnly
    MaxLag,     \* blocks committed and not yet inserted
    MaxTerms,   \* changes of leader
    MaxFails    \* failing leveldb writes

\* Every set of transactions is finite: its members can be listed.
ASSUME MinterAssumption ==
    /\ \A S \in SUBSET Txs : Cardinality(S) \in Nat /\ ExistsBijection(1 .. Cardinality(S), S)
    /\ Bad \subseteq Txs
    /\ MaxMints \in Nat \ {0} /\ localOnly \in BOOLEAN
    /\ MaxLag \in Nat \ {0} /\ MaxTerms \in Nat /\ MaxFails \in Nat

VARIABLES
    leader,      \* "self", "other" or "none"
    roleC,       \* the role raft announced last, not yet read ("" if read)
    minting, mineflag,
    mu,          \* the mint that holds minter.mu, 0 when free
    shouldMine, request,         \* the two ring channels of size 1
    chainHead,   \* buffered event channel of size 1
    loop,        \* minter.eventLoop: "select" or "lock"
    mint,        \* the mintNewBlock goroutines
    mined,       \* block held by minedBroadcastLoop
    proposing,   \* block held by serveLocalProposals
    log,         \* blocks committed, not yet inserted
    feed,        \* TRUE while InsertChain sends its ChainHeadEvent
    head, pool,  \* number of the head, pooled transactions
    chunkQueue, ldb,             \* RemoteStorage
    terms, fails

flags == <<minting, mineflag>>
channels == <<shouldMine, request, chainHead>>
pipeline == <<mined, proposing>>
chain == <<log, feed, head>>
storage == <<chunkQueue, ldb, fails>>
raft == <<leader, roleC, terms>>
vars == <<flags, channels, pipeline, chain, storage, raft, mu, loop, mint, pool>>

NoBlock == [number |-> 0, txs |-> {}]
Idle == [pc |-> "idle", block |-> NoBlock]
NoMint == 0
Mints == 1 .. MaxMints

-----------------------------------------------------------------------------
(* RemoteStorage: the queue of chunks and the local store. *)

\* The sequences of the members of S, each of them once, and one of these.
Orders(S) == Bijection(1 .. Cardinality(S), S)
Listing(S) == CHOOSE s \in Orders(S) : TRUE

Chunk(id, value) == [id |-> id, value |-> value]

\* QueueChunk for every chunk of a commit: a known id gets the new value in
\* its place, the other ids are appended.
QueueChunk(q, ids, value) ==
    LET new == Listing(ids \ {q[i].id : i \in DOMAIN q})
    IN  [i \in DOMAIN q |-> IF q[i].id \in ids THEN Chunk(q[i].id, value) ELSE q[i]]
          \o [k \in DOMAIN new |-> Chunk(new[k], value)]

\* SetChunkBatchLocal: one leveldb batch, written whole or not at all; the last
\* of several values of an id stays.
SetChunkBatchLocal(store, q) ==
    [t \in Txs |->
       LET at == {i \in DOMAIN q : q[i].id = t}
       IN  IF at = {} THEN store[t] ELSE q[CHOOSE i \in at : \A j \in at : j <= i].value]

\* SetChunkBatch reports a failed local write only in local mode.
SetChunkBatch(wrote) == localOnly => wrote

\* Flush: an empty queue is a success; the queue is kept when the batch fails.
Flush(wrote) ==
    /\ ldb' = IF wrote THEN SetChunkBatchLocal(ldb, chunkQueue) ELSE ldb
    /\ chunkQueue' = IF chunkQueue = <<>> \/ SetChunkBatch(wrote) THEN <<>> ELSE chunkQueue
    /\ fails' = IF wrote THEN fails ELSE fails + 1

Flushed(wrote) == chunkQueue = <<>> \/ SetChunkBatch(wrote)

-----------------------------------------------------------------------------
newMinter ==
    /\ minting = 0 /\ mineflag = 0 /\ mu = NoMint
    /\ shouldMine = 0 /\ request = 0 /\ chainHead = 0
    /\ loop = "select"
    /\ mint = [g \in Mints |-> Idle]

Init ==
    /\ newMinter
    /\ leader = "none" /\ roleC = "" /\ terms = 0
    /\ mined = NoBlock /\ proposing = NoBlock
    /\ log = <<>> /\ feed = FALSE /\ head = 0
    /\ pool = Txs
    /\ chunkQueue = <<>> /\ ldb = [t \in Txs |-> 0] /\ fails = 0

-----------------------------------------------------------------------------
(* Requests. *)

\* requestMinting is idempotent: the ring keeps one request.
requestMinting == shouldMine' = 1

\* triggerLoop on a tick, when no block is being minted.
triggerLoop ==
    /\ mineflag = 0
    /\ requestMinting
    /\ UNCHANGED <<flags, request, chainHead, pipeline, chain, storage, raft,
                   mu, loop, mint, pool>>

\* eventLoop on a MintRequestEvent of MintTestBlock, which may come at any time.
onMintRequest ==
    /\ loop = "select" /\ minting = 1 /\ mineflag = 0
    /\ requestMinting
    /\ UNCHANGED <<flags, request, chainHead, pipeline, chain, storage, raft, mu, loop, mint, pool>>

\* eventLoop on a ChainHeadEvent: a verifier passes through the mutex.
onChainHead ==
    /\ loop = "select" /\ chainHead = 1
    /\ chainHead' = 0
    /\ loop' = IF minting = 1 THEN "select" ELSE "lock"
    /\ UNCHANGED <<flags, shouldMine, request, pipeline, chain, storage, raft,
                   mu, mint, pool>>

passMutex ==
    /\ loop = "lock" /\ mu = NoMint
    /\ loop' = "select"
    /\ UNCHANGED <<flags, channels, pipeline, chain, storage, raft, mu, mint, pool>>

\* mintingLoop hands a request to the throttle, whose ring keeps one.
mintingLoop ==
    /\ shouldMine = 1
    /\ shouldMine' = 0 /\ request' = 1
    /\ UNCHANGED <<flags, chainHead, pipeline, chain, storage, raft, mu, loop,
                   mint, pool>>

\* throttle on a tick: a goroutine per request, whatever the others are doing.
throttle(g) ==
    /\ request = 1 /\ mint[g] = Idle
    /\ \A h \in 1 .. g - 1 : mint[h] # Idle
    /\ request' = 0
    /\ mint' = [mint EXCEPT ![g].pc = "called"]
    /\ UNCHANGED <<flags, shouldMine, chainHead, pipeline, chain, storage, raft,
                   mu, loop, pool>>

-----------------------------------------------------------------------------
(* One goroutine of mintNewBlock. *)

MintUnchanged == UNCHANGED <<channels, chain, raft, loop>>

\* The test of `minting` in mintingLoop's closure, before mintNewBlock.
checkMinting(g) ==
    /\ mint[g].pc = "called"
    /\ mint' = [mint EXCEPT ![g] = IF minting = 1 THEN [@ EXCEPT !.pc = "load"] ELSE Idle]
    /\ MintUnchanged /\ UNCHANGED <<flags, pipeline, storage, mu, pool>>

\* mineflag is loaded, and stored in another step.
loadMineflag(g) ==
    /\ mint[g].pc = "load"
    /\ mint' = [mint EXCEPT ![g] = IF mineflag = 1 THEN Idle ELSE [@ EXCEPT !.pc = "store"]]
    /\ MintUnchanged /\ UNCHANGED <<flags, pipeline, storage, mu, pool>>

storeMineflag(g) ==
    /\ mint[g].pc = "store"
    /\ mineflag' = 1
    /\ mint' = [mint EXCEPT ![g].pc = "lock"]
    /\ MintUnchanged /\ UNCHANGED <<minting, pipeline, storage, mu, pool>>

lockMinter(g) ==
    /\ mint[g].pc = "lock" /\ mu = NoMint
    /\ mu' = g
    /\ mint' = [mint EXCEPT ![g].pc = "parent"]
    /\ MintUnchanged /\ UNCHANGED <<flags, pipeline, storage, pool>>

readParent(g) ==
    /\ mint[g].pc = "parent"
    /\ mint' = [mint EXCEPT ![g].pc = "commit", ![g].block = [number |-> head + 1, txs |-> {}]]
    /\ MintUnchanged /\ UNCHANGED <<flags, pipeline, storage, mu, pool>>

MutKeepFailing(txes) ==
    LET failing == {i \in DOMAIN txes : txes[i] \in Bad}
    IN  [committed |-> {txes[j] : j \in {k \in DOMAIN txes : \A i \in failing : k < i}},
         removed |-> {}]

\* commitTransactions over the sorted pool.  A failing transaction is removed
\* from the pool, but index and bound step back together on the loop's own
\* slice: it is tried again until the bound reaches it, and nothing after it is.
commitTransactions(txes) ==
    LET failing == {i \in DOMAIN txes : txes[i] \in Bad}
        before == {k \in DOMAIN txes : \A i \in failing : k < i}
        first == {i \in failing : \A k \in failing : i <= k}
    IN  [committed |-> {txes[k] : k \in before}, removed |-> {txes[i] : i \in first}]

MutKeepFlag(g) ==
    /\ mint[g].pc = "commit"
    /\ \E txes \in Orders(pool) :
         LET r == commitTransactions(txes)
             b == [mint[g].block EXCEPT !.txs = r.committed]
         IN  /\ pool' = pool \ r.removed
             /\ mint' = [mint EXCEPT ![g] = IF r.committed = {} THEN Idle
                                            ELSE [pc |-> "flush", block |-> b]]
             /\ mu' = IF r.committed = {} THEN NoMint ELSE mu
    /\ MintUnchanged /\ UNCHANGED <<flags, pipeline, storage>>

\* getTransactions, commitTransactions and, when there is anything to mint,
\* state.Commit, by which the chain queues its chunks, and makeBlock.
mintNewBlock(g) ==
    /\ mint[g].pc = "commit"
    /\ \E txes \in Orders(pool) :
         LET r == commitTransactions(txes)
             b == [mint[g].block EXCEPT !.txs = r.committed]
         IN  /\ pool' = pool \ r.removed
             /\ IF r.committed = {}
                THEN /\ mineflag' = 0 /\ mu' = NoMint
                     /\ mint' = [mint EXCEPT ![g] = Idle]
                     /\ UNCHANGED chunkQueue
                ELSE /\ chunkQueue' = QueueChunk(chunkQueue, r.committed, b.number)
                     /\ mint' = [mint EXCEPT ![g] = [pc |-> "flush", block |-> b]]
                     /\ UNCHANGED <<mineflag, mu>>
    /\ MintUnchanged /\ UNCHANGED <<minting, pipeline, ldb, fails>>

MutIgnoreFlush(g, wrote) ==
    /\ mint[g].pc = "flush" /\ (wrote \/ fails < MaxFails)
    /\ Flush(wrote)
    /\ mint' = [mint EXCEPT ![g].pc = "post"]
    /\ MintUnchanged /\ UNCHANGED <<flags, pipeline, mu, pool>>

\* Flush; an error returns without resetting mineflag.
flushChunks(g, wrote) ==
    /\ mint[g].pc = "flush" /\ (wrote \/ fails < MaxFails)
    /\ Flush(wrote)
    /\ IF Flushed(wrote)
       THEN mint' = [mint EXCEPT ![g].pc = "post"] /\ UNCHANGED mu
       ELSE mint' = [mint EXCEPT ![g] = Idle] /\ mu' = NoMint
    /\ MintUnchanged /\ UNCHANGED <<flags, pipeline, pool>>

\* Post waits for minedBroadcastLoop and still holds the mutex.
postMined(g) ==
    /\ mint[g].pc = "post" /\ mined = NoBlock
    /\ mined' = mint[g].block
    /\ mint' = [mint EXCEPT ![g] = Idle] /\ mu' = NoMint
    /\ MintUnchanged /\ UNCHANGED <<flags, proposing, storage, pool>>

-----------------------------------------------------------------------------
(* The protocol manager's side. *)

\* minedBroadcastLoop hands the block to serveLocalProposals: the flag is reset
\* here, before the block is proposed.
ResetMiningFlag ==
    /\ mined # NoBlock /\ proposing = NoBlock
    /\ proposing' = mined /\ mined' = NoBlock
    /\ mineflag' = 0
    /\ UNCHANGED <<minting, channels, chain, storage, raft, mu, loop, mint, pool>>

\* Propose waits for a leader; a proposal that another leader does not get is
\* lost.
Propose(lost) ==
    /\ proposing # NoBlock /\ leader # "none" /\ Len(log) < MaxLag
    /\ lost => leader = "other"
    /\ log' = IF lost THEN log ELSE Append(log, proposing)
    /\ proposing' = NoBlock
    /\ UNCHANGED <<flags, channels, mined, feed, head, storage, raft, mu, loop, mint, pool>>

\* applyNewChainHead: the head moves, the block's transactions leave the pool,
\* and a ChainHeadEvent is due.
applyNewChainHead ==
    /\ log # <<>> /\ ~feed
    /\ log' = Tail(log)
    /\ head' = Head(log).number /\ pool' = pool \ Head(log).txs
    /\ feed' = TRUE
    /\ UNCHANGED <<flags, channels, pipeline, storage, raft, mu, loop, mint>>

sendChainHead ==
    /\ feed /\ chainHead = 0
    /\ feed' = FALSE /\ chainHead' = 1
    /\ UNCHANGED <<flags, shouldMine, request, pipeline, log, head, storage, raft,
                   mu, loop, mint, pool>>

\* raft elects or loses a leader; the role goes to a ring of size 1.
ChangeLeader(l) ==
    /\ l # leader /\ (terms < MaxTerms \/ leader = "none")
    /\ leader' = l
    /\ terms' = IF leader = "none" THEN terms ELSE terms + 1
    /\ roleC' = IF l = "self" THEN "minter" ELSE IF leader = "self" THEN "verifier" ELSE roleC
    /\ UNCHANGED <<flags, channels, pipeline, chain, storage, mu, loop, mint, pool>>

\* handleRoleChange, minter: start resets the flag whatever is being minted.
start ==
    /\ roleC = "minter"
    /\ roleC' = "" /\ minting' = 1 /\ mineflag' = 0
    /\ requestMinting
    /\ UNCHANGED <<request, chainHead, pipeline, chain, storage, leader, terms,
                   mu, loop, mint, pool>>

MutStopUnlessBusy ==
    /\ roleC = "verifier"
    /\ roleC' = "" /\ minting' = IF mu = NoMint THEN 0 ELSE minting
    /\ UNCHANGED <<mineflag, channels, pipeline, chain, storage, leader, terms, mu, loop, mint,
                   pool>>

\* handleRoleChange, verifier: stop waits for the mutex.
stop ==
    /\ roleC = "verifier" /\ mu = NoMint
    /\ roleC' = "" /\ minting' = 0
    /\ UNCHANGED <<mineflag, channels, pipeline, chain, storage, leader, terms, mu, loop, mint,
                   pool>>

handleRoleChange == start \/ stop

mintStep(g) ==
    \/ checkMinting(g) \/ loadMineflag(g) \/ storeMineflag(g) \/ lockMinter(g)
    \/ readParent(g) \/ mintNewBlock(g) \/ postMined(g)
    \/ \E wrote \in BOOLEAN : flushChunks(g, wrote)

Next ==
    \/ triggerLoop \/ onMintRequest \/ onChainHead \/ passMutex \/ mintingLoop
    \/ \E g \in Mints : throttle(g) \/ mintStep(g)
    \/ ResetMiningFlag
    \/ \E lost \in BOOLEAN : Propose(lost)
    \/ applyNewChainHead \/ sendChainHead
    \/ \E l \in {"self", "other", "none"} : ChangeLeader(l)
    \/ handleRoleChange

Spec == Init /\ [][Next]_vars

\* Every goroutine gets to run.  Tickers keep ticking, a cluster without a
\* leader elects one, and a committed block reaches the event loop.  The
\* goroutine of handleRoleChange gets the mutex although mints keep taking it:
\* Go hands a mutex to a starving waiter.
Fairness ==
    /\ WF_vars(triggerLoop) /\ WF_vars(mintingLoop)
    /\ WF_vars(\E g \in Mints : throttle(g))
    /\ WF_vars(onChainHead \/ passMutex)
    /\ \A g \in Mints : WF_vars(mintStep(g))
    /\ WF_vars(ResetMiningFlag \/ Propose(FALSE))
    /\ WF_vars(applyNewChainHead \/ sendChainHead)
    /\ WF_vars(leader = "none" /\ \E l \in {"self", "other"} : ChangeLeader(l))
    /\ SF_vars(handleRoleChange)

FairSpec == Spec /\ Fairness

-----------------------------------------------------------------------------
(* Properties. *)

\* Type correctness: the mutex is held by the mint that is between lockMinter and
\* its unlock, and the chunk queue has one entry per chunk ID (QueueChunk).
TypeOK ==
    /\ mu \in Mints \cup {NoMint} /\ mineflag \in {0, 1} /\ minting \in {0, 1}
    /\ \A g \in Mints : mint[g].block.txs \subseteq Txs
    /\ \A g \in Mints : mu = g <=> mint[g].pc \in {"parent", "commit", "flush", "post"}
    /\ pool \subseteq Txs /\ Len(log) <= MaxLag
    /\ \A i, j \in DOMAIN chunkQueue : chunkQueue[i].id = chunkQueue[j].id => i = j

\* "states that minting is going on": while mineflag is set, a goroutine is
\* between storing it and posting, or a posted block is about to reset it, in
\* whatever order start, two mints and the proposals run.  The one exception
\* is a mint whose Flush failed.  The mutex is owned as TypeOK says.
FlagOwned ==
    /\ TypeOK
    /\ mineflag = 1 =>
          \/ \E g \in Mints : mint[g].pc \in {"lock", "parent", "commit", "flush", "post"}
          \/ mined # NoBlock
          \/ fails > 0

\* A block is offered to raft only after the chunks of all its transactions
\* are in leveldb, also when a failed Flush left chunks of an earlier attempt
\* in the queue.
ProposedStored ==
    \A b \in {mined, proposing} \cup Range(log) : \A t \in b.txs : ldb[t] >= b.number

\* A pooled transaction is inserted in the chain or dropped, unless this node
\* stops minting or a Flush fails: competing goroutines, repeated requests and
\* failing transactions do not keep it in the pool for ever.
PoolMinted ==
    []<>(pool = {} \/ minting = 0 \/ fails > 0)

\* Once raft's leadership is stable, the minter runs exactly on the leader,
\* although announcements overwrite each other and stop waits for a mint that
\* waits for raft: Post, the proposal, raft's event loop and the chain head
\* events it sends do not wait for each other in a circle.
RoleSettles == <>[](minting = 1 <=> leader = "self")
=============================================================================
