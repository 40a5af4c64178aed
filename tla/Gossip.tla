------------------------------- MODULE Gossip -------------------------------
(***************************************************************************)
(* The protocol manager of one node (plasmachain/handler.go, peer.go): its *)
(* peer set, one handler goroutine per session, the loops that broadcast   *)
(* Plasma and anchor transactions, the client call that broadcasts an      *)
(* anchor, and Stop. The peers are the environment: they connect, send any *)
(* message and hang up at any time.                                        *)
(*                                                                         *)
(* A message is the sequence of the items it carries, all of one kind; the *)
(* empty one stands for every message that handleMsg refuses. Writing to a *)
(* peer blocks for as long as the peer does not read, until the deadline   *)
(* that p2p sets on a write closes the session: a blocked write is a Write *)
(* step that has not been taken yet.                                       *)
(***************************************************************************)
EXTENDS Naturals, Sequences, FiniteSets, Functions

CONSTANTS
    Peers,          \* the remote nodes
    Txs, Anchors, Blocks, \* what is gossiped
    Covers,         \* the transactions that a block includes
    Messages,       \* what the peers may send
    maxPeers, txChanSize,
    maxKnown,       \* maxKnownPlasmaTxs, maxKnownAnchorTxs, maxKnownPlasmaBlocks
    MaxSessions,    \* bound: the sessions with each peer
    MaxMessages     \* bound: messages of all the peers and calls of the client

ASSUME SizesAssumption ==
    /\ maxPeers \in Nat /\ txChanSize \in Nat \ {0}
    /\ \A k \in {"tx", "anchor", "block"} : maxKnown[k] \in Nat \ {0}

Items == Txs \cup Anchors \cup Blocks
Loops == {"tx", "anchor"}
Goroutines == Peers \cup Loops \cup {"rpc"}

ASSUME ItemsAssumption ==
    /\ IsFiniteSet(Items)
    /\ Txs \cap Anchors = {} /\ Txs \cap Blocks = {} /\ Anchors \cap Blocks = {}
    /\ \A m \in Messages : \E s \in {Txs, Anchors, Blocks} : m \in Seq(s)
    /\ Peers \cap (Loops \cup {"rpc"}) = {}

VARIABLES
    peers, closed,  \* peerSet
    known,          \* a peer object's knownPlasmaTxs, knownAnchorTxs, knownPlasmaBlocks
    up,             \* the sessions whose connection is open
    session,        \* the number of sessions with a peer so far
    stage,          \* where handle is
    queue,          \* the received transactions still to be put into the channel
    unmarked,       \* those still to be marked
    copy,           \* the pool as ProcessPlasmaBlock read it
    txCh,           \* plasma_txCh and anchor_txCh
    cast,           \* a goroutine's broadcast: the item, the peers left, the peer written to
    running,        \* the broadcast loops that have not quit
    pool,           \* PlasmaTxPool's txpool and wtxpool
    stop,           \* how far Stop is
    messages,       \* messages received and calls made so far
    sent,           \* history: the Plasma transactions and blocks written in a peer's session
    got             \* history: <<peer, session, item>> received

vars == <<peers, closed, known, up, session, stage, queue, unmarked, copy, txCh, cast,
          running, pool, stop, messages, sent, got>>

Kind(i) == IF i \in Txs THEN "tx" ELSE IF i \in Anchors THEN "anchor" ELSE "block"

Idle == [item |-> "", to |-> {}, at |-> <<>>]

Init ==
    /\ peers = {} /\ closed = FALSE
    /\ known = [p \in Peers |-> {}]
    /\ up = {}
    /\ session = [p \in Peers |-> 0]
    /\ stage = [p \in Peers |-> "off"]
    /\ queue = [p \in Peers |-> <<>>]
    /\ unmarked = [p \in Peers |-> <<>>]
    /\ copy = [p \in Peers |-> {}]
    /\ txCh = [k \in Loops |-> <<>>]
    /\ cast = [g \in Goroutines |-> Idle]
    /\ running = Loops
    /\ pool = {}
    /\ stop = "no"
    /\ messages = 0
    /\ sent = [p \in Peers |-> <<>>]
    /\ got = {}

-----------------------------------------------------------------------------
(* Peer objects and the peer set *)

OfKind(s, k) == {i \in s : Kind(i) = k}

\* The known sets after an item is marked: at the limit, arbitrary items of its
\* kind are dropped first.
MutMark(s, i) == {s}

Mark(s, i) ==
    LET k == Kind(i)
        kept == IF Cardinality(OfKind(s, k)) < maxKnown[k] THEN {OfKind(s, k)}
                ELSE {r \in SUBSET OfKind(s, k) : Cardinality(r) = maxKnown[k] - 1}
    IN {(s \ OfKind(s, k)) \cup r \cup {i} : r \in kept}

\* The peers, with their sessions, that are not known to have the item.
PeersWithout(i, k) == {<<p, session[p]>> : p \in {q \in peers : i \notin k[q]}}

Broadcast(g, i, to) ==
    cast' = [cast EXCEPT ![g] = IF to = {} THEN Idle ELSE [item |-> i, to |-> to, at |-> <<>>]]

\* What handle does when it returns; removePeer is deferred once registered.
Leave(p) ==
    /\ stage' = [stage EXCEPT ![p] = "off"]
    /\ peers' = IF stage[p] = "handshake" THEN peers ELSE peers \ {p}
    /\ up' = up \ {p}

-----------------------------------------------------------------------------
(* A session *)

Run(p) ==
    /\ stage[p] = "off" /\ session[p] < MaxSessions[p]
    /\ session' = [session EXCEPT ![p] = @ + 1]
    /\ known' = [known EXCEPT ![p] = {}]
    /\ sent' = [sent EXCEPT ![p] = <<>>]
    /\ IF Cardinality(peers) >= maxPeers
       THEN UNCHANGED <<stage, up>>
       ELSE /\ stage' = [stage EXCEPT ![p] = "handshake"]
            /\ up' = up \cup {p}
    /\ UNCHANGED <<peers, closed, queue, unmarked, copy, txCh, cast, running, pool, stop, messages, got>>

\* readStatus refuses the peer (another network or version, no status), the
\* peer hangs up, handshakeTimeout passes, or the peer set is closed.
HandshakeFails(p) ==
    /\ stage[p] = "handshake"
    /\ Leave(p)
    /\ UNCHANGED <<closed, known, session, queue, unmarked, copy, txCh, cast, running, pool, stop, messages, sent, got>>

Register(p) ==
    /\ stage[p] = "handshake" /\ p \in up /\ ~closed
    /\ peers' = peers \cup {p}
    /\ stage' = [stage EXCEPT ![p] = "main"]
    /\ UNCHANGED <<closed, known, up, session, queue, unmarked, copy, txCh, cast, running, pool, stop, messages, sent, got>>

HangUp(p) ==
    /\ p \in up /\ stage[p] # "handshake"
    /\ up' = up \ {p}
    /\ UNCHANGED <<peers, closed, known, session, stage, queue, unmarked, copy, txCh, cast, running, pool, stop, messages, sent, got>>

\* ReadMsg fails, or the message is refused: the session ends.
ReadFails(p) ==
    /\ stage[p] = "main"
    /\ p \notin up \/ (messages < MaxMessages /\ <<>> \in Messages)
    /\ Leave(p)
    /\ UNCHANGED <<closed, known, session, queue, unmarked, copy, txCh, cast, running, pool, stop, messages, sent, got>>

Received(p, m) ==
    /\ messages' = messages + 1
    /\ got' = got \cup {<<p, session[p], i>> : i \in Range(m)}

\* PlasmaTxMsg, AnchorTxMsg: mark every transaction, then put them one by one.
handleTxMsg(p, m) ==
    /\ stage[p] = "main" /\ p \in up /\ messages < MaxMessages
    /\ m # <<>> /\ m[1] \notin Blocks
    /\ unmarked' = [unmarked EXCEPT ![p] = m]
    /\ queue' = [queue EXCEPT ![p] = m]
    /\ stage' = [stage EXCEPT ![p] = "mark"]
    /\ Received(p, m)
    /\ UNCHANGED <<peers, closed, known, up, session, copy, txCh, cast, running, pool, stop, sent>>

markTx(p) ==
    /\ stage[p] = "mark"
    /\ \E s \in Mark(known[p], Head(unmarked[p])) : known' = [known EXCEPT ![p] = s]
    /\ unmarked' = [unmarked EXCEPT ![p] = Tail(@)]
    /\ stage' = [stage EXCEPT ![p] = IF Len(unmarked[p]) = 1 THEN "put" ELSE "mark"]
    /\ UNCHANGED <<peers, closed, up, session, queue, copy, txCh, cast, running, pool, stop, messages, sent, got>>

putTx(p) ==
    /\ stage[p] = "put"
    /\ LET k == Kind(Head(queue[p]))
       IN /\ Len(txCh[k]) < txChanSize
          /\ txCh' = [txCh EXCEPT ![k] = Append(@, Head(queue[p]))]
    /\ queue' = [queue EXCEPT ![p] = Tail(@)]
    /\ stage' = [stage EXCEPT ![p] = IF Len(queue[p]) = 1 THEN "main" ELSE "put"]
    /\ UNCHANGED <<peers, closed, known, up, session, unmarked, copy, cast, running, pool, stop, messages, sent, got>>

\* NewPlasmaBlockMsg: ProcessPlasmaBlock reads the pool without a lock ...
handleBlockMsg(p, m) ==
    /\ stage[p] = "main" /\ p \in up /\ messages < MaxMessages
    /\ m # <<>> /\ m[1] \in Blocks
    /\ copy' = [copy EXCEPT ![p] = pool]
    /\ queue' = [queue EXCEPT ![p] = m]
    /\ stage' = [stage EXCEPT ![p] = "process"]
    /\ Received(p, m)
    /\ UNCHANGED <<peers, closed, known, up, session, unmarked, txCh, cast, running, pool, stop, sent>>

\* ... and assigns what is left; the block is marked and broadcast by the handler.
ProcessPlasmaBlock(p) ==
    LET b == Head(queue[p])
    IN /\ stage[p] = "process"
       /\ pool' = copy[p] \ Covers[b]
       /\ \E s \in Mark(known[p], b) : known' = [known EXCEPT ![p] = s]
       /\ Broadcast(p, b, PeersWithout(b, known'))
       /\ queue' = [queue EXCEPT ![p] = <<>>]
       /\ copy' = [copy EXCEPT ![p] = {}]
       /\ stage' = [stage EXCEPT ![p] = IF cast'[p] = Idle THEN "main" ELSE "send"]
       /\ UNCHANGED <<peers, closed, up, session, unmarked, txCh, running, stop, messages, sent, got>>

-----------------------------------------------------------------------------
(* Broadcasts *)

\* The next peer of the list; its object learns of the item before the write.
Pick(g) ==
    /\ cast[g].to # {} /\ cast[g].at = <<>>
    /\ \E t \in cast[g].to :
         /\ cast' = [cast EXCEPT ![g].to = @ \ {t}, ![g].at = t]
         /\ known' = IF session[t[1]] = t[2]
                     THEN [known EXCEPT ![t[1]] = @ \cup {cast[g].item}] ELSE known
    /\ UNCHANGED <<peers, closed, up, session, stage, queue, unmarked, copy, txCh, running, pool, stop, messages, sent, got>>

MutAfter(c, ok) == IF c.to = {} \/ ~ok THEN Idle ELSE [c EXCEPT !.at = <<>>]

\* The broadcast after the write to the current peer; errors are only logged.
After(c, ok) == IF c.to = {} THEN Idle ELSE [c EXCEPT !.at = <<>>]

\* p2p.Send returns: written, failed because the session is over, or too late.
Write(g) ==
    LET t == cast[g].at
        p == t[1]
        open == session[p] = t[2] /\ p \in up
    IN /\ t # <<>>
       /\ \E ok \in {open, FALSE} :
            /\ sent' = IF ok /\ cast[g].item \notin Anchors THEN [sent EXCEPT ![p] = Append(@, cast[g].item)] ELSE sent
            /\ up' = IF open /\ ~ok THEN up \ {p} ELSE up
            /\ cast' = [cast EXCEPT ![g] = After(@, ok)]
       /\ stage' = IF g \in Peers /\ cast'[g] = Idle THEN [stage EXCEPT ![g] = "main"] ELSE stage
       /\ UNCHANGED <<peers, closed, known, session, queue, unmarked, copy, txCh, running, pool, stop, messages, got>>

\* plasma_txBroadcastLoop, wolk_txBroadcastLoop
txBroadcastLoop(k) ==
    /\ k \in running /\ cast[k] = Idle /\ txCh[k] # <<>>
    /\ txCh' = [txCh EXCEPT ![k] = Tail(@)]
    /\ Broadcast(k, Head(txCh[k]), PeersWithout(Head(txCh[k]), known))
    /\ UNCHANGED <<peers, closed, known, up, session, stage, queue, unmarked, copy, running, pool, stop, messages, sent, got>>

Unsubscribed(k) == stop # "no" /\ (k = "tx" => stop # "anchors")

loopQuits(k) ==
    /\ k \in running /\ cast[k] = Idle /\ Unsubscribed(k)
    /\ running' = running \ {k}
    /\ UNCHANGED <<peers, closed, known, up, session, stage, queue, unmarked, copy, txCh, cast, pool, stop, messages, sent, got>>

\* A client's anchor: pooled and broadcast under the zero hash, that no peer knows.
SendAnchorTransaction(a) ==
    /\ cast["rpc"] = Idle /\ messages < MaxMessages
    /\ messages' = messages + 1
    /\ pool' = pool \cup {a}
    /\ Broadcast("rpc", a, {<<p, session[p]>> : p \in peers})
    /\ UNCHANGED <<peers, closed, known, up, session, stage, queue, unmarked, copy, txCh, running, stop, sent, got>>

-----------------------------------------------------------------------------
(* Stop: unsubscribe, close the peer set, wait for the handlers *)

Unsubscribe ==
    /\ stop \in {"no", "anchors"}
    /\ stop' = IF stop = "no" THEN "anchors" ELSE "txs"
    /\ UNCHANGED <<peers, closed, known, up, session, stage, queue, unmarked, copy, txCh, cast, running, pool, messages, sent, got>>

MutClose ==
    /\ stop = "txs" /\ stop' = "closed"
    /\ closed' = TRUE
    /\ UNCHANGED <<peers, known, up, session, stage, queue, unmarked, copy, txCh, cast, running, pool, messages, sent, got>>

Close ==
    /\ stop = "txs" /\ stop' = "closed"
    /\ closed' = TRUE
    /\ up' = up \ peers
    /\ UNCHANGED <<peers, known, session, stage, queue, unmarked, copy, txCh, cast, running, pool, messages, sent, got>>

Wait ==
    /\ stop = "closed" /\ \A p \in Peers : stage[p] = "off"
    /\ stop' = "done"
    /\ UNCHANGED <<peers, closed, known, up, session, stage, queue, unmarked, copy, txCh, cast, running, pool, messages, sent, got>>

Stop == Unsubscribe \/ Close \/ Wait

-----------------------------------------------------------------------------
handleMsg(p) ==
    \/ \E m \in Messages : handleTxMsg(p, m) \/ handleBlockMsg(p, m)
    \/ ReadFails(p)

handle(p) ==
    \/ Register(p) \/ HandshakeFails(p)
    \/ markTx(p) \/ putTx(p) \/ ProcessPlasmaBlock(p)

Next ==
    \/ \E p \in Peers : Run(p) \/ HangUp(p) \/ handle(p) \/ handleMsg(p)
    \/ \E g \in Goroutines : Pick(g) \/ Write(g)
    \/ \E k \in Loops : txBroadcastLoop(k) \/ loopQuits(k)
    \/ \E a \in Anchors : SendAnchorTransaction(a)
    \/ Stop

Spec == Init /\ [][Next]_vars

\* Goroutines are scheduled; a handshake and a write end, by their deadlines if
\* not otherwise; a reader of a closed session gets its error. Peers owe nothing.
Send(g) == Pick(g) \/ Write(g)
Fairness ==
    /\ \A p \in Peers : WF_vars(handle(p) \/ (p \notin up /\ ReadFails(p)) \/ Send(p))
    /\ \A k \in Loops : WF_vars(txBroadcastLoop(k) \/ loopQuits(k) \/ Send(k))
    /\ WF_vars(Send("rpc"))
    /\ WF_vars(stop # "no" /\ Stop)

FairSpec == Spec /\ Fairness

-----------------------------------------------------------------------------
(* Properties *)

\* Every broadcast in progress has a peer to write to, and a handler that
\* broadcasts a block reads no other message meanwhile.
TypeOK ==
    /\ peers \subseteq Peers /\ up \subseteq Peers /\ closed \in BOOLEAN
    /\ known \in [Peers -> SUBSET Items]
    /\ session \in [Peers -> Nat]
    /\ stage \in [Peers -> {"off", "handshake", "main", "mark", "put", "process", "send"}]
    /\ running \subseteq Loops /\ pool \subseteq Txs \cup Anchors
    /\ \A k \in Loops : Len(txCh[k]) <= txChanSize
    /\ \A g \in Goroutines : cast[g] = Idle \/ cast[g].to # {} \/ cast[g].at # <<>>
    /\ \A p \in Peers : stage[p] = "send" <=> cast[p] # Idle

\* Fewer items of the kind than the limit have passed in p's session, so that
\* none was ever dropped from its known set.
Fits(p, k) ==
    Cardinality({i \in Items : /\ Kind(i) = k
                               /\ i \in Range(sent[p]) \/ <<p, session[p], i>> \in got})
      < maxKnown[k]

WrittenOnce(q) == \A j, k \in DOMAIN q : q[j] = q[k] /\ q[j] \in Txs => j = k

\* As long as the known set is not full, a Plasma transaction is written at
\* most once per session, whoever delivers it how often
\* (SendPlasmaTransactions marks, PeersWithoutPlasmaTx filters).  And "don't send
\* this back to the peer that just sent it to you!": what is written to a peer
\* was delivered by another one, or in an earlier session.
SentOnce ==
    /\ TypeOK
    /\ \A p \in Peers : Fits(p, "tx") => WrittenOnce(sent[p])
    /\ \A p \in Peers : \A i \in Range(sent[p]) :
          Fits(p, Kind(i)) => \E g \in got : g[3] = i /\ <<g[1], g[2]>> # <<p, session[p]>>

\* A handler of a peer waits for room in a channel whose loop has quit.
Stuck(p) ==
    /\ stage[p] = "put"
    /\ LET k == Kind(Head(queue[p])) IN k \notin running /\ Len(txCh[k]) = txChanSize

\* Stop returns, unless a handler was caught with its channel full: the loops
\* that empty the channels are stopped before the handlers that fill them.  When
\* it has returned no peer is registered, and none registers later, although
\* sessions keep being opened.
StopReturns ==
    /\ stop = "anchors" ~> (stop = "done" \/ \E p \in Peers : Stuck(p))
    /\ [](stop = "done" => peers = {})

\* A Plasma transaction in the channel reaches every peer that is registered,
\* although writes to other peers block and fail, unless the peer's session
\* ends or the node stops.
Relayed ==
    \A p \in Peers, i \in Txs :
      (i \in Range(txCh["tx"]) /\ p \in peers) ~> (i \in known[p] \/ p \notin up \/ stop # "no")
=============================================================================
