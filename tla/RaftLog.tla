------------------------------ MODULE RaftLog ------------------------------
(***************************************************************************)
(* The raft protocol manager of a node (deep/handler.go, deep/snapshot.go):*)
(* how committed entries become chain blocks and cluster membership, what  *)
(* is on disk at every moment, and what a restart makes of it.             *)
(*                                                                         *)
(* etcd's raft is outside src/: `log` is the sequence of entries it has    *)
(* committed, the same for every node, delivered in order and in batches   *)
(* of any size.  The chain behind deep.BlockChain is outside too: it       *)
(* stores a block durably on InsertChain and keeps its head.               *)
(***************************************************************************)
EXTENDS Naturals, Sequences, FiniteSets, Functions

CONSTANTS
    Nodes,          \* raft ids whose processes run
    Bootstrap,      \* raft ids of the initial cluster, 1 .. k
    Hosts,          \* enodes an operator may add to the cluster
    Home,           \* raft id -> address of an initial member
    snapshotPeriod, \* entries between two periodic snapshots
    MaxLog,         \* bound on the committed log
    MaxCalls,       \* bound on the API calls that reach the cluster
    MaxCrash        \* bound on the number of crashes

ASSUME BootstrapAssumption ==
    /\ Cardinality(Bootstrap) \in Nat /\ Bootstrap = 1 .. Cardinality(Bootstrap)
    /\ MaxLog \in Nat /\ MaxCrash \in Nat
    /\ Nodes \subseteq 1 .. MaxLog
    /\ Home \in [Bootstrap -> STRING]
    /\ snapshotPeriod \in Nat \ {0}

VARIABLES
    log,     \* the entries raft has committed
    calls,   \* conf changes computed by an API call, not yet handed to raft
    mem,     \* node -> what a crash loses
    disk,    \* node -> what a crash leaves
    crashes

vars == <<log, calls, mem, disk, crashes>>

Ids == 1 .. MaxLog + Cardinality(Bootstrap)
Normal == "EntryNormal"
AddNode == "ConfChangeAddNode"
RemoveNode == "ConfChangeRemoveNode"

Entry(type, id, addr, num) == [type |-> type, id |-> id, addr |-> addr, num |-> num]

NoPeers == [i \in {} |-> ""]

\* Snapshot, as EncodeRLP writes it: the addresses of the members, the
\* tombstones, the head; index and ConfState are raft's metadata.
Snapshot(index, confState, addresses, removed, head) ==
    [index |-> index, confState |-> confState, addresses |-> addresses,
     removed |-> removed, head |-> head]

NoSnapshot == Snapshot(0, {}, NoPeers, {}, 0)

\* What a process holds: its place in eventLoop, the head captured with the
\* Ready, what raft has committed, delivered and configured, and the fields of
\* ProtocolManager.
Memory(run, commit, given, applied, conf, peers, address) ==
    [run |-> run, stage |-> "select", cur |-> 0, commit |-> commit,
     given |-> given, conf |-> conf, appliedIndex |-> applied,
     snapshotIndex |-> 0, confState |-> {}, peers |-> peers,
     removedPeers |-> {}, address |-> address, exitAfterApplying |-> FALSE]

Off(run) == Memory(run, 0, 0, 0, {}, NoPeers, "")

-----------------------------------------------------------------------------
(* Reading the state. *)

Larger(a, b) == IF a >= b THEN a ELSE b
Lesser(a, b) == IF a <= b THEN a ELSE b

Up(n) == mem[n].run = "up"
At(n, stage) == Up(n) /\ mem[n].stage = stage

\* The chain holds the blocks in the order InsertChain got them; a block is its
\* index in the log.
CurrentBlock(n) == IF disk[n].blocks = <<>> THEN 0 ELSE disk[n].blocks[Len(disk[n].blocks)]
Number(b) == IF b = 0 THEN 0 ELSE log[b].num
HasBlock(n, b) == b \in Range(disk[n].blocks)

\* makeInitialRaftPeers: ids 1 .. k in the order of the static node list,
\* every address but the node's own.
makeInitialRaftPeers(n) == [i \in Bootstrap \ {n} |-> Home[i]]

Without(f, id) == [i \in DOMAIN f \ {id} |-> f[i]]
With(f, id, addr) == [i \in DOMAIN f \cup {id} |-> IF i = id THEN addr ELSE f[i]]

isRaftIdRemoved(m, id) == id \in m.removedPeers

isRaftIdUsed(n, m, id) ==
    n = id \/ isRaftIdRemoved(m, id) \/ id \in DOMAIN m.peers

isP2pNodeInCluster(m, host) == \E i \in DOMAIN m.peers : m.peers[i] = host

\* One more than every id this node knows of, the removed ones included.
nextRaftId(n) ==
    LET known == {n} \cup DOMAIN mem[n].peers \cup mem[n].removedPeers
    IN  1 + CHOOSE i \in known : \A j \in known : j <= i

\* What a node of the cluster has to know after the first k entries: the
\* address of every member and the ids removed for good.
MembersAt(k) ==
    LET Member(m, e) ==
            CASE e.type = AddNode /\ e.id \notin DOMAIN m.peers \cup m.removed ->
                    [m EXCEPT !.peers = With(@, e.id, e.addr)]
              [] e.type = RemoveNode /\ e.id \notin m.removed ->
                    [peers |-> Without(m.peers, e.id), removed |-> m.removed \cup {e.id}]
              [] OTHER -> m
        members[i \in 0 .. k] ==
            IF i = 0 THEN [peers |-> Home, removed |-> {}] ELSE Member(members[i - 1], log[i])
    IN  members[k]

-----------------------------------------------------------------------------
(* Start and restart. *)

InitialLog == [i \in 1 .. Cardinality(Bootstrap) |-> Entry(AddNode, i, Home[i], 0)]

Init ==
    /\ log = InitialLog
    /\ calls = {}
    /\ mem = [n \in Nodes |-> Off("down")]
    /\ disk = [n \in Nodes |-> [wal |-> FALSE, hard |-> 0, applied |-> 0,
                                snap |-> NoSnapshot, blocks |-> <<>>]]
    /\ crashes = 0

\* The pieces of ProtocolManager that applyRaftSnapshot sets through
\* updateClusterMembership: tombstones replaced, peers that left the
\* configuration removed, unknown addresses added, the own address learned.
updateClusterMembership(n, m, s) ==
    LET gone == m.confState \ s.confState
        kept == [i \in DOMAIN m.peers \ gone |-> m.peers[i]]
        named == DOMAIN s.addresses \ {n}
    IN  [m EXCEPT
           !.removedPeers = s.removed \cup gone,
           !.peers = [i \in DOMAIN kept \cup named |->
                        IF i \in DOMAIN kept THEN kept[i] ELSE s.addresses[i]],
           !.address = IF n \in DOMAIN s.addresses THEN s.addresses[n] ELSE @,
           !.confState = s.confState]

\* applyRaftSnapshot: membership and index.  Nothing downloads the blocks the
\* snapshot skips, and the repository's SetHead does nothing: the head stays.
applyRaftSnapshot(n, m, s) ==
    [updateClusterMembership(n, m, s) EXCEPT !.snapshotIndex = s.index, !.conf = s.confState]

\* First start: a member of the initial cluster creates the write-ahead log and
\* saves the entries that name its peers; a newcomer that was told its id
\* creates an empty one.
startNode(n) ==
    /\ mem[n].run = "down" /\ ~disk[n].wal
    /\ \/ /\ n \in Bootstrap
          /\ mem' = [mem EXCEPT ![n] =
                Memory("up", Len(InitialLog), 0, 0, Bootstrap, makeInitialRaftPeers(n), Home[n])]
       \/ /\ n \notin Bootstrap
          /\ \E i \in DOMAIN log : log[i].type = AddNode /\ log[i].id = n
          /\ mem' = [mem EXCEPT ![n] = Memory("up", 0, 0, 0, {}, NoPeers, "")]
    /\ disk' = [disk EXCEPT ![n].wal = TRUE,
                            ![n].hard = IF n \in Bootstrap THEN Len(InitialLog) ELSE 0]
    /\ UNCHANGED <<log, calls, crashes>>

\* raft's own checks when it mounts a log (raft/log.go appliedTo, raft.go
\* loadState): neither the applied nor the committed index may lie before
\* the snapshot.
Mountable(d, applied) ==
    /\ d.hard >= d.snap.index
    /\ applied = 0 \/ (d.snap.index <= applied /\ applied <= d.hard)

\* What the three files give back: the applied index in LevelDB, the commit
\* index in the write-ahead log, and the snapshot, which is applied at once.
loadAppliedIndex(n) == disk[n].applied

replayWAL(n) == disk[n].hard

loadSnapshot(n, m) ==
    IF disk[n].snap.index = 0 THEN m ELSE applyRaftSnapshot(n, m, disk[n].snap)

\* startRaft on an existing write-ahead log: the applied index handed to raft,
\* and only that one, is rolled back to the commit index that was made durable.
restartRaft(n) ==
    LET rolled == Lesser(loadAppliedIndex(n), replayWAL(n))
        given == Larger(rolled, disk[n].snap.index)
    IN  /\ mem[n].run = "down" /\ disk[n].wal
        /\ mem' = [mem EXCEPT ![n] =
              IF Mountable(disk[n], rolled)
              THEN loadSnapshot(n, Memory("up", replayWAL(n), given, loadAppliedIndex(n),
                                          {}, NoPeers, ""))
              ELSE Off("unmountable")]
        /\ UNCHANGED <<log, calls, disk, crashes>>

\* Stop closes the peers, the transport, raft and the minter and keeps the files;
\* a process that dies does the same at any point between two writes.
Crash(n) ==
    /\ Up(n) /\ crashes < MaxCrash
    /\ crashes' = crashes + 1
    /\ mem' = [mem EXCEPT ![n] = Off("down")]
    /\ UNCHANGED <<log, calls, disk>>

-----------------------------------------------------------------------------
(* Proposals.  What raft does not commit leaves no trace. *)

\* A minter's block on top of its own head, committed.
ProposeBlock(n) ==
    /\ At(n, "select") /\ n \in mem[n].conf /\ Len(log) < MaxLog
    /\ log' = Append(log, Entry(Normal, n, "", Number(CurrentBlock(n)) + 1))
    /\ UNCHANGED <<calls, mem, disk, crashes>>

\* The conf changes of API calls, waiting and committed.
ConfChanges ==
    Cardinality(calls) +
    Cardinality({i \in DOMAIN log : i > Len(InitialLog) /\ log[i].type # Normal})

\* raft.addPeer: the id is fixed here, the proposal is made later.
ProposeNewPeer(n, host) ==
    /\ Up(n) /\ n \in mem[n].conf
    /\ ~isP2pNodeInCluster(mem[n], host)
    /\ ConfChanges < MaxCalls
    /\ calls' = calls \cup {Entry(AddNode, nextRaftId(n), host, 0)}
    /\ UNCHANGED <<log, mem, disk, crashes>>

\* raft.removePeer, for a member.
ProposePeerRemoval(n, id) ==
    /\ Up(n) /\ n \in mem[n].conf /\ id \in mem[n].conf
    /\ ConfChanges < MaxCalls
    /\ calls' = calls \cup {Entry(RemoveNode, id, "", 0)}
    /\ UNCHANGED <<log, mem, disk, crashes>>

\* serveLocalProposals takes the conf change, raft commits it.
serveConfChange ==
    \E cc \in calls :
        /\ Len(log) < MaxLog
        /\ log' = Append(log, cc)
        /\ calls' = calls \ {cc}
        /\ UNCHANGED <<mem, disk, crashes>>

-----------------------------------------------------------------------------
(* eventLoop: one Ready at a time. *)

\* The first step on a Ready: hard state and entries saved (the commit index
\* reaches the disk only when the log is synced with it), the head captured.
Ready(n, c, synced) ==
    /\ At(n, "select") /\ c > mem[n].given /\ c >= mem[n].commit /\ c <= Len(log)
    /\ n \in Bootstrap \/ mem[n].snapshotIndex > 0
    /\ mem' = [mem EXCEPT ![n] =
          IF @.given > @.appliedIndex THEN Off("panic")
          ELSE [@ EXCEPT !.stage = "entry", !.commit = c, !.cur = Number(CurrentBlock(n))]]
    /\ disk' = [disk EXCEPT ![n].hard = IF synced THEN c ELSE @]
    /\ UNCHANGED <<log, calls, crashes>>

\* A Ready that carries a snapshot of another node, which raft only takes for
\* entries it has not got: saveRaftSnapshot, first the file ...
ReceiveSnapshot(n, m, synced) ==
    LET s == disk[m].snap
    IN  /\ At(n, "select") /\ Up(m) /\ m # n /\ n \in mem[m].conf
        /\ s.index > mem[n].commit /\ s.index > disk[n].applied
        /\ n \in s.confState
        /\ mem' = [mem EXCEPT ![n].stage = "received", ![n].commit = s.index,
                              ![n].cur = Number(CurrentBlock(n))]
        /\ disk' = [disk EXCEPT ![n].snap = s, ![n].hard = IF synced THEN s.index ELSE @]
        /\ UNCHANGED <<log, calls, crashes>>

\* ... then the log record, synced; then applyRaftSnapshot ...
ApplyReceived(n) ==
    LET s == disk[n].snap
    IN  /\ At(n, "received")
        /\ mem' = [mem EXCEPT ![n] = [applyRaftSnapshot(n, @, s) EXCEPT
                      !.stage = "installed", !.given = s.index]]
        /\ disk' = [disk EXCEPT ![n].hard = s.index]
        /\ UNCHANGED <<log, calls, crashes>>

\* ... and the applied index.
AdvanceReceived(n) ==
    /\ At(n, "installed")
    /\ mem' = [mem EXCEPT ![n].stage = "entry", ![n].appliedIndex = disk[n].snap.index]
    /\ disk' = [disk EXCEPT ![n].applied = disk[n].snap.index]
    /\ UNCHANGED <<log, calls, crashes>>

\* entriesToApply: the first committed entry after the applied index.
entriesToApply(n) ==
    IF mem[n].appliedIndex < mem[n].commit THEN {mem[n].appliedIndex + 1} ELSE {}

MutCompareHeights(n, i) ==
    IF mem[n].cur = log[i].num THEN disk[n]
    ELSE [disk[n] EXCEPT !.blocks = Append(@, i)]

\* applyNewChainHead stores the block and makes it the head, unless the block
\* is already there and as high as the head captured with this Ready.
applyNewChainHead(n, i) ==
    IF HasBlock(n, i) /\ mem[n].cur = log[i].num THEN disk[n]
    ELSE [disk[n] EXCEPT !.blocks = Append(@, i)]

\* ApplyConfChange is raft's: it changes the configuration whether or not the
\* manager then ignores the entry.
ApplyConfChange(m, e) ==
    LET conf == IF e.type = AddNode THEN m.conf \cup {e.id} ELSE m.conf \ {e.id}
    IN  [m EXCEPT !.conf = conf, !.confState = conf]

MutNoForcedSnapshot(n, m, e) ==
    CASE isRaftIdRemoved(m, e.id) \/ (e.type = AddNode /\ isRaftIdUsed(n, m, e.id)) ->
            [m EXCEPT !.stage = IF e.id \in Bootstrap THEN "snapshot" ELSE "advance"]
      [] e.type = AddNode -> [m EXCEPT !.stage = "advance", !.peers = With(@, e.id, e.addr)]
      [] OTHER -> [m EXCEPT !.stage = "snapshot", !.peers = Without(@, e.id),
                            !.removedPeers = @ \cup {e.id}]

\* The manager's own view, and whether the entry forces a snapshot.
applyConfEntry(n, m, e) ==
    LET forced == [m EXCEPT !.stage = "snapshot"]
        ignored == [m EXCEPT !.stage = "advance"]
    IN  CASE isRaftIdRemoved(m, e.id) -> ignored
          [] e.type = AddNode /\ e.id \in Bootstrap -> forced
          [] e.type = AddNode /\ e.id \notin Bootstrap /\ isRaftIdUsed(n, m, e.id) -> ignored
          [] e.type = AddNode /\ e.id \notin Bootstrap /\ ~isRaftIdUsed(n, m, e.id) ->
                [forced EXCEPT !.peers = With(@, e.id, e.addr)]
          [] OTHER -> [forced EXCEPT !.peers = Without(@, e.id),
                                     !.removedPeers = @ \cup {e.id},
                                     !.exitAfterApplying = @ \/ e.id = n]

applyEntry(n) ==
    /\ At(n, "entry")
    /\ \E i \in entriesToApply(n) :
          /\ disk' = IF log[i].type = Normal
                     THEN [disk EXCEPT ![n] = applyNewChainHead(n, i)] ELSE disk
          /\ mem' = [mem EXCEPT ![n] =
                IF log[i].type = Normal THEN [@ EXCEPT !.stage = "advance"]
                ELSE applyConfEntry(n, ApplyConfChange(@, log[i]), log[i])]
    /\ UNCHANGED <<log, calls, crashes>>

\* advanceAppliedIndex after the entry.
advanceAppliedIndex(n) ==
    /\ At(n, "advance")
    /\ mem' = [mem EXCEPT ![n].stage = "entry", ![n].appliedIndex = @ + 1]
    /\ disk' = [disk EXCEPT ![n].applied = mem[n].appliedIndex + 1]
    /\ UNCHANGED <<log, calls, crashes>>

\* buildSnapshot reads an address for every id of the configuration: its own,
\* or the peer's.  An id without one is a nil dereference.
Buildable(n, m) == \A i \in m.confState : IF i = n THEN m.address # "" ELSE i \in DOMAIN m.peers

MutNoTombstones(n, m, index) ==
    Snapshot(index, m.confState,
             [i \in m.confState |-> IF i = n THEN m.address ELSE m.peers[i]], {}, CurrentBlock(n))

buildSnapshot(n, m, index) ==
    Snapshot(index, m.confState,
             [i \in m.confState |-> IF i = n THEN m.address ELSE m.peers[i]],
             m.removedPeers, CurrentBlock(n))

\* The end of a Ready: Node.Advance, or Stop for a node that has applied its
\* own removal.
finishReady(m) ==
    IF m.exitAfterApplying THEN Off("exited")
    ELSE [m EXCEPT !.stage = "select", !.given = m.commit]

\* triggerSnapshot, first half: the snapshot file.  A forced snapshot is for
\* the entry being applied, a periodic one for the applied index.
saveSnapshotFile(n) ==
    LET m == mem[n]
        index == IF m.stage = "snapshot" THEN m.appliedIndex + 1 ELSE m.appliedIndex
    IN  /\ At(n, "snapshot") \/ At(n, "periodic")
        /\ mem' = [mem EXCEPT ![n] =
              IF Buildable(n, m) THEN [@ EXCEPT !.stage = "saved"] ELSE Off("panic")]
        /\ disk' = [disk EXCEPT ![n].snap =
              IF Buildable(n, m) THEN buildSnapshot(n, m, index) ELSE @]
        /\ UNCHANGED <<log, calls, crashes>>

\* triggerSnapshot, second half: the record in the log, which syncs it, and
\* the compaction.
saveSnapshotRecord(n) ==
    LET index == disk[n].snap.index
    IN  /\ At(n, "saved")
        /\ disk' = [disk EXCEPT ![n].hard = mem[n].commit]
        /\ mem' = [mem EXCEPT ![n] =
              LET m == [@ EXCEPT !.snapshotIndex = index]
              IN  IF index > m.appliedIndex THEN [m EXCEPT !.stage = "advance"]
                  ELSE finishReady(m)]
        /\ UNCHANGED <<log, calls, crashes>>

\* maybeTriggerSnapshot when every entry of the Ready is applied.
maybeTriggerSnapshot(n) ==
    /\ At(n, "entry") /\ entriesToApply(n) = {}
    /\ mem' = [mem EXCEPT ![n] =
          IF @.appliedIndex - @.snapshotIndex >= snapshotPeriod
          THEN [@ EXCEPT !.stage = "periodic"] ELSE finishReady(@)]
    /\ UNCHANGED <<log, calls, disk, crashes>>

eventLoop(n) ==
    \/ \E c \in 1 .. MaxLog, synced \in BOOLEAN : Ready(n, c, synced)
    \/ \E m \in Nodes, synced \in BOOLEAN : ReceiveSnapshot(n, m, synced)
    \/ ApplyReceived(n)
    \/ AdvanceReceived(n)
    \/ applyEntry(n)
    \/ advanceAppliedIndex(n)
    \/ saveSnapshotFile(n)
    \/ saveSnapshotRecord(n)
    \/ maybeTriggerSnapshot(n)

Next ==
    \/ serveConfChange
    \/ \E n \in Nodes :
          \/ startNode(n)
          \/ restartRaft(n)
          \/ Crash(n)
          \/ ProposeBlock(n)
          \/ \E host \in Hosts : ProposeNewPeer(n, host)
          \/ \E id \in Ids : ProposePeerRemoval(n, id)
          \/ eventLoop(n)

Spec == Init /\ [][Next]_vars

-----------------------------------------------------------------------------
(* Properties. *)

Running(n) == Up(n) /\ mem[n].stage \in {"select", "entry"}

\* Type correctness: a node stores blocks of the log only, and raft gives it no
\* entry that is not committed (entriesToApply, loadAppliedIndex).
TypeOK ==
    /\ crashes \in 0 .. MaxCrash
    /\ \A n \in Nodes :
          /\ mem[n].run \in {"down", "up", "panic", "unmountable", "exited"}
          /\ Range(disk[n].blocks) \subseteq DOMAIN log
          /\ Up(n) => mem[n].given <= mem[n].commit /\ mem[n].commit <= Len(log)

\* Across crashes, replays and snapshots, a running node knows exactly the
\* members that the entries it has applied or loaded make: the same addresses and
\* the same tombstones as every other node at that index.
MembershipFollowsLog ==
    \A n \in Nodes :
        Running(n) /\ mem[n].snapshotIndex > 0 =>
            LET m == MembersAt(Larger(mem[n].appliedIndex, mem[n].snapshotIndex))
            IN  /\ mem[n].peers = Without(m.peers, n)
                /\ mem[n].removedPeers = m.removed

\* removePeer: "snapshots are identical on all nodes".  The membership a
\* snapshot file records is that of the log up to its index, whoever wrote it.
SnapshotsIdentical ==
    \A n \in Nodes :
        LET s == disk[n].snap
        IN  s.index > 0 =>
                /\ s.addresses = MembersAt(s.index).peers
                /\ s.removed = MembersAt(s.index).removed

\* A node never counts a block as applied that it has not stored, except for
\* what a snapshot of another node skipped: after the snapshot on disk every
\* applied block is in the chain, whatever was written when it crashed.  Nor
\* does the replay insert a block again that was inserted before the crash
\* (the "not applying already-applied block" branch of eventLoop).
AppliedBlocksStored ==
    /\ TypeOK
    /\ \A n \in Nodes : \A i \in disk[n].snap.index + 1 .. disk[n].applied :
          log[i].type = Normal => HasBlock(n, i)
    /\ \A n \in Nodes : IsInjective(disk[n].blocks)
=============================================================================
