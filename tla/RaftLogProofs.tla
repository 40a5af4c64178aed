---------------------------- MODULE RaftLogProofs ----------------------------
(***************************************************************************)
(* Proofs about RaftLog, for every cluster, log, snapshot period and       *)
(* number of crashes.                                                      *)
(***************************************************************************)
EXTENDS RaftLog, TLAPS

\* Time for the larger steps.
USE SMTT(60), ZenonT(60)

MemFields == {"run", "stage", "cur", "commit", "given", "conf", "appliedIndex", "snapshotIndex",
              "confState", "peers", "removedPeers", "address", "exitAfterApplying"}
DiskFields == {"wal", "hard", "applied", "snap", "blocks"}
Runs == {"down", "up", "panic", "unmountable", "exited"}

-----------------------------------------------------------------------------
(* What is on disk accounts for what is applied. *)

\* The blocks are in the order of the log and reach at most one entry beyond the
\* applied index; what lies between the snapshot and the applied index is stored.
DiskOK(L, d) ==
  /\ DOMAIN d = DiskFields
  /\ d.applied \in 0 .. Len(L) /\ d.hard \in 0 .. Len(L) /\ d.snap.index \in 0 .. Len(L)
  /\ d.blocks \in Seq(DOMAIN L)
  /\ \A j, k \in DOMAIN d.blocks : j < k => d.blocks[j] < d.blocks[k]
  /\ \A k \in DOMAIN d.blocks : d.blocks[k] <= d.applied + 1
  /\ \A i \in d.snap.index + 1 .. d.applied : L[i].type = Normal => i \in Range(d.blocks)
  /\ ~d.wal => d.applied = 0

\* A running process agrees with its disk.  The block that a crash left beyond
\* the applied index is as high as the captured head when its entry comes again.
Agree(L, m, d) ==
  /\ d.wal /\ m.appliedIndex = d.applied
  /\ m.given \in Nat /\ m.commit \in Nat /\ m.given <= m.commit /\ m.commit <= Len(L)

UpOK(L, m, d) ==
  /\ Agree(L, m, d)
  /\ m.stage = "received" => m.commit = d.snap.index
  /\ m.stage \in {"received", "installed"} => d.applied < d.snap.index
  /\ m.stage = "entry" =>
       \A k \in DOMAIN d.blocks : d.blocks[k] = d.applied + 1 => m.cur = L[d.applied + 1].num
  /\ m.stage \in {"snapshot", "advance"} => d.applied < Len(L)
  /\ m.stage = "advance" =>
       \/ d.applied < d.snap.index
       \/ L[d.applied + 1].type = Normal => d.applied + 1 \in Range(d.blocks)

NodeOK(L, m, d) ==
  /\ DiskOK(L, d) /\ DOMAIN m = MemFields /\ m.run \in Runs
  /\ m.run = "up" => UpOK(L, m, d)

\* The inductive invariant behind AppliedBlocksStored.
BlocksInv ==
  /\ \E S : log \in Seq(S)
  /\ Cardinality(Bootstrap) <= Len(log)
  /\ crashes \in 0 .. MaxCrash
  /\ DOMAIN mem = Nodes /\ DOMAIN disk = Nodes
  /\ \A n \in Nodes : NodeOK(log, mem[n], disk[n])

LEMMA InitialLength ==
  Cardinality(Bootstrap) \in Nat /\ Len(InitialLog) = Cardinality(Bootstrap) /\ \E S : InitialLog \in Seq(S)
<1> DEFINE k == Cardinality(Bootstrap)
           S == {Entry(AddNode, i, Home[i], 0) : i \in 1 .. k}
<1>1. k \in Nat
  BY BootstrapAssumption
<1> HIDE DEF k
<1>2. InitialLog \in [1 .. k -> S]
  BY DEF InitialLog, k
<1> HIDE DEF S
<1>3. InitialLog \in Seq(S) /\ Len(InitialLog) = k
  BY <1>1, <1>2
<1> QED BY <1>1, <1>3 DEF k

\* A process that has just started or stopped.
LEMMA MemoryFields ==
  \A run, commit, given, applied, conf, peers, address :
    LET m == Memory(run, commit, given, applied, conf, peers, address)
    IN  /\ DOMAIN m = MemFields /\ m.run = run /\ m.stage = "select" /\ m.commit = commit
        /\ m.given = given /\ m.appliedIndex = applied
BY DEF Memory, MemFields

LEMMA OffFields == \A run : DOMAIN Off(run) = MemFields /\ Off(run).run = run
BY DEF Off, Memory, MemFields

\* The log only grows, which disturbs nothing about a node.
LEMMA LogGrows ==
  ASSUME BlocksInv, NEW e, log' = Append(log, e), UNCHANGED <<mem, disk, crashes>>
  PROVE  BlocksInv'
<1>1. PICK S : log \in Seq(S)
  BY DEF BlocksInv
<1>2. /\ log' \in Seq(S \cup {e}) /\ Len(log') = Len(log) + 1 /\ Len(log) \in Nat
      /\ DOMAIN log = 1 .. Len(log) /\ DOMAIN log' = 1 .. Len(log) + 1
      /\ \A i \in 1 .. Len(log) : log'[i] = log[i]
  <2>1. log \in Seq(S \cup {e})
    BY <1>1
  <2> QED BY <2>1
<1>3. \A n \in Nodes : NodeOK(log, mem[n], disk[n])
  BY DEF BlocksInv
<1>4. ASSUME NEW m, NEW d, NodeOK(log, m, d) PROVE NodeOK(log', m, d)
  <2>1. DiskOK(log, d) /\ DOMAIN m = MemFields /\ m.run \in Runs /\ (m.run = "up" => UpOK(log, m, d))
    BY <1>4 DEF NodeOK
  <2>2. d.blocks \in Seq(1 .. Len(log))
    BY <1>2, <2>1 DEF DiskOK
  <2>3. d.blocks \in Seq(1 .. Len(log) + 1)
    BY <1>2, <2>2
  <2>4. DiskOK(log', d)
    BY <1>2, <2>1, <2>3 DEF DiskOK
  <2>5. UpOK(log, m, d) => UpOK(log', m, d)
    <3> SUFFICES ASSUME UpOK(log, m, d) PROVE UpOK(log', m, d)
      OBVIOUS
    <3>1. d.applied \in 0 .. Len(log)
      BY <2>1 DEF DiskOK
    <3>2. ASSUME NEW k \in DOMAIN d.blocks PROVE d.blocks[k] \in 1 .. Len(log)
      BY <2>2
    <3>3. m.stage = "entry" =>
            \A k \in DOMAIN d.blocks : d.blocks[k] = d.applied + 1 => m.cur = log'[d.applied + 1].num
      BY <1>2, <3>1, <3>2 DEF UpOK
    <3>4. m.stage \in {"snapshot", "advance"} => d.applied + 1 \in 1 .. Len(log)
      BY <1>2, <3>1 DEF UpOK
    <3> QED BY <1>2, <3>1, <3>3, <3>4 DEF UpOK, Agree
  <2> QED BY <2>1, <2>4, <2>5 DEF NodeOK
<1> QED BY <1>2, <1>3, <1>4, BootstrapAssumption DEF BlocksInv

\* What a step of a node may do to its disk, for any log L.
LEMMA DiskKept ==
  ASSUME NEW L, Len(L) \in Nat, NEW d, NEW d2, DiskOK(L, d), DOMAIN d2 = DiskFields,
         d2.applied = d.applied, d2.snap = d.snap, d2.blocks = d.blocks, d2.wal \/ d2.wal = d.wal,
         d2.hard \in 0 .. Len(L)
  PROVE  DiskOK(L, d2)
BY DEF DiskOK

LEMMA DiskSnapped ==
  ASSUME NEW L, Len(L) \in Nat, NEW d, NEW d2, DiskOK(L, d), DOMAIN d2 = DiskFields,
         d2.applied = d.applied, d2.blocks = d.blocks, d2.wal = d.wal, d2.hard \in 0 .. Len(L),
         d2.snap.index \in 0 .. Len(L), d.applied <= d2.snap.index
  PROVE  DiskOK(L, d2)
BY DEF DiskOK

LEMMA DiskAdvanced ==
  ASSUME NEW L, Len(L) \in Nat, DOMAIN L = 1 .. Len(L), NEW d, NEW d2, DiskOK(L, d),
         DOMAIN d2 = DiskFields, d2.snap = d.snap, d2.blocks = d.blocks, d2.wal, d2.hard = d.hard,
         d2.applied \in 0 .. Len(L), d.applied < d2.applied,
         \/ d2.applied <= d.snap.index
         \/ d2.applied = d.applied + 1 /\ (L[d2.applied].type = Normal => d2.applied \in Range(d.blocks))
  PROVE  DiskOK(L, d2) /\ \A k \in DOMAIN d.blocks : d.blocks[k] <= d2.applied
<1>1. /\ d.applied \in Nat /\ d.snap.index \in Nat /\ d2.applied \in Nat /\ d.hard \in 0 .. Len(L)
      /\ d.snap.index \in 0 .. Len(L) /\ d.blocks \in Seq(1 .. Len(L))
  BY DEF DiskOK
<1>2. ASSUME NEW k \in DOMAIN d.blocks PROVE d.blocks[k] \in Nat /\ d.blocks[k] <= d2.applied
  <2>1. d.blocks[k] <= d.applied + 1
    BY DEF DiskOK
  <2>2. d.blocks[k] \in Nat
    BY <1>1
  <2> QED BY <1>1, <2>1, <2>2
<1>3. ASSUME NEW i \in d.snap.index + 1 .. d2.applied, L[i].type = Normal PROVE i \in Range(d.blocks)
  <2>1. i \in d.snap.index + 1 .. d.applied \/ (i = d2.applied /\ ~(d2.applied <= d.snap.index))
    BY <1>1
  <2>2. CASE i \in d.snap.index + 1 .. d.applied
    BY <1>3, <2>2, ZenonT(60) DEF DiskOK
  <2> QED BY <1>3, <2>1, <2>2
<1>4. \A k \in DOMAIN d2.blocks : d2.blocks[k] <= d2.applied + 1
  BY <1>1, <1>2
<1>5. \A j, k \in DOMAIN d2.blocks : j < k => d2.blocks[j] < d2.blocks[k]
  BY DEF DiskOK
<1> QED BY <1>1, <1>2, <1>3, <1>4, <1>5 DEF DiskOK

\* A running process after a step, by its stage.
LEMMA RunsOn ==
  ASSUME NEW L, NEW m, NEW d, DiskOK(L, d), DOMAIN m = MemFields, m.run = "up", UpOK(L, m, d)
  PROVE  NodeOK(L, m, d)
<1>1. m.run \in Runs
  BY DEF Runs
<1> QED BY <1>1, ZenonT(60) DEF NodeOK

LEMMA AtSelect ==
  ASSUME NEW L, NEW m, NEW d, Agree(L, m, d), m.stage \in {"select", "periodic", "saved"}
  PROVE  UpOK(L, m, d)
BY DEF UpOK

LEMMA AtReceived ==
  ASSUME NEW L, NEW m, NEW d, Agree(L, m, d), m.stage \in {"received", "installed"},
         m.stage = "received" => m.commit = d.snap.index, d.applied < d.snap.index
  PROVE  UpOK(L, m, d)
BY DEF UpOK

LEMMA AtEntry ==
  ASSUME NEW L, NEW m, NEW d, Agree(L, m, d), m.stage = "entry",
         \A k \in DOMAIN d.blocks : d.blocks[k] = d.applied + 1 => m.cur = L[d.applied + 1].num
  PROVE  UpOK(L, m, d)
BY DEF UpOK

LEMMA AtAdvance ==
  ASSUME NEW L, NEW m, NEW d, Agree(L, m, d), m.stage \in {"snapshot", "advance"}, d.applied < Len(L),
         \/ d.applied < d.snap.index
         \/ L[d.applied + 1].type = Normal => d.applied + 1 \in Range(d.blocks)
  PROVE  UpOK(L, m, d)
BY DEF UpOK

\* One node steps.
Only(n) ==
  /\ UNCHANGED log
  /\ DOMAIN mem' = Nodes /\ DOMAIN disk' = Nodes
  /\ \A h \in Nodes : h # n => mem'[h] = mem[h] /\ disk'[h] = disk[h]

LEMMA NodeStep ==
  ASSUME BlocksInv, NEW n \in Nodes, Only(n), crashes' \in 0 .. MaxCrash,
         NodeOK(log, mem'[n], disk'[n])
  PROVE  BlocksInv'
BY DEF BlocksInv, Only

\* Start, restart and crash keep the disk apart from the commit index.
LEMMA StartKeeps ==
  ASSUME BlocksInv, NEW n \in Nodes, startNode(n) \/ restartRaft(n) \/ Crash(n)
  PROVE  BlocksInv'
<1>0. /\ NodeOK(log, mem[n], disk[n]) /\ DiskOK(log, disk[n]) /\ DOMAIN mem = Nodes /\ DOMAIN disk = Nodes
      /\ DOMAIN disk[n] = DiskFields /\ crashes \in 0 .. MaxCrash /\ Len(log) \in Nat
  BY DEF BlocksInv, NodeOK, DiskOK
<1>a. PICK m, d : m = mem'[n] /\ d = disk'[n]
  OBVIOUS
\* A process that is not running, or has just started.
<1>1. ASSUME m.run # "up", DOMAIN m = MemFields, m.run \in Runs, d = disk[n]
      PROVE  NodeOK(log, m, d)
  BY <1>0, <1>1, ZenonT(60) DEF NodeOK
<1>2. ASSUME m.run = "up", DOMAIN m = MemFields, m.stage = "select", DiskOK(log, d),
             d.wal, m.appliedIndex = d.applied,
             m.given \in Nat, m.commit \in Nat, m.given <= m.commit, m.commit <= Len(log)
      PROVE  NodeOK(log, m, d)
  <2>1. Agree(log, m, d)
    BY <1>2 DEF Agree
  <2> QED BY <1>2, <2>1, AtSelect, RunsOn
<1>3. CASE startNode(n)
  <2> DEFINE k == IF n \in Bootstrap THEN Len(InitialLog) ELSE 0
  <2>1. Only(n) /\ crashes' = crashes
    BY <1>0, <1>3 DEF startNode, Only
  <2>2. disk' = [disk EXCEPT ![n].wal = TRUE, ![n].hard = k] /\ ~disk[n].wal
    BY <1>3 DEF startNode
  <2>3. k \in Nat /\ k <= Len(log)
    BY <1>0, InitialLength DEF BlocksInv
  <2> HIDE DEF k
  <2>4. /\ DOMAIN d = DiskFields /\ d.wal = TRUE /\ d.hard = k /\ d.applied = disk[n].applied
        /\ d.snap = disk[n].snap /\ d.blocks = disk[n].blocks
    BY <1>0, <1>a, <2>2 DEF DiskFields
  <2>5. disk[n].applied = 0
    BY <1>0, <2>2 DEF DiskOK
  <2>6. DiskOK(log, d)
    <3>1. k \in 0 .. Len(log)
      BY <1>0, <2>3
    <3> QED BY <1>0, <2>4, <3>1, DiskKept
  <2>7. /\ DOMAIN m = MemFields /\ m.run = "up" /\ m.stage = "select"
        /\ m.commit = k /\ m.given = 0 /\ m.appliedIndex = 0
    <3>1. CASE n \in Bootstrap
      <4>1. m = Memory("up", k, 0, 0, Bootstrap, makeInitialRaftPeers(n), Home[n])
        BY <1>0, <1>a, <1>3, <3>1 DEF startNode, k
      <4> QED BY <4>1, MemoryFields
    <3>2. CASE n \notin Bootstrap
      <4>1. m = Memory("up", k, 0, 0, {}, NoPeers, "")
        BY <1>0, <1>a, <1>3, <3>2 DEF startNode, k
      <4>2. \E conf, peers, address : m = Memory("up", k, 0, 0, conf, peers, address)
        BY <4>1
      <4> QED BY <4>2, MemoryFields
    <3> QED BY <3>1, <3>2
  <2>8. NodeOK(log, m, d)
    BY <1>2, <2>3, <2>4, <2>5, <2>6, <2>7
  <2> QED BY <1>0, <1>a, <2>1, <2>8, NodeStep, ZenonT(60)
<1>4. CASE restartRaft(n)
  <2> DEFINE rolled == Lesser(loadAppliedIndex(n), replayWAL(n))
             given == Larger(rolled, disk[n].snap.index)
             fresh == Memory("up", replayWAL(n), given, loadAppliedIndex(n), {}, NoPeers, "")
  <2>1. Only(n) /\ crashes' = crashes /\ d = disk[n] /\ disk[n].wal
    BY <1>0, <1>a, <1>4 DEF restartRaft, Only
  <2>2. CASE ~Mountable(disk[n], rolled)
    <3>1. m = Off("unmountable")
      BY <1>0, <1>a, <1>4, <2>2 DEF restartRaft
    <3>2. DOMAIN m = MemFields /\ m.run = "unmountable"
      BY <3>1, OffFields
    <3>3. NodeOK(log, m, d)
      BY <1>1, <2>1, <3>2 DEF Runs
    <3> QED BY <1>0, <1>a, <2>1, <3>3, NodeStep, ZenonT(60)
  <2>3. CASE Mountable(disk[n], rolled)
    <3>1. m = loadSnapshot(n, fresh)
      BY <1>0, <1>a, <1>4, <2>3 DEF restartRaft
    <3>2. /\ DOMAIN fresh = MemFields /\ fresh.run = "up" /\ fresh.stage = "select"
          /\ fresh.commit = disk[n].hard /\ fresh.given = given /\ fresh.appliedIndex = disk[n].applied
      <4>1. \E conf, peers, address :
              fresh = Memory("up", disk[n].hard, given, disk[n].applied, conf, peers, address)
        BY ZenonT(60) DEF replayWAL, loadAppliedIndex
      <4> HIDE DEF fresh, given
      <4> QED BY <4>1, MemoryFields
    <3>3. /\ disk[n].hard \in Nat /\ disk[n].applied \in Nat /\ disk[n].snap.index \in Nat
          /\ disk[n].hard <= Len(log)
      BY <1>0 DEF DiskOK
    <3>4. given \in Nat /\ given <= disk[n].hard
      BY <2>3, <3>3 DEF Mountable, Lesser, Larger, loadAppliedIndex, replayWAL
    <3> HIDE DEF fresh, given, rolled
    <3>5. /\ DOMAIN m = MemFields /\ m.run = fresh.run /\ m.stage = fresh.stage /\ m.commit = fresh.commit
          /\ m.given = fresh.given /\ m.appliedIndex = fresh.appliedIndex
      BY <3>1, <3>2 DEF loadSnapshot, applyRaftSnapshot, updateClusterMembership, MemFields
    <3>6. NodeOK(log, m, d)
      BY <1>0, <1>2, <2>1, <3>2, <3>3, <3>4, <3>5
    <3> QED BY <1>0, <1>a, <2>1, <3>6, NodeStep, ZenonT(60)
  <2> QED BY <2>2, <2>3
<1>5. CASE Crash(n)
  <2>1. Only(n) /\ crashes' \in 0 .. MaxCrash /\ d = disk[n] /\ m = Off("down")
    BY <1>0, <1>a, <1>5, BootstrapAssumption DEF Crash, Only
  <2>2. DOMAIN m = MemFields /\ m.run = "down"
    BY <2>1, OffFields
  <2>3. NodeOK(log, m, d)
    BY <1>1, <2>1, <2>2 DEF Runs
  <2> QED BY <1>a, <2>1, <2>3, NodeStep, ZenonT(60)
<1> QED BY <1>3, <1>4, <1>5

LEMMA AppendAscends ==
  ASSUME NEW k \in Nat, NEW s \in Seq(1 .. k), NEW i \in 1 .. k,
         \A j, l \in DOMAIN s : j < l => s[j] < s[l], \A j \in DOMAIN s : s[j] < i
  PROVE  LET t == Append(s, i)
         IN  /\ t \in Seq(1 .. k)
             /\ \A j, l \in DOMAIN t : j < l => t[j] < t[l]
             /\ \A j \in DOMAIN t : t[j] <= i
<1> DEFINE t == Append(s, i)
<1>1. /\ t \in Seq(1 .. k) /\ Len(s) \in Nat /\ DOMAIN s = 1 .. Len(s) /\ DOMAIN t = 1 .. Len(s) + 1
      /\ t[Len(s) + 1] = i /\ \A j \in 1 .. Len(s) : t[j] = s[j]
  OBVIOUS
<1>2. \A j \in DOMAIN s : s[j] \in Nat
  OBVIOUS
<1> HIDE DEF t
<1>3. ASSUME NEW j \in 1 .. Len(s) PROVE t[j] = s[j] /\ t[j] < i /\ t[j] \in Nat
  <2>1. t[j] = s[j] /\ j \in DOMAIN s
    BY <1>1
  <2>2. s[j] < i /\ s[j] \in Nat
    BY <1>2, <2>1
  <2> QED BY <2>1, <2>2
<1>4. ASSUME NEW j \in DOMAIN t, NEW l \in DOMAIN t, j < l PROVE t[j] < t[l]
  <2>1. j \in 1 .. Len(s) /\ (l \in 1 .. Len(s) \/ l = Len(s) + 1)
    BY <1>1, <1>4
  <2>2. CASE l \in 1 .. Len(s)
    BY <1>1, <1>3, <1>4, <2>1, <2>2
  <2>3. CASE l = Len(s) + 1
    BY <1>1, <1>3, <2>1, <2>3
  <2> QED BY <2>1, <2>2, <2>3
<1>5. ASSUME NEW j \in DOMAIN t PROVE t[j] <= i
  <2>1. j \in 1 .. Len(s) \/ j = Len(s) + 1
    BY <1>1
  <2> QED BY <1>1, <1>3, <2>1
<1> QED BY <1>1, <1>4, <1>5 DEF t

LEMMA AppendedSet ==
  ASSUME NEW S, NEW s \in Seq(S), NEW i
  PROVE  Range(s) \subseteq Range(Append(s, i)) /\ i \in Range(Append(s, i))
<1> DEFINE t == Append(s, i)
<1>1. /\ Len(s) \in Nat /\ DOMAIN s = 1 .. Len(s) /\ DOMAIN t = 1 .. Len(s) + 1
      /\ t[Len(s) + 1] = i /\ \A j \in 1 .. Len(s) : t[j] = s[j]
  OBVIOUS
<1> HIDE DEF t
<1>2. Len(s) + 1 \in DOMAIN t /\ DOMAIN s \subseteq DOMAIN t
  BY <1>1
<1> QED BY <1>1, <1>2 DEF Range, t

LEMMA DiskAppended ==
  ASSUME NEW L, Len(L) \in Nat, DOMAIN L = 1 .. Len(L), NEW d, NEW d2, DiskOK(L, d),
         DOMAIN d2 = DiskFields, d2.applied = d.applied, d2.snap = d.snap, d2.hard = d.hard,
         d2.wal = d.wal, d.applied < Len(L), d2.blocks = Append(d.blocks, d.applied + 1),
         \A k \in DOMAIN d.blocks : d.blocks[k] < d.applied + 1
  PROVE  DiskOK(L, d2) /\ d.applied + 1 \in Range(d2.blocks)
<1>1. d.applied \in Nat /\ d.applied + 1 \in 1 .. Len(L) /\ d.blocks \in Seq(1 .. Len(L))
  BY DEF DiskOK
<1>2. PICK i, s : i = d.applied + 1 /\ s = d.blocks
  OBVIOUS
<1>3. i \in 1 .. Len(L) /\ s \in Seq(1 .. Len(L)) /\ d2.blocks = Append(s, i)
  BY <1>1, <1>2
<1>4. (\A j, k \in DOMAIN s : j < k => s[j] < s[k]) /\ \A k \in DOMAIN s : s[k] < i
  BY <1>2 DEF DiskOK
<1>5. /\ d2.blocks \in Seq(1 .. Len(L))
      /\ \A j, k \in DOMAIN d2.blocks : j < k => d2.blocks[j] < d2.blocks[k]
      /\ \A k \in DOMAIN d2.blocks : d2.blocks[k] <= i
  BY <1>3, <1>4, AppendAscends, ZenonT(60)
<1>6. Range(s) \subseteq Range(d2.blocks) /\ i \in Range(d2.blocks)
  BY <1>3, AppendedSet, ZenonT(60)
<1>7. \A j \in d2.snap.index + 1 .. d2.applied : L[j].type = Normal => j \in Range(d2.blocks)
  BY <1>2, <1>6 DEF DiskOK
<1>8. /\ d2.applied \in 0 .. Len(L) /\ d2.hard \in 0 .. Len(L) /\ d2.snap.index \in 0 .. Len(L)
      /\ (~d2.wal => d2.applied = 0)
  BY DEF DiskOK
<1>9. \A k \in DOMAIN d2.blocks : d2.blocks[k] <= d2.applied + 1
  BY <1>2, <1>5
<1> QED BY <1>2, <1>5, <1>6, <1>7, <1>8, <1>9, ZenonT(60) DEF DiskOK

\* One step of the event loop.
LEMMA LoopKeeps ==
  ASSUME BlocksInv, NEW n \in Nodes, eventLoop(n)
  PROVE  BlocksInv'
<1>a. PICK m, d, m2, d2 : m = mem[n] /\ d = disk[n] /\ m2 = mem'[n] /\ d2 = disk'[n]
  OBVIOUS
<1>0. /\ DiskOK(log, d) /\ DOMAIN mem = Nodes /\ DOMAIN disk = Nodes
      /\ DOMAIN d = DiskFields /\ DOMAIN m = MemFields
      /\ crashes \in 0 .. MaxCrash /\ Len(log) \in Nat /\ DOMAIN log = 1 .. Len(log)
      /\ Up(n) => m.run = "up" /\ UpOK(log, m, d)
  BY <1>a DEF BlocksInv, NodeOK, DiskOK, Up
<1>1. /\ d.applied \in Nat /\ d.hard \in Nat /\ d.snap.index \in Nat
      /\ d.applied <= Len(log) /\ d.hard <= Len(log) /\ d.snap.index <= Len(log)
      /\ d.blocks \in Seq(1 .. Len(log))
  BY <1>0 DEF DiskOK
<1>2. \A k \in DOMAIN d.blocks : d.blocks[k] \in Nat /\ k \in Nat /\ k <= Len(d.blocks)
  BY <1>1
<1>3. ASSUME UpOK(log, m, d)
      PROVE  /\ Agree(log, m, d) /\ d.wal /\ m.appliedIndex = d.applied
             /\ m.given \in Nat /\ m.commit \in Nat /\ m.given <= m.commit /\ m.commit <= Len(log)
  BY <1>3 DEF UpOK, Agree
\* A process that stops keeps its disk; one that runs on is as its stage says.
<1>4. ASSUME NEW run \in Runs \ {"up"}, m2 = Off(run), DiskOK(log, d2), Only(n), crashes' = crashes
      PROVE  BlocksInv'
  <2>1. NodeOK(log, m2, d2)
    BY <1>4, OffFields DEF NodeOK
  <2> QED BY <1>a, <1>0, <1>4, <2>1, NodeStep, ZenonT(60)
<1>5. ASSUME UpOK(log, m2, d2), DiskOK(log, d2), DOMAIN m2 = MemFields, m2.run = m.run, Up(n),
             Only(n), crashes' = crashes
      PROVE  BlocksInv'
  <2>1. NodeOK(log, m2, d2)
    BY <1>0, <1>5, RunsOn
  <2> QED BY <1>a, <1>0, <1>5, <2>1, NodeStep, ZenonT(60)
<1>6. ASSUME NEW c \in 1 .. MaxLog, NEW synced \in BOOLEAN, Ready(n, c, synced) PROVE BlocksInv'
  <2>1. Only(n) /\ crashes' = crashes /\ Up(n) /\ UpOK(log, m, d)
    BY <1>a, <1>0, <1>6 DEF Ready, Only, At
  <2>2. /\ disk' = [disk EXCEPT ![n].hard = IF synced THEN c ELSE @]
        /\ c > m.given /\ c <= Len(log) /\ c \in Nat /\ m.given \in Nat
    BY <1>a, <1>3, <1>6, <2>1 DEF Ready
  <2>3. /\ DOMAIN d2 = DiskFields /\ d2.applied = d.applied /\ d2.snap = d.snap /\ d2.blocks = d.blocks
        /\ d2.wal = d.wal /\ d2.hard \in {d.hard, c}
    BY <1>a, <1>0, <2>2 DEF DiskFields
  <2>4. DiskOK(log, d2)
    <3>1. d2.hard \in 0 .. Len(log)
      BY <1>0, <1>1, <2>2, <2>3
    <3> QED BY <1>0, <2>3, <3>1, DiskKept
  <2>5. CASE m.given > m.appliedIndex
    <3>1. m2 = Off("panic")
      BY <1>a, <1>0, <1>6, <2>5 DEF Ready
    <3>2. "panic" \in Runs \ {"up"}
      BY DEF Runs
    <3> QED BY <1>4, <2>1, <2>4, <3>1, <3>2
  <2>6. CASE ~(m.given > m.appliedIndex)
    <3>1. /\ DOMAIN m2 = MemFields /\ m2.run = m.run /\ m2.stage = "entry" /\ m2.commit = c
          /\ m2.given = m.given /\ m2.appliedIndex = m.appliedIndex /\ m2.cur = Number(CurrentBlock(n))
      BY <1>a, <1>0, <1>6, <2>6 DEF Ready, MemFields
    <3>2. ASSUME NEW k \in DOMAIN d.blocks, d.blocks[k] = d.applied + 1
          PROVE  m2.cur = log[d.applied + 1].num
      <4>1. Len(d.blocks) \in DOMAIN d.blocks /\ d.blocks # <<>>
        BY <1>1
      <4>2. d.blocks[Len(d.blocks)] = d.applied + 1
        <5>1. /\ k < Len(d.blocks) => d.blocks[k] < d.blocks[Len(d.blocks)]
              /\ d.blocks[Len(d.blocks)] <= d.applied + 1
          BY <1>0, <4>1 DEF DiskOK
        <5>2. d.blocks[Len(d.blocks)] \in Nat /\ Len(d.blocks) \in Nat /\ k \in Nat /\ k <= Len(d.blocks)
          BY <1>2, <4>1
        <5> QED BY <1>1, <3>2, <5>1, <5>2
      <4>3. CurrentBlock(n) = d.applied + 1
        BY <1>a, <4>1, <4>2 DEF CurrentBlock
      <4>4. d.applied + 1 # 0
        BY <1>1
      <4> QED BY <3>1, <4>3, <4>4 DEF Number
    <3>3. Agree(log, m2, d2)
      BY <1>3, <2>1, <2>2, <2>3, <3>1 DEF Agree
    <3>4. UpOK(log, m2, d2)
      BY <2>3, <3>1, <3>2, <3>3, AtEntry
    <3> QED BY <1>5, <2>1, <2>4, <3>1, <3>4
  <2> QED BY <2>5, <2>6
<1>7. ASSUME NEW o \in Nodes, NEW synced \in BOOLEAN, ReceiveSnapshot(n, o, synced) PROVE BlocksInv'
  <2>0. PICK s : s = disk[o].snap
    OBVIOUS
  <2>1. Only(n) /\ crashes' = crashes /\ Up(n) /\ UpOK(log, m, d)
    BY <1>a, <1>0, <1>7 DEF ReceiveSnapshot, Only, At
  <2>2. s.index \in Nat /\ s.index <= Len(log) /\ s.index > m.commit /\ s.index > d.applied
    <3>1. DiskOK(log, disk[o])
      BY DEF BlocksInv, NodeOK
    <3>2. s.index \in 0 .. Len(log)
      BY <2>0, <3>1 DEF DiskOK
    <3> QED BY <1>a, <1>0, <1>7, <2>0, <3>2 DEF ReceiveSnapshot
  <2>3. /\ DOMAIN d2 = DiskFields /\ d2.applied = d.applied /\ d2.snap = s /\ d2.blocks = d.blocks
        /\ d2.wal = d.wal /\ d2.hard \in {d.hard, s.index}
    BY <1>a, <1>0, <1>7, <2>0 DEF ReceiveSnapshot, DiskFields
  <2>4. /\ DOMAIN m2 = MemFields /\ m2.run = m.run /\ m2.stage = "received" /\ m2.commit = s.index
        /\ m2.given = m.given /\ m2.appliedIndex = m.appliedIndex
    BY <1>a, <1>0, <1>7, <2>0 DEF ReceiveSnapshot, MemFields
  <2>5. DiskOK(log, d2)
    <3>1. d2.hard \in 0 .. Len(log) /\ d2.snap.index \in 0 .. Len(log) /\ d.applied <= d2.snap.index
      BY <1>0, <1>1, <2>2, <2>3
    <3> QED BY <1>0, <2>3, <3>1, DiskSnapped
  <2>6. Agree(log, m2, d2)
    BY <1>3, <2>1, <2>2, <2>3, <2>4 DEF Agree
  <2>7. UpOK(log, m2, d2)
    BY <1>1, <2>2, <2>3, <2>4, <2>6, AtReceived, ZenonT(60)
  <2> QED BY <1>5, <2>1, <2>4, <2>5, <2>7
<1>8. CASE ApplyReceived(n)
  <2>1. Only(n) /\ crashes' = crashes /\ Up(n) /\ UpOK(log, m, d) /\ m.stage = "received"
    BY <1>a, <1>0, <1>8 DEF ApplyReceived, Only, At
  <2>2. /\ DOMAIN d2 = DiskFields /\ d2.applied = d.applied /\ d2.snap = d.snap /\ d2.blocks = d.blocks
        /\ d2.wal = d.wal /\ d2.hard = d.snap.index
    BY <1>a, <1>0, <1>8 DEF ApplyReceived, DiskFields
  <2>3. PICK r : r = applyRaftSnapshot(n, m, d.snap)
    OBVIOUS
  <2>4. /\ DOMAIN r = MemFields /\ r.run = m.run /\ r.commit = m.commit /\ r.appliedIndex = m.appliedIndex
    BY <1>0, <2>3 DEF applyRaftSnapshot, updateClusterMembership, MemFields
  <2>5. m2 = [r EXCEPT !.stage = "installed", !.given = d.snap.index]
    BY <1>a, <1>0, <1>8, <2>3 DEF ApplyReceived
  <2>6. /\ DOMAIN m2 = MemFields /\ m2.run = m.run /\ m2.stage = "installed" /\ m2.commit = m.commit
        /\ m2.given = d.snap.index /\ m2.appliedIndex = m.appliedIndex
    BY <2>4, <2>5 DEF MemFields
  <2>7. DiskOK(log, d2)
    <3>1. d2.hard \in 0 .. Len(log)
      BY <1>0, <1>1, <2>2
    <3> QED BY <1>0, <2>2, <3>1, DiskKept
  <2>8. m.commit = d.snap.index /\ d.applied < d.snap.index
    BY <2>1 DEF UpOK
  <2>9. Agree(log, m2, d2)
    BY <1>3, <2>1, <2>2, <2>6, <2>8 DEF Agree
  <2>10. UpOK(log, m2, d2)
    BY <2>2, <2>6, <2>8, <2>9, AtReceived
  <2> QED BY <1>5, <2>1, <2>6, <2>7, <2>10
<1>9. CASE AdvanceReceived(n)
  <2>1. Only(n) /\ crashes' = crashes /\ Up(n) /\ UpOK(log, m, d) /\ m.stage = "installed"
    BY <1>a, <1>0, <1>9 DEF AdvanceReceived, Only, At
  <2>2. d.applied < d.snap.index
    BY <2>1 DEF UpOK
  <2>3. /\ DOMAIN d2 = DiskFields /\ d2.applied = d.snap.index /\ d2.snap = d.snap /\ d2.blocks = d.blocks
        /\ d2.wal = d.wal /\ d2.hard = d.hard
    BY <1>a, <1>0, <1>9 DEF AdvanceReceived, DiskFields
  <2>4. /\ DOMAIN m2 = MemFields /\ m2.run = m.run /\ m2.stage = "entry" /\ m2.commit = m.commit
        /\ m2.given = m.given /\ m2.appliedIndex = d.snap.index
    BY <1>a, <1>0, <1>9 DEF AdvanceReceived, MemFields
  <2>5. DiskOK(log, d2) /\ \A k \in DOMAIN d.blocks : d.blocks[k] <= d2.applied
    <3>1. d2.wal /\ d2.applied \in 0 .. Len(log) /\ d.applied < d2.applied /\ d2.applied <= d.snap.index
      BY <1>0, <1>1, <1>3, <2>1, <2>2, <2>3
    <3> QED BY <1>0, <2>3, <3>1, DiskAdvanced, ZenonT(60)
  <2>6. \A k \in DOMAIN d2.blocks : d2.blocks[k] # d2.applied + 1
    BY <1>1, <1>2, <2>3, <2>5
  <2>7. Agree(log, m2, d2)
    BY <1>3, <2>1, <2>3, <2>4 DEF Agree
  <2>8. UpOK(log, m2, d2)
    BY <2>4, <2>6, <2>7, AtEntry
  <2> QED BY <1>5, <2>1, <2>4, <2>5, <2>8
<1>10. CASE applyEntry(n)
  <2>0. PICK i : i = d.applied + 1
    OBVIOUS
  <2>1. Only(n) /\ crashes' = crashes /\ Up(n) /\ UpOK(log, m, d) /\ m.stage = "entry"
    BY <1>a, <1>0, <1>10 DEF applyEntry, Only, At, applyNewChainHead
  <2>2. m.appliedIndex = d.applied
    BY <1>3, <2>1
  <2>3. entriesToApply(n) = IF d.applied < m.commit THEN {i} ELSE {}
    BY <1>a, <2>0, <2>2 DEF entriesToApply
  <2>4. d.applied < m.commit => d.applied < Len(log)
    BY <1>0, <1>1, <1>3, <2>1
  <2>5. /\ disk' = IF log[i].type = Normal THEN [disk EXCEPT ![n] = applyNewChainHead(n, i)] ELSE disk
        /\ mem' = [mem EXCEPT ![n] =
              IF log[i].type = Normal THEN [@ EXCEPT !.stage = "advance"]
              ELSE applyConfEntry(n, ApplyConfChange(@, log[i]), log[i])]
        /\ d.applied < Len(log)
    BY <1>10, <2>3, <2>4, ZenonT(60) DEF applyEntry
  <2>6. ASSUME DOMAIN m2 = MemFields, m2.run = m.run, m2.commit = m.commit, m2.given = m.given,
               m2.appliedIndex = m.appliedIndex, m2.stage \in {"snapshot", "advance"},
               d2.wal = d.wal, d2.applied = d.applied, DiskOK(log, d2),
               log[i].type = Normal => i \in Range(d2.blocks)
        PROVE  BlocksInv'
    <3>1. Agree(log, m2, d2)
      BY <1>3, <2>1, <2>6 DEF Agree
    <3>2. UpOK(log, m2, d2)
      BY <2>0, <2>5, <2>6, <3>1, AtAdvance
    <3> QED BY <1>5, <2>1, <2>6, <3>2
  <2>7. CASE log[i].type = Normal
    <3>1. m2 = [m EXCEPT !.stage = "advance"] /\ d2 = applyNewChainHead(n, i)
      BY <1>a, <1>0, <2>5, <2>7
    <3>2. /\ DOMAIN m2 = MemFields /\ m2.run = m.run /\ m2.commit = m.commit /\ m2.given = m.given
          /\ m2.appliedIndex = m.appliedIndex /\ m2.stage = "advance"
      BY <1>0, <3>1 DEF MemFields
    <3>3. CASE HasBlock(n, i) /\ m.cur = log[i].num
      <4>1. d2 = d /\ i \in Range(d.blocks)
        BY <1>a, <3>1, <3>3 DEF applyNewChainHead, HasBlock
      <4> QED BY <1>0, <2>6, <3>2, <4>1
    <3>4. CASE ~(HasBlock(n, i) /\ m.cur = log[i].num)
      <4>1. d2 = [d EXCEPT !.blocks = Append(d.blocks, i)]
        BY <1>a, <3>1, <3>4 DEF applyNewChainHead
      <4>2. /\ DOMAIN d2 = DiskFields /\ d2.wal = d.wal /\ d2.applied = d.applied /\ d2.snap = d.snap
            /\ d2.hard = d.hard /\ d2.blocks = Append(d.blocks, i)
        BY <1>0, <4>1 DEF DiskFields
      <4>3. ASSUME NEW k \in DOMAIN d.blocks PROVE d.blocks[k] < i
        <5>1. d.blocks[k] <= i
          BY <1>0, <2>0 DEF DiskOK
        <5>2. d.blocks[k] # i
          <6> SUFFICES ASSUME d.blocks[k] = i PROVE FALSE
            OBVIOUS
          <6>1. HasBlock(n, i)
            BY <1>a DEF HasBlock, Range
          <6>2. m.cur = log[i].num
            BY <2>0, <2>1 DEF UpOK
          <6> QED BY <3>4, <6>1, <6>2
        <5>3. i \in Nat /\ d.blocks[k] \in Nat
          BY <1>1, <1>2, <2>0
        <5> QED BY <5>1, <5>2, <5>3
      <4>4. DiskOK(log, d2) /\ i \in Range(d2.blocks)
        BY <1>0, <2>0, <2>5, <4>2, <4>3, DiskAppended, ZenonT(60)
      <4> QED BY <2>6, <3>2, <4>2, <4>4
    <3> QED BY <3>3, <3>4
  <2>8. CASE log[i].type # Normal
    <3>1. PICK e, r : e = log[i] /\ r = ApplyConfChange(m, e)
      OBVIOUS
    <3>2. d2 = d /\ m2 = applyConfEntry(n, r, e)
      BY <1>a, <1>0, <2>5, <2>8, <3>1
    <3>3. /\ DOMAIN r = MemFields /\ r.run = m.run /\ r.commit = m.commit /\ r.given = m.given
          /\ r.appliedIndex = m.appliedIndex
      BY <1>0, <3>1 DEF ApplyConfChange, MemFields
    <3>4. /\ DOMAIN m2 = MemFields /\ m2.run = r.run /\ m2.commit = r.commit /\ m2.given = r.given
          /\ m2.appliedIndex = r.appliedIndex /\ m2.stage \in {"snapshot", "advance"}
      BY <3>2, <3>3, ZenonT(60) DEF applyConfEntry, MemFields
    <3> QED BY <1>0, <2>6, <2>8, <3>2, <3>3, <3>4
  <2> QED BY <2>7, <2>8
<1>11. CASE advanceAppliedIndex(n)
  <2>1. Only(n) /\ crashes' = crashes /\ Up(n) /\ UpOK(log, m, d) /\ m.stage = "advance"
    BY <1>a, <1>0, <1>11 DEF advanceAppliedIndex, Only, At
  <2>2. m.appliedIndex = d.applied /\ d.wal
    BY <1>3, <2>1
  <2>3. /\ d.applied < Len(log)
        /\ \/ d.applied < d.snap.index
           \/ log[d.applied + 1].type = Normal => d.applied + 1 \in Range(d.blocks)
    BY <2>1 DEF UpOK
  <2>4. /\ DOMAIN d2 = DiskFields /\ d2.applied = d.applied + 1 /\ d2.snap = d.snap /\ d2.blocks = d.blocks
        /\ d2.wal = d.wal /\ d2.hard = d.hard
    BY <1>a, <1>0, <1>11, <2>2, ZenonT(60) DEF advanceAppliedIndex, DiskFields
  <2>5. /\ DOMAIN m2 = MemFields /\ m2.run = m.run /\ m2.stage = "entry" /\ m2.commit = m.commit
        /\ m2.given = m.given /\ m2.appliedIndex = d.applied + 1
    BY <1>a, <1>0, <1>11, <2>2 DEF advanceAppliedIndex, MemFields
  <2>6. DiskOK(log, d2) /\ \A k \in DOMAIN d.blocks : d.blocks[k] <= d2.applied
    <3>1. d2.wal /\ d2.applied \in 0 .. Len(log) /\ d.applied < d2.applied
      BY <1>0, <1>1, <2>2, <2>3, <2>4
    <3>2. d.applied < d.snap.index => d2.applied <= d.snap.index
      BY <1>1, <2>4
    <3> QED BY <1>0, <2>3, <2>4, <3>1, <3>2, DiskAdvanced, ZenonT(60)
  <2>7. \A k \in DOMAIN d2.blocks : d2.blocks[k] # d2.applied + 1
    BY <1>1, <1>2, <2>4, <2>6
  <2>8. Agree(log, m2, d2)
    BY <1>3, <2>1, <2>4, <2>5 DEF Agree
  <2>9. UpOK(log, m2, d2)
    BY <2>5, <2>7, <2>8, AtEntry
  <2> QED BY <1>5, <2>1, <2>5, <2>6, <2>9
<1>12. CASE saveSnapshotFile(n)
  <2>0. PICK index : index = IF m.stage = "snapshot" THEN m.appliedIndex + 1 ELSE m.appliedIndex
    OBVIOUS
  <2>1. /\ Only(n) /\ crashes' = crashes /\ Up(n) /\ UpOK(log, m, d) /\ m.stage \in {"snapshot", "periodic"}
    BY <1>a, <1>0, <1>12 DEF saveSnapshotFile, Only, At
  <2>2. m.stage = "snapshot" => d.applied < Len(log)
    BY <2>1 DEF UpOK
  <2>3. index \in 0 .. Len(log) /\ d.applied <= index
    BY <1>0, <1>1, <1>3, <2>0, <2>1, <2>2
  <2>4. CASE Buildable(n, m)
    <3>1. d2 = [d EXCEPT !.snap = buildSnapshot(n, m, index)] /\ m2 = [m EXCEPT !.stage = "saved"]
      BY <1>a, <1>0, <1>12, <2>0, <2>4 DEF saveSnapshotFile
    <3>2. buildSnapshot(n, m, index).index = index
      BY DEF buildSnapshot, Snapshot
    <3>3. /\ DOMAIN d2 = DiskFields /\ d2.applied = d.applied /\ d2.snap.index = index
          /\ d2.blocks = d.blocks /\ d2.wal = d.wal /\ d2.hard = d.hard
      BY <1>0, <3>1, <3>2 DEF DiskFields
    <3>4. /\ DOMAIN m2 = MemFields /\ m2.run = m.run /\ m2.stage = "saved" /\ m2.commit = m.commit
          /\ m2.given = m.given /\ m2.appliedIndex = m.appliedIndex
      BY <1>0, <3>1 DEF MemFields
    <3>5. d.hard \in 0 .. Len(log)
      BY <1>0, <1>1
    <3>6. DiskOK(log, d2)
      BY <1>0, <2>3, <3>3, <3>5, DiskSnapped
    <3>7. Agree(log, m2, d2)
      BY <1>3, <2>1, <3>3, <3>4 DEF Agree
    <3>8. UpOK(log, m2, d2)
      BY <3>4, <3>7, AtSelect
    <3> QED BY <1>5, <2>1, <3>4, <3>6, <3>8
  <2>5. CASE ~Buildable(n, m)
    <3>1. m2 = Off("panic")
      BY <1>a, <1>0, <1>12, <2>5 DEF saveSnapshotFile
    <3>2. /\ DOMAIN d2 = DiskFields /\ d2.applied = d.applied /\ d2.snap = d.snap /\ d2.blocks = d.blocks
          /\ d2.wal = d.wal /\ d2.hard = d.hard
      BY <1>a, <1>0, <1>12, <2>5 DEF saveSnapshotFile, DiskFields
    <3>3. d.hard \in 0 .. Len(log)
      BY <1>0, <1>1
    <3>4. DiskOK(log, d2)
      BY <1>0, <3>2, <3>3, DiskKept
    <3>5. "panic" \in Runs \ {"up"}
      BY DEF Runs
    <3> QED BY <1>4, <2>1, <3>1, <3>4, <3>5
  <2> QED BY <2>4, <2>5
\* The end of a Ready.
<1>13. ASSUME NEW r, UpOK(log, m, d), Up(n), m2 = finishReady(r), DOMAIN r = MemFields, r.run = m.run,
              r.commit = m.commit, r.appliedIndex = m.appliedIndex, DiskOK(log, d2),
              d2.wal = d.wal, d2.applied = d.applied, Only(n), crashes' = crashes
       PROVE  BlocksInv'
  <2>1. CASE r.exitAfterApplying
    <3>1. m2 = Off("exited")
      BY <1>13, <2>1 DEF finishReady
    <3>2. "exited" \in Runs \ {"up"}
      BY DEF Runs
    <3> QED BY <1>4, <1>13, <3>1, <3>2
  <2>2. CASE ~r.exitAfterApplying
    <3>1. /\ DOMAIN m2 = MemFields /\ m2.run = m.run /\ m2.stage = "select" /\ m2.commit = m.commit
          /\ m2.given = m.commit /\ m2.appliedIndex = m.appliedIndex
      BY <1>13, <2>2 DEF finishReady, MemFields
    <3>2. Agree(log, m2, d2)
      BY <1>3, <1>13, <3>1 DEF Agree
    <3>3. UpOK(log, m2, d2)
      BY <3>1, <3>2, AtSelect
    <3> QED BY <1>5, <1>13, <3>1, <3>3
  <2> QED BY <2>1, <2>2
<1>14. CASE saveSnapshotRecord(n)
  <2>1. Only(n) /\ crashes' = crashes /\ Up(n) /\ UpOK(log, m, d)
    BY <1>a, <1>0, <1>14 DEF saveSnapshotRecord, Only, At
  <2>2. /\ DOMAIN d2 = DiskFields /\ d2.applied = d.applied /\ d2.snap = d.snap /\ d2.blocks = d.blocks
        /\ d2.wal = d.wal /\ d2.hard = m.commit
    BY <1>a, <1>0, <1>14 DEF saveSnapshotRecord, DiskFields
  <2>3. DiskOK(log, d2)
    <3>1. d2.hard \in 0 .. Len(log)
      BY <1>0, <1>3, <2>1, <2>2
    <3> QED BY <1>0, <2>2, <3>1, DiskKept
  <2>4. PICK r : r = [m EXCEPT !.snapshotIndex = d.snap.index]
    BY ZenonT(60)
  <2>5. m2 = IF d.snap.index > r.appliedIndex THEN [r EXCEPT !.stage = "advance"] ELSE finishReady(r)
    BY <1>a, <1>0, <1>14, <2>4 DEF saveSnapshotRecord
  <2>6. /\ DOMAIN r = MemFields /\ r.run = m.run /\ r.commit = m.commit /\ r.given = m.given
        /\ r.appliedIndex = m.appliedIndex
    BY <1>0, <2>4 DEF MemFields
  <2>7. CASE d.snap.index > r.appliedIndex
    <3>1. /\ DOMAIN m2 = MemFields /\ m2.run = m.run /\ m2.stage = "advance" /\ m2.commit = m.commit
          /\ m2.given = m.given /\ m2.appliedIndex = m.appliedIndex
      BY <2>5, <2>6, <2>7, ZenonT(60) DEF MemFields
    <3>2. d2.applied < d2.snap.index /\ d2.applied < Len(log)
      BY <1>0, <1>1, <1>3, <2>1, <2>2, <2>6, <2>7
    <3>3. Agree(log, m2, d2)
      BY <1>3, <2>1, <2>2, <3>1 DEF Agree
    <3>4. UpOK(log, m2, d2)
      BY <3>1, <3>2, <3>3, AtAdvance
    <3> QED BY <1>5, <2>1, <2>3, <3>1, <3>4
  <2>8. CASE ~(d.snap.index > r.appliedIndex)
    <3>1. m2 = finishReady(r)
      BY <2>5, <2>8
    <3> QED BY <1>13, <2>1, <2>2, <2>3, <2>6, <3>1
  <2> QED BY <2>7, <2>8
<1>15. CASE maybeTriggerSnapshot(n)
  <2>1. Only(n) /\ crashes' = crashes /\ Up(n) /\ UpOK(log, m, d) /\ d2 = d
    BY <1>a, <1>0, <1>15 DEF maybeTriggerSnapshot, Only, At
  <2>2. m2 = [m EXCEPT !.stage = "periodic"] \/ m2 = finishReady(m)
    BY <1>a, <1>0, <1>15 DEF maybeTriggerSnapshot
  <2>3. CASE m2 = [m EXCEPT !.stage = "periodic"]
    <3>1. /\ DOMAIN m2 = MemFields /\ m2.run = m.run /\ m2.stage = "periodic" /\ m2.commit = m.commit
          /\ m2.given = m.given /\ m2.appliedIndex = m.appliedIndex
      BY <1>0, <2>3 DEF MemFields
    <3>2. Agree(log, m2, d2)
      BY <1>3, <2>1, <3>1 DEF Agree
    <3>3. UpOK(log, m2, d2)
      BY <3>1, <3>2, AtSelect
    <3> QED BY <1>0, <1>5, <2>1, <3>1, <3>3
  <2>4. CASE m2 = finishReady(m)
    BY <1>0, <1>13, <2>1, <2>4
  <2> QED BY <2>2, <2>3, <2>4
<1> QED BY <1>6, <1>7, <1>8, <1>9, <1>10, <1>11, <1>12, <1>14, <1>15 DEF eventLoop

LEMMA InitBlocks == Init => BlocksInv
<1> SUFFICES ASSUME Init PROVE BlocksInv
  OBVIOUS
<1> DEFINE d0 == [wal |-> FALSE, hard |-> 0, applied |-> 0, snap |-> NoSnapshot, blocks |-> <<>>]
<1>1. /\ log = InitialLog /\ crashes = 0 /\ mem = [n \in Nodes |-> Off("down")]
      /\ disk = [n \in Nodes |-> d0]
  BY ZenonT(60) DEF Init
<1>2. /\ DOMAIN d0 = DiskFields /\ d0.hard = 0 /\ d0.applied = 0 /\ d0.snap.index = 0
      /\ d0.blocks = <<>> /\ d0.wal = FALSE
  BY DEF DiskFields, NoSnapshot, Snapshot
<1> HIDE DEF d0
<1>3. Len(log) \in Nat /\ Cardinality(Bootstrap) <= Len(log) /\ \E S : log \in Seq(S)
  BY <1>1, InitialLength
<1>4. DiskOK(log, d0)
  BY <1>2, <1>3 DEF DiskOK
<1>5. \A n \in Nodes : NodeOK(log, mem[n], disk[n])
  BY <1>1, <1>4, OffFields DEF NodeOK, Runs
<1> QED BY <1>1, <1>3, <1>5, BootstrapAssumption DEF BlocksInv

LEMMA StepBlocks == BlocksInv /\ [Next]_vars => BlocksInv'
<1> SUFFICES ASSUME BlocksInv, [Next]_vars PROVE BlocksInv'
  OBVIOUS
<1>1. CASE serveConfChange
  BY <1>1, LogGrows DEF serveConfChange
<1>2. ASSUME NEW n \in Nodes, startNode(n) \/ restartRaft(n) \/ Crash(n) PROVE BlocksInv'
  BY <1>2, StartKeeps
<1>3. ASSUME NEW n \in Nodes, ProposeBlock(n) PROVE BlocksInv'
  BY <1>3, LogGrows DEF ProposeBlock
<1>4. ASSUME UNCHANGED <<log, mem, disk, crashes>> PROVE BlocksInv'
  BY <1>4 DEF BlocksInv
<1>5. ASSUME NEW n \in Nodes, NEW host \in Hosts, ProposeNewPeer(n, host) PROVE BlocksInv'
  BY <1>4, <1>5 DEF ProposeNewPeer
<1>6. ASSUME NEW n \in Nodes, NEW id \in Ids, ProposePeerRemoval(n, id) PROVE BlocksInv'
  BY <1>4, <1>6 DEF ProposePeerRemoval
<1>7. ASSUME NEW n \in Nodes, eventLoop(n) PROVE BlocksInv'
  BY <1>7, LoopKeeps
<1>8. CASE UNCHANGED vars
  BY <1>4, <1>8 DEF vars
<1> QED BY <1>1, <1>2, <1>3, <1>5, <1>6, <1>7, <1>8 DEF Next

\* A node never counts a block as applied that it has neither stored nor skipped
\* by a snapshot, and no replay inserts a block twice: for every cluster and log,
\* whenever and however often the processes crash.
THEOREM AppliedBlocksAreStored == Spec => []AppliedBlocksStored
<1>1. BlocksInv => AppliedBlocksStored
  <2> SUFFICES ASSUME BlocksInv PROVE AppliedBlocksStored
    OBVIOUS
  <2>1. Len(log) \in Nat /\ DOMAIN log = 1 .. Len(log)
    BY DEF BlocksInv
  <2>2. ASSUME NEW n \in Nodes
        PROVE  /\ mem[n].run \in {"down", "up", "panic", "unmountable", "exited"}
               /\ Range(disk[n].blocks) \subseteq DOMAIN log
               /\ Up(n) => mem[n].given <= mem[n].commit /\ mem[n].commit <= Len(log)
               /\ \A i \in disk[n].snap.index + 1 .. disk[n].applied : log[i].type = Normal => HasBlock(n, i)
               /\ IsInjective(disk[n].blocks)
    <3>1. NodeOK(log, mem[n], disk[n]) /\ DiskOK(log, disk[n])
      BY DEF BlocksInv, NodeOK
    <3>2. disk[n].blocks \in Seq(DOMAIN log)
      BY <3>1 DEF DiskOK
    <3>3. Range(disk[n].blocks) \subseteq DOMAIN log
      BY <3>2 DEF Range
    <3>4. IsInjective(disk[n].blocks)
      <4>1. \A j, k \in DOMAIN disk[n].blocks : j < k => disk[n].blocks[j] < disk[n].blocks[k]
        BY <3>1 DEF DiskOK
      <4>2. \A k \in DOMAIN disk[n].blocks : disk[n].blocks[k] \in Nat /\ k \in Nat
        BY <2>1, <3>2
      <4> QED BY <4>1, <4>2 DEF IsInjective
    <3>5. Up(n) => mem[n].given <= mem[n].commit /\ mem[n].commit <= Len(log)
      BY <3>1 DEF NodeOK, UpOK, Agree, Up
    <3>6. \A i \in disk[n].snap.index + 1 .. disk[n].applied : log[i].type = Normal => HasBlock(n, i)
      BY <3>1, ZenonT(60) DEF DiskOK, HasBlock
    <3> QED BY <3>1, <3>3, <3>4, <3>5, <3>6 DEF NodeOK, Runs
  <2> QED BY <2>2 DEF AppliedBlocksStored, TypeOK, BlocksInv
<1> QED BY <1>1, InitBlocks, StepBlocks, PTL DEF Spec
=============================================================================
