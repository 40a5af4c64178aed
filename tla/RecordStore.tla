----------------------------- MODULE RecordStore -----------------------------
(***************************************************************************)
(* The journeys of the records of Records.tla: drafted and signed by a     *)
(* client, converted to JSON or RLP and back, checked and pooled by the    *)
(* node, written to the chunk store one chunk after the other, and read    *)
(* again.  The chunk store is deep.RemoteStorage: leveldb under an interface*)
(* meant for a remote store, which may fail or be closed at any time and is *)
(* reopened by a restart.                                                   *)
(*                                                                         *)
(* One record is in hand at a time: "hand" is the place where a client, the *)
(* network or a handler holds it.  Reads take no step of their own; they    *)
(* are operators that the properties evaluate in every state, those between *)
(* the writes of one record included.                                       *)
(***************************************************************************)
EXTENDS Records

CONSTANTS Transactions, Anchors,   \* unsigned, as clients author them
          Headers,                 \* unsigned headers, as MakeBlock fills them in
          Objects,                 \* [kind, val] of tokens, accounts, deposits and raft records
          Keys, Operator, ChainKey, \* addresses that sign; the operator's; that of the owner of a chain
          Owners,                  \* addresses that are added to and removed from a chain's owners
          Chunks,                  \* <<chunkID, value>> pairs that are queued
          Loads,                   \* workloads: kinds of records; bounds on their number, on faults,
                                   \* on changes of owners; whether JSON may lack fields
          MaxHops, MaxBlock        \* bounds: conversions, block numbers

VARIABLES load,      \* the workload
          hand,      \* the record in hand: kind, form, val, and its history
          authored, hops, faults, \* counters of the bounds
          pool,      \* the transaction pool: kind, val, by (history: the author)
          todo,      \* the chunks that the store operation in progress has still to write
          writing,   \* the record it writes
          stored,    \* history: records whose store operation returned no error
          tried,     \* history: records and the block numbers they were stored under
          currentBlock,
          ldb,       \* the chunks in leveldb
          open,      \* leveldb was opened, RemoteStorage.ldb is not nil
          localOnly, chunkQueue,
          queued,    \* history: chunkID -> the value queued last
          kept       \* history: chunkID -> value of the last write that returned no error

storageVars == <<ldb, open, chunkQueue, queued, kept>>
writeVars   == <<todo, writing, stored, tried, currentBlock>>
recordVars  == <<load, hand, authored, hops, faults, pool, writeVars, storageVars, localOnly>>

Nothing == [kind |-> "none"]
InHand(kind, form, val, by) ==
    [kind |-> kind, form |-> form, val |-> val, orig |-> val, by |-> by, whole |-> TRUE]

RecordInit ==
    /\ load \in Loads
    /\ hand = Nothing /\ authored = 0 /\ hops = 0 /\ faults = 0
    /\ pool = {} /\ todo = <<>> /\ writing = Nothing /\ stored = {} /\ tried = {}
    /\ currentBlock = Nothing
    /\ ldb = <<>> /\ open = TRUE /\ localOnly \in BOOLEAN /\ chunkQueue = <<>> /\ queued = <<>> /\ kept = <<>>

------------------------------------------------------------------------------
\* Reads of RemoteStorage.

GetChunkLocal(k) == IF open /\ k \in DOMAIN ldb THEN Ok(ldb[k]) ELSE Error
GetChunk(k) == GetChunkLocal(k)

\* A chunk that is not there is reported as an empty one that is.
GetChunkBatchLocal(ks) ==
    IF ~open THEN Error
    ELSE Ok([i \in DOMAIN ks |-> [Value |-> GetChunkLocal(ks[i]), OK |-> TRUE]])

\* Without a local result, a node that is not localOnly returns no error either.
GetChunkBatch(ks) ==
    IF ~open /\ ~localOnly THEN Ok([i \in DOMAIN ks |-> [Value |-> Error, OK |-> FALSE]])
    ELSE GetChunkBatchLocal(ks)

\* Reads of the chain: a record is found under its key, or there is nothing.
\* A chunk is a pair of a tag, for what was written, and its content.
Encoded(k) == LET c == GetChunk(k) IN IF c # Error /\ c[1][1] = "rlp" THEN c[1][2] ELSE <<>>

Found(k, Decode(_)) == IF GetChunk(k) = Error THEN Error ELSE Decode(Encoded(k))

\* A transaction whose block number is not found is not found.
BlockNumberOf(hash) == GetChunk(<<"plasmabn", hash>>)

getTransaction(hash) ==
    LET tx == Found(<<"raw", hash>>, DecodeRLPTransaction) IN
    IF tx = Error \/ BlockNumberOf(hash) = Error THEN Error ELSE Ok([tx |-> tx[1], bn |-> BlockNumberOf(hash)[1][2]])

getAnchorTransaction(hash) ==
    LET tx == Found(<<"raw", hash>>, AnchorDecode) IN
    IF tx = Error \/ BlockNumberOf(hash) = Error THEN Error ELSE Ok([tx |-> tx[1], bn |-> BlockNumberOf(hash)[1][2]])

getTokenInfo(tokenID) == Found(<<"plasmaTokenInfo", tokenID>>, TokenInfoDecode)
getBlockByNumber(n) == Found(<<"plasma", n>>, FromChunk)
ZeroHeader == Unmarshal(encHeader, {}, <<>>)
getBlockHeaderByNumber(n) ==
    LET hash == GetChunk(<<"plasmaHeader", n>>) IN
    IF ~open THEN Error ELSE IF hash = Error THEN ZeroHeader ELSE Found(hash[1][2], FromHeader)
GetBlockByHash(hash) == Found(hash, FromChunk)
GetPlasmaBloomFilter(hash) == LET c == GetChunk(hash) IN IF c = Error THEN Error ELSE Ok(c[1][2])
getTokenObject(hash) == Found(hash, TokenDecodeRLP)
getAccountObject(hash) == Found(hash, AccountDecodeRLP)
getChainObject(hash) == Found(hash, AnchorBlockDecodeRLP)

\* Reads of the pool.
GetPlasmaTransactionFromPool(hash) == {p \in pool : p.kind = "tx" /\ TransactionHash(p.val) = hash}
GetPlasmaTransactionPool(addr) == {p.val : p \in {q \in pool : q.kind = "tx" /\ TransactionGetSigner(q.val) = Ok(addr)}}
GetAnchorTransactionPool(chain) == {p.val : p \in {q \in pool : q.kind = "anchor" /\ q.val.BlockChainID = chain}}

------------------------------------------------------------------------------
\* Authors: a client signs a transaction or drafts an anchor, the operator makes
\* a block, the node holds an object of its state.
CanAuthor(kind) == hand = Nothing /\ writing.kind # "bloom" /\ kind \in load.kinds /\ authored < load.objects

Author(kind, form, val, by) ==
    /\ CanAuthor(kind)
    /\ hand' = InHand(kind, form, val, by) /\ authored' = authored + 1 /\ hops' = 0
    /\ UNCHANGED <<load, faults, pool, writeVars, storageVars, localOnly>>

NewTransaction(tx, key) == Author("tx", "object", TransactionSignTx(tx, key), key)
CreateAnchorTransaction(tx) == Author("anchor", "draft", tx, ChainKey)
HoldObject(o) == Author(o.kind, "object", o.val, Operator)

\* The owner of a chain edits the owners of the anchor that is drafted...
EditOwners(addr) ==
    /\ hand # Nothing /\ hand.form = "draft" /\ hops < load.edits
    /\ \E tx \in {AddOwner(hand.val, addr), RemoveOwner(hand.val, addr)} : hand' = [hand EXCEPT !.val = tx]
    /\ hops' = hops + 1
    /\ UNCHANGED <<load, authored, faults, pool, writeVars, storageVars, localOnly>>

\* ... and signs it.  SendAnchorTransaction of RemoteStorage goes on when this fails,
\* and sends what is not signed.
SignAnchor ==
    /\ hand # Nothing /\ hand.form = "draft"
    /\ LET signed == AnchorSignTx(hand.val, hand.by) IN
       \E tx \in IF signed = {} THEN {hand.val} ELSE signed :
          hand' = [hand EXCEPT !.form = "object", !.val = tx, !.orig = tx]
    /\ hops' = 0
    /\ UNCHANGED <<load, authored, faults, pool, writeVars, storageVars, localOnly>>

------------------------------------------------------------------------------
\* Conversions of the record in hand, by the methods of its type.
ToJSON(kind, v) ==
    CASE kind = "tx"     -> TransactionMarshalJSON(v) [] kind = "anchor"  -> AnchorMarshalJSON(v)
      [] kind = "token"  -> TokenMarshalJSON(v)       [] kind = "account" -> AccountMarshalJSON(v)
      [] kind = "header" -> HeaderMarshalJSON(v)      [] kind = "info"    -> TokenInfoMarshalJSON(v)

FromJSON(kind, doc) ==
    CASE kind = "tx"     -> TransactionUnmarshalJSON(doc) [] kind = "anchor"  -> AnchorUnmarshalJSON(doc)
      [] kind = "token"  -> TokenUnmarshalJSON(doc)       [] kind = "account" -> AccountUnmarshalJSON(doc)
      [] kind = "header" -> HeaderUnmarshalJSON(doc)      [] kind = "info"    -> TokenInfoUnmarshalJSON(doc)

ToRLP(kind, v) ==
    CASE kind = "tx"      -> TransactionBytes(v)  [] kind = "anchor"   -> AnchorBytes(v)
      [] kind = "token"   -> TokenEncodeRLP(v)    [] kind = "account"  -> AccountEncodeRLP(v)
      [] kind = "header"  -> HeaderEncodeRLP(v)   [] kind = "info"     -> TokenInfoBytes(v)
      [] kind = "block"   -> BlockEncodeRLP(v)    [] kind = "chain"    -> AnchorBlockEncodeRLP(v)
      [] kind = "address" -> AddressEncodeRLP(v)  [] kind = "snapshot" -> SnapshotEncodeRLP(v)

FromRLP(kind, items) ==
    CASE kind = "tx"      -> DecodeRLPTransaction(items) [] kind = "anchor"   -> AnchorDecode(items)
      [] kind = "token"   -> TokenDecodeRLP(items)       [] kind = "account"  -> AccountDecodeRLP(items)
      [] kind = "header"  -> HeaderDecodeRLP(items)      [] kind = "info"     -> TokenInfoDecode(items)
      [] kind = "block"   -> BlockDecodeRLP(items)       [] kind = "chain"    -> AnchorBlockDecodeRLP(items)
      [] kind = "address" -> AddressDecodeRLP(items)     [] kind = "snapshot" -> SnapshotDecodeRLP(items)

Signer(kind, v) ==
    CASE kind = "tx" -> TransactionGetSigner(v) [] kind = "anchor" -> AnchorGetSigner(v)
      [] kind = "header" -> HeaderGetSigner(v)  [] kind = "block" -> HeaderGetSigner(v.header)
      [] OTHER -> Error

InForm(form) == hand # Nothing /\ hand.form = form
othersUnchanged == UNCHANGED <<load, authored, faults, pool, writeVars, storageVars, localOnly>>

MarshalRecord ==
    /\ InForm("object") /\ hops < MaxHops
    /\ \/ /\ hand.kind \in {"tx", "anchor", "token", "account", "header", "info"}
          /\ hand' = [hand EXCEPT !.form = "json", !.val = ToJSON(hand.kind, @)]
       \/ hand' = [hand EXCEPT !.form = "rlp", !.val = ToRLP(hand.kind, @)]
    /\ hops' = hops + 1 /\ othersUnchanged

\* A program that writes JSON by hand leaves a field out.
OmitField(f) ==
    /\ InForm("json") /\ load.omits /\ hand.whole /\ f \in DOMAIN hand.val
    /\ hand' = [hand EXCEPT !.val = [g \in DOMAIN @ \ {f} |-> @[g]], !.whole = FALSE]
    /\ UNCHANGED hops /\ othersUnchanged

UnmarshalRecord ==
    /\ InForm("json") \/ InForm("rlp")
    /\ LET v == IF hand.form = "json" THEN FromJSON(hand.kind, hand.val) ELSE FromRLP(hand.kind, hand.val) IN
       hand' = IF v = Error THEN Nothing ELSE [hand EXCEPT !.form = "object", !.val = v[1]]
    /\ UNCHANGED hops /\ othersUnchanged

Discard == InForm("object") /\ hand' = Nothing /\ UNCHANGED hops /\ othersUnchanged

------------------------------------------------------------------------------
\* The API's Send methods: validateTx, then the pool.
ValidateSig(tx) ==
    /\ TransactionGetSigner(tx) = Ok(tx.PrevOwner)
    /\ tx.PrevBlock = 0 => tx.TokenID = tokenKey(tx.DepositIndex, tx.Denomination, tx.Recipient)

SendPlasmaTransaction ==
    /\ InForm("object") /\ hand.kind = "tx"
    /\ pool' = IF ValidateSig(hand.val) /\ (hand.val.PrevBlock = 0 => TransactionGetSigner(hand.val) = Ok(Operator))
               THEN pool \cup {[kind |-> "tx", val |-> hand.val, by |-> hand.by]} ELSE pool
    /\ hand' = Nothing
    /\ UNCHANGED <<load, authored, hops, faults, writeVars, storageVars, localOnly>>

\* The signer of a registration is only logged.
SendAnchorTransaction ==
    /\ InForm("object") /\ hand.kind = "anchor"
    /\ LET valid == ValidateAnchor(hand.val) IN
       \/ \E tx \in valid : pool' = pool \cup {[kind |-> "anchor", val |-> tx, by |-> hand.by]}
       \/ ValidateExtraData(hand.val) \ valid # {} /\ pool' = pool
       \/ ValidateExtraData(hand.val) = {} /\ pool' = pool
    /\ hand' = Nothing
    /\ UNCHANGED <<load, authored, hops, faults, writeVars, storageVars, localOnly>>

------------------------------------------------------------------------------
\* Store operations: the chunks they write, in order.
Chunk(key, tag, v) == [key |-> key, val |-> <<tag, v>>]

StoreTransaction(tx, bn) ==
    << Chunk(<<"raw", TransactionHash(tx)>>, "rlp", TransactionBytes(tx)),
       Chunk(<<"plasmabn", TransactionHash(tx)>>, "num", bn) >>
    \o IF tx.PrevBlock # 0 THEN <<>>
       ELSE << Chunk(<<"plasmaDeposit", tx.TokenID>>, "num", bn),
               Chunk(<<"plasmaTokenInfo", TokenID(TokenInfo(tx))>>, "rlp", TokenInfoBytes(TokenInfo(tx))) >>

StoreAnchorTransaction(tx, bn) ==
    << Chunk(<<"raw", AnchorHash(tx)>>, "rlp", AnchorBytes(tx)),
       Chunk(<<"plasmabn", AnchorHash(tx)>>, "num", bn),
       Chunk(<<"anchor", AnchorHash(tx)>>, "num", tx.BlockNumber) >>

WriteHeader(h) ==
    << Chunk(<<"plasmaHeader", h.BlockNumber>>, "hash", HeaderHash(h)),
       Chunk(HeaderHash(h), "rlp", HeaderEncodeRLP(h)) >>

WriteBlock(b) == WriteHeader(b.header) \o << Chunk(<<"plasma", b.header.BlockNumber>>, "rlp", BlockEncodeRLP(b)) >>

\* Tokens, accounts and chains are found through the tries by the hash of their bytes.
UpdateObject(kind, v) == << Chunk(Keccak256(ToRLP(kind, v)), "rlp", ToRLP(kind, v)) >>

StorePlasmaBloomFilter(tokenIDs) ==
    << Chunk(Keccak256(<< <<"bits", NewBloom(tokenIDs)>> >>), "bits", NewBloom(tokenIDs)) >>
HashOf(r) == IF r.kind = "tx" THEN TransactionHash(r.val) ELSE AnchorHash(r.val)

\* The store operation w begins; it writes its chunks one at a time.
Begin(w, chunks) ==
    /\ todo = <<>> /\ todo' = chunks /\ writing' = w
    /\ tried' = IF w.kind \in {"tx", "anchor"} THEN tried \cup {[kind |-> w.kind, hash |-> HashOf(w), bn |-> w.bn]} ELSE tried
    /\ UNCHANGED <<load, authored, hops, faults, pool, stored, currentBlock, storageVars, localOnly>>

\* commitTransaction stores what it applies under the number of the block in work.
StorePooled(p, bn) ==
    /\ Begin([kind |-> p.kind, val |-> p.val, bn |-> bn],
             IF p.kind = "tx" THEN StoreTransaction(p.val, bn) ELSE StoreAnchorTransaction(p.val, bn))
    /\ UNCHANGED hand

StoreObject ==
    /\ InForm("object") /\ hand.kind \in {"token", "account", "chain"} /\ hand.whole
    /\ Begin([kind |-> hand.kind, val |-> hand.val, bn |-> 0], UpdateObject(hand.kind, hand.val))
    /\ hand' = Nothing

\* Commit stores the filter of the tokens that the block changes, and MakeBlock
\* fills in the header that Commit returns.
InBlock(kind, bn) ==
    {p.val : p \in {q \in pool : q.kind = kind /\ [kind |-> kind, val |-> q.val, bn |-> bn] \in stored}}

MakeBlock(h, txs, atxs) ==
    [header |-> IF txs = <<>> THEN h
                ELSE [h EXCEPT !.BloomID = StorePlasmaBloomFilter({txs[i].TokenID : i \in DOMAIN txs})[1].key],
     body   |-> [Layer2Transactions |-> txs, AnchorTransactions |-> atxs]]

CommitBlock(h) ==
    LET txs   == SetToSeq(InBlock("tx", h.BlockNumber))
        block == SignBlock(MakeBlock(h, txs, SetToSeq(InBlock("anchor", h.BlockNumber))), Operator)
    IN  /\ CanAuthor("block") /\ todo = <<>>
        /\ IF txs = <<>>
           THEN hand' = InHand("block", "object", block, Operator) /\ UNCHANGED <<todo, writing>>
           ELSE /\ todo' = StorePlasmaBloomFilter({txs[i].TokenID : i \in DOMAIN txs})
                /\ writing' = [kind |-> "bloom", val |-> block] /\ UNCHANGED hand
        /\ authored' = authored + 1 /\ hops' = 0
        /\ UNCHANGED <<load, faults, pool, stored, tried, currentBlock, storageVars, localOnly>>

\* The minter writes and inserts its own block, and raft inserts a copy of one that
\* was decoded.
mintNewBlock ==
    /\ InForm("object") /\ hand.kind = "block" /\ hops = 0
    /\ Begin([kind |-> "block", val |-> hand.val, bn |-> hand.val.header.BlockNumber, via |-> "poa"], WriteBlock(hand.val))
    /\ hand' = Nothing

insertChain ==
    /\ InForm("object") /\ hand.kind = "block" /\ hops > 0
    /\ LET block == CopyBlock(hand.val) IN
       Begin([kind |-> "block", val |-> block, bn |-> block.header.BlockNumber, via |-> "raft"], WriteBlock(block))
    /\ hand' = Nothing

SameKey(r, w) == r.kind = w.kind /\ (IF r.kind = "block" THEN r.bn = w.bn ELSE r.val = w.val)

\* The operation returns: the minter's block leaves the pool without its
\* transactions, a filter leads to the block.
Finish ==
    /\ todo' = <<>> /\ writing' = Nothing
    /\ stored' = IF writing.kind = "bloom" THEN stored ELSE {r \in stored : ~SameKey(r, writing)} \cup {writing}
    /\ currentBlock' = IF writing.kind = "block" THEN writing ELSE currentBlock
    /\ pool' = IF writing.kind # "block" \/ writing.via = "raft" THEN pool
               ELSE {p \in pool : /\ ~Contains(writing.val.body.Layer2Transactions, p.val)
                                  /\ ~Contains(writing.val.body.AnchorTransactions, p.val)}
    /\ hand' = IF writing.kind = "bloom" THEN InHand("block", "object", writing.val, Operator) ELSE hand

Proceed ==
    IF Len(todo) > 1 THEN todo' = Tail(todo) /\ UNCHANGED <<writing, stored, currentBlock, pool, hand>> ELSE Finish

\* An error: WriteBlock does not look at WriteHeader's, insertChain not at
\* WriteBlock's.  A transaction that is not stored leaves the pool.
Fail ==
    IF writing.kind = "block" /\ Len(todo) > 1
    THEN todo' = <<Last(todo)>> /\ UNCHANGED <<writing, stored, currentBlock, pool, hand>>
    ELSE /\ todo' = <<>> /\ writing' = Nothing
         /\ stored' = IF writing.kind = "block" THEN {r \in stored : ~SameKey(r, writing)} ELSE stored
         /\ currentBlock' = IF writing.kind = "block" /\ writing.via = "raft" THEN writing ELSE currentBlock
         /\ pool' = {p \in pool : ~(p.kind = writing.kind /\ p.val = writing.val)}
         /\ UNCHANGED hand

------------------------------------------------------------------------------
\* Writes of RemoteStorage.  leveldb may return an error, after which the chunks
\* are there or not.
Values(chunks) == [k \in {c.key : c \in chunks} |-> (CHOOSE c \in chunks : c.key = k).val]
Put(chunks) == Values(chunks) @@ ldb

Written(chunks, promised) == open /\ ldb' = Put(chunks) /\ kept' = promised @@ kept /\ UNCHANGED <<faults, open>>

NotWritten(chunks) ==
    /\ \/ ~open /\ UNCHANGED <<faults, ldb>>
       \/ open /\ faults < load.faults /\ faults' = faults + 1 /\ ldb' \in {ldb, Put(chunks)}
    /\ kept' = [k \in DOMAIN kept \ {c.key : c \in chunks} |-> kept[k]]
    /\ UNCHANGED open

\* Mutant: a localOnly node goes on too.
MutSetChunk ==
    /\ todo # <<>>
    /\ (Written({Head(todo)}, Values({Head(todo)})) \/ NotWritten({Head(todo)})) /\ Proceed
    /\ UNCHANGED <<load, authored, hops, tried, chunkQueue, queued, localOnly>>

\* A node that is not localOnly goes on without the chunk, for a remote store
\* that it does not write to.
SetChunk ==
    /\ todo # <<>>
    /\ \/ Written({Head(todo)}, Values({Head(todo)})) /\ Proceed
       \/ NotWritten({Head(todo)}) /\ (IF localOnly THEN Fail ELSE Proceed)
    /\ UNCHANGED <<load, authored, hops, tried, chunkQueue, queued, localOnly>>

\* The queue has one entry for a chunk: its last value.
QueueChunk(c) ==
    /\ "queue" \in load.kinds /\ authored < load.objects
    /\ chunkQueue' = IF \E i \in DOMAIN chunkQueue : chunkQueue[i].key = c.key
                     THEN [i \in DOMAIN chunkQueue |-> IF chunkQueue[i].key = c.key THEN c ELSE chunkQueue[i]]
                     ELSE Append(chunkQueue, c)
    /\ queued' = (c.key :> c.val) @@ queued /\ authored' = authored + 1
    /\ UNCHANGED <<load, hand, hops, faults, pool, writeVars, ldb, open, kept, localOnly>>

Flush ==
    /\ chunkQueue # <<>>
    /\ \/ Written(ToSet(chunkQueue), queued) /\ chunkQueue' = <<>> /\ queued' = <<>>
       \/ /\ NotWritten(ToSet(chunkQueue))
          /\ IF localOnly THEN UNCHANGED <<chunkQueue, queued>> ELSE chunkQueue' = <<>> /\ queued' = <<>>
    /\ UNCHANGED <<load, hand, authored, hops, pool, writeVars, localOnly>>

FlushToLocal ==
    /\ Written(ToSet(chunkQueue), queued) \/ NotWritten(ToSet(chunkQueue))
    /\ UNCHANGED <<load, hand, authored, hops, pool, writeVars, chunkQueue, queued, localOnly>>

\* The node stops, closing leveldb, and starts again; when leveldb cannot be
\* opened it runs without.
Restart ==
    /\ faults < load.faults /\ faults' = faults + 1 /\ open' \in BOOLEAN
    /\ hand' = Nothing /\ pool' = {} /\ todo' = <<>> /\ writing' = Nothing /\ chunkQueue' = <<>>
    /\ queued' = <<>> /\ currentBlock' = Nothing
    /\ UNCHANGED <<load, authored, hops, stored, tried, ldb, kept, localOnly>>

RecordNext ==
    \/ \E tx \in Transactions, key \in Keys : NewTransaction(tx, key)
    \/ \E tx \in Anchors : CreateAnchorTransaction(tx)
    \/ \E o \in Objects : HoldObject(o)
    \/ \E addr \in Owners : EditOwners(addr)
    \/ SignAnchor \/ MarshalRecord \/ UnmarshalRecord \/ Discard
    \/ InForm("json") /\ \E f \in DOMAIN hand.val : OmitField(f)
    \/ SendPlasmaTransaction \/ SendAnchorTransaction
    \/ \E p \in pool, bn \in 1..MaxBlock : StorePooled(p, bn)
    \/ StoreObject \/ mintNewBlock \/ insertChain \/ SetChunk
    \/ \E h \in Headers : CommitBlock(h)
    \/ \E c \in Chunks : QueueChunk(c)
    \/ Flush \/ FlushToLocal \/ Restart
------------------------------------------------------------------------------
(* Properties *)

\* Whatever chain of conversions to JSON or RLP and back a record went through
\* with none of its fields left out, it is the record that it was (the methods
\* EncodeRLP, DecodeRLP, MarshalJSON and UnmarshalJSON of every type).  So is one
\* whose signature still leads to its author, also when a field was left out of
\* its JSON and the decoder put a zero value there without an error (GetSigner,
\* ShortHash, UnsignedHash).
SameObject ==
    InForm("object") /\ (hand.whole \/ Signer(hand.kind, hand.val) = Ok(hand.by)) => hand.val = hand.orig

\* However often owners were added and removed, no address is on both lists of a
\* drafted anchor or twice on one, so that SignTx can sign it (AddOwner, RemoveOwner).
DraftConsistent ==
    InForm("draft") =>
        LET o == hand.val.Extra IN
        /\ ToSet(o.AddedOwners) \cap ToSet(o.RemovedOwners) = {}
        /\ IsInjective(o.AddedOwners) /\ IsInjective(o.RemovedOwners)

\* A transaction in the pool was authored by the owner it spends the token of, and
\* the pool shows it under that address and under its hash; an anchor that it shows
\* for a chain has a signature and consistent owners, although a client sends the
\* anchors that it could not sign.
PoolAnswers ==
    /\ \A p \in {q \in pool : q.kind = "tx"} :
          /\ p.by = p.val.PrevOwner /\ p.val \in GetPlasmaTransactionPool(p.by)
          /\ GetPlasmaTransactionFromPool(TransactionHash(p.val)) # {}
    /\ \A a \in Anchors : \A tx \in GetAnchorTransactionPool(a.BlockChainID) :
          AnchorGetSigner(tx) # Error /\ ToSet(tx.Extra.AddedOwners) \cap ToSet(tx.Extra.RemovedOwners) = {}

\* What is found under a hash or a number in the chunk store, in the middle of a
\* store operation and after failed ones too, is the record with that hash or
\* number, of the kind that was asked for, signed by the one it names; a block's
\* filter contains every token of the block.  The same goes for the pool.
LookupsTrue ==
    /\ PoolAnswers
    /\ \A t \in tried :
          LET tx == getTransaction(t.hash)  atx == getAnchorTransaction(t.hash) IN
          /\ tx # Error => /\ t.kind = "tx" /\ TransactionHash(tx[1].tx) = t.hash /\ ValidateSig(tx[1].tx)
                           /\ [t EXCEPT !.bn = tx[1].bn] \in tried
          /\ atx # Error => /\ t.kind = "anchor" /\ AnchorHash(atx[1].tx) = t.hash
                            /\ [t EXCEPT !.bn = atx[1].bn] \in tried
    /\ \A n \in 1..MaxBlock :
          LET b == getBlockByNumber(n)  h == getBlockHeaderByNumber(n) IN
          /\ b # Error =>
                LET txs    == b[1].body.Layer2Transactions
                    filter == GetPlasmaBloomFilter(b[1].header.BloomID)
                IN  /\ b[1].header.BlockNumber = n /\ HeaderGetSigner(b[1].header) = Ok(Operator)
                    /\ filter # Error => \A i \in DOMAIN txs : CheckBloom(filter[1], txs[i].TokenID)
          /\ h # Error /\ h # ZeroHeader =>
                /\ h[1].BlockNumber = n /\ HeaderGetSigner(h[1]) = Ok(Operator)
                /\ GetBlockByHash(HeaderHash(h[1])) = Error

\* A chunk whose last write or flush was acknowledged reads back as the value that
\* was given last, alone or in a batch (QueueChunk, Flush, FlushToLocal, SetChunk).
ReadBack ==
    open => \A k \in DOMAIN kept :
        /\ GetChunk(k) = Ok(kept[k])
        /\ GetChunkBatch(<<k>>) = Ok(<<[Value |-> Ok(kept[k]), OK |-> TRUE]>>)

\* On a localOnly node, a record whose store operation returned no error is found
\* afterwards, through other failed writes and restarts (StoreTransaction,
\* StoreAnchorTransaction, WriteBlock, and SetChunk under the tries); and what
\* any node acknowledged reads back (ReadBack).
StoredFound ==
    /\ ReadBack
    /\ open /\ localOnly => \A r \in stored :
           CASE r.kind = "tx" -> /\ getTransaction(HashOf(r)) # Error /\ getTransaction(HashOf(r))[1].tx = r.val
                                 /\ r.val.PrevBlock = 0 => getTokenInfo(r.val.TokenID) = Ok(TokenInfo(r.val))
             [] r.kind = "anchor" -> getAnchorTransaction(HashOf(r)) # Error /\ getAnchorTransaction(HashOf(r))[1].tx = r.val
             [] r.kind = "block"  -> getBlockByNumber(r.bn) = Ok(r.val)
             [] r.kind = "token"  -> getTokenObject(Keccak256(ToRLP(r.kind, r.val))) = Ok(r.val)
             [] r.kind = "account" -> getAccountObject(Keccak256(ToRLP(r.kind, r.val))) = Ok(r.val)
             [] r.kind = "chain"  -> getChainObject(Keccak256(ToRLP(r.kind, r.val))) = Ok(r.val)
=============================================================================
