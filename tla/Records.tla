------------------------------- MODULE Records -------------------------------
(***************************************************************************)
(* The records of the operator and of the raft layer, and what the code    *)
(* does with one record: its fields, the RLP form that is stored, sent and  *)
(* hashed, the JSON form of the API, its hashes, its signature, its copies. *)
(*                                                                         *)
(* A struct is a record of its exported fields.  Its RLP form is the        *)
(* sequence of its fields in order, each with the kind of its value, and    *)
(* nothing else: names and types are lost.  Decoding succeeds when the      *)
(* number of items and the kind of every item are those of the struct.  Its *)
(* JSON form is a function from the names of the fields that are there to   *)
(* texts, each with the sort of text: JSON has no other types.              *)
(* Keccak256 is injective: a hash is the hashed data under a tag.  A        *)
(* signature is the signer and the digest that was signed.  nil and empty   *)
(* lists are one value.                                                     *)
(***************************************************************************)
EXTENDS Integers, Sequences, SequencesExt, FiniteSets, Functions, TLC

\* Results: the value of a call that succeeds, or an error.
Ok(v) == <<v>>
Error == <<>>

------------------------------------------------------------------------------
\* RLP (external): structs are given by the names and the kinds of their fields.
\* A struct inside a struct is a list of its own.
EncodeToBytes(struct, v) == [i \in 1..Len(struct) |-> <<struct[i][2], v[struct[i][1]]>>]

\* A byte slice takes any item that is no list, a number takes an empty one.
Assignable(item, kind) ==
    \/ item[1] = kind
    \/ kind = "bytes" /\ item[1] \in {"uint", "hash", "addr"}
    \/ kind = "uint" /\ item = <<"bytes", <<>>>>

DecodeBytes(struct, items) ==
    IF Len(items) = Len(struct) /\ \A i \in 1..Len(struct) : Assignable(items[i], struct[i][2])
    THEN Ok([f \in {struct[i][1] : i \in 1..Len(struct)} |->
                items[CHOOSE i \in 1..Len(struct) : struct[i][1] = f][2]])
    ELSE Error

\* JSON (external): numbers are hexadecimal quantities, addresses, hashes and byte
\* slices hexadecimal data.  A required field that is absent is an error and so is
\* a text of another sort; another absent field keeps the zero value of a new struct.
Text == [uint |-> "quantity", addr |-> "data", hash |-> "data", bytes |-> "data", list |-> "array", owners |-> "object"]

Marshal(struct, v) ==
    [f \in {struct[i][1] : i \in 1..Len(struct)} |->
        <<Text[struct[CHOOSE i \in 1..Len(struct) : struct[i][1] = f][2]], v[f]>>]

ZeroValue == [uint |-> 0, addr |-> "", hash |-> <<>>, bytes |-> <<>>, list |-> <<>>,
              owners |-> [AddedOwners |-> <<>>, RemovedOwners |-> <<>>]]

Unmarshal(struct, required, doc) ==
    IF /\ required \subseteq DOMAIN doc
       /\ \A i \in 1..Len(struct) : struct[i][1] \in DOMAIN doc => doc[struct[i][1]][1] = Text[struct[i][2]]
    THEN Ok([f \in {struct[i][1] : i \in 1..Len(struct)} |->
                IF f \in DOMAIN doc THEN doc[f][2]
                ELSE ZeroValue[struct[CHOOSE i \in 1..Len(struct) : struct[i][1] = f][2]]])
    ELSE Error

Keccak256(data) == <<"keccak", data>>

\* Signatures (external: crypto.Sign, crypto.Ecrecover).  A signature of another
\* digest leads to an address that is nobody's.
NoSig == <<>>
Sign(digest, key) == <<key, digest>>
Nobody == "nobody"
Ecrecover(digest, sig) ==
    IF sig = NoSig THEN Error ELSE IF sig[2] = digest THEN Ok(sig[1]) ELSE Ok(Nobody)

------------------------------------------------------------------------------
\* Transactions.  The balance that a transaction carries in memory is in no form.
TransactionFields ==
    << <<"TokenID", "uint">>, <<"Denomination", "uint">>, <<"DepositIndex", "uint">>, <<"PrevBlock", "uint">>,
       <<"PrevOwner", "addr">>, <<"Recipient", "addr">>, <<"Allowance", "uint">>, <<"Spent", "uint">>,
       <<"Sig", "bytes">> >>

TransactionBytes(tx) == EncodeToBytes(TransactionFields, tx)
DecodeRLPTransaction(items) == DecodeBytes(TransactionFields, items)
TransactionMarshalJSON(tx) == Marshal(TransactionFields, tx)
TransactionUnmarshalJSON(doc) == Unmarshal(TransactionFields, ToSet([i \in 1..8 |-> TransactionFields[i][1]]), doc)
TransactionShortHash(tx) == Keccak256(TransactionBytes([tx EXCEPT !.Sig = NoSig]))
TransactionHash(tx) == Keccak256(TransactionBytes(tx))
signHash(shortHash) == <<"signed", shortHash>>
TransactionSignTx(tx, key) == [tx EXCEPT !.Sig = Sign(signHash(TransactionShortHash(tx)), key)]
TransactionGetSigner(tx) == Ecrecover(signHash(TransactionShortHash(tx)), tx.Sig)

\* Tokens and what is known of a token's deposit.  A token's identifier, a number
\* of 64 bits, is the sequence of its eight bytes; tokenKey cuts it from a hash.
CONSTANT tokenKey(_, _, _)

encToken == << <<"Denomination", "uint">>, <<"PrevBlock", "uint">>, <<"Owner", "addr">>,
               <<"Balance", "uint">>, <<"Allowance", "uint">>, <<"Spent", "uint">> >>
TokenEncodeRLP(t) == EncodeToBytes(encToken, t)
TokenDecodeRLP(items) == DecodeBytes(encToken, items)
TokenMarshalJSON(t) == Marshal(encToken, t)
TokenUnmarshalJSON(doc) == Unmarshal(encToken, {"Denomination", "Owner", "Balance", "Allowance", "Spent"}, doc)

tokenInfoFields == << <<"DepositIndex", "uint">>, <<"Denomination", "uint">>, <<"Depositor", "addr">> >>
TokenInfo(tx) == [DepositIndex |-> tx.DepositIndex, Denomination |-> tx.Denomination, Depositor |-> tx.Recipient]
TokenInfoBytes(tinfo) == EncodeToBytes(tokenInfoFields, tinfo)
TokenInfoDecode(items) == DecodeBytes(tokenInfoFields, items)
TokenID(tinfo) == tokenKey(tinfo.DepositIndex, tinfo.Denomination, tinfo.Depositor)
TokenInfoMarshalJSON(tinfo) == Marshal(tokenInfoFields, tinfo) @@ ("TokenID" :> <<"quantity", TokenID(tinfo)>>)
TokenInfoUnmarshalJSON(doc) == Unmarshal(tokenInfoFields, {"DepositIndex", "Denomination", "Depositor"}, doc)

encAccount == << <<"Tokens", "list">>, <<"Denomination", "uint">>, <<"Balance", "uint">> >>
AccountEncodeRLP(a) == EncodeToBytes(encAccount, a)
AccountDecodeRLP(items) == DecodeBytes(encAccount, items)
AccountMarshalJSON(a) == Marshal(encAccount, a)
AccountUnmarshalJSON(doc) == Unmarshal(encAccount, {"Tokens", "Denomination", "Balance"}, doc)

------------------------------------------------------------------------------
\* Anchor transactions, with the owners they add and remove.
AnchorFields ==
    << <<"BlockChainID", "uint">>, <<"BlockNumber", "uint">>, <<"BlockHash", "hash">>,
       <<"Extra", "owners">>, <<"Sig", "bytes">> >>

NewAnchorTransaction(chain, number, hash) ==
    [BlockChainID |-> chain, BlockNumber |-> number, BlockHash |-> hash, Extra |-> ZeroValue["owners"], Sig |-> NoSig]

addressExist(addrList, addr) == Contains(addrList, addr)
removeAddress(addrList, addr) == SelectSeq(addrList, LAMBDA a : a # addr)

\* Mutant: the removed owners are not looked at.
MutAddOwner(tx, addr) ==
    IF addressExist(tx.Extra.AddedOwners, addr) THEN tx ELSE [tx EXCEPT !.Extra.AddedOwners = Append(@, addr)]

\* What undoes an earlier change cancels it.
AddOwner(tx, addr) ==
    LET o == tx.Extra IN
    IF addressExist(o.RemovedOwners, addr)
    THEN [tx EXCEPT !.Extra = [AddedOwners |-> removeAddress(o.AddedOwners, addr),
                               RemovedOwners |-> removeAddress(o.RemovedOwners, addr)]]
    ELSE IF addressExist(o.AddedOwners, addr) THEN tx
    ELSE [tx EXCEPT !.Extra.AddedOwners = Append(@, addr)]

RemoveOwner(tx, addr) ==
    LET o == tx.Extra IN
    IF addressExist(o.AddedOwners, addr)
    THEN [tx EXCEPT !.Extra = [AddedOwners |-> removeAddress(o.AddedOwners, addr),
                               RemovedOwners |-> removeAddress(o.RemovedOwners, addr)]]
    ELSE IF addressExist(o.RemovedOwners, addr) THEN tx
    ELSE [tx EXCEPT !.Extra.RemovedOwners = Append(@, addr)]

\* The order in which Go ranges over a map is any order.
removeDuplicates(addrList) == SetToSeqs(ToSet(addrList))

\* The transactions that ValidateExtraData may leave; none when it fails.
ValidateExtraData(tx) ==
    IF ToSet(tx.Extra.AddedOwners) \cap ToSet(tx.Extra.RemovedOwners) # {} THEN {}
    ELSE {[tx EXCEPT !.Extra = [AddedOwners |-> added, RemovedOwners |-> removed]] :
             added \in removeDuplicates(tx.Extra.AddedOwners), removed \in removeDuplicates(tx.Extra.RemovedOwners)}

AnchorBytes(tx) == EncodeToBytes(AnchorFields, tx)
AnchorDecode(items) == DecodeBytes(AnchorFields, items)
AnchorMarshalJSON(tx) == Marshal(AnchorFields, tx)
AnchorUnmarshalJSON(doc) == Unmarshal(AnchorFields, {"BlockChainID", "BlockNumber", "BlockHash", "Sig"}, doc)

\* Mutant: the owners are not signed.
MutAnchorShortHash(tx) == Keccak256(AnchorBytes([tx EXCEPT !.Sig = NoSig, !.Extra = ZeroValue["owners"]]))

AnchorShortHash(tx) == Keccak256(AnchorBytes([tx EXCEPT !.Sig = NoSig]))
AnchorHash(tx) == Keccak256(AnchorBytes(tx))
AnchorSignTx(tx, key) ==
    {[t EXCEPT !.Sig = Sign(signHash(AnchorShortHash(t)), key)] : t \in ValidateExtraData(tx)}
AnchorGetSigner(tx) == Ecrecover(signHash(AnchorShortHash(tx)), tx.Sig)
ValidateAnchor(tx) == {t \in ValidateExtraData(tx) : AnchorGetSigner(t) # Error /\ t.BlockChainID # 0}

\* The anchors of one chain in a block, and the owners of the chain.
encAnchorBlock == << <<"Anchors", "list">>, <<"Owners", "list">>, <<"StartBlock", "uint">>, <<"EndBlock", "uint">> >>
NewAnchorBlock(tx) == [Anchors |-> <<tx>>, Owners |-> <<>>, StartBlock |-> tx.BlockNumber, EndBlock |-> tx.BlockNumber]
AddAnchorTx(a, tx) == [a EXCEPT !.Anchors = Append(@, tx)]
AnchorBlockSort(a) ==
    LET sorted == SortSeq(a.Anchors, LAMBDA s, t : s.BlockNumber < t.BlockNumber)
    IN  [a EXCEPT !.Anchors = sorted, !.StartBlock = sorted[1].BlockNumber, !.EndBlock = Last(sorted).BlockNumber]
AnchorBlockEncodeRLP(a) ==
    EncodeToBytes(encAnchorBlock, [a EXCEPT !.Anchors = [i \in DOMAIN @ |-> AnchorBytes(@[i])]])
AnchorBlockDecodeRLP(items) ==
    LET a == DecodeBytes(encAnchorBlock, items) IN
    IF a = Error \/ (\E i \in DOMAIN a[1].Anchors : AnchorDecode(a[1].Anchors[i]) = Error) THEN Error
    ELSE Ok([a[1] EXCEPT !.Anchors = [i \in DOMAIN @ |-> AnchorDecode(@[i])[1]]])

------------------------------------------------------------------------------
\* Headers and blocks.  The tags that should make a field of a header required
\* are malformed, so that only the first one is.
encHeader ==
    << <<"ParentHash", "hash">>, <<"BlockNumber", "uint">>, <<"Time", "uint">>, <<"BloomID", "hash">>,
       <<"TransactionRoot", "hash">>, <<"TokenRoot", "hash">>, <<"AccountRoot", "hash">>,
       <<"L3ChainRoot", "hash">>, <<"AnchorRoot", "hash">>, <<"Sig", "bytes">> >>

HeaderEncodeRLP(h) == EncodeToBytes(encHeader, h)
HeaderDecodeRLP(items) == DecodeBytes(encHeader, items)
HeaderHash(h) == Keccak256(EncodeToBytes(SubSeq(encHeader, 1, 9), h))
UnsignedHash(h) == HeaderHash([h EXCEPT !.Sig = NoSig])
SignHeader(h, key) == [h EXCEPT !.Sig = Sign(UnsignedHash(h), key)]
HeaderGetSigner(h) == Ecrecover(UnsignedHash(h), h.Sig)
HeaderMarshalJSON(h) == Marshal(encHeader, h) @@ ("HeaderHash" :> <<"data", HeaderHash(h)>>)
HeaderUnmarshalJSON(doc) == Unmarshal(encHeader, {"ParentHash"}, doc)
FromHeader(items) == HeaderDecodeRLP(items)

\* Mutant: the signature is not copied.
MutCopyHeader(h) == [h EXCEPT !.Sig = NoSig]

CopyHeader(h) ==
    [ParentHash |-> h.ParentHash, BlockNumber |-> h.BlockNumber, Time |-> h.Time, BloomID |-> h.BloomID,
     TransactionRoot |-> h.TransactionRoot, TokenRoot |-> h.TokenRoot, AccountRoot |-> h.AccountRoot,
     L3ChainRoot |-> h.L3ChainRoot, AnchorRoot |-> h.AnchorRoot, Sig |-> h.Sig]

EncodeAll(Bytes(_), list) == [i \in DOMAIN list |-> Bytes(list[i])]
DecodeAll(Decode(_), list) ==
    IF \E i \in DOMAIN list : Decode(list[i]) = Error THEN Error ELSE Ok([i \in DOMAIN list |-> Decode(list[i])[1]])

encBody == << <<"Layer2Transactions", "list">>, <<"AnchorTransactions", "list">> >>
BodyEncodeRLP(body) ==
    EncodeToBytes(encBody, [Layer2Transactions |-> EncodeAll(TransactionBytes, body.Layer2Transactions),
                            AnchorTransactions |-> EncodeAll(AnchorBytes, body.AnchorTransactions)])
BodyDecodeRLP(items) ==
    LET b    == DecodeBytes(encBody, items)
        txs  == DecodeAll(DecodeRLPTransaction, b[1].Layer2Transactions)
        atxs == DecodeAll(AnchorDecode, b[1].AnchorTransactions)
    IN  IF b = Error \/ txs = Error \/ atxs = Error THEN Error
        ELSE Ok([Layer2Transactions |-> txs[1], AnchorTransactions |-> atxs[1]])
CopyBody(body) ==
    [Layer2Transactions |-> body.Layer2Transactions, AnchorTransactions |-> body.AnchorTransactions]

encBlock == << <<"header", "list">>, <<"body", "list">> >>
BlockEncodeRLP(b) ==
    EncodeToBytes(encBlock, [header |-> HeaderEncodeRLP(b.header), body |-> BodyEncodeRLP(b.body)])
BlockDecodeRLP(items) ==
    LET b == DecodeBytes(encBlock, items)
        header == HeaderDecodeRLP(b[1].header)
        body   == BodyDecodeRLP(b[1].body)
    IN  IF b = Error \/ header = Error \/ body = Error THEN Error
        ELSE Ok([header |-> header[1], body |-> body[1]])
FromChunk(items) == BlockDecodeRLP(items)
SignBlock(b, key) == [b EXCEPT !.header = SignHeader(@, key)]
CopyBlock(b) == [header |-> CopyHeader(b.header), body |-> CopyBody(b.body)]

------------------------------------------------------------------------------
\* The records of raft: a peer's address in a configuration change, and the
\* application's part of a snapshot.
AddressFields == << <<"raftId", "uint">>, <<"nodeId", "hash">>, <<"ip", "bytes">>, <<"p2pPort", "uint">>, <<"raftPort", "uint">> >>
newAddress(raftId, raftPort, node) ==
    [raftId |-> raftId, nodeId |-> node.ID, ip |-> node.IP, p2pPort |-> node.TCP, raftPort |-> raftPort]
AddressEncodeRLP(a) == EncodeToBytes(AddressFields, a)
AddressDecodeRLP(items) == DecodeBytes(AddressFields, items)

SnapshotFields == << <<"addresses", "list">>, <<"removedRaftIds", "list">>, <<"headBlockHash", "hash">> >>
SnapshotEncodeRLP(s) == EncodeToBytes(SnapshotFields, [s EXCEPT !.addresses = EncodeAll(AddressEncodeRLP, @)])
SnapshotDecodeRLP(items) ==
    LET s == DecodeBytes(SnapshotFields, items)
        addresses == DecodeAll(AddressDecodeRLP, s[1].addresses)
    IN  IF s = Error \/ addresses = Error THEN Error ELSE Ok([s[1] EXCEPT !.addresses = addresses[1]])

------------------------------------------------------------------------------
\* The bloom filter of the tokens in a block: the set of its bits that are set.
\* Four numbers of 15 bits come from a key and four from its bytes in reverse.
BloomBits(key) ==
    {(k[2 * i - 1] + 256 * k[2 * i]) % 32768 : k \in {key, Reverse(key)}, i \in 1..4}
NewBloom(keys) == UNION {BloomBits(k) : k \in keys}
CheckBloom(b, key) ==
    \A i \in 1..4 : \A k \in {key, Reverse(key)} : (k[2 * i - 1] + 256 * k[2 * i]) % 32768 \in b
=============================================================================
