------------------------------ MODULE CloudStore ------------------------------
(***************************************************************************)
(* wolk.RemoteStorage: a client of the cloudstore service over JSON-RPC.   *)
(* A call goes to the service, which answers it or refuses it, and each    *)
(* call has a deadline: when it passes, the client reports an error, but   *)
(* the request is still on its way and may be served later.  Several calls *)
(* are under way at a time.                                                *)
(*                                                                         *)
(* The service is external: it stores what a served request contains, finds *)
(* some of the chunks a batch asks for and lists them in any order.  The    *)
(* chunkID of a chunk is the hash of its value, except for named chunks.    *)
(***************************************************************************)
EXTENDS Integers, Sequences, FiniteSets, Functions

CONSTANTS NamedChunk,  \* a chunkID that is not the hash of the value
          Requests,    \* the calls that clients make: op and chunks
          MaxCalls     \* bound on the calls

VARIABLES server,      \* chunkID -> value
          calls,       \* of each call: the request, whether it is on its way, the answer
          results      \* of each call that returned: what the client got

cloudVars == <<server, calls, results>>

ContentID(v) == <<"hash", v>>
NoValue == "none"
Fields(rec) == DOMAIN rec
RawChunk(id, v) == [ChunkID |-> id, Value |-> v]

Gets == {"getChunk", "getShare", "getChunkBatch"}
Sets == {"setChunk", "setShare", "setChunkBatch"}

\* What a client stores has the hash of its value as chunkID, or is named; what it
\* asks for has no value yet.  A call that is not of a batch has a chunk.
ASSUME RequestsAssumption ==
    \A r \in Requests :
        /\ r.op \in Gets \cup Sets
        /\ r.op \notin {"setChunkBatch", "getChunkBatch"} => 1 \in DOMAIN r.chunks
        /\ \A c \in Range(r.chunks) :
              /\ Fields(c) = {"ChunkID", "Value"}
              /\ r.op \in Gets => c.Value = NoValue
              /\ r.op \in Sets => c.ChunkID \in {NamedChunk, ContentID(c.Value)}

CloudInit == server = <<>> /\ calls = <<>> /\ results = <<>>

Returned(n) == n \in DOMAIN results
Answered(n) == "waiting" \notin Fields(calls[n].answer)

------------------------------------------------------------------------------
\* A call is sent.
Call(r) ==
    /\ Len(calls) < MaxCalls
    /\ calls' = Append(calls, [op |-> r.op, chunks |-> r.chunks, pending |-> TRUE, answer |-> [waiting |-> TRUE]])
    /\ UNCHANGED <<server, results>>

\* The service (external) serves a request, once, whether or not the client waits.
ServerStore(chunks) ==
    LET ids == {c.ChunkID : c \in Range(chunks)}
    IN  [id \in ids \cup DOMAIN server |->
            IF id \in ids THEN (CHOOSE c \in Range(chunks) : c.ChunkID = id).Value ELSE server[id]]

Reply(n, answer) == calls' = [calls EXCEPT ![n].pending = FALSE, ![n].answer = answer]

Serve(n) ==
    LET c == calls[n]  id == c.chunks[1].ChunkID
        held == {k \in DOMAIN c.chunks : c.chunks[k].ChunkID \in DOMAIN server}
    IN  /\ c.pending
        /\ \/ /\ c.op \in {"setChunk", "setChunkBatch"} /\ server' = ServerStore(c.chunks)
              /\ Reply(n, [done |-> TRUE])
           \/ /\ c.op = "setShare" /\ server' = ServerStore(<<RawChunk(ContentID(c.chunks[1].Value), c.chunks[1].Value)>>)
              /\ Reply(n, [mr |-> "root", h |-> ContentID(c.chunks[1].Value)])
           \/ /\ c.op \in {"getChunk", "getShare"} /\ UNCHANGED server
              /\ Reply(n, IF id \in DOMAIN server THEN [v |-> server[id]] ELSE [none |-> TRUE])
           \/ /\ c.op = "getChunkBatch" /\ UNCHANGED server
              /\ \E some \in SUBSET held : \E order \in Injection(1 .. Cardinality(some), some) :
                    Reply(n, [chunks |-> [k \in DOMAIN order |->
                                 RawChunk(c.chunks[order[k]].ChunkID, server[c.chunks[order[k]].ChunkID])]])
        /\ UNCHANGED results

Refuse(n) == calls[n].pending /\ Reply(n, [err |-> "refused"]) /\ UNCHANGED <<server, results>>

Lose(n) == calls[n].pending /\ calls' = [calls EXCEPT ![n].pending = FALSE] /\ UNCHANGED <<server, results>>

------------------------------------------------------------------------------
\* What the client makes of the answer: err, and the values the method returns.
Failed == [err |-> TRUE, value |-> NoValue, chunks |-> <<>>]
Succeeds(v, chunks) == [err |-> FALSE, value |-> v, chunks |-> chunks]

RPCGetChunk(c) == IF "v" \in Fields(c.answer) THEN Succeeds(c.answer.v, <<>>) ELSE Failed

\* An error in the answer is not looked at.
RPCSetChunk(c) == Succeeds(NoValue, c.chunks)

RPCSetChunkBatch(c) == IF "err" \in Fields(c.answer) THEN Failed ELSE Succeeds(NoValue, c.chunks)

\* Mutant: chunks are matched by their place.
MutGetChunkBatch(c) ==
    IF "err" \in Fields(c.answer) THEN Failed
    ELSE Succeeds(NoValue, [k \in DOMAIN c.chunks |->
            IF k > Len(c.answer.chunks) THEN c.chunks[k] ELSE [c.chunks[k] EXCEPT !.Value = c.answer.chunks[k].Value]])

\* Chunks are matched by chunkID; those that are not in the answer stay as they were.
RPCGetChunkBatch(c) ==
    IF "err" \in Fields(c.answer) THEN Failed
    ELSE Succeeds(NoValue, [k \in DOMAIN c.chunks |->
            LET found == {j \in DOMAIN c.answer.chunks : c.answer.chunks[j].ChunkID = c.chunks[k].ChunkID} IN
            IF found = {} THEN c.chunks[k]
            ELSE [c.chunks[k] EXCEPT !.Value = c.answer.chunks[CHOOSE j \in found : TRUE].Value]])

RPCGetShare(c) == IF "v" \in Fields(c.answer) THEN Succeeds(c.answer.v, <<>>) ELSE Failed

\* A refusal gives no error, and no key either.
RPCSetShare(c) ==
    IF "err" \in Fields(c.answer) THEN Succeeds(NoValue, <<>>)
    ELSE Succeeds(c.answer.h, <<RawChunk(c.answer.h, c.chunks[1].Value)>>)

Result(c) ==
    CASE c.op = "getChunk" -> RPCGetChunk(c)           [] c.op = "setChunk" -> RPCSetChunk(c)
      [] c.op = "getChunkBatch" -> RPCGetChunkBatch(c) [] c.op = "setChunkBatch" -> RPCSetChunkBatch(c)
      [] c.op = "getShare" -> RPCGetShare(c)           [] c.op = "setShare" -> RPCSetShare(c)

Returns(n, res) == [k \in DOMAIN results \cup {n} |-> IF k = n THEN res ELSE results[k]]

Return(n) ==
    /\ ~Returned(n) /\ Answered(n)
    /\ results' = Returns(n, Result(calls[n]))
    /\ UNCHANGED <<server, calls>>

\* The deadline passes: 1 s, 1.5 s or 5 s.
Timeout(n) ==
    /\ ~Returned(n)
    /\ results' = Returns(n, Failed)
    /\ UNCHANGED <<server, calls>>

CloudNext ==
    \/ \E r \in Requests : Call(r)
    \/ \E n \in DOMAIN calls : Serve(n) \/ Refuse(n) \/ Lose(n) \/ Return(n) \/ Timeout(n)

CloudSpec == CloudInit /\ [][CloudNext]_cloudVars

------------------------------------------------------------------------------
(* Properties *)

\* After SetChunkBatch or SetShare returned without an error, the chunks whose ID
\* is the hash of their value stay readable under that ID, whatever late, refused
\* or concurrent calls the service meets (for SetShare: under the key it returned).
\* What GetChunk, GetShare and GetChunkBatch return for an ID that is a hash is the
\* value with that hash, or nothing: in a batch each chunk gets its own value,
\* whatever order the service lists them in.
CloudConsistent ==
    \A n \in DOMAIN results : ~results[n].err =>
        /\ calls[n].op \in {"setChunkBatch", "setShare"} =>
              \A c \in Range(results[n].chunks) :
                 c.ChunkID # NamedChunk => c.ChunkID \in DOMAIN server /\ server[c.ChunkID] = c.Value
        /\ calls[n].op \in {"getChunk", "getShare"} =>
              calls[n].chunks[1].ChunkID \in {NamedChunk, ContentID(results[n].value)}
        /\ calls[n].op = "getChunkBatch" =>
              \A c \in Range(results[n].chunks) :
                 c.Value # NoValue => c.ChunkID \in {NamedChunk, ContentID(c.Value)}
=============================================================================
