-------------------------- MODULE CloudStoreProofs --------------------------
(***************************************************************************)
(* CloudConsistent for any requests, any number of calls and any values.   *)
(* The inductive invariant follows a call from the request to the answer:  *)
(* the service holds under a hash nothing but the value with that hash, so *)
(* that what an answer reported stays true however late it is read.        *)
(***************************************************************************)
EXTENDS CloudStore, TLAPS

\* Time for the larger steps.
USE SMTT(60), ZenonT(60)

\* A chunkID that is a hash is that of the value.
Matches(id, v) == id \in {NamedChunk, ContentID(v)}

ServerOK(srv) == \A id \in DOMAIN srv : Matches(id, srv[id])

\* A chunk is on the service, unless it is named.
Kept(srv, id, v) == id # NamedChunk => id \in DOMAIN srv /\ srv[id] = v

RequestOK(c) ==
    /\ c.op \in Gets \cup Sets
    /\ c.op \notin {"setChunkBatch", "getChunkBatch"} => 1 \in DOMAIN c.chunks
    /\ \A k \in DOMAIN c.chunks :
          /\ Fields(c.chunks[k]) = {"ChunkID", "Value"}
          /\ c.op \in Gets => c.chunks[k].Value = NoValue
          /\ c.op \in Sets => Matches(c.chunks[k].ChunkID, c.chunks[k].Value)

\* What an answer to a call says, other than a refusal.
AnswerOK(srv, c) ==
    /\ c.op \in {"setChunk", "setChunkBatch"} =>
          \A k \in DOMAIN c.chunks : Kept(srv, c.chunks[k].ChunkID, c.chunks[k].Value)
    /\ c.op = "setShare" =>
          /\ c.answer.h = ContentID(c.chunks[1].Value)
          /\ Kept(srv, c.answer.h, c.chunks[1].Value)
    /\ c.op \in {"getChunk", "getShare"} /\ "v" \in Fields(c.answer) =>
          Matches(c.chunks[1].ChunkID, c.answer.v)
    /\ c.op = "getChunkBatch" =>
          \A j \in DOMAIN c.answer.chunks :
             Matches(c.answer.chunks[j].ChunkID, c.answer.chunks[j].Value)

CallFields == {"op", "chunks", "pending", "answer"}

CallOK(srv, c) ==
    /\ Fields(c) = CallFields /\ RequestOK(c)
    /\ \/ "waiting" \in Fields(c.answer)
       \/ "err" \in Fields(c.answer) /\ "v" \notin Fields(c.answer)
       \/ "err" \notin Fields(c.answer) /\ AnswerOK(srv, c)

\* What CloudConsistent says of one result.
ResultOK(srv, c, res) ==
    ~res.err =>
        /\ c.op \in {"setChunkBatch", "setShare"} =>
              \A k \in DOMAIN res.chunks : Kept(srv, res.chunks[k].ChunkID, res.chunks[k].Value)
        /\ c.op \in {"getChunk", "getShare"} => Matches(c.chunks[1].ChunkID, res.value)
        /\ c.op = "getChunkBatch" =>
              \A k \in DOMAIN res.chunks :
                 res.chunks[k].Value # NoValue => Matches(res.chunks[k].ChunkID, res.chunks[k].Value)

CloudInv ==
    /\ ServerOK(server)
    /\ \E T : calls \in Seq(T)
    /\ \A n \in DOMAIN calls : CallOK(server, calls[n])
    /\ DOMAIN results \subseteq DOMAIN calls
    /\ \A n \in DOMAIN results : ResultOK(server, calls[n], results[n])

\* The service only gains chunks, and those under a hash keep their value.
Grows(srv, new) ==
    /\ ServerOK(new)
    /\ \A id \in DOMAIN srv : Kept(new, id, srv[id])

LEMMA StaysKept ==
  ASSUME NEW srv, NEW new, Grows(srv, new), NEW id, NEW v, Kept(srv, id, v)
  PROVE  Kept(new, id, v)
  BY DEF Grows, Kept

LEMMA CallStays ==
  ASSUME NEW srv, NEW new, Grows(srv, new), NEW c, CallOK(srv, c)
  PROVE  CallOK(new, c)
<1>1. AnswerOK(srv, c) => AnswerOK(new, c)
  BY StaysKept DEF AnswerOK
<1> QED BY <1>1 DEF CallOK

LEMMA ResultStays ==
  ASSUME NEW srv, NEW new, Grows(srv, new), NEW c, NEW res, ResultOK(srv, c, res)
  PROVE  ResultOK(new, c, res)
  BY StaysKept DEF ResultOK

\* Storing chunks whose IDs match their values leaves nothing else out.
LEMMA StoreGrows ==
  ASSUME ServerOK(server), NEW chunks,
         \A k \in DOMAIN chunks : Matches(chunks[k].ChunkID, chunks[k].Value)
  PROVE  /\ Grows(server, ServerStore(chunks))
         /\ \A k \in DOMAIN chunks :
              Kept(ServerStore(chunks), chunks[k].ChunkID, chunks[k].Value)
<1> DEFINE ids == {c.ChunkID : c \in Range(chunks)}
           Value(id) == (CHOOSE c \in Range(chunks) : c.ChunkID = id).Value
           new == ServerStore(chunks)
<1>1. \A id \in ids : Matches(id, Value(id))
  <2> SUFFICES ASSUME NEW id \in ids PROVE Matches(id, Value(id))
    BY ZenonT(60)
  <2>1. \E c \in Range(chunks) : c.ChunkID = id
    OBVIOUS
  <2>2. PICK k \in DOMAIN chunks : chunks[k] = CHOOSE c \in Range(chunks) : c.ChunkID = id
    BY <2>1 DEF Range
  <2> QED BY <2>1, <2>2, ZenonT(60)
<1>2. /\ DOMAIN new = ids \cup DOMAIN server
      /\ \A id \in ids : new[id] = Value(id)
      /\ \A id \in DOMAIN server \ ids : new[id] = server[id]
  BY DEF ServerStore
<1>3. \A k \in DOMAIN chunks : chunks[k].ChunkID \in ids
  BY DEF Range
<1> HIDE DEF ids, Value, new
<1>4. ServerOK(new)
  BY <1>1, <1>2 DEF ServerOK
<1>5. \A id \in DOMAIN server : Kept(new, id, server[id])
  BY <1>1, <1>2 DEF ServerOK, Kept, Matches, ContentID
<1>6. \A k \in DOMAIN chunks : Kept(new, chunks[k].ChunkID, chunks[k].Value)
  BY <1>1, <1>2, <1>3 DEF Kept, Matches, ContentID
<1> QED BY <1>4, <1>5, <1>6 DEF new, Grows

LEMMA GrowsRefl ==
  ASSUME ServerOK(server)
  PROVE  Grows(server, server)
  BY DEF Grows, Kept

-----------------------------------------------------------------------------
(* The steps of a call. *)

LEMMA CallInv ==
  ASSUME CloudInv, NEW r \in Requests, Call(r)
  PROVE  CloudInv'
<1> DEFINE c == [op |-> r.op, chunks |-> r.chunks, pending |-> TRUE, answer |-> [waiting |-> TRUE]]
<1>1. calls' = Append(calls, c) /\ server' = server /\ results' = results
  BY DEF Call
<1>2. CallOK(server, c)
  <2>1. RequestOK(c)
    BY RequestsAssumption DEF RequestOK, Range, Fields, Matches
  <2>2. Fields(c) = CallFields /\ "waiting" \in Fields(c.answer)
    BY DEF Fields, CallFields
  <2> QED BY <2>1, <2>2 DEF CallOK
<1> HIDE DEF c
<1>3. PICK T : calls \in Seq(T)
  BY DEF CloudInv
<1>4. /\ DOMAIN calls' = DOMAIN calls \cup {Len(calls) + 1}
      /\ \A n \in DOMAIN calls : calls'[n] = calls[n]
      /\ calls'[Len(calls) + 1] = c
      /\ calls' \in Seq(T \cup {c})
  BY <1>1, <1>3
<1> QED BY <1>1, <1>2, <1>4 DEF CloudInv

\* Replacing one call by one that asks the same.
LEMMA Replaced ==
  ASSUME CloudInv, NEW n \in DOMAIN calls, NEW d,
         Grows(server, server'), results' = results, calls' = [calls EXCEPT ![n] = d],
         d.op = calls[n].op, d.chunks = calls[n].chunks, CallOK(server', d)
  PROVE  CloudInv'
<1>1. /\ DOMAIN calls' = DOMAIN calls
      /\ \A k \in DOMAIN calls : calls'[k] = IF k = n THEN d ELSE calls[k]
      /\ \E T : calls' \in Seq(T)
  <2>1. PICK T : calls \in Seq(T)
    BY DEF CloudInv
  <2>2. calls \in Seq(T \cup {d})
    BY <2>1
  <2>3. calls' \in Seq(T \cup {d})
    BY <2>2
  <2> QED BY <2>1, <2>3
<1>2. \A k \in DOMAIN calls : CallOK(server', calls'[k])
  BY <1>1, CallStays DEF CloudInv
<1>3. \A k \in DOMAIN results : ResultOK(server', calls'[k], results[k])
  <2> TAKE k \in DOMAIN results
  <2>1. ResultOK(server', calls[k], results[k]) /\ k \in DOMAIN calls
    BY ResultStays DEF CloudInv
  <2>2. calls'[k].op = calls[k].op /\ calls'[k].chunks = calls[k].chunks
    BY <1>1, <2>1
  <2> QED BY <2>1, <2>2 DEF ResultOK
<1>4. ServerOK(server')
  BY DEF Grows
<1> QED BY <1>1, <1>2, <1>3, <1>4 DEF CloudInv

\* A reply that says what AnswerOK asks for, or refuses.
LEMMA Replies ==
  ASSUME CloudInv, NEW n \in DOMAIN calls, NEW answer, Reply(n, answer),
         Grows(server, server'), results' = results,
         \/ "err" \in Fields(answer) /\ "v" \notin Fields(answer)
         \/ /\ "err" \notin Fields(answer)
            /\ \A d : /\ d.op = calls[n].op /\ d.chunks = calls[n].chunks
                      /\ d.answer = answer
                      => AnswerOK(server', d)
  PROVE  CloudInv'
<1> DEFINE c == calls[n]
           d == [c EXCEPT !.pending = FALSE, !.answer = answer]
<1>1. Fields(c) = CallFields /\ RequestOK(c)
  BY DEF CloudInv, CallOK
<1>2. calls' = [calls EXCEPT ![n] = d]
  BY ZenonT(60) DEF Reply
<1>3. /\ d.op = c.op /\ d.chunks = c.chunks /\ d.answer = answer
      /\ Fields(d) = CallFields
  BY <1>1 DEF Fields, CallFields
<1> HIDE DEF d
<1>4. RequestOK(d)
  BY <1>1, <1>3 DEF RequestOK
<1>5. CallOK(server', d)
  BY <1>3, <1>4 DEF CallOK
<1> QED BY <1>2, <1>3, <1>5, Replaced, ZenonT(60)

LEMMA ServeInv ==
  ASSUME CloudInv, NEW n \in DOMAIN calls, Serve(n)
  PROVE  CloudInv'
<1> DEFINE c  == calls[n]
           id == c.chunks[1].ChunkID
           held == {k \in DOMAIN c.chunks : c.chunks[k].ChunkID \in DOMAIN server}
<1>1. ServerOK(server) /\ RequestOK(c) /\ Grows(server, server) /\ results' = results
  BY GrowsRefl DEF CloudInv, CallOK, Serve
<1>2. CASE c.op \in {"setChunk", "setChunkBatch"} /\ server' = ServerStore(c.chunks)
           /\ Reply(n, [done |-> TRUE])
  <2>1. \A k \in DOMAIN c.chunks : Matches(c.chunks[k].ChunkID, c.chunks[k].Value)
    BY <1>1, <1>2 DEF RequestOK, Sets
  <2>2. /\ Grows(server, server')
        /\ \A k \in DOMAIN c.chunks : Kept(server', c.chunks[k].ChunkID, c.chunks[k].Value)
    BY <1>1, <1>2, <2>1, StoreGrows
  <2>3. \A d : d.op = c.op /\ d.chunks = c.chunks => AnswerOK(server', d)
    BY <1>2, <2>2 DEF AnswerOK
  <2>4. "err" \notin Fields([done |-> TRUE])
    BY DEF Fields
  <2> QED BY <1>1, <1>2, <2>2, <2>3, <2>4, Replies
<1>3. CASE c.op = "setShare" /\ Reply(n, [mr |-> "root", h |-> ContentID(c.chunks[1].Value)])
           /\ server' = ServerStore(<<RawChunk(ContentID(c.chunks[1].Value), c.chunks[1].Value)>>)
  <2> DEFINE v == c.chunks[1].Value
             one == <<RawChunk(ContentID(v), v)>>
             answer == [mr |-> "root", h |-> ContentID(v)]
  <2>1. /\ DOMAIN one = {1}
        /\ one[1].ChunkID = ContentID(v) /\ one[1].Value = v
    BY DEF RawChunk
  <2>2. server' = ServerStore(one) /\ Reply(n, answer)
    BY <1>3
  <2>3. answer.h = ContentID(v) /\ "err" \notin Fields(answer)
    BY DEF Fields
  <2> HIDE DEF one, answer
  <2>4. \A k \in DOMAIN one : Matches(one[k].ChunkID, one[k].Value)
    BY <2>1 DEF Matches
  <2>5. Grows(server, server') /\ Kept(server', ContentID(v), v)
    BY <1>1, <2>1, <2>2, <2>4, StoreGrows
  <2>6. \A d : d.op = c.op /\ d.chunks = c.chunks /\ d.answer = answer => AnswerOK(server', d)
    BY <1>3, <2>3, <2>5 DEF AnswerOK
  <2> QED BY <1>1, <2>2, <2>3, <2>5, <2>6, Replies
<1>4. CASE c.op \in {"getChunk", "getShare"} /\ server' = server
           /\ Reply(n, IF id \in DOMAIN server THEN [v |-> server[id]] ELSE [none |-> TRUE])
  <2> DEFINE answer == IF id \in DOMAIN server THEN [v |-> server[id]] ELSE [none |-> TRUE]
  <2>1. /\ "err" \notin Fields(answer)
        /\ "v" \in Fields(answer) => id \in DOMAIN server /\ answer.v = server[id]
    BY DEF Fields
  <2>2. Reply(n, answer)
    BY <1>4
  <2> HIDE DEF answer
  <2>3. \A d : d.op = c.op /\ d.chunks = c.chunks /\ d.answer = answer => AnswerOK(server', d)
    BY <1>1, <1>4, <2>1 DEF AnswerOK, ServerOK
  <2> QED BY <1>1, <1>4, <2>1, <2>2, <2>3, Replies
<1>5. ASSUME c.op = "getChunkBatch", server' = server,
             NEW some \in SUBSET held, NEW order \in Injection(1 .. Cardinality(some), some),
             Reply(n, [chunks |-> [k \in DOMAIN order |->
                RawChunk(c.chunks[order[k]].ChunkID, server[c.chunks[order[k]].ChunkID])]])
      PROVE  CloudInv'
  <2> DEFINE list == [k \in DOMAIN order |->
                RawChunk(c.chunks[order[k]].ChunkID, server[c.chunks[order[k]].ChunkID])]
             answer == [chunks |-> list]
  <2>1. \A k \in DOMAIN order : order[k] \in held
    BY DEF Injection
  <2>2. \A k \in DOMAIN list : Matches(list[k].ChunkID, list[k].Value)
    BY <1>1, <2>1 DEF ServerOK, RawChunk
  <2>3. answer.chunks = list /\ "err" \notin Fields(answer) /\ Reply(n, answer)
    BY <1>5 DEF Fields
  <2> HIDE DEF list, answer
  <2>4. \A d : d.op = c.op /\ d.chunks = c.chunks /\ d.answer = answer => AnswerOK(server', d)
    BY <1>5, <2>2, <2>3 DEF AnswerOK
  <2> QED BY <1>1, <1>5, <2>3, <2>4, Replies
<1> QED BY <1>2, <1>3, <1>4, <1>5, ZenonT(60) DEF Serve

\* What the client makes of an answer.
LEMMA ResultFollows ==
  ASSUME ServerOK(server), NEW c, CallOK(server, c), "waiting" \notin Fields(c.answer)
  PROVE  ResultOK(server, c, Result(c))
<1>1. /\ RequestOK(c)
      /\ \/ "err" \in Fields(c.answer) /\ "v" \notin Fields(c.answer)
         \/ "err" \notin Fields(c.answer) /\ AnswerOK(server, c)
  BY DEF CallOK
<1> USE DEF ResultOK, Failed, Succeeds
<1>2. CASE c.op = "getChunk" \/ c.op = "getShare"
  <2>1. Result(c) = IF "v" \in Fields(c.answer) THEN Succeeds(c.answer.v, <<>>) ELSE Failed
    BY <1>2 DEF Result, RPCGetChunk, RPCGetShare
  <2> QED BY <1>1, <1>2, <2>1 DEF AnswerOK
<1>3. CASE c.op = "setChunk"
  BY <1>3 DEF Result, RPCSetChunk
<1>4. CASE c.op = "setChunkBatch"
  <2>1. Result(c) = IF "err" \in Fields(c.answer) THEN Failed ELSE Succeeds(NoValue, c.chunks)
    BY <1>4 DEF Result, RPCSetChunkBatch
  <2> QED BY <1>1, <1>4, <2>1 DEF AnswerOK
<1>5. CASE c.op = "setShare"
  <2>1. Result(c) = IF "err" \in Fields(c.answer) THEN Succeeds(NoValue, <<>>)
                    ELSE Succeeds(c.answer.h, <<RawChunk(c.answer.h, c.chunks[1].Value)>>)
    BY <1>5 DEF Result, RPCSetShare
  <2> QED BY <1>1, <1>5, <2>1 DEF AnswerOK, RawChunk
<1>6. CASE c.op = "getChunkBatch"
  <2> DEFINE Found(k) == {j \in DOMAIN c.answer.chunks : c.answer.chunks[j].ChunkID = c.chunks[k].ChunkID}
             list == [k \in DOMAIN c.chunks |->
               IF Found(k) = {} THEN c.chunks[k]
               ELSE [c.chunks[k] EXCEPT !.Value = c.answer.chunks[CHOOSE j \in Found(k) : TRUE].Value]]
  <2>1. Result(c) = IF "err" \in Fields(c.answer) THEN Failed ELSE Succeeds(NoValue, list)
    BY <1>6 DEF Result, RPCGetChunkBatch
  <2>2. ASSUME "err" \notin Fields(c.answer), NEW k \in DOMAIN c.chunks, list[k].Value # NoValue
        PROVE  Matches(list[k].ChunkID, list[k].Value)
    <3>1. Fields(c.chunks[k]) = {"ChunkID", "Value"} /\ c.chunks[k].Value = NoValue
      BY <1>1, <1>6 DEF RequestOK, Gets
    <3>2. Found(k) # {}
      BY <2>2, <3>1, ZenonT(60)
    <3> DEFINE j == CHOOSE j \in Found(k) : TRUE
    <3>3. j \in Found(k)
      BY <3>2
    <3>4. list[k] = [c.chunks[k] EXCEPT !.Value = c.answer.chunks[j].Value]
      BY <3>2, ZenonT(60)
    <3> HIDE DEF j, list
    <3>5. list[k].ChunkID = c.answer.chunks[j].ChunkID /\ list[k].Value = c.answer.chunks[j].Value
      BY <3>1, <3>3, <3>4 DEF Fields
    <3> QED BY <1>1, <1>6, <2>2, <3>3, <3>5 DEF AnswerOK
  <2>3. DOMAIN list = DOMAIN c.chunks
    OBVIOUS
  <2> HIDE DEF list
  <2> QED BY <1>6, <2>1, <2>2, <2>3
<1> QED BY <1>1, <1>2, <1>3, <1>4, <1>5, <1>6 DEF RequestOK, Gets, Sets

LEMMA ReturnInv ==
  ASSUME CloudInv, NEW n \in DOMAIN calls, NEW res, ResultOK(server, calls[n], res),
         results' = Returns(n, res), UNCHANGED <<server, calls>>
  PROVE  CloudInv'
<1>1. /\ DOMAIN results' = DOMAIN results \cup {n}
      /\ \A k \in DOMAIN results' : results'[k] = IF k = n THEN res ELSE results[k]
  BY DEF Returns
<1> QED BY <1>1 DEF CloudInv

LEMMA CloudStep ==
  ASSUME CloudInv, [CloudNext]_cloudVars
  PROVE  CloudInv'
<1>1. ASSUME NEW r \in Requests, Call(r) PROVE CloudInv'
  BY <1>1, CallInv
<1>2. ASSUME NEW n \in DOMAIN calls, Serve(n) PROVE CloudInv'
  BY <1>2, ServeInv
<1>3. ASSUME NEW n \in DOMAIN calls, Refuse(n) PROVE CloudInv'
  <2>1. Fields([err |-> "refused"]) = {"err"}
    BY DEF Fields
  <2>2. Reply(n, [err |-> "refused"]) /\ server' = server /\ results' = results
    BY <1>3 DEF Refuse
  <2>3. Grows(server, server')
    BY <2>2, GrowsRefl DEF CloudInv
  <2> QED BY <2>1, <2>2, <2>3, Replies
<1>4. ASSUME NEW n \in DOMAIN calls, Lose(n) PROVE CloudInv'
  <2> DEFINE c == calls[n]
             d == [c EXCEPT !.pending = FALSE]
  <2>1. calls' = [calls EXCEPT ![n] = d] /\ server' = server /\ results' = results
    BY <1>4 DEF Lose
  <2>2. CallOK(server, c) /\ Grows(server, server')
    BY <2>1, GrowsRefl DEF CloudInv
  <2>3. /\ d.op = c.op /\ d.chunks = c.chunks /\ d.answer = c.answer
        /\ Fields(d) = CallFields
    BY <2>2 DEF CallOK, Fields, CallFields
  <2> HIDE DEF d
  <2>4. CallOK(server', d)
    BY <2>1, <2>2, <2>3 DEF CallOK, RequestOK, AnswerOK
  <2> QED BY <2>1, <2>2, <2>3, <2>4, Replaced, ZenonT(60)
<1>5. ASSUME NEW n \in DOMAIN calls, Return(n) PROVE CloudInv'
  <2>1. ResultOK(server, calls[n], Result(calls[n]))
    BY <1>5, ResultFollows DEF CloudInv, Return, Answered
  <2> QED BY <1>5, <2>1, ReturnInv DEF Return
<1>6. ASSUME NEW n \in DOMAIN calls, Timeout(n) PROVE CloudInv'
  <2>1. ResultOK(server, calls[n], Failed)
    BY DEF ResultOK, Failed
  <2> QED BY <1>6, <2>1, ReturnInv DEF Timeout
<1>7. CASE UNCHANGED cloudVars
  BY <1>7 DEF cloudVars, CloudInv
<1> QED BY <1>1, <1>2, <1>3, <1>4, <1>5, <1>6, <1>7 DEF CloudNext

\* Whatever clients store and ask for, and whichever calls are refused, lost
\* or answered after their deadline: what SetChunkBatch and SetShare reported
\* as stored stays readable under its hash, and what a read returns for a hash
\* has that hash.
THEOREM CloudStaysConsistent == CloudSpec => []CloudConsistent
<1>1. CloudInit => CloudInv
  <2> SUFFICES ASSUME CloudInit PROVE CloudInv
    OBVIOUS
  <2>1. calls \in Seq({})
    BY DEF CloudInit
  <2> QED BY <2>1 DEF CloudInit, CloudInv, ServerOK
<1>2. CloudInv => CloudConsistent
  BY DEF CloudInv, ResultOK, CloudConsistent, Range, Kept, Matches
<1> QED BY <1>1, <1>2, CloudStep, PTL DEF CloudSpec
=============================================================================
