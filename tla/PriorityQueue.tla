--------------------------- MODULE PriorityQueue ---------------------------
(***************************************************************************)
(* PriorityQueue.sol: the binary heap behind exitsQueue.  heapList[0] is   *)
(* the sentinel 0, the heap is heapList[1 .. currentSize].  A key is the   *)
(* priority exitableTS << 128 | depositIndex, here with Width for 2^128.   *)
(***************************************************************************)
EXTENDS Integers, FiniteSets, Bags

CONSTANTS Times, Deps, Width, MaxSize

VARIABLES heapList, currentSize, min

vars == <<heapList, currentSize, min>>

Priority(ts, dep) == ts * Width + dep
DepOf(priority)   == priority % Width
TimeOf(priority)  == priority \div Width
Keys == {Priority(ts, dep) : ts \in Times, dep \in Deps}

Init == heapList = [i \in {0} |-> 0] /\ currentSize = 0 /\ min = 0

RECURSIVE PercUp(_, _, _)
PercUp(heap, i, new) ==
  IF new < heap[i \div 2]
    THEN PercUp([heap EXCEPT ![i] = heap[i \div 2]], i \div 2, new)
    ELSE [heap EXCEPT ![i] = new]

\* Mutant: the right child is never looked at.
MinChildLeft(heap, size, i) == 2 * i

MinChild(heap, size, i) ==
  IF 2 * i + 1 > size THEN 2 * i
  ELSE IF heap[2 * i] < heap[2 * i + 1] THEN 2 * i ELSE 2 * i + 1

RECURSIVE PercDown(_, _, _, _)
PercDown(heap, size, i, new) ==
  LET mc == MinChild(heap, size, i)
  IN IF mc <= size /\ new > heap[mc]
       THEN PercDown([heap EXCEPT ![i] = heap[mc]], size, mc, new)
       ELSE [heap EXCEPT ![i] = new]

Insert(k) ==
  LET size   == currentSize + 1
      pushed == [i \in 0 .. size |-> IF i = size THEN k ELSE heapList[i]]
  IN /\ currentSize < MaxSize
     /\ currentSize' = size
     /\ heapList' = PercUp(pushed, size, k)
     /\ UNCHANGED min

\* getMin and delMin of one iteration of finalizeExits; heapList[1] does not
\* exist in an empty queue, and reading it reverts.
DelMin ==
  LET last  == heapList[currentSize]
      freed == [heapList EXCEPT ![1] = last, ![currentSize] = 0]
      size  == currentSize - 1
      heap  == PercDown(freed, size, 1, freed[1])
  IN /\ 1 \in DOMAIN heapList
     /\ min' = heapList[1]
     /\ currentSize' = size
     /\ heapList' = [i \in 0 .. size |-> heap[i]]

Next == DelMin \/ \E ts \in Times, dep \in Deps : Insert(Priority(ts, dep))

Spec == Init /\ [][Next]_vars

-----------------------------------------------------------------------------
\* getNextExit reads the two parts of a priority back.
NextExit(priority) == <<TimeOf(priority), DepOf(priority)>>

\* The exits in the heap, with how often each occurs.
AsBag ==
  [k \in {NextExit(heapList[i]) : i \in 1 .. currentSize} |->
     Cardinality({i \in 1 .. currentSize : NextExit(heapList[i]) = k})]

Abstract == INSTANCE MinQueue WITH bag <- AsBag, min <- NextExit(min)

\* The heap is the queue of exits MinQueue describes: no exit is lost or
\* doubled, delMin takes the one with the least exitableTS and, among those,
\* the least deposit index, and getNextExit reads back what insert packed.
IsMinQueue == Abstract!Spec
=============================================================================
