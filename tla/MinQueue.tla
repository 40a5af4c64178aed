------------------------------ MODULE MinQueue ------------------------------
(* What the exit queue promises RootChain: a bag of exits, each a pair of its *)
(* exitableTS and deposit index, from which a least one is taken.             *)
EXTENDS Naturals, Bags

CONSTANTS Times, Deps, MaxSize

VARIABLES bag, min   \* min: the exit getMin showed before the last delMin

Init == bag = EmptyBag /\ min = <<0, 0>>

Insert(k) ==
  /\ BagCardinality(bag) < MaxSize
  /\ bag' = bag (+) SetToBag({k})
  /\ UNCHANGED min

NotAfter(k, j) == k[1] < j[1] \/ (k[1] = j[1] /\ k[2] <= j[2])

DelMin ==
  \E k \in BagToSet(bag) :
    /\ \A j \in BagToSet(bag) : NotAfter(k, j)
    /\ bag' = bag (-) SetToBag({k})
    /\ min' = k

Next == DelMin \/ \E k \in Times \X Deps : Insert(k)

Spec == Init /\ [][Next]_<<bag, min>>
=============================================================================
