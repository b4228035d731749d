----------------------------- MODULE ExtentStore -----------------------------
(***************************************************************************)
(* What the extent server promises: extents that are created empty, each   *)
(* with the data of its last put, whatever is done to the others.          *)
(***************************************************************************)
EXTENDS Sequences

CONSTANTS Extent, Root, Data, NoExtent

VARIABLE store

Init == store = [e \in Extent |-> IF e = Root THEN <<>> ELSE NoExtent]

Create(e) == store[e] = NoExtent /\ store' = [store EXCEPT ![e] = <<>>]

Put(e, d) == store[e] # NoExtent /\ store' = [store EXCEPT ![e] = d]

Remove(e) == store[e] # NoExtent /\ store' = [store EXCEPT ![e] = NoExtent]

Next == \E e \in Extent : \/ Create(e)
                          \/ \E d \in Data : Put(e, d)
                          \/ Remove(e)

Spec == Init /\ [][Next]_store

=============================================================================
