---------------------------- MODULE MCLinkedList ----------------------------
(***************************************************************************)
(* All calls on all lists of up to four items, at every index up to two    *)
(* behind the end.  Nodes are interchangeable.                              *)
(***************************************************************************)
EXTENDS LinkedList, TLC

MCIndex == 0..5

Interchangeable == Permutations(Node)
=============================================================================
