------------------------------- MODULE MCBTree ------------------------------
(* A tree of order 4: nodes of one to three keys. *)
EXTENDS BTree
=============================================================================
