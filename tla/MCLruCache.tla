----------------------------- MODULE MCLruCache -----------------------------
(* LruCache on a small heap; addresses and keys are interchangeable. *)
EXTENDS LruCache, TLC

Symmetry == Permutations(Node) \cup Permutations(Key)
=============================================================================
