----------------------------- MODULE MCExecutor -----------------------------
(* Two threads append a leaf to a log of a few records, or apply patches.   *)
EXTENDS Executor, TLC

\* Hashes; no word of theirs starts with the byte of a record type.
HashOf(n) == [i \in 1..4 |-> n + i]

MCRequests ==
  {[type |-> Leaf, leaf_index |-> 0, hash |-> HashOf(160), content_id |-> 0]}
Mutation(hash) ==
  [original_hash |-> hash, size |-> 1, signed |-> TRUE, reasoned |-> TRUE]
MCPatches == {Mutation(HashOf(170)), Mutation(ZeroHash)}
WriterSymmetry == Permutations(Writers)
=============================================================================
