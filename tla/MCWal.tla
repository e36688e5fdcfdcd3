------------------------------- MODULE MCWal -------------------------------
(* One thread appends leaves to a log of a few records.                     *)
EXTENDS Wal

\* A hash; no word of it starts with the byte of a record type.
HashA == [i \in 1..4 |-> 160 + i]
MCLeafRequest ==
  {[type |-> Leaf, leaf_index |-> 0, hash |-> HashA, content_id |-> 0]}
=============================================================================
