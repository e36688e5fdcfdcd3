---------------------------- MODULE MCSupervisor ----------------------------
(* Hashes whose first bytes are no record type, apart for each payload and   *)
(* for each number of leaves under a root.                                  *)
EXTENDS Supervisor

Word(w) == [i \in 1..HashWords |-> w]
MCSha(p) == Word(160 + p)
MCRoot(ls) == Word(200 + Len(ls))
MCPatchHash == Word(190)
=============================================================================
