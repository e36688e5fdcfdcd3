------------------------------ MODULE MCPeer ------------------------------
(***************************************************************************)
(* Instances of Peer for TLC.  Identities are interchangeable: no action    *)
(* compares them, and the properties that are checked are safety ones.      *)
(***************************************************************************)
EXTENDS Peer, TLC

Symmetry == Permutations(Ids)

=============================================================================
