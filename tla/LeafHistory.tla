---------------------------- MODULE LeafHistory ----------------------------
(***************************************************************************)
(* What the Merkle mountain range promises: a history of leaves to which    *)
(* leaves are only added, of which any may be marked erased, and whose      *)
(* seals commit to all the leaves so far.  The root is defined here by      *)
(* division of the history, without nodes or peaks.                         *)
(* Hashing is symbolic: the hash of two hashes is their pair.               *)
(***************************************************************************)
EXTENDS Binary, Sequences

CONSTANTS Hashes      \* the hashes of the data

VARIABLES
  leaves,     \* the hashes appended so far
  epoch,      \* number of the next seal
  nullified,  \* indices of the erased leaves
  seals       \* the seals returned so far

historyVars == <<leaves, epoch, nullified, seals>>

\* The roots of the perfect binary trees over the blocks of leaves.
PerfectRoots(s) ==
  LET root[b \in 0..Len(s)] ==
        [j \in Blocks(b, Len(s)) |->
           IF b = 0 THEN s[j + 1] ELSE <<root[b - 1][2 * j], root[b - 1][2 * j + 1]>>]
  IN root

\* The root of a history: its smallest perfect tree hangs to the right of the
\* root of all the leaves before it.
HistoryRoot(s) ==
  LET perfect == PerfectRoots(s)
      Last(n) == perfect[LowBit(n)][n \div TwoTo[LowBit(n)] - 1]
      root[n \in 1..Len(s)] ==
        IF n = TwoTo[LowBit(n)] THEN Last(n)
        ELSE <<root[n - TwoTo[LowBit(n)]], Last(n)>>
  IN root[Len(s)]

-----------------------------------------------------------------------------
HistoryInit ==
  leaves = <<>> /\ epoch = 0 /\ nullified = {} /\ seals = <<>>

AddLeaf ==
  \E h \in Hashes :
    /\ leaves' = Append(leaves, h)
    /\ UNCHANGED <<epoch, nullified, seals>>

SealHistory ==
  /\ leaves # <<>>
  /\ seals' = Append(seals, [epoch |-> epoch, root |-> HistoryRoot(leaves),
                             leaf_count |-> Len(leaves)])
  /\ epoch' = epoch + 1
  /\ UNCHANGED <<leaves, nullified>>

EraseLeaf ==
  \E i \in 0..(Len(leaves) - 1) :
    /\ nullified' = nullified \cup {i}
    /\ UNCHANGED <<leaves, epoch, seals>>

HistoryNext == AddLeaf \/ SealHistory \/ EraseLeaf

HistorySpec == HistoryInit /\ [][HistoryNext]_historyVars
=============================================================================
