-------------------------------- MODULE Mmr --------------------------------
(***************************************************************************)
(* The Merkle mountain range (nexoia-core/epoch_mmr/src/mmr.rs).  Positions *)
(* and leaf indices count from 0 as in the code; the node at position p is  *)
(* nodes[p + 1].  Hashing is symbolic: the hash of a datum is a sequence of  *)
(* one, the hash of two hashes (merge_hashes) is their pair, so two hashes  *)
(* are equal exactly when they were made alike.                             *)
(***************************************************************************)
EXTENDS Binary, Sequences

CONSTANTS
  Data,           \* what is hashed into leaves
  MaxLeaves,      \* bound on append()
  MaxSeals,       \* bound on seal_epoch()
  Erasable,       \* bound on nullify(): the indices that may be erased
  None            \* no proof issued yet

ASSUME MmrAssumption ==
  /\ MaxLeaves \in Nat /\ MaxSeals \in Nat /\ Erasable \subseteq Nat
  /\ None \notin Nat

VARIABLES
  nodes,       \* the flat array, leaves and inner nodes: [hash, height]
  peaks,       \* positions of the unpaired mountains, left to right
  leaf_count, epoch,
  nullified,   \* indices of the erased leaves
  \* history, read by no action:
  seals,       \* the EpochSeals returned
  held         \* the last proof a caller got, and the leaf_count at that time

mmrVars == <<nodes, peaks, leaf_count, epoch, nullified, seals, held>>

Hashes == {<<d>> : d \in Data}
MergeHashes(l, r) == <<l, r>>
NodeAt(p) == nodes[p + 1]

-----------------------------------------------------------------------------
\* The loop of append(): while the two last peaks have the same height, their
\* parent is pushed and takes their place.
MergeOnce(m) ==
  LET i == Len(m.peaks)
      l == m.nodes[m.peaks[i - 1] + 1]
      r == m.nodes[m.peaks[i] + 1]
      parent == [hash |-> MergeHashes(l.hash, r.hash), height |-> l.height + 1]
  IN IF i >= 2 /\ l.height = r.height
     THEN [nodes |-> Append(m.nodes, parent),
           peaks |-> Append(SubSeq(m.peaks, 1, i - 2), Len(m.nodes))]
     ELSE m

MergePeaks(m) ==
  LET turn[k \in 0..Len(m.peaks)] == IF k = 0 THEN m ELSE MergeOnce(turn[k - 1])
  IN turn[Len(m.peaks)]

\* bag_peaks(): the peaks hashed together from left to right.
BagPeaks ==
  LET bag[i \in 1..Len(peaks)] ==
        IF i = 1 THEN NodeAt(peaks[1]).hash
        ELSE MergeHashes(bag[i - 1], NodeAt(peaks[i]).hash)
  IN bag[Len(peaks)]

\* leaf_node_pos(): 2k - popcount(k).
LeafNodePos(k) == 2 * k - CountOnes[k]

-----------------------------------------------------------------------------
\* Mutant: the height of the candidate is not compared.
FindSiblingAnyHeight(pos, height) ==
  LET far == TwoTo[height + 1] - 1
      IsAt(p) == p \in 0..(Len(nodes) - 1)
  IN IF IsAt(pos + far) THEN pos + far
     ELSE IF IsAt(pos - far) THEN pos - far
     ELSE None

\* find_sibling(): 2^(h+1) - 1 positions to the right, else to the left.
FindSibling(pos, height) ==
  LET far == TwoTo[height + 1] - 1
      step == IF far < Len(nodes) THEN far ELSE Len(nodes)
      IsAt(p) == p \in 0..(Len(nodes) - 1) /\ NodeAt(p).height = height
  IN IF IsAt(pos + step) THEN pos + step
     ELSE IF IsAt(pos - step) THEN pos - step
     ELSE None

\* find_parent(): the node just after the right one of the two siblings.
FindParent(a, b) ==
  LET p == (IF a > b THEN a ELSE b) + 1
  IN IF p < Len(nodes) /\ NodeAt(p).height = NodeAt(a).height + 1
     THEN p ELSE None

\* collect_siblings(): the way up, as far as a sibling and a parent are found.
ClimbOnce(c, height) ==
  LET sib == FindSibling(c.at, height)
  IN IF c.at = None \/ sib = None THEN [c EXCEPT !.at = None]
     ELSE [at |-> FindParent(c.at, sib),
           siblings |-> Append(c.siblings, [hash |-> NodeAt(sib).hash, right |-> sib > c.at])]

CollectSiblings(pos) ==
  LET climb[h \in 0..leaf_count] ==
        IF h = 0 THEN [at |-> pos, siblings |-> <<>>] ELSE ClimbOnce(climb[h - 1], h - 1)
  IN climb[leaf_count].siblings

\* MerkleProof::verify(), up to the comparison: the hash a proof folds to.
FoldSiblings(leaf_hash, siblings) ==
  LET current[k \in 0..Len(siblings)] ==
        IF k = 0 THEN leaf_hash
        ELSE IF siblings[k].right THEN MergeHashes(current[k - 1], siblings[k].hash)
        ELSE MergeHashes(siblings[k].hash, current[k - 1])
  IN current[Len(siblings)]

Verify(proof, expected_root) ==
  FoldSiblings(proof.leaf_hash, proof.siblings) = expected_root

-----------------------------------------------------------------------------
MmrInit ==
  /\ nodes = <<>> /\ peaks = <<>>
  /\ leaf_count = 0 /\ epoch = 0 /\ nullified = {}
  /\ seals = <<>> /\ held = None

AppendLeaf(h) ==
  /\ leaf_count < MaxLeaves
  /\ LET merged == MergePeaks([nodes |-> Append(nodes, [hash |-> h, height |-> 0]),
                               peaks |-> Append(peaks, Len(nodes))])
     IN nodes' = merged.nodes /\ peaks' = merged.peaks
  /\ leaf_count' = leaf_count + 1
  /\ UNCHANGED <<epoch, nullified, seals, held>>

\* Mutant: the seal commits to the last mountain only.
SealLastPeak ==
  /\ leaf_count > 0
  /\ Len(seals) < MaxSeals
  /\ seals' = Append(seals, [epoch |-> epoch,
                             root |-> NodeAt(peaks[Len(peaks)]).hash,
                             leaf_count |-> leaf_count])
  /\ epoch' = epoch + 1
  /\ UNCHANGED <<nodes, peaks, leaf_count, nullified, held>>

\* seal_epoch(); an empty range is refused with EmptyMmr.
SealEpoch ==
  /\ leaf_count > 0
  /\ Len(seals) < MaxSeals
  /\ seals' = Append(seals, [epoch |-> epoch, root |-> BagPeaks,
                             leaf_count |-> leaf_count])
  /\ epoch' = epoch + 1
  /\ UNCHANGED <<nodes, peaks, leaf_count, nullified, held>>

\* nullify(); an index past the leaves is refused with LeafOutOfBounds.
Nullify(i) ==
  /\ i < leaf_count
  /\ nullified' = nullified \cup {i}
  /\ UNCHANGED <<nodes, peaks, leaf_count, epoch, seals, held>>

GenerateProof(i) ==
  /\ i < leaf_count
  /\ held' = [leaf_index |-> i,
              leaf_hash |-> NodeAt(LeafNodePos(i)).hash,
              siblings |-> CollectSiblings(LeafNodePos(i)),
              epoch_root |-> BagPeaks,
              at |-> leaf_count]
  /\ UNCHANGED <<nodes, peaks, leaf_count, epoch, nullified, seals>>

MmrNext ==
  \/ \E h \in Hashes : AppendLeaf(h)
  \/ SealEpoch
  \/ \E i \in Erasable : Nullify(i)
  \/ \E i \in 0..MaxLeaves : GenerateProof(i)

MmrSpec == MmrInit /\ [][MmrNext]_mmrVars

-----------------------------------------------------------------------------

\* The leaves, where leaf_node_pos() looks for them.
Leaves == [k \in 1..leaf_count |-> NodeAt(LeafNodePos(k - 1)).hash]

History == INSTANCE LeafHistory WITH leaves <- Leaves

\* The blocks of leaves under the mountains, one for each digit of leaf_count: the
\* block of the digit b is the last one of its size, counted from 0.
LastBlock(n, b) == n \div TwoTo[b] - 1
BlockRoot(n, b) == History!PerfectRoots(Leaves)[b][LastBlock(n, b)]

\* A proof, whatever was appended, sealed or nullified since it was issued,
\* folds to the root of the block its leaf was in when it was issued: the
\* search for siblings by position and height never takes a cousin.
ProofReachesPeak ==
  held # None =>
    \E b \in Digits(held.at) :
      /\ held.leaf_index \div TwoTo[b] = LastBlock(held.at, b)
      /\ Len(held.siblings) = b
      /\ Verify(held, BlockRoot(held.at, b))

\* The range implements the history: each append adds one leaf at the place
\* where it is found ever after, nullification touches no leaf, and the root
\* of a seal commits to all the leaves.
ImplementsHistory == History!HistorySpec

=============================================================================
