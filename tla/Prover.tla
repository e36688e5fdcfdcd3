------------------------------ MODULE Prover ------------------------------
(***************************************************************************)
(* StubProver (nexoia-core/zk_prover/src/lib.rs) on top of the range whose  *)
(* seals it consolidates and whose proofs are its witnesses.  An action is  *)
(* one call that changes or returns something; refused calls change         *)
(* nothing.  The thread that feeds it is in Supervisor.                     *)
(***************************************************************************)
EXTENDS Mmr, SequencesExt

VARIABLES
  sealed_epochs,   \* the seals consolidated
  \* history, read by no action:
  proof            \* the last ZkProof returned, with the leaf of its witness

proverVars == <<sealed_epochs, proof>>

-----------------------------------------------------------------------------
\* Mutant: a known seal is enough, whatever the witness.
SealKnown(statement, leaf_hash, path) ==
  IF \E s \in ToSet(sealed_epochs) : s.root = statement.epoch_root THEN "Ok"
  ELSE "UnknownEpoch"

\* recompute_root() folds a path as verify() of the range does.
RecomputeRoot(leaf_hash, path) == FoldSiblings(leaf_hash, path)
VerifyWitnessInternally(statement, leaf_hash, path) ==
  RecomputeRoot(leaf_hash, path) = statement.epoch_root

\* prove_inclusion(): a seal of that root and epoch, then the witness.  Nothing compares
\* the index of the statement, or its flag, with the witness.
Verdict(statement, leaf_hash, path) ==
  IF ~\E s \in ToSet(sealed_epochs) : /\ s.root = statement.epoch_root
                                      /\ s.epoch = statement.epoch
    THEN "UnknownEpoch"
  ELSE IF ~VerifyWitnessInternally(statement, leaf_hash, path) THEN "InvalidWitness"
  ELSE "Ok"

\* derive_stub_commitment(), a hash of the statement, and ZkProof::verify().
DeriveStubCommitment(statement) == <<"commitment", statement>>
VerifyZk(p) == p.proof_bytes = DeriveStubCommitment(p.statement)

-----------------------------------------------------------------------------
ProverInit == MmrInit /\ sealed_epochs = <<>> /\ proof = None

\* consolidate() of the seals in their order; the queue may have lost some.
Consolidate(k) ==
  /\ \A s \in ToSet(sealed_epochs) : s.epoch < seals[k].epoch
  /\ sealed_epochs' = Append(sealed_epochs, seals[k])
  /\ UNCHANGED <<mmrVars, proof>>

\* prove_inclusion() with the proof of the range that the caller holds as witness, for
\* a root and an epoch that were sealed, be it together or not; the flag is what the
\* range says of the leaf by now.
IsNullified == held.leaf_index \in nullified
ProveInclusion(root, number) ==
  /\ held # None
  /\ LET statement == [epoch_root |-> root, leaf_index |-> held.leaf_index,
                       epoch |-> number, is_nullified |-> IsNullified]
     IN /\ Verdict(statement, held.leaf_hash, held.siblings) = "Ok"
        /\ proof' = [statement |-> statement, leaf_hash |-> held.leaf_hash,
                     proof_bytes |-> DeriveStubCommitment(statement)]
  /\ UNCHANGED <<mmrVars, sealed_epochs>>

\* prove_nullification() asks for the flag and is the same otherwise.
ProveNullification(root, number) ==
  held # None /\ IsNullified /\ ProveInclusion(root, number)

ProverNext ==
  \/ MmrNext /\ UNCHANGED proverVars
  \/ \E k \in DOMAIN seals : Consolidate(k)
  \/ \E i, j \in DOMAIN seals :
       \/ ProveInclusion(seals[i].root, seals[j].epoch)
       \/ ProveNullification(seals[i].root, seals[j].epoch)

ProverSpec == ProverInit /\ [][ProverNext]_<<mmrVars, proverVars>>

-----------------------------------------------------------------------------
\* What is proved is committed: the leaf of the witness is one of those that the
\* consolidated seal of the statement covers, however many leaves, seals and erasures
\* came between the seal, the witness and the call.
ProvenIsCommitted ==
  proof # None =>
    /\ VerifyZk(proof)
    /\ \E s \in ToSet(sealed_epochs) :
         /\ s.root = proof.statement.epoch_root /\ s.epoch = proof.statement.epoch
         /\ \E k \in 1..s.leaf_count : proof.leaf_hash = Leaves[k]

\* What can be proved: with the range as it was sealed, every leaf if there was one
\* mountain and none if there were several, since a path ends at its peak.
OneMountainProves ==
  held # None =>
    \A s \in ToSet(sealed_epochs) : s.leaf_count = held.at =>
      (Verdict([epoch_root |-> s.root, leaf_index |-> held.leaf_index,
                epoch |-> s.epoch, is_nullified |-> FALSE],
               held.leaf_hash, held.siblings) = "Ok"
         <=> \E b \in 0..s.leaf_count : s.leaf_count = TwoTo[b])

\* The prover vouches for the leaves of sealed ranges and for nothing else.
ProverExact == ProvenIsCommitted /\ OneMountainProves
=============================================================================
