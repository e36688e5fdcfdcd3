------------------------------ MODULE Executor ------------------------------
(***************************************************************************)
(* The executor of patches (nexoia-core/supervisor/src/executor.rs) on top  *)
(* of the log it witnesses them in: apply() swaps the pointer of a slot and *)
(* then appends a record and syncs, one patch at a time under a mutex,      *)
(* while other threads append to the same log.  Pages are never freed and   *)
(* code is not executed here: a patch is a value.                           *)
(***************************************************************************)
EXTENDS Wal

CONSTANTS
  Slots,      \* slot_ids of the PatchTable
  Patches,    \* patches that may be applied
  MaxSwaps    \* bound on the swaps of a session

ZeroHash == [i \in 1..HashWords |-> 0]
MAX_PATCH_SIZE == 16     \* pages
SOVEREIGN_MUTATION_CONTENT_ID == 2

\* The slot a patch names is not in it: apply() is given the slot by its caller, and
\* compares the two nowhere.
Patch == [original_hash : Hash, size : Nat, signed : BOOLEAN, reasoned : BOOLEAN]

\* The other records bear a content id of 0 or the one of a veto.
ASSUME ExecutorAssumption ==
  /\ Slots \subseteq Nat /\ Patches \subseteq Patch /\ MaxSwaps \in Nat
  /\ \A r \in Requests : r.content_id # SOVEREIGN_MUTATION_CONTENT_ID

VARIABLE
  swaps    \* of this process: [by, slot, patch, step], in the order of the stores

executorVars == <<walVars, swaps>>

-----------------------------------------------------------------------------
\* Patch::verify(): the form of a mutation.  That the code replaced has the hash the
\* patch names is not looked at.
VerifyPatch(p) ==
  p.signed /\ p.reasoned /\ p.size \in 1..MAX_PATCH_SIZE /\ p.original_hash # ZeroHash

\* The record of a mutation: a seal, told apart by its content id.
Witness(s) ==
  [type |-> EpochSeal, leaf_index |-> s.slot, hash |-> s.patch.original_hash,
   content_id |-> SOVEREIGN_MUTATION_CONTENT_ID]

InProgress == {i \in DOMAIN swaps : swaps[i].step \notin {"done", "failed"}}
\* The mutex is held from before the store to the end.
Locked == InProgress # {}
Applies(w) == \E i \in InProgress : swaps[i].by = w
Advance(w, from, to) ==
  \E i \in InProgress :
    /\ swaps[i].by = w /\ swaps[i].step = from
    /\ swaps' = [swaps EXCEPT ![i].step = to]

-----------------------------------------------------------------------------
ExecutorInit == WalInit /\ swaps = <<>>

\* Mutant: a thread does not wait for the lock.
SwapUnlocked(w, slot, p) ==
  /\ IsOpen /\ appending[w] = None /\ syncing[w] = None /\ ~Applies(w)
  /\ Len(swaps) < MaxSwaps
  /\ VerifyPatch(p)
  /\ swaps' = Append(swaps, [by |-> w, slot |-> slot, patch |-> p, step |-> "swapped"])
  /\ UNCHANGED walVars

\* apply(): verified, copied to a page of its own and stored in the slot, which is seen
\* from then on ...
Swap(w, slot, p) ==
  /\ IsOpen /\ appending[w] = None /\ syncing[w] = None /\ ~Locked
  /\ Len(swaps) < MaxSwaps
  /\ VerifyPatch(p)
  /\ swaps' = Append(swaps, [by |-> w, slot |-> slot, patch |-> p, step |-> "swapped"])
  /\ UNCHANGED walVars

\* ... then witnessed: appended ...
WitnessDraw(w) ==
  \E i \in InProgress :
    /\ swaps[i].by = w /\ AppendDraw(w, Witness(swaps[i]))
    /\ Advance(w, "swapped", "drawn")
WitnessWrite(w) == AppendWrite(w) /\ Advance(w, "drawn", "written")
\* ... or not: the error is returned and the slot keeps its new page ...
WitnessFail(w) ==
  \E n \in ShortWrites : AppendFail(w, n) /\ Advance(w, "drawn", "failed")
\* ... and synced.
WitnessSync(w) == SyncLoad(w) /\ Advance(w, "written", "syncing")
WitnessSynced(w) == SyncWrite(w) /\ Advance(w, "syncing", "done")

Apply(w) ==
  \/ \E slot \in Slots, p \in Patches : Swap(w, slot, p)
  \/ WitnessDraw(w) \/ WitnessWrite(w) \/ WitnessFail(w)
  \/ WitnessSync(w) \/ WitnessSynced(w)

\* What threads that apply no patch do with the log, and what befalls it.
LogStep(w) ==
  /\ ~Applies(w)
  /\ \/ \E req \in Requests : AppendDraw(w, req)
     \/ AppendWrite(w)
     \/ \E n \in ShortWrites : AppendFail(w, n)
     \/ SyncLoad(w)
     \/ SyncWrite(w)
  /\ UNCHANGED swaps
Ends == (Crash \/ (Close /\ ~Locked)) /\ swaps' = <<>>
Begins ==
  /\ CreateFile \/ CreateHeader \/ \E replayed \in BOOLEAN : Open(replayed)
  /\ UNCHANGED swaps

ExecutorNext == Begins \/ Ends \/ \E w \in Writers : Apply(w) \/ LogStep(w)
ExecutorSpec == ExecutorInit /\ [][ExecutorNext]_executorVars

-----------------------------------------------------------------------------
\* executor.rs: the record is the forensic proof "de que a mutação aconteceu".  The
\* mutations the log witnesses in this session are the swaps, in the order of the
\* stores, but for those whose append failed and one that has yet to be written, the
\* last: threads that append, fail and sync in between do not come into it.
Mutations ==
  {k \in (session + 1)..Len(log) :
     log[k].content_id = SOVEREIGN_MUTATION_CONTENT_ID}
Witnessed == {i \in DOMAIN swaps : swaps[i].step \in {"written", "syncing", "done"}}
WitnessedInOrder ==
  /\ IsOpen =>
       \E at \in [Mutations -> Witnessed] :
         /\ \A i \in Witnessed : \E k \in Mutations : at[k] = i
         /\ \A j, k \in Mutations : j < k => at[j] < at[k]
         /\ \A k \in Mutations :
              /\ log[k].leaf_index = swaps[at[k]].slot
              /\ log[k].hash = swaps[at[k]].patch.original_hash
  /\ InProgress \subseteq {Len(swaps)}
=============================================================================
