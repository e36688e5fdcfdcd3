------------------------------- MODULE Records -------------------------------
(***************************************************************************)
(* The records of a node and how they survive it: the list of EPAs         *)
(* (network/epa.rs), the index of the data subjects (lgpd_rights.rs), the  *)
(* links between EPAs (provenance/aggregator.rs), the reputation of the    *)
(* peers (network/reputation.rs), the reactive rules (nex/checkpoint.rs),  *)
(* and the files they are saved in (network/persistence.rs).  Tasks of the *)
(* runtime share them, each under a lock of its own: the handlers of the   *)
(* HTTP API (network/api.rs), the tasks the UDP listener starts for an EPA *)
(* (network/handshake_runner.rs), and main, which runs the pipeline and    *)
(* later shuts the node down.  One step is what a task does while it holds *)
(* one lock, or one call to the file system.  There is one data subject;   *)
(* payloads, hashes, keys and times are left out.                          *)
(***************************************************************************)
EXTENDS Identity, FiniteSets, Sequences, FiniteSetsExt, SequencesExt

CONSTANTS
  Ids,            \* EPAs that may come in: 1 is on disk at first
  Children,       \* nodes of the provenance graph that were on disk
  ParentOf,       \* their parents: [Children -> Ids]
  Consented,      \* Ids whose lawful basis is consent
  NodeOf,         \* the nodes that made them: a function on Ids
  Rules,          \* reactive rules of the checkpoint: [kind : {"legacy", "block"}, escapes];
                  \* escapes: characters of its texts that are written with a backslash
  MAX_EPA_ENTRIES, MAX_REPUTATION_ENTRIES,
  BanAt, ResetEvery,                        \* 10 failures, 100 successes in the code
  Budgets         \* bounds: messages that come in, EPAs that are posted, requests,
                  \* starts again, in each behaviour;
                  \* fresh: the node starts for the first time

FirstOwn == 5             \* EPAs of the pipeline, one for each start
FirstSuppression == 10    \* EPAs the node makes on request, suppressions among them

ASSUME RecordsAssumption ==
  /\ Ids \subseteq 1..(FirstOwn - 1) /\ Consented \subseteq Ids
  /\ ParentOf \in [Children -> Ids] /\ IsFiniteSet(Children) /\ DOMAIN NodeOf = Ids
  /\ Rules \subseteq [kind : {"legacy", "block"}, escapes : Nat]
  /\ MAX_EPA_ENTRIES \in Nat \ {0} /\ MAX_REPUTATION_ENTRIES \in Nat \ {0}
  /\ BanAt \in Nat \ {0} /\ ResetEvery \in Nat \ {0}
  /\ Budgets \subseteq [arrivals : Nat, posts : Nat, requests : Nat,
                  starts : 0..(FirstSuppression - FirstOwn - 1), fresh : BOOLEAN]

VARIABLES
  epas,         \* the list: a sequence of [id, personal]; personal: it has its metadata
  index,        \* LgpdIndex of the subject: a sequence of ids
  prov,         \* ProvenanceNode by child: [id, blinded], the parent it refers to
  deriv,        \* DerivationIndex: pairs <<key, child>>
  stuck,        \* the listener waits for a lock it holds, peers, and always will
  handlers,     \* the requests of the data subject: [pc, refs, done]
  task,         \* a task of the listener: [pc, id]
  main,         \* main: [pc, id], where it is and the EPA it made
  saves,        \* save_network_state() of the task and of main: [pc, epas, prov, at]
  tmp, file,    \* network.json.tmp and network.json
  overlapped,   \* history: two saves wrote at the same time
  reputation,   \* ReputationStore: node -> [failures, successes, banned]
  repFile,      \* reputation.json
  unsaved,      \* history: rules changed the reputation since it was saved
  identity,     \* identity.json
  been,         \* history: the nodes it was, by their keys
  fresh,        \* history: the node had no files at first
  rules,        \* the rules taken from the checkpoint
  checkpoint, checkpointTmp,
  erased,       \* history: EPAs anonymized since the node started
  arrivals, posts, requests, starts,  \* what is left of the budget
  minted        \* counter: EPAs made on request

storeVars == <<epas, index, prov, deriv, minted, erased>>
fileVars == <<saves, tmp, file, overlapped>>
repVars == <<reputation, repFile, unsaved>>
identityVars == <<identity, been, fresh>>
ruleVars == <<rules, checkpoint, checkpointTmp, identityVars>>
boundVars == <<arrivals, posts, requests, starts>>
recordsVars ==
  <<storeVars, stuck, handlers, task, main, fileVars, repVars, ruleVars, boundVars>>

Absent == [kind |-> "absent", epas |-> <<>>, prov |-> <<>>]
Empty == [kind |-> "empty", epas |-> <<>>, prov |-> <<>>]
Torn == [kind |-> "torn", epas |-> <<>>, prov |-> <<>>]
Content(e, p) == [kind |-> "whole", epas |-> e, prov |-> p]

-----------------------------------------------------------------------------
\* The list: the oldest makes room.
Push(list, e) ==
  Append(IF Len(list) >= MAX_EPA_ENTRIES THEN Tail(list) ELSE list, e)
Copies(id) == {k \in DOMAIN epas : epas[k].id = id}
IsSuppression(id) == id >= FirstSuppression

\* verify_epa(): integrity, then key, age and signature.
Envelopes ==
  [intact : BOOLEAN, keyed : BOOLEAN, age : {"old", "fresh", "ahead"}, signed : BOOLEAN]
VerifyEpa(e) ==
  IF ~e.intact THEN "InvalidIntegrity"
  ELSE IF ~e.keyed THEN "InvalidSignature"
  ELSE IF e.age = "old" THEN "TimestampExpired"
  ELSE IF e.age = "ahead" THEN "TimestampTooNew"
  ELSE IF ~e.signed THEN "InvalidSignature" ELSE "Valid"

\* What a list has at some places, in its order.
Picked(list, places) ==
  LET upTo[k \in 0..Len(list)] ==
        IF k = 0 THEN <<>>
        ELSE IF k \in places THEN Append(upTo[k - 1], list[k]) ELSE upTo[k - 1]
  IN upTo[Len(list)]

\* The index is made again from the list when the node starts ...
BuildIndex(list) ==
  LET known == Picked(list, {k \in DOMAIN list : list[k].personal})
  IN [k \in DOMAIN known |-> known[k].id]
RemoveRef(refs, id) == Picked(refs, {k \in DOMAIN refs : refs[k] # id})

\* ... and the derivation index from the links; a blinded link is found under
\* another key.
Key(link) == <<link.id, link.blinded>>
BuildDerivation(links) == {<<Key(links[c]), c>> : c \in DOMAIN links}
Blind(links, ids) ==
  [c \in DOMAIN links |-> IF links[c].id \in ids THEN [links[c] EXCEPT !.blinded = TRUE]
                          ELSE links[c]]

-----------------------------------------------------------------------------
\* What the node takes from its disk: records, derived indexes, reputation, rules.
LoadedEpas(f) == IF f.kind = "whole" THEN f.epas ELSE <<>>
LoadedProv(f) == IF f.kind = "whole" THEN f.prov ELSE <<>>
NoReputation == [n \in {} |-> [failures |-> 0, successes |-> 0, banned |-> FALSE]]
EmptyRep == [n \in {"unreadable"} |-> [failures |-> 0, successes |-> 0, banned |-> FALSE]]
LoadReputation(f) == IF f = EmptyRep THEN NoReputation ELSE f
\* to_rule(): a block has no way back.
ToRules(snapshot) == {r \in snapshot : r.kind # "block"}
\* From: texts are written as Debug does, and what it escapes is not read back: the
\* backslashes become part of the text.
Snapshot(loaded) == {[r EXCEPT !.escapes = 2 * @] : r \in loaded}

Idle == [pc |-> "idle", refs |-> <<>>, done |-> <<>>]
NoTask == [pc |-> "idle", id |-> 0]
At(pc) == [pc |-> pc, id |-> 0]
NoSave == [pc |-> "idle", epas |-> <<>>, prov |-> <<>>, at |-> "none"]
Savers == {"task", "main"}

FirstFile ==
  Content(<<[id |-> 1, personal |-> TRUE]>>,
          [c \in Children |-> [id |-> ParentOf[c], blinded |-> FALSE]])

Started(f, r, c) ==
  /\ epas' = LoadedEpas(f) /\ index' = BuildIndex(LoadedEpas(f))
  /\ prov' = LoadedProv(f) /\ deriv' = BuildDerivation(LoadedProv(f))
  /\ reputation' = LoadReputation(r) /\ rules' = ToRules(c)
  /\ main' = At("push")

Handlers == 1..Max({b.requests : b \in Budgets})
\* A node that ran before and starts, or one that has no files yet, but perhaps an
\* identity of an older build.
RecordsInit ==
  /\ \E b \in Budgets :
       /\ arrivals = b.arrivals /\ posts = b.posts
       /\ requests = b.requests /\ starts = b.starts
       /\ fresh = b.fresh
  /\ LET f == IF fresh THEN Absent ELSE FirstFile
         c == IF fresh THEN {} ELSE Rules
         node == Generate(0)
     IN /\ file = f /\ epas = f.epas /\ index = BuildIndex(f.epas)
        /\ prov = f.prov /\ deriv = BuildDerivation(f.prov)
        /\ checkpoint = c /\ rules = ToRules(c)
        /\ main = At(IF fresh THEN "down" ELSE "push")
        /\ identity \in IF fresh THEN {NoIdentity, OlderIdentity}
                       ELSE {SavedIdentity(node, NoPassphrase)}
        /\ been = IF fresh THEN {} ELSE {node}
  /\ reputation = NoReputation /\ repFile = NoReputation /\ unsaved = FALSE
  /\ tmp = Absent /\ checkpointTmp = FALSE
  /\ stuck = FALSE /\ handlers = [h \in Handlers |-> Idle]
  /\ task = NoTask /\ saves = [s \in Savers |-> NoSave]
  /\ overlapped = FALSE /\ erased = {} /\ minted = 0

Up == main.pc \notin {"down", "identityPlain", "identitySealed"}

-----------------------------------------------------------------------------
\* save_network_state(): one lock after the other, then a temporary file and a
\* rename.
Reads(s) ==
  /\ Up /\ saves[s].pc = "readEpas" /\ ~stuck
  /\ saves' = [saves EXCEPT ![s].epas = epas, ![s].pc = "readProv"]
  /\ UNCHANGED <<storeVars, stuck, handlers, task, main, tmp, file, overlapped, repVars,
                 ruleVars, boundVars>>
ReadsProv(s) ==
  /\ Up /\ saves[s].pc = "readProv"
  /\ saves' = [saves EXCEPT ![s].prov = prov, ![s].pc = "open"]
  /\ UNCHANGED <<storeVars, stuck, handlers, task, main, tmp, file, overlapped, repVars,
                 ruleVars, boundVars>>

\* Mutant: the file is written in place.
OpensInPlace(s) ==
  /\ Up /\ saves[s].pc = "open"
  /\ file' = Empty /\ tmp' = tmp
  /\ saves' = [saves EXCEPT ![s].at = "file", ![s].pc = "fill"]
  /\ overlapped' = (overlapped \/ \E o \in Savers \ {s} : saves[o].pc \in {"fill", "rename"})
  /\ UNCHANGED <<storeVars, stuck, handlers, task, main, repVars, ruleVars, boundVars>>

\* std::fs::write() opens and truncates the temporary file, the same for all ...
Opens(s) ==
  /\ Up /\ saves[s].pc = "open"
  /\ tmp' = Empty /\ file' = file
  /\ saves' = [saves EXCEPT ![s].at = "tmp", ![s].pc = "fill"]
  /\ overlapped' = (overlapped \/ \E o \in Savers \ {s} : saves[o].pc \in {"fill", "rename"})
  /\ UNCHANGED <<storeVars, stuck, handlers, task, main, repVars, ruleVars, boundVars>>

\* ... and writes to what it opened, wherever that is by now; what another save
\* wrote there and is longer stays behind it.
Written(own, old) == IF old \in {Empty, own} THEN {own} ELSE {own, Torn}
Fills(s) ==
  /\ Up /\ saves[s].pc = "fill"
  /\ LET own == Content(saves[s].epas, saves[s].prov) IN
       CASE saves[s].at = "tmp" -> tmp' \in Written(own, tmp) /\ file' = file
         [] saves[s].at = "file" -> file' \in Written(own, file) /\ tmp' = tmp
         [] OTHER -> UNCHANGED <<tmp, file>>
  /\ saves' = [saves EXCEPT ![s].pc = "rename", ![s].epas = <<>>, ![s].prov = <<>>]
  /\ UNCHANGED <<storeVars, stuck, handlers, task, main, overlapped, repVars, ruleVars,
                 boundVars>>

\* The rename takes what has the name, and fails when another save took it.
Moved(at) == CASE at = "file" -> "lost" [] at = "tmp" -> "file" [] OTHER -> at
Renames(s) ==
  /\ Up /\ saves[s].pc = "rename"
  /\ IF tmp = Absent
     THEN UNCHANGED <<tmp, file>> /\ saves' = [saves EXCEPT ![s] = NoSave]
     ELSE /\ file' = tmp /\ tmp' = Absent
          /\ saves' = [o \in Savers |-> IF o = s THEN NoSave
                                        ELSE [saves[o] EXCEPT !.at = Moved(@)]]
  /\ task' = IF s = "task" THEN NoTask ELSE task
  /\ main' = IF s = "task" THEN main
             ELSE At(IF main.pc = "firstSave" THEN "running" ELSE "checkpoint")
  /\ UNCHANGED <<storeVars, stuck, handlers, overlapped, repVars, ruleVars, boundVars>>

StartSave(s) == saves' = [saves EXCEPT ![s].pc = "readEpas"]

-----------------------------------------------------------------------------
\* The reputation: at the limit the node with the fewest successes makes room;
\* a ban stays when the failures are set back.
Evicted(rep) == CHOOSE n \in DOMAIN rep :
                  \A o \in DOMAIN rep : rep[n].successes <= rep[o].successes
GetOrCreate(rep, n) ==
  LET room == IF n \notin DOMAIN rep /\ Cardinality(DOMAIN rep) >= MAX_REPUTATION_ENTRIES
              THEN DOMAIN rep \ {Evicted(rep)} ELSE DOMAIN rep
  IN [o \in room \union {n} |->
        IF o \in DOMAIN rep THEN rep[o]
        ELSE [failures |-> 0, successes |-> 0, banned |-> FALSE]]
RecordFailure(r) ==
  [r EXCEPT !.failures = @ + 1, !.banned = @ \/ r.failures + 1 >= BanAt]
RecordSuccess(r) ==
  [r EXCEPT !.successes = @ + 1,
            !.failures = IF (r.successes + 1) % ResetEvery = 0 THEN 0 ELSE @]
Recorded(rep, n, ok) ==
  [GetOrCreate(rep, n) EXCEPT ![n] = IF ok THEN RecordSuccess(@) ELSE RecordFailure(@)]

\* An EPA of an authenticated peer: it is opened and verified, the reputation of
\* its node changes and is saved, in place, under one lock ...
Outcomes == {VerifyEpa(e) = "Valid" : e \in Envelopes}
EpaMessage(id) ==
  /\ Up /\ ~stuck /\ task = NoTask /\ arrivals > 0
  /\ \E ok \in Outcomes : task' = [pc |-> IF ok THEN "success" ELSE "failure",
                                   id |-> id]
  /\ arrivals' = arrivals - 1
  /\ UNCHANGED <<storeVars, stuck, handlers, main, fileVars, repVars, ruleVars, posts,
                 requests, starts>>

\* Mutant: the store is saved before the change.
RecordsAfterSave ==
  /\ Up /\ task.pc \in {"success", "failure"} /\ main.pc # "repFill"
  /\ reputation' = Recorded(reputation, NodeOf[task.id], task.pc = "success")
  /\ repFile' = reputation /\ unsaved' = FALSE
  /\ task' = [task EXCEPT !.pc = IF @ = "success" THEN "push" ELSE "done"]
  /\ UNCHANGED <<storeVars, stuck, handlers, main, fileVars, ruleVars, boundVars>>
RecordsOutcome ==
  /\ Up /\ task.pc \in {"success", "failure"} /\ main.pc # "repFill"
  /\ reputation' = Recorded(reputation, NodeOf[task.id], task.pc = "success")
  /\ repFile' = EmptyRep /\ unsaved' = FALSE
  /\ task' = [task EXCEPT !.pc = IF @ = "success" THEN "fillPush" ELSE "fillEnd"]
  /\ UNCHANGED <<storeVars, stuck, handlers, main, fileVars, ruleVars, boundVars>>
FillsReputation ==
  /\ Up /\ task.pc \in {"fillPush", "fillEnd"}
  /\ repFile' = reputation
  /\ task' = IF task.pc = "fillPush" THEN [task EXCEPT !.pc = "push"] ELSE NoTask
  /\ UNCHANGED <<storeVars, stuck, handlers, main, fileVars, reputation, unsaved, ruleVars,
                 boundVars>>
\* ... and a valid one goes to the list, which is saved.  The index hears nothing
\* of it.
TaskPushes ==
  /\ Up /\ task.pc = "push"
  /\ epas' = Push(epas, [id |-> task.id, personal |-> TRUE])
  /\ StartSave("task")
  /\ task' = [pc |-> "saving", id |-> 0]
  /\ UNCHANGED <<index, prov, deriv, minted, erased, stuck, handlers, main, tmp, file,
                 overlapped, repVars, ruleVars, boundVars>>

\* A new peer says Discover: the listener adds it and saves, while it still holds
\* the lock of the list of peers that the save waits for.
Discover ==
  /\ Up /\ ~stuck
  /\ stuck' = TRUE
  /\ UNCHANGED <<storeVars, handlers, task, main, fileVars, repVars, ruleVars, boundVars>>

\* POST /epa and POST /epa/encrypted: neither saves nor indexes; what the node
\* encrypts itself has no metadata.
ReceiveEpa(id) ==
  /\ Up /\ posts > 0
  /\ \E ok \in Outcomes : ok /\ epas' = Push(epas, [id |-> id, personal |-> TRUE])
  /\ posts' = posts - 1
  /\ UNCHANGED <<index, prov, deriv, minted, erased, stuck, handlers, task, main, fileVars,
                 repVars, ruleVars, arrivals, requests,
                 starts>>
ReceiveEncryptedEpa ==
  /\ Up /\ posts > 0
  /\ epas' = Push(epas, [id |-> FirstSuppression + minted, personal |-> FALSE])
  /\ minted' = minted + 1 /\ posts' = posts - 1
  /\ UNCHANGED <<index, prov, deriv, erased, stuck, handlers, task, main, fileVars, repVars,
                 ruleVars, arrivals, requests,
                 starts>>

-----------------------------------------------------------------------------
\* main: the pipeline makes an EPA, puts it into the list, then into the index if
\* it has metadata, and saves; only then main waits for the signal.
OwnId == FirstOwn + starts
PipelinePushes ==
  /\ main.pc = "push"
  /\ \E personal \in BOOLEAN :
       /\ epas' = Push(epas, [id |-> OwnId, personal |-> personal])
       /\ main' = [pc |-> "index", id |-> IF personal THEN OwnId ELSE 0]
  /\ UNCHANGED <<index, prov, deriv, minted, erased, stuck, handlers, task, fileVars,
                 repVars, ruleVars, boundVars>>
PipelineIndexes ==
  /\ main.pc = "index"
  /\ index' = IF main.id = 0 THEN index ELSE Append(index, main.id)
  /\ main' = At("firstSave") /\ StartSave("main")
  /\ UNCHANGED <<epas, prov, deriv, minted, erased, stuck, handlers, task, tmp, file,
                 overlapped, repVars, ruleVars, boundVars>>

\* Ctrl+C: the reputation is saved, then the records, then the rules that were
\* loaded; the process ends and takes all tasks with it.
Interrupted ==
  /\ main.pc = "running" /\ task.pc \notin {"fillPush", "fillEnd"}
  /\ repFile' = EmptyRep /\ unsaved' = FALSE /\ main' = At("repFill")
  /\ UNCHANGED <<storeVars, stuck, handlers, task, fileVars, reputation, ruleVars, boundVars>>
MainFillsReputation ==
  /\ main.pc = "repFill"
  /\ repFile' = reputation
  /\ main' = At("lastSave") /\ StartSave("main")
  /\ UNCHANGED <<storeVars, stuck, handlers, task, tmp, file, overlapped, reputation, unsaved,
                 ruleVars, boundVars>>

\* CheckpointManager::save(): the temporary file, then the rename.
WritesCheckpoint ==
  /\ main.pc = "checkpoint"
  /\ checkpoint' = checkpoint /\ checkpointTmp' = TRUE
  /\ main' = At("renameCheckpoint")
  /\ UNCHANGED <<storeVars, stuck, handlers, task, fileVars, repVars, rules, identityVars,
                 boundVars>>

\* A rule of the monitor adjusts a reputation, under the lock; nothing is saved.
RuleAdjusts(n) ==
  /\ Up /\ arrivals > 0
  /\ task.pc \notin {"fillPush", "fillEnd"} /\ main.pc # "repFill"
  /\ \E ok \in BOOLEAN : reputation' = Recorded(reputation, n, ok)
  /\ unsaved' = TRUE /\ arrivals' = arrivals - 1
  /\ UNCHANGED <<storeVars, stuck, handlers, task, main, fileVars, repFile, ruleVars,
                 posts, requests, starts>>

\* The process is gone: what was in memory and what was being written with it.
Gone ==
  /\ main' = At("down")
  /\ epas' = <<>> /\ index' = <<>> /\ prov' = <<>> /\ deriv' = {} /\ erased' = {}
  /\ reputation' = NoReputation /\ unsaved' = FALSE /\ rules' = {}
  /\ stuck' = FALSE /\ handlers' = [h \in Handlers |-> Idle]
  /\ task' = NoTask /\ saves' = [s \in Savers |-> NoSave]
RenamesCheckpoint ==
  /\ main.pc = "renameCheckpoint"
  /\ checkpoint' = Snapshot(rules) /\ checkpointTmp' = FALSE
  /\ Gone
  /\ UNCHANGED <<minted, tmp, file, overlapped, repFile, identityVars, boundVars>>
Crash ==
  /\ main.pc # "down" /\ Gone
  /\ UNCHANGED <<minted, tmp, file, overlapped, repFile, checkpoint, checkpointTmp,
                 identityVars, boundVars>>

\* main() takes up the identity first, and ends when it cannot; what else it cannot
\* read counts as none.
Start ==
  /\ main.pc = "down" /\ starts > 0 /\ identity.kind # "absent"
  /\ \E pass \in {Passphrase, NoPassphrase} :
       \/ /\ Load(identity, pass, starts) = {}
          /\ UNCHANGED <<epas, index, prov, deriv, reputation, rules, main, been>>
       \/ \E node \in Load(identity, pass, starts) :
            Started(file, repFile, checkpoint) /\ been' = been \union {node}
  /\ starts' = starts - 1
  /\ UNCHANGED <<minted, erased, stuck, handlers, task, fileVars, repFile, unsaved,
                 checkpoint, checkpointTmp, identity, fresh, arrivals, posts, requests>>

\* A node without an identity makes one, and writes it in place.
Generates ==
  /\ main.pc = "down" /\ starts > 0 /\ identity.kind = "absent"
  /\ identity' = OpenedIdentity
  /\ \E pc \in {"identityPlain", "identitySealed"} : main' = At(pc)
  /\ starts' = starts - 1
  /\ UNCHANGED <<storeVars, stuck, handlers, task, fileVars, repVars, rules, checkpoint,
                 checkpointTmp, been, fresh, arrivals, posts, requests>>
FillsIdentity ==
  /\ main.pc \in {"identityPlain", "identitySealed"}
  /\ LET node == Generate(starts + 1)   \* the start under way has been counted
         pass == IF main.pc = "identitySealed" THEN Passphrase ELSE NoPassphrase
     IN identity' = SavedIdentity(node, pass) /\ been' = been \union {node}
  /\ Started(file, repFile, checkpoint)
  /\ UNCHANGED <<minted, erased, stuck, handlers, task, fileVars, repFile, unsaved,
                 checkpoint, checkpointTmp, fresh, boundVars>>

-----------------------------------------------------------------------------
\* DELETE /titular: the index is read ...
Asked(h, pc) ==
  /\ Up /\ handlers[h] = Idle /\ index # <<>> /\ h = requests
  /\ handlers' = [handlers EXCEPT ![h] = [pc |-> pc, refs |-> index, done |-> <<>>]]
  /\ requests' = requests - 1
  /\ UNCHANGED <<storeVars, stuck, task, main, fileVars, repVars, ruleVars, arrivals, posts,
                 starts>>
AskAnonymize(h) == Asked(h, "erase")
AskRevoke(h) == Asked(h, "revoke")

\* ... the first copy of each EPA found is stripped, and an EPA that says so goes
\* to the end of the list, all under one lock ...
EraseOne(acc, id) ==
  LET at == {k \in DOMAIN acc.list : acc.list[k].id = id}
      first == CHOOSE k \in at : \A o \in at : k <= o
      new == FirstSuppression + acc.minted
  IN IF at = {} THEN acc
     ELSE [list |-> Push([acc.list EXCEPT ![first].personal = FALSE],
                         [id |-> new, personal |-> FALSE]),
           minted |-> acc.minted + 1,
           done |-> Append(acc.done, [original |-> id, suppression |-> new])]
Erasure(refs) ==
  LET upTo[k \in 0..Len(refs)] ==
        IF k = 0 THEN [list |-> epas, minted |-> minted, done |-> <<>>]
        ELSE EraseOne(upTo[k - 1], refs[k])
  IN upTo[Len(refs)]
Erases(h) ==
  /\ Up /\ handlers[h].pc = "erase"
  /\ LET out == Erasure(handlers[h].refs)
     IN /\ epas' = out.list /\ minted' = out.minted
        /\ erased' = erased \union {out.done[k].original : k \in DOMAIN out.done}
        /\ handlers' = [handlers EXCEPT ![h] = [pc |-> "blind", refs |-> <<>>,
                                               done |-> out.done]]
  /\ UNCHANGED <<index, prov, deriv, stuck, task, main, fileVars, repVars, ruleVars,
                 boundVars>>

\* ... the links to what was stripped are blinded, under two locks ...
Originals(h) == {handlers[h].done[k].original : k \in DOMAIN handlers[h].done}
\* Mutant: the entry of the parent is removed and the index not made again.
BlindsOnly(h) ==
  /\ Up /\ handlers[h].pc = "blind"
  /\ prov' = Blind(prov, Originals(h))
  /\ deriv' = deriv
  /\ handlers' = [handlers EXCEPT ![h].pc = "tell"]
  /\ UNCHANGED <<epas, index, minted, erased, stuck, task, main, fileVars, repVars,
                 ruleVars, boundVars>>
\* Mutant: the peers are told before the links are blinded.
BlindsLate(h) ==
  /\ Up /\ handlers[h].pc = "blind" /\ ~stuck
  /\ prov' = Blind(prov, Originals(h))
  /\ deriv' = IF Originals(h) = {} THEN deriv ELSE BuildDerivation(prov')
  /\ handlers' = [handlers EXCEPT ![h].pc = "tell"]
  /\ UNCHANGED <<epas, index, minted, erased, stuck, task, main, fileVars, repVars,
                 ruleVars, boundVars>>
Blinds(h) ==
  /\ Up /\ handlers[h].pc = "blind"
  /\ prov' = Blind(prov, Originals(h))
  /\ deriv' = IF Originals(h) = {} THEN deriv ELSE BuildDerivation(prov')
  /\ handlers' = [handlers EXCEPT ![h].pc = "tell"]
  /\ UNCHANGED <<epas, index, minted, erased, stuck, task, main, fileVars, repVars,
                 ruleVars, boundVars>>
\* ... the peers are told, if their list can be had ...
Tells(h) ==
  /\ Up /\ handlers[h].pc = "tell" /\ ~stuck
  /\ handlers' = [handlers EXCEPT ![h].pc = "reindex"]
  /\ UNCHANGED <<storeVars, stuck, task, main, fileVars, repVars, ruleVars, boundVars>>
\* ... and the index takes the suppression for the original.
ReindexOne(refs, d) == Append(RemoveRef(refs, d.original), d.suppression)
Reindexed(done) ==
  LET upTo[k \in 0..Len(done)] ==
        IF k = 0 THEN index ELSE ReindexOne(upTo[k - 1], done[k])
  IN upTo[Len(done)]
\* Mutant: the suppression goes in and the original stays.
ReindexesOnly(h) ==
  /\ Up /\ handlers[h].pc = "reindex"
  /\ index' = index \o [k \in DOMAIN handlers[h].done |-> handlers[h].done[k].suppression]
  /\ handlers' = [handlers EXCEPT ![h] = Idle]
  /\ UNCHANGED <<epas, prov, deriv, minted, erased, stuck, task, main, fileVars, repVars,
                 ruleVars, boundVars>>
Reindexes(h) ==
  /\ Up /\ handlers[h].pc = "reindex"
  /\ index' = Reindexed(handlers[h].done)
  /\ handlers' = [handlers EXCEPT ![h] = Idle]
  /\ UNCHANGED <<epas, prov, deriv, minted, erased, stuck, task, main, fileVars, repVars,
                 ruleVars, boundVars>>

\* POST /titular/revogar: what rests on consent leaves the index, as it was read.
Revokes(h) ==
  /\ Up /\ handlers[h].pc = "revoke"
  /\ LET gone == {r \in Consented : r \in ToSet(handlers[h].refs)}
     IN index' = Picked(index, {k \in DOMAIN index : index[k] \notin gone})
  /\ handlers' = [handlers EXCEPT ![h] = Idle]
  /\ UNCHANGED <<epas, prov, deriv, minted, erased, stuck, task, main, fileVars, repVars,
                 ruleVars, boundVars>>

Saving(s) == Reads(s) \/ ReadsProv(s) \/ Opens(s) \/ Fills(s) \/ Renames(s)
Task == RecordsOutcome \/ FillsReputation \/ TaskPushes
Main == PipelinePushes \/ PipelineIndexes \/ Interrupted \/ MainFillsReputation
        \/ WritesCheckpoint \/ RenamesCheckpoint
Serving(h) == Erases(h) \/ Blinds(h) \/ Tells(h) \/ Reindexes(h) \/ Revokes(h)

RecordsNext ==
  \/ \E s \in Savers : Saving(s)
  \/ Task \/ Main \/ Discover \/ Crash \/ ReceiveEncryptedEpa
  \/ Start \/ Generates \/ FillsIdentity
  \/ \E n \in Range(NodeOf) : RuleAdjusts(n)
  \/ \E id \in Ids : ReceiveEpa(id) \/ EpaMessage(id)
  \/ \E h \in Handlers : AskAnonymize(h) \/ AskRevoke(h) \/ Serving(h)

\* The runtime goes on with a task that can go on.
RecordsSpec ==
  /\ RecordsInit /\ [][RecordsNext]_recordsVars
  /\ \A h \in Handlers : WF_recordsVars(Serving(h))

-----------------------------------------------------------------------------
\* titular_anonymize() lets go of one lock before it takes the next: whoever reads
\* in between sees it half done.
Between(id) == \E h \in Handlers : /\ handlers[h].pc \in {"blind", "tell", "reindex"}
                                    /\ id \in Originals(h)

\* The index names no EPA that was stripped: of what it names, a copy with its
\* metadata is stored, or none at all, unless a request is at work on it.  (The
\* other way round it forgets much: nothing that comes in is indexed.)
IndexAgrees ==
  \A r \in ToSet(index) :
    \/ IsSuppression(r) \/ Between(r) \/ Copies(r) = {}
    \/ \E k \in Copies(r) : epas[k].personal

\* GET /compliance of an EPA: which children are shown, by the index and by the links,
\* as derived from it in clear.
ClearChildren(id) ==
  LET clear == [id |-> id, blinded |-> FALSE]
  IN {c \in DOMAIN prov : <<Key(clear), c>> \in deriv \/ prov[c] = clear}
\* What the observer of the pipeline compares: links in the index and links at all.
DerivationConsistent == Cardinality(deriv) = Cardinality(DOMAIN prov)
\* The report of an EPA anonymized since the start shows no child, neither by the
\* index nor by the links, unless the request has yet to blind them; and the index has
\* all links, blinded or not.
ComplianceHolds ==
  /\ DerivationConsistent
  /\ \A id \in erased :
       \/ ClearChildren(id) = {}
       \/ \E h \in Handlers : handlers[h].pc = "blind" /\ id \in Originals(h)

\* Once the EPA is stripped the links to it are blinded, whatever the listener does:
\* also when the peers can no longer be told.  (The process may go.)
LinksBlinded ==
  \A c \in Children, h \in Handlers :
    (Up /\ handlers[h].pc = "blind" /\ prov # <<>> /\ prov[c].id \in Originals(h))
      ~> (~Up \/ (prov # <<>> /\ prov[c].blinded))

\* network.json is whole, also after a crash at any step of a save ("either the old
\* file or the new one", persistence.rs:99), unless two saves met in the temporary
\* file.
FileWhole == file.kind \in {"absent", "whole"} \/ overlapped

\* The reputation on disk is the one in memory, unless a task that holds the lock is
\* writing it, a rule changed it, or a crash cut it off and the node began anew.
RepFollows ==
  Up => \/ repFile = reputation \/ unsaved
        \/ task.pc \in {"fillPush", "fillEnd"} \/ main.pc = "repFill"
        \/ repFile = EmptyRep /\ reputation = NoReputation

\* However a node went down, it starts again as the node it was or not at all, also when
\* it was cut off while it made itself or is given another passphrase; and with the
\* rules that a checkpoint can hold, those without a block and without a text to escape.
Plain(rs) == {r \in rs : r.escapes = 0}
Continuity ==
  /\ Cardinality(been) <= 1
  /\ Up => Plain(rules) = IF fresh THEN {} ELSE Plain(ToRules(Rules))
=============================================================================
