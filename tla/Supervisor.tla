----------------------------- MODULE Supervisor -----------------------------
(***************************************************************************)
(* The Supervisor (nexoia-core/supervisor/src/supervisor.rs): it opens and  *)
(* replays the log, starts the digestor, the MMR consumer, the command      *)
(* processor, the consolidation worker and the ZK worker, and on Drop stops *)
(* and joins them in that order.  The log is module Wal and the bio loop    *)
(* module Digest; their actions are conjuncts of the ones here.  The MMR is *)
(* its history of leaves; its mutex is held by seal_epoch() while sealing   *)
(* is not "idle", and otherwise for no longer than one action.              *)
(***************************************************************************)
EXTENDS Digest, Wal

CONSTANTS
  Consumer, Commander, Caller,   \* the three threads that write the log
  Sha(_),                 \* SHA-256 of a payload, a Hash
  BagRoot(_),             \* current_root() of a range over these leaves
  PatchHash,              \* the hash a veto names
  CommandCapacity, SignalCapacity, ZkCapacity, ProofCapacity,
  ConsolidationInterval,  \* one signal in so many records
  MaxCommands,            \* bound on the commands sent
  MaxInputs               \* bound on events, commands, seals and restarts together

VETO_CONTENT_ID == 49374

ASSUME SupervisorAssumption ==
  /\ Writers = {Consumer, Commander, Caller}
  /\ Cardinality(Writers) = 3
  /\ PatchHash \in Hash
  /\ {CommandCapacity, SignalCapacity, ZkCapacity, ProofCapacity,
      ConsolidationInterval} \subseteq Nat \ {0}
  /\ MaxCommands \in Nat /\ MaxInputs \in Nat

VARIABLES
  leaves, epoch,          \* the MMR: hashes appended, number of the next seal
  consuming, carried,     \* the MMR consumer and the message or record it holds
  commands, commanding,   \* the channel and the thread of the commands
  sealing,                \* the caller of seal_epoch()
  signals, consolidating, watermark,   \* channel, thread and last_watermark
  zkq, zk, proofs,        \* seals to prove, the ZK worker, epochs proved
  data_count, epoch_count, veto_count, heartbeat_count,
  dropping,               \* the thread drop() is joining, "none" or "done"
  sent,                   \* how many commands were sent
  \* history, read by no action:
  recovered,              \* how many leaves replay() found
  unlogged                \* appends of this session that the log refused

consumerVars == <<consuming, carried, data_count>>
commandVars == <<commands, commanding, veto_count, sent>>
callerVars == <<sealing, epoch_count>>
sleepVars == <<signals, consolidating, watermark>>
zkVars == <<zkq, zk, proofs>>
supVars == <<leaves, epoch, consumerVars, commandVars, callerVars, sleepVars,
             zkVars, heartbeat_count, dropping, recovered, unlogged>>

LeafRequest(i, h) ==
  [type |-> Leaf, leaf_index |-> i, hash |-> h, content_id |-> 0]
\* Mutant: a veto without its sentinel.
PlainVetoRequest ==
  [type |-> Leaf, leaf_index |-> 0, hash |-> PatchHash, content_id |-> 0]
VetoRequest ==
  [type |-> Leaf, leaf_index |-> 0, hash |-> PatchHash,
   content_id |-> VETO_CONTENT_ID]
SealRecord ==
  [type |-> EpochSeal, leaf_index |-> epoch - 1, hash |-> BagRoot(leaves),
   content_id |-> 0]

\* Mutant: the consumer does without the mutex.
NeverLocked == TRUE
Unlocked == sealing = "idle"

\* What has come from outside so far, a seal_epoch() that has not synced yet included.
Inputs == accepted + sent + syncs + restarts
            + (IF sealing \in {"log", "write", "load"} THEN 1 ELSE 0)
InputsLeft == Inputs < MaxInputs

-----------------------------------------------------------------------------
\* The threads, channels and counters of a new process whose MMR holds ls.
StartThreads(ls) ==
  /\ membrane' = <<>> /\ connected' = TRUE /\ running' = TRUE
  /\ digesting' = "check" /\ inhand' = <<>> /\ suppressed' = FALSE
  /\ hashes' = <<>> /\ processed' = 0 /\ dropped' = 0 /\ suppressions' = 0
  /\ leaves' = ls /\ epoch' = 0 /\ recovered' = Len(ls) /\ unlogged' = 0
  /\ consuming' = "receive" /\ carried' = <<>> /\ data_count' = 0
  /\ commands' = <<>> /\ commanding' = "check" /\ veto_count' = 0
  /\ sealing' = "idle" /\ epoch_count' = 0
  /\ signals' = 0 /\ consolidating' = "live" /\ watermark' = 0
  /\ zkq' = <<>> /\ zk' = "live" /\ proofs' = <<>>
  /\ heartbeat_count' = 0 /\ dropping' = "none"
  /\ UNCHANGED <<tick, accepted, sent>>

SupervisorInit ==
  /\ WalInit /\ DigestInit
  /\ leaves = <<>> /\ epoch = 0 /\ recovered = 0 /\ unlogged = 0
  /\ consuming = "receive" /\ carried = <<>> /\ data_count = 0
  /\ commands = <<>> /\ commanding = "check" /\ veto_count = 0 /\ sent = 0
  /\ sealing = "idle" /\ epoch_count = 0
  /\ signals = 0 /\ consolidating = "live" /\ watermark = 0
  /\ zkq = <<>> /\ zk = "live" /\ proofs = <<>>
  /\ heartbeat_count = 0 /\ dropping = "none"

\* spawn() where there is no log yet, and where there is one.
SpawnFile == CreateFile /\ UNCHANGED <<digestVars, supVars>>
SpawnFresh == CreateHeader /\ StartThreads(<<>>)
SpawnAgain == Open(TRUE) /\ StartThreads(ReplayedHashes(file))

\* The process dies: all but the file is lost.
Die == InputsLeft /\ Crash /\ StartThreads(<<>>)

-----------------------------------------------------------------------------
\* feed_event(), feed_data() and the senders that cloned the membrane.
FeedEvent ==
  /\ IsOpen /\ InputsLeft
  /\ FeedData \/ FeedShutdown
  /\ UNCHANGED <<walVars, supVars>>

\* feed_heartbeat(): the beat counts even when the membrane refuses it.
FeedHeartbeat ==
  /\ IsOpen /\ dropping = "none"
  /\ tick < MaxTicks
  /\ tick' = tick + 1
  /\ heartbeat_count' = heartbeat_count + 1
  /\ \/ accepted < MaxFed /\ InputsLeft /\ Feed(HeartbeatEvent(tick))
     \/ /\ digesting = "stopped" \/ Len(membrane) = MembraneCapacity
        /\ UNCHANGED <<membrane, accepted>>
  /\ UNCHANGED <<walVars, connected, running, digesting, inhand, suppressed,
                 hashes, processed, dropped, suppressions, leaves, epoch,
                 consumerVars, commandVars, callerVars, sleepVars, zkVars,
                 dropping, recovered, unlogged>>

DigestorStep == IsOpen /\ Digestor /\ UNCHANGED <<walVars, supVars>>

-----------------------------------------------------------------------------
\* The MMR consumer.  The MMR comes first, under its lock, the log after it.
ConsumerReceive ==
  /\ IsOpen /\ consuming = "receive"
  /\ TakeHash
  /\ carried' = <<Head(hashes)>>
  /\ consuming' = IF Head(hashes).kind = "hash" THEN "insert" ELSE "seal"
  /\ UNCHANGED <<walVars, leaves, epoch, data_count, commandVars, callerVars,
                 sleepVars, zkVars, heartbeat_count, dropping, recovered,
                 unlogged>>

\* Mutant: the index is read after the append.
ConsumerInsertFirst ==
  /\ IsOpen /\ consuming = "insert" /\ Unlocked
  /\ LET h == Sha(carried[1].value)
     IN /\ carried' = <<LeafRequest(Len(leaves) + 1, h)>>
        /\ leaves' = Append(leaves, h)
  /\ consuming' = "log"
  /\ UNCHANGED <<walVars, digestVars, epoch, data_count, commandVars,
                 callerVars, sleepVars, zkVars, heartbeat_count, dropping,
                 recovered, unlogged>>

ConsumerInsert ==
  /\ IsOpen /\ consuming = "insert" /\ Unlocked
  /\ LET h == Sha(carried[1].value)
     IN /\ carried' = <<LeafRequest(Len(leaves), h)>>
        /\ leaves' = Append(leaves, h)
  /\ consuming' = "log"
  /\ UNCHANGED <<walVars, digestVars, epoch, data_count, commandVars,
                 callerVars, sleepVars, zkVars, heartbeat_count, dropping,
                 recovered, unlogged>>

ConsumerLog ==
  /\ consuming = "log"
  /\ AppendDraw(Consumer, carried[1])
  /\ consuming' = "write"
  /\ UNCHANGED <<digestVars, leaves, epoch, carried, data_count, commandVars,
                 callerVars, sleepVars, zkVars, heartbeat_count, dropping,
                 recovered, unlogged>>

\* The end of append_leaf(), whose result is ignored, and the counters, which
\* nothing reads but compute_confidence().
ConsumerWrite ==
  /\ consuming = "write"
  /\ \/ AppendWrite(Consumer) /\ UNCHANGED unlogged
     \/ \E n \in ShortWrites :
          AppendFail(Consumer, n) /\ unlogged' = unlogged + 1
  /\ consuming' = "receive" /\ carried' = <<>>
  /\ data_count' = data_count + 1
  /\ signals' = IF data_count' % ConsolidationInterval = 0
                   /\ consolidating = "live" /\ signals < SignalCapacity
                THEN signals + 1 ELSE signals
  /\ UNCHANGED <<digestVars, leaves, epoch, commandVars, callerVars,
                 consolidating, watermark, zkVars, heartbeat_count, dropping,
                 recovered>>

\* A SealEpoch message seals in memory only: no record, no fsync.
ConsumerSeal ==
  /\ IsOpen /\ consuming = "seal" /\ Unlocked
  /\ IF leaves = <<>>
     THEN UNCHANGED <<epoch, zkq>>
     ELSE epoch' = epoch + 1 /\ zkq' = TrySend(zkq, ZkCapacity, <<epoch>>)
  /\ consuming' = "receive" /\ carried' = <<>>
  /\ UNCHANGED <<walVars, digestVars, leaves, data_count, commandVars,
                 callerVars, sleepVars, zk, proofs, heartbeat_count, dropping,
                 recovered, unlogged>>

\* Mutant: the consumer leaves as soon as the flag falls.
ConsumerEndOnFlag ==
  /\ IsOpen /\ consuming = "receive" /\ ~running
  /\ consuming' = "stopped"
  /\ UNCHANGED <<walVars, digestVars, leaves, epoch, carried, data_count,
                 commandVars, callerVars, sleepVars, zkVars, heartbeat_count,
                 dropping, recovered, unlogged>>

\* recv() fails once the digestor has dropped its Sender and all is taken.
ConsumerEnd ==
  /\ IsOpen /\ consuming = "receive"
  /\ hashes = <<>> /\ digesting = "stopped"
  /\ consuming' = "stopped"
  /\ UNCHANGED <<walVars, digestVars, leaves, epoch, carried, data_count,
                 commandVars, callerVars, sleepVars, zkVars, heartbeat_count,
                 dropping, recovered, unlogged>>

MmrConsumer ==
  \/ ConsumerReceive \/ ConsumerInsert \/ ConsumerLog \/ ConsumerWrite
  \/ ConsumerSeal \/ ConsumerEnd

-----------------------------------------------------------------------------
\* send_veto() and send_shutdown().
SendCommand ==
  /\ IsOpen /\ dropping = "none" /\ commanding # "stopped"
  /\ sent < MaxCommands /\ InputsLeft /\ Len(commands) < CommandCapacity
  /\ \E c \in {"veto", "shutdown"} : commands' = Append(commands, c)
  /\ sent' = sent + 1
  /\ UNCHANGED <<walVars, digestVars, leaves, epoch, consumerVars, commanding,
                 veto_count, callerVars, sleepVars, zkVars, heartbeat_count,
                 dropping, recovered, unlogged>>

\* A command processor that ends drops the commands it has not taken.
CommandCheck ==
  /\ IsOpen /\ commanding = "check"
  /\ IF running THEN commanding' = "receive" /\ UNCHANGED commands
                ELSE commanding' = "stopped" /\ commands' = <<>>
  /\ UNCHANGED <<walVars, digestVars, leaves, epoch, consumerVars, veto_count,
                 sent, callerVars, sleepVars, zkVars, heartbeat_count,
                 dropping, recovered, unlogged>>

CommandTimeout ==
  /\ IsOpen /\ commanding = "receive" /\ commands = <<>>
  /\ commanding' = "check"
  /\ UNCHANGED <<walVars, digestVars, leaves, epoch, consumerVars, commands,
                 veto_count, sent, callerVars, sleepVars, zkVars,
                 heartbeat_count, dropping, recovered, unlogged>>

CommandVeto ==
  /\ IsOpen /\ commanding = "receive"
  /\ commands # <<>> /\ Head(commands) = "veto"
  /\ commands' = Tail(commands)
  /\ veto_count' = veto_count + 1
  /\ commanding' = "log"
  /\ UNCHANGED <<walVars, digestVars, leaves, epoch, consumerVars, sent,
                 callerVars, sleepVars, zkVars, heartbeat_count, dropping,
                 recovered, unlogged>>

CommandLog ==
  /\ commanding = "log"
  /\ AppendDraw(Commander, VetoRequest)
  /\ commanding' = "write"
  /\ UNCHANGED <<digestVars, leaves, epoch, consumerVars, commands, veto_count,
                 sent, callerVars, sleepVars, zkVars, heartbeat_count,
                 dropping, recovered, unlogged>>

CommandWrite ==
  /\ commanding = "write"
  /\ \/ AppendWrite(Commander)
     \/ \E n \in ShortWrites : AppendFail(Commander, n)
  /\ commanding' = "check"
  /\ UNCHANGED <<digestVars, leaves, epoch, consumerVars, commands, veto_count,
                 sent, callerVars, sleepVars, zkVars, heartbeat_count,
                 dropping, recovered, unlogged>>

CommandShutdown ==
  /\ IsOpen /\ commanding = "receive"
  /\ commands # <<>> /\ Head(commands) = "shutdown"
  /\ running' = FALSE
  /\ commanding' = "stopped" /\ commands' = <<>>
  /\ UNCHANGED <<walVars, membrane, connected, digesting, inhand, suppressed,
                 hashes, processed, dropped, suppressions, tick, accepted,
                 leaves, epoch, consumerVars, veto_count, sent, callerVars,
                 sleepVars, zkVars, heartbeat_count, dropping, recovered,
                 unlogged>>

CommandProcessor ==
  \/ CommandCheck \/ CommandTimeout \/ CommandVeto \/ CommandLog
  \/ CommandWrite \/ CommandShutdown

-----------------------------------------------------------------------------
\* seal_epoch(): the MMR stays locked from the seal to the end of the fsync.
SealBegin ==
  /\ IsOpen /\ dropping = "none" /\ sealing = "idle"
  /\ leaves # <<>>
  /\ syncs < MaxSyncs /\ InputsLeft
  /\ epoch' = epoch + 1
  /\ sealing' = "log"
  /\ UNCHANGED <<walVars, digestVars, leaves, consumerVars, commandVars,
                 epoch_count, sleepVars, zkVars, heartbeat_count, dropping,
                 recovered, unlogged>>

SealStep ==
  /\ \/ sealing = "log" /\ AppendDraw(Caller, SealRecord) /\ sealing' = "write"
     \/ sealing = "write" /\ AppendWrite(Caller) /\ sealing' = "load"
     \/ /\ sealing = "write" /\ sealing' = "load"
        /\ \E n \in ShortWrites : AppendFail(Caller, n)
     \/ sealing = "load" /\ SyncLoad(Caller) /\ sealing' = "sync"
  /\ UNCHANGED <<digestVars, leaves, epoch, consumerVars, commandVars,
                 epoch_count, sleepVars, zkVars, heartbeat_count, dropping,
                 recovered, unlogged>>

SealEnd ==
  /\ sealing = "sync"
  /\ SyncWrite(Caller)
  /\ sealing' = "idle"
  /\ epoch_count' = epoch_count + 1
  /\ UNCHANGED <<digestVars, leaves, epoch, consumerVars, commandVars,
                 sleepVars, zkVars, heartbeat_count, dropping, recovered,
                 unlogged>>

SealCaller == SealStep \/ SealEnd

-----------------------------------------------------------------------------

\* One turn of the consolidation worker, on a signal or after 100 ms.
Consolidate ==
  /\ IsOpen /\ consolidating = "live" /\ running
  /\ ~(signals = 0 /\ consuming = "stopped")
  /\ signals' = IF signals > 0 THEN signals - 1 ELSE 0
  /\ watermark' = IF RecordCount(file) > watermark THEN RecordCount(file)
                  ELSE watermark
  /\ UNCHANGED <<walVars, digestVars, leaves, epoch, consumerVars, commandVars,
                 callerVars, consolidating, zkVars, heartbeat_count, dropping,
                 recovered, unlogged>>

ConsolidationEnd ==
  /\ IsOpen /\ consolidating = "live"
  /\ ~running \/ (signals = 0 /\ consuming = "stopped")
  /\ consolidating' = "stopped" /\ signals' = 0
  /\ UNCHANGED <<walVars, digestVars, leaves, epoch, consumerVars, commandVars,
                 callerVars, watermark, zkVars, heartbeat_count, dropping,
                 recovered, unlogged>>

\* The ZK worker: consolidate() and a stub proof, offered and maybe refused.
ZkProve ==
  /\ IsOpen /\ zk = "live" /\ zkq # <<>>
  /\ zkq' = Tail(zkq)
  /\ proofs' = TrySend(proofs, ProofCapacity, <<Head(zkq)>>)
  /\ UNCHANGED <<walVars, digestVars, leaves, epoch, consumerVars, commandVars,
                 callerVars, sleepVars, zk, heartbeat_count, dropping,
                 recovered, unlogged>>

ZkEnd ==
  /\ IsOpen /\ zk = "live" /\ zkq = <<>> /\ consuming = "stopped"
  /\ zk' = "stopped"
  /\ UNCHANGED <<walVars, digestVars, leaves, epoch, consumerVars, commandVars,
                 callerVars, sleepVars, zkq, proofs, heartbeat_count, dropping,
                 recovered, unlogged>>

TakeProof ==
  /\ IsOpen /\ proofs # <<>>
  /\ proofs' = Tail(proofs)
  /\ UNCHANGED <<walVars, digestVars, leaves, epoch, consumerVars, commandVars,
                 callerVars, sleepVars, zkq, zk, heartbeat_count, dropping,
                 recovered, unlogged>>

-----------------------------------------------------------------------------
\* Mutant: the joins come before the flag.
DropWithoutFlag ==
  /\ IsOpen /\ dropping = "none" /\ sealing = "idle"
  /\ dropping' = "digestor"
  /\ UNCHANGED <<walVars, digestVars, leaves, epoch, consumerVars, commandVars,
                 callerVars, sleepVars, zkVars, heartbeat_count, recovered,
                 unlogged>>

\* drop(): the flag, then the joins, in this order.
DropBegin ==
  /\ IsOpen /\ dropping = "none" /\ sealing = "idle"
  /\ dropping' = "digestor"
  /\ running' = FALSE
  /\ UNCHANGED <<walVars, membrane, connected, digesting, inhand, suppressed,
                 hashes, processed, dropped, suppressions, tick, accepted,
                 leaves, epoch, consumerVars, commandVars, callerVars,
                 sleepVars, zkVars, heartbeat_count, recovered, unlogged>>

Join(thread, ended, next) ==
  /\ IsOpen /\ dropping = thread /\ ended
  /\ dropping' = next
  /\ UNCHANGED <<walVars, digestVars, leaves, epoch, consumerVars, commandVars,
                 callerVars, sleepVars, zkVars, heartbeat_count, recovered,
                 unlogged>>

JoinNext ==
  \/ Join("digestor", digesting = "stopped", "mmr")
  \/ Join("mmr", consuming = "stopped", "command")
  \/ Join("command", commanding = "stopped", "consolidation")
  \/ Join("consolidation", consolidating = "stopped", "zk")
  \/ Join("zk", zk = "stopped", "done")

\* The fields go, and with the last Arc the file.
DropEnd ==
  /\ dropping = "done" /\ InputsLeft
  /\ Close
  /\ StartThreads(<<>>)

SupervisorNext ==
  \/ SpawnFile \/ SpawnFresh \/ SpawnAgain \/ Die
  \/ FeedEvent \/ FeedHeartbeat \/ DigestorStep
  \/ MmrConsumer
  \/ SendCommand \/ CommandProcessor
  \/ SealBegin \/ SealCaller
  \/ Consolidate \/ ConsolidationEnd
  \/ ZkProve \/ ZkEnd \/ TakeProof
  \/ DropBegin \/ JoinNext \/ DropEnd

allVars == <<walVars, digestVars, supVars>>

SupervisorSpec == SupervisorInit /\ [][SupervisorNext]_allVars

\* Each thread runs when it can, the one that drops the supervisor included;
\* nobody is obliged to feed, to seal, to command, to take proofs or to drop.
FairSupervisorSpec ==
  /\ SupervisorSpec
  /\ WF_allVars(DigestorStep)
  /\ WF_allVars(MmrConsumer)
  /\ WF_allVars(CommandProcessor)
  /\ WF_allVars(SealCaller)
  /\ WF_allVars(Consolidate \/ ConsolidationEnd)
  /\ WF_allVars(ZkProve \/ ZkEnd)
  /\ WF_allVars(JoinNext)

-----------------------------------------------------------------------------

\* The records this session wrote for data: leaves that are not vetoes.
IsData(r) == r.type = Leaf /\ r.content_id # VETO_CONTENT_ID
DataRecords == {k \in (session + 1)..Len(log) : IsData(log[k])}
IndexesBefore(k) == {log[j].leaf_index : j \in {i \in DataRecords : i < k}}
IndexesLogged == {log[j].leaf_index : j \in DataRecords}

\* The leaf the consumer has put in the MMR and not yet in the log.
Pending == IF consuming \in {"log", "write"} THEN <<carried[1].hash>> ELSE <<>>

\* The index a data record carries is the one of its hash in the MMR, also
\* after an append that failed.
IndexNamesLeaf ==
  IsOpen =>
    \A k \in DataRecords :
      /\ log[k].leaf_index \in recovered..(Len(leaves) - 1)
      /\ leaves[log[k].leaf_index + 1] = log[k].hash

\* However vetoes, seals and crashes fall between, the log holds the leaves of
\* this session in the order of the MMR, without a gap, and lags behind it by
\* one at most.
LogFollowsMmr ==
  (IsOpen /\ unlogged = 0) =>
    /\ IndexesLogged = recovered..(Len(leaves) - Len(Pending) - 1)
    /\ \A j, k \in DataRecords :
         j < k => log[j].leaf_index < log[k].leaf_index
    /\ \A k \in DataRecords : leaves[log[k].leaf_index + 1] = log[k].hash
    /\ Pending # <<>> => leaves[Len(leaves)] = Pending[1]

\* A seal record commits to the leaves logged before it and to at most one
\* leaf more, the one the consumer was about to log.
SealAheadByOne ==
  (IsOpen /\ unlogged = 0) =>
    \A k \in (session + 1)..Len(log) :
      log[k].type = EpochSeal =>
        \E covered \in recovered..Len(leaves), ahead \in 0..1 :
          /\ IndexesBefore(k) = recovered..(covered - ahead - 1)
          /\ log[k].hash = BagRoot(SubSeq(leaves, 1, covered))

\* A supervisor that was dropped without a failed append has logged each of
\* the hashes its digestor handed over: the consumer ends after the channel
\* is empty, not when the flag falls.
DropLogsAll ==
  (dropping = "done" /\ unlogged = 0 /\ MaxFed <= HashCapacity) =>
    /\ IndexesLogged = recovered..(recovered + processed - 1)
    /\ Len(leaves) = recovered + processed

\* drop() returns: no join waits for a thread that waits for another one.
DropReturns == dropping # "none" ~> dropping \in {"none", "done"}

=============================================================================
