-------------------------- MODULE SupervisorProofs --------------------------
(***************************************************************************)
(* Proofs about the supervisor, for any capacities, any number of events    *)
(* and commands and any failures of the disk: first the bio loop by itself, *)
(* the type invariant and that the hysteresis does not flap, then the       *)
(* supervisor, whose log follows the MMR.  The lemmas about the log are     *)
(* those of WalProofs.                                                      *)
(***************************************************************************)
EXTENDS Supervisor, WalProofs

Gap == HYSTERESIS_HIGH - HYSTERESIS_LOW + 1

\* The watermarks are naturals, whatever the capacity.
LEMMA Watermarks ==
  /\ HYSTERESIS_HIGH \in Nat /\ HYSTERESIS_LOW \in Nat /\ Gap \in Int
<1>1. MembraneCapacity * 80 \in Nat /\ MembraneCapacity * 20 \in Nat
  BY DigestAssumption
<1>2. \A n \in Nat : n \div 100 \in Nat
  OBVIOUS
<1>. QED
  BY <1>1, <1>2 DEF HYSTERESIS_HIGH, HYSTERESIS_LOW, Gap

\* The empty sequence, of any type.
LEMMA EmptyType == \A S : <<>> \in Seq(S) /\ Len(<<>>) = 0
  OBVIOUS

\* What is fed is an event, and what an event sends is a message.
LEMMA EventTypes ==
  /\ \A n \in Nat : DataEvent(n) \in Event /\ HeartbeatEvent(n) \in Event
  /\ ShutdownEvent \in Event
  /\ \A ev \in Event : /\ MessageOf(ev) \in Seq(MmrMessage)
                       /\ Len(MessageOf(ev)) \in 0..1
<1>1. \A n \in Nat : HashOf(n) \in MmrMessage
  BY DEF HashOf, MmrMessage
<1>2. SealRequest \in MmrMessage
  BY DEF SealRequest, MmrMessage
<1>3. ASSUME NEW ev \in Event
      PROVE  /\ MessageOf(ev) \in Seq(MmrMessage)
             /\ Len(MessageOf(ev)) \in 0..1
  <2>1. HashOf(ev.value) \in MmrMessage
    BY <1>1 DEF Event
  <2>2. \A m \in MmrMessage : <<m>> \in Seq(MmrMessage) /\ Len(<<m>>) = 1
    OBVIOUS
  <2>3. <<>> \in Seq(MmrMessage) /\ Len(<<>>) = 0
    OBVIOUS
  <2>4. MessageOf(ev) \in {<<HashOf(ev.value)>>, <<SealRequest>>, <<>>}
    BY DEF MessageOf
  <2>5. CASE MessageOf(ev) = <<HashOf(ev.value)>>
    <3>1. <<HashOf(ev.value)>> \in Seq(MmrMessage) /\ Len(<<HashOf(ev.value)>>) = 1
      BY <2>1, <2>2
    <3>. QED
      BY <2>5, <3>1
  <2>6. CASE MessageOf(ev) = <<SealRequest>>
    <3>1. <<SealRequest>> \in Seq(MmrMessage) /\ Len(<<SealRequest>>) = 1
      BY <1>2, <2>2
    <3>. QED
      BY <2>6, <3>1
  <2>7. CASE MessageOf(ev) = <<>>
    BY <2>7, <2>3
  <2>. QED
    BY <2>4, <2>5, <2>6, <2>7
<1>. QED
  BY <1>3 DEF DataEvent, HeartbeatEvent, ShutdownEvent, Event

\* try_send keeps a channel within its capacity.
LEMMA TrySendType ==
  ASSUME NEW channel \in Seq(MmrMessage), NEW capacity \in Nat,
         Len(channel) <= capacity, NEW msgs \in Seq(MmrMessage)
  PROVE  /\ TrySend(channel, capacity, msgs) \in Seq(MmrMessage)
         /\ Len(TrySend(channel, capacity, msgs)) <= capacity
<1>1. /\ channel \o msgs \in Seq(MmrMessage)
      /\ Len(channel \o msgs) = Len(channel) + Len(msgs)
  OBVIOUS
<1>. QED
  BY <1>1 DEF TrySend

-----------------------------------------------------------------------------
\* What a feed does to the membrane.
LEMMA FeedType ==
  ASSUME DigestTypeOK, NEW ev \in Event, Feed(ev)
  PROVE  /\ membrane' \in Seq(Event) /\ Len(membrane') <= MembraneCapacity
         /\ Len(membrane') = Len(membrane) + 1
         /\ accepted' \in Nat /\ accepted' = accepted + 1
  BY DigestAssumption DEF DigestTypeOK, Feed

\* A beat of spawn_heart() or a feed_heartbeat(), accepted or not.
BeatStep ==
  /\ tick' = tick + 1
  /\ Feed(HeartbeatEvent(tick)) \/ UNCHANGED <<membrane, accepted>>
  /\ UNCHANGED <<connected, running, digesting, inhand, suppressed, hashes,
                 processed, dropped, suppressions>>

\* A step of the bio loop, by itself or under the supervisor.
DigestStep ==
  \/ FeedData \/ FeedShutdown \/ BeatStep \/ RequestStop \/ Disconnect
  \/ Digestor \/ TakeHash

\* A step of the bio loop by itself is one of them.
LEMMA NextIsDigestStep == [DigestNext]_digestVars => [DigestStep]_digestVars
<1>1. Beat => BeatStep
  BY DEF Beat, BeatStep
<1>. QED
  BY <1>1 DEF DigestNext, DigestStep

\* Each step of the bio loop keeps its types.
LEMMA NextDigestTyped ==
  DigestTypeOK /\ [DigestStep]_digestVars => DigestTypeOK'
<1> SUFFICES ASSUME DigestTypeOK, [DigestStep]_digestVars
             PROVE  DigestTypeOK'
  OBVIOUS
<1> USE DigestAssumption
<1>1. CASE FeedData
  <2>1. DataEvent(accepted + 1) \in Event
    BY EventTypes DEF DigestTypeOK
  <2>2. Feed(DataEvent(accepted + 1))
    BY <1>1 DEF FeedData
  <2>3. membrane' \in Seq(Event) /\ Len(membrane') <= MembraneCapacity
        /\ accepted' \in Nat
    BY <2>1, <2>2, FeedType
  <2>. QED
    BY <1>1, <2>3 DEF FeedData, DigestTypeOK
<1>2. CASE FeedShutdown
  <2>1. Feed(ShutdownEvent)
    BY <1>2 DEF FeedShutdown
  <2>2. membrane' \in Seq(Event) /\ Len(membrane') <= MembraneCapacity
        /\ accepted' \in Nat
    BY <2>1, EventTypes, FeedType
  <2>. QED
    BY <1>2, <2>2 DEF FeedShutdown, DigestTypeOK
<1>3. CASE BeatStep
  <2>1. tick \in Nat /\ tick' = tick + 1
    BY <1>3 DEF BeatStep, DigestTypeOK
  <2>2. membrane' \in Seq(Event) /\ Len(membrane') <= MembraneCapacity
        /\ accepted' \in Nat
    <3>1. CASE Feed(HeartbeatEvent(tick))
      BY <3>1, <2>1, EventTypes, FeedType
    <3>2. CASE UNCHANGED <<membrane, accepted>>
      BY <3>2 DEF DigestTypeOK
    <3>. QED
      BY <1>3, <3>1, <3>2 DEF BeatStep
  <2>. QED
    BY <1>3, <2>1, <2>2 DEF BeatStep, DigestTypeOK
<1>4. CASE RequestStop \/ Disconnect
  BY <1>4 DEF RequestStop, Disconnect, DigestTypeOK
<1>5. CASE CheckRunning
  <2>1. membrane' = membrane \/ membrane' = <<>>
    BY <1>5 DEF CheckRunning
  <2>2. <<>> \in Seq(Event) /\ Len(<<>>) <= MembraneCapacity
    BY EmptyType
  <2>3. membrane' \in Seq(Event) /\ Len(membrane') <= MembraneCapacity
    BY <2>1, <2>2 DEF DigestTypeOK
  <2>. QED
    BY <1>5, <2>3 DEF CheckRunning, DigestTypeOK
<1>6. CASE Measure
  <2>1. suppressed' \in BOOLEAN
    BY <1>6 DEF Measure
  <2>2. suppressions' \in Nat
    BY <1>6 DEF Measure, DigestTypeOK
  <2>. QED
    BY <1>6, <2>1, <2>2 DEF Measure, DigestTypeOK
<1>7. CASE DropEvent
  <2>1. membrane' \in Seq(Event) /\ Len(membrane') <= MembraneCapacity
    BY <1>7, HeadTailProperties DEF DropEvent, DigestTypeOK
  <2>. QED
    BY <1>7, <2>1 DEF DropEvent, DigestTypeOK
<1>8. CASE TakeEvent
  <2>1. /\ membrane' \in Seq(Event) /\ Len(membrane') <= MembraneCapacity
        /\ Head(membrane) \in Event
    BY <1>8, HeadTailProperties DEF TakeEvent, DigestTypeOK
  <2>2. inhand' \in Seq(Event) /\ Len(inhand') = 1
    BY <1>8, <2>1 DEF TakeEvent
  <2>. QED
    BY <1>8, <2>1, <2>2 DEF TakeEvent, DigestTypeOK
<1>9. CASE ReceiveTimeout \/ ReceiveDisconnected
  BY <1>9 DEF ReceiveTimeout, ReceiveDisconnected, DigestTypeOK
<1>10. CASE DigestEvent
  <2>1. Head(inhand) \in Event
    <3>1. inhand \in Seq(Event) /\ Len(inhand) = 1
      BY <1>10 DEF DigestEvent, DigestTypeOK
    <3>2. inhand # <<>>
      BY <3>1, EmptyType
    <3>. QED
      BY <3>1, <3>2, HeadTailProperties
  <2>2. MessageOf(Head(inhand)) \in Seq(MmrMessage)
    BY <2>1, EventTypes
  <2>3. hashes' \in Seq(MmrMessage) /\ Len(hashes') <= HashCapacity
    BY <1>10, <2>2, TrySendType DEF DigestEvent, DigestTypeOK
  <2>4. processed' \in Nat /\ running' \in BOOLEAN
    BY <1>10 DEF DigestEvent, DigestTypeOK
  <2>. QED
    BY <1>10, <2>3, <2>4 DEF DigestEvent, DigestTypeOK
<1>11. CASE TakeHash
  <2>1. hashes' \in Seq(MmrMessage) /\ Len(hashes') <= HashCapacity
    BY <1>11, HeadTailProperties DEF TakeHash, DigestTypeOK
  <2>. QED
    BY <1>11, <2>1 DEF TakeHash, DigestTypeOK
<1>12. CASE UNCHANGED digestVars
  BY <1>12 DEF digestVars, DigestTypeOK
<1>. QED
  BY <1>1, <1>2, <1>3, <1>4, <1>5, <1>6, <1>7, <1>8, <1>9, <1>10, <1>11, <1>12
  DEF DigestStep, Digestor

\* The bio loop starts typed.
LEMMA InitDigestTyped == DigestInit => DigestTypeOK
<1> SUFFICES ASSUME DigestInit PROVE DigestTypeOK
  OBVIOUS
<1>1. /\ membrane \in Seq(Event) /\ inhand \in Seq(Event)
      /\ hashes \in Seq(MmrMessage)
      /\ Len(membrane) = 0 /\ Len(inhand) = 0 /\ Len(hashes) = 0
  BY EmptyType DEF DigestInit
<1>2. /\ digesting = "check" /\ connected = TRUE /\ running = TRUE
      /\ suppressed = FALSE
      /\ processed = 0 /\ dropped = 0 /\ suppressions = 0
      /\ tick = 0 /\ accepted = 0
  BY DEF DigestInit
<1>3. Len(membrane) <= MembraneCapacity /\ Len(hashes) <= HashCapacity
  BY <1>1, DigestAssumption
<1>4. connected \in BOOLEAN /\ running \in BOOLEAN /\ suppressed \in BOOLEAN
  BY <1>2
<1>. QED
  BY <1>1, <1>2, <1>3, <1>4 DEF DigestTypeOK

\* The channels of the bio loop never hold more than their capacity, and the
\* digestor has an event in hand exactly while it digests one.
THEOREM DigestTypeCorrect == DigestSpec => []DigestTypeOK
BY InitDigestTyped, NextDigestTyped, NextIsDigestStep, PTL DEF DigestSpec

-----------------------------------------------------------------------------
\* NoFlapping is not inductive: out of suppression, the events that left the
\* membrane have already paid for the suppressions so far.
Paid ==
  /\ suppressions > 0 =>
       accepted >= HYSTERESIS_HIGH + (suppressions - 1) * Gap
  /\ ~suppressed => accepted - Len(membrane) >= suppressions * Gap
  /\ suppressed => suppressions > 0

\* The only product of two variables: one more suppression, one more gap.
LEMMA OneMoreGap ==
  ASSUME NEW s \in Nat, NEW g \in Int
  PROVE  /\ s * g \in Int /\ (s - 1) * g \in Int
         /\ s * g = (s - 1) * g + g
         /\ ((s + 1) - 1) * g = s * g
  OBVIOUS

\* Paid survives a step that suppresses nothing and takes no more events out
\* of the account than it adds.
LEMMA StillPaid ==
  ASSUME DigestTypeOK, DigestTypeOK', Paid,
         UNCHANGED <<suppressed, suppressions>>,
         accepted' >= accepted,
         accepted' - Len(membrane') >= accepted - Len(membrane)
  PROVE  Paid'
<1>1. /\ accepted \in Nat /\ accepted' \in Nat /\ suppressions \in Nat
      /\ Len(membrane) \in Nat /\ Len(membrane') \in Nat
  BY DEF DigestTypeOK
<1>2. /\ suppressions * Gap \in Int /\ (suppressions - 1) * Gap \in Int
  BY <1>1, Watermarks, OneMoreGap
<1> DEFINE a == suppressions * Gap
           b == (suppressions - 1) * Gap
<1>3. /\ suppressions > 0 => accepted >= HYSTERESIS_HIGH + b
      /\ ~suppressed => accepted - Len(membrane) >= a
      /\ suppressed => suppressions > 0
  BY DEF Paid
<1>4. a \in Int /\ b \in Int
  BY <1>2
<1> HIDE DEF a, b
<1>5. /\ suppressions > 0 => accepted' >= HYSTERESIS_HIGH + b
      /\ ~suppressed => accepted' - Len(membrane') >= a
      /\ suppressed => suppressions > 0
  BY <1>1, <1>3, <1>4, Watermarks
<1>. QED
  BY <1>5 DEF Paid, a, b, Gap, HYSTERESIS_HIGH, HYSTERESIS_LOW

\* Each step of the bio loop pays for the suppressions it adds.
LEMMA NextPaid ==
  DigestTypeOK /\ DigestTypeOK' /\ Paid /\ [DigestStep]_digestVars => Paid'
<1> SUFFICES ASSUME DigestTypeOK, DigestTypeOK', Paid, [DigestStep]_digestVars
             PROVE  Paid'
  OBVIOUS
<1>a. /\ accepted \in Nat /\ suppressions \in Nat /\ Len(membrane) \in Nat
      /\ membrane \in Seq(Event)
  BY DEF DigestTypeOK
<1>1. ASSUME NEW ev, Feed(ev), UNCHANGED <<suppressed, suppressions>>
      PROVE  Paid'
  <2>1. accepted' = accepted + 1 /\ membrane' = Append(membrane, ev)
    BY <1>1 DEF Feed
  <2>2. Len(membrane') = Len(membrane) + 1
    BY <2>1, <1>a
  <2>. QED
    BY <1>1, <1>a, <2>1, <2>2, StillPaid
<1>2. ASSUME UNCHANGED <<suppressed, suppressions, accepted>>,
             membrane' = membrane \/ membrane' = <<>>
      PROVE  Paid'
  <2>1. Len(membrane') \in Nat /\ Len(membrane') <= Len(membrane)
    BY <1>2, <1>a, EmptyType
  <2>. QED
    BY <1>2, <1>a, <2>1, StillPaid
<1>3. ASSUME UNCHANGED <<suppressed, suppressions, accepted>>,
             membrane # <<>>, membrane' = Tail(membrane)
      PROVE  Paid'
  <2>1. Len(membrane') = Len(membrane) - 1
    BY <1>3, <1>a, HeadTailProperties
  <2>. QED
    BY <1>3, <1>a, <2>1, StillPaid
<1>4. CASE Measure
  <2> DEFINE a == suppressions * Gap
             b == (suppressions - 1) * Gap
             n == Len(membrane)
  <2>1. /\ a \in Int /\ b \in Int /\ a = b + Gap
        /\ ((suppressions + 1) - 1) * Gap = a
    BY <1>a, Watermarks, OneMoreGap
  <2>2. /\ suppressions > 0 => accepted >= HYSTERESIS_HIGH + b
        /\ ~suppressed => accepted - n >= a
        /\ suppressed => suppressions > 0
    BY DEF Paid
  <2>3. UNCHANGED <<membrane, accepted>>
    BY <1>4 DEF Measure
  <2>4. CASE suppressed /\ suppressed'
    <3>1. UNCHANGED <<suppressed, suppressions>>
      BY <1>4, <2>4 DEF Measure, DigestTypeOK
    <3>. QED
      BY <3>1, <2>3, <1>a, <1>2
  <2>5. CASE suppressed /\ ~suppressed'
    <3>1. suppressions' = suppressions /\ ~(n >= HYSTERESIS_LOW)
      BY <1>4, <2>5 DEF Measure
    <3> HIDE DEF a, b, n
    <3>2. n \in Nat
      BY <1>a DEF n
    <3>3. /\ accepted >= HYSTERESIS_HIGH + b
          /\ accepted - n >= a
      BY <3>1, <3>2, <2>1, <2>2, <2>5, <1>a, Watermarks DEF Gap
    <3>4. /\ accepted >= HYSTERESIS_HIGH + (suppressions - 1) * Gap
          /\ accepted - Len(membrane) >= suppressions * Gap
      BY <3>3 DEF a, b, n
    <3>. QED
      BY <3>1, <3>4, <2>3, <2>5 DEF Paid, Gap, HYSTERESIS_HIGH, HYSTERESIS_LOW
  <2>6. CASE ~suppressed /\ suppressed'
    <3>1. suppressions' = suppressions + 1 /\ n >= HYSTERESIS_HIGH
      BY <1>4, <2>6 DEF Measure
    <3> HIDE DEF a, b, n
    <3>2. n \in Nat
      BY <1>a DEF n
    <3>3. accepted >= HYSTERESIS_HIGH + a
      BY <3>1, <3>2, <2>1, <2>2, <2>6, <1>a, Watermarks
    <3>4. accepted >= HYSTERESIS_HIGH + ((suppressions + 1) - 1) * Gap
      BY <3>3, <2>1
    <3>5. suppressions' > 0
      BY <3>1, <1>a
    <3>. QED
      BY <3>1, <3>4, <3>5, <2>3, <2>6
      DEF Paid, Gap, HYSTERESIS_HIGH, HYSTERESIS_LOW
  <2>7. CASE ~suppressed /\ ~suppressed'
    <3>1. UNCHANGED <<suppressed, suppressions>>
      BY <1>4, <2>7 DEF Measure, DigestTypeOK
    <3>. QED
      BY <3>1, <2>3, <1>a, <1>2
  <2>. QED
    BY <2>4, <2>5, <2>6, <2>7
<1>5. CASE FeedData \/ FeedShutdown
  BY <1>5, <1>1 DEF FeedData, FeedShutdown
<1>6. CASE BeatStep
  <2>1. CASE Feed(HeartbeatEvent(tick))
    BY <1>6, <2>1, <1>1 DEF BeatStep
  <2>2. CASE UNCHANGED <<membrane, accepted>>
    BY <1>6, <2>2, <1>2 DEF BeatStep
  <2>. QED
    BY <1>6, <2>1, <2>2 DEF BeatStep
<1>7. CASE RequestStop \/ Disconnect \/ TakeHash
  BY <1>7, <1>2 DEF RequestStop, Disconnect, TakeHash
<1>8. CASE CheckRunning
  BY <1>8, <1>2 DEF CheckRunning
<1>9. CASE DropEvent \/ TakeEvent
  BY <1>9, <1>3 DEF DropEvent, TakeEvent
<1>10. CASE ReceiveTimeout \/ ReceiveDisconnected \/ DigestEvent
  BY <1>10, <1>2 DEF ReceiveTimeout, ReceiveDisconnected, DigestEvent
<1>11. CASE UNCHANGED digestVars
  BY <1>11, <1>2 DEF digestVars
<1>. QED
  BY <1>4, <1>5, <1>6, <1>7, <1>8, <1>9, <1>10, <1>11 DEF DigestStep, Digestor

\* Nothing is owed at the start.
LEMMA InitPaid == DigestInit => Paid
<1> SUFFICES ASSUME DigestInit PROVE Paid
  OBVIOUS
<1>1. suppressions = 0 /\ accepted = 0 /\ ~suppressed /\ Len(membrane) = 0
  BY EmptyType DEF DigestInit
<1>2. 0 * Gap = 0
  BY Watermarks
<1>. QED
  BY <1>1, <1>2 DEF Paid

\* However the producers and the digestor interleave, the n-th suppression
\* costs HIGH + (n - 1) * (HIGH - LOW + 1) accepted events.
THEOREM DigestNoFlapping == DigestSpec => []NoFlapping
<1>1. DigestTypeOK /\ DigestTypeOK' /\ Paid /\ [DigestNext]_digestVars => Paid'
  BY NextPaid, NextIsDigestStep
<1>2. Paid => NoFlapping
  BY DEF Paid, NoFlapping, Gap
<1>. QED
  BY <1>1, <1>2, InitPaid, DigestTypeCorrect, PTL DEF DigestSpec

-----------------------------------------------------------------------------
\* What SHA-256 and current_root() return: 32 bytes.
HashTypes ==
  /\ \A p \in Nat : Sha(p) \in Hash
  /\ \A ls \in Seq(Hash) : BagRoot(ls) \in Hash

\* The types of the supervisor's own state, those of them the log depends on.
SupervisorTypeOK ==
  /\ leaves \in Seq(Hash) /\ epoch \in Nat
  /\ recovered \in 0..Len(leaves) /\ unlogged \in Nat
  /\ consuming \in {"receive", "insert", "log", "write", "seal", "stopped"}
  /\ commanding \in {"check", "receive", "log", "write", "stopped"}
  /\ sealing \in {"idle", "log", "write", "load", "sync"}
  /\ dropping \in {"none", "digestor", "mmr", "command", "consolidation", "zk",
                   "done"}

\* What the three threads hold while they are between two steps.
ConsumerHolds ==
  /\ consuming = "insert" => carried[1] \in MmrMessage
  /\ consuming \in {"log", "write"} =>
       /\ Len(leaves) > recovered
       /\ carried[1] = LeafRequest(Len(leaves) - 1, leaves[Len(leaves)])
  /\ appending[Consumer] # None =>
       /\ consuming = "write"
       /\ appending[Consumer].type = Leaf
       /\ appending[Consumer].leaf_index = Len(leaves) - 1
       /\ appending[Consumer].hash = leaves[Len(leaves)]
       /\ appending[Consumer].content_id = 0
CommanderHolds ==
  appending[Commander] # None =>
    /\ appending[Commander].type = Leaf
    /\ appending[Commander].content_id = VETO_CONTENT_ID
CallerHolds ==
  /\ sealing # "idle" => epoch > 0
  /\ appending[Caller] # None =>
       /\ sealing = "write"
       /\ appending[Caller].type = EpochSeal
       /\ appending[Caller].hash = BagRoot(leaves)
ThreadsHold == ConsumerHolds /\ CommanderHolds /\ CallerHolds

\* How many leaves the consumer is done with, one way or the other.
Settled == Len(leaves) - (IF consuming \in {"log", "write"} THEN 1 ELSE 0)

\* The records of the session against the leaves.
RecordsIndexed ==
  \A k \in DataRecords :
    /\ log[k].leaf_index \in recovered..(Settled - 1)
    /\ leaves[log[k].leaf_index + 1] = log[k].hash
RecordsOrdered ==
  \A j, k \in DataRecords : j < k => log[j].leaf_index < log[k].leaf_index
RecordsComplete == unlogged = 0 => IndexesLogged = recovered..(Settled - 1)
SealsCover ==
  unlogged = 0 =>
    \A k \in (session + 1)..Len(log) :
      log[k].type = EpochSeal =>
        \E covered \in recovered..Len(leaves), ahead \in 0..1 :
          /\ IndexesBefore(k) = recovered..(covered - ahead - 1)
          /\ log[k].hash = BagRoot(SubSeq(leaves, 1, covered))
LogInv ==
  IsOpen => RecordsIndexed /\ RecordsOrdered /\ RecordsComplete /\ SealsCover

TypesAndHolds ==
  WalTypeOK /\ LifeCycle /\ DigestTypeOK /\ SupervisorTypeOK /\ ThreadsHold

\* The hashes that wait in the channel, and where each hash sent has gone.
HashesIn(q) == {i \in 1..Len(q) : q[i].kind = "hash"}
FlowBounded ==
  /\ accepted <= MaxFed
  /\ Len(membrane) + Len(inhand) + Len(hashes) <= accepted
FlowCounted ==
  MaxFed <= HashCapacity =>
    recovered + processed
      = Len(leaves) + (IF consuming = "insert" THEN 1 ELSE 0)
          + Cardinality(HashesIn(hashes))
\* Each thread ends after the ones it is fed by, and drop() joins in order.
FlowEnds ==
  /\ consuming = "stopped" => (digesting = "stopped" /\ hashes = <<>>)
  /\ dropping \notin {"none", "digestor", "mmr"} => consuming = "stopped"
  /\ dropping # "none" => IsOpen
Flow == FlowBounded /\ FlowCounted /\ FlowEnds

-----------------------------------------------------------------------------
\* The steps that leave the log, the MMR and what the writers hold alone.
Quiet ==
  UNCHANGED <<walVars, leaves, epoch, consuming, carried, sealing, recovered,
              unlogged>>

\* These steps leave the log and the range alone.
LEMMA QuietSteps ==
  ASSUME \/ FeedEvent \/ FeedHeartbeat \/ DigestorStep \/ SendCommand
         \/ CommandCheck \/ CommandTimeout \/ CommandVeto \/ CommandShutdown
         \/ Consolidate \/ ConsolidationEnd \/ ZkProve \/ ZkEnd \/ TakeProof
         \/ DropBegin \/ JoinNext \/ UNCHANGED allVars
  PROVE  Quiet
<1> USE DEF Quiet, supVars, consumerVars, callerVars
<1>1. FeedEvent \/ FeedHeartbeat \/ DigestorStep => Quiet
  BY DEF FeedEvent, FeedHeartbeat, DigestorStep
<1>2. SendCommand \/ CommandCheck \/ CommandTimeout => Quiet
  BY DEF SendCommand, CommandCheck, CommandTimeout
<1>3. CommandVeto \/ CommandShutdown => Quiet
  BY DEF CommandVeto, CommandShutdown
<1>4. Consolidate \/ ConsolidationEnd => Quiet
  BY DEF Consolidate, ConsolidationEnd
<1>5. ZkProve \/ ZkEnd \/ TakeProof => Quiet
  BY DEF ZkProve, ZkEnd, TakeProof
<1>6. DropBegin \/ JoinNext => Quiet
  BY DEF DropBegin, JoinNext, Join
<1>7. UNCHANGED allVars => Quiet
  BY DEF allVars
<1>. QED
  BY <1>1, <1>2, <1>3, <1>4, <1>5, <1>6, <1>7

\* What the three threads append are requests.
LEMMA RequestsTyped ==
  ASSUME HashTypes, SupervisorTypeOK, ThreadsHold
  PROVE  /\ consuming = "log" => carried[1] \in Request
         /\ VetoRequest \in Request
         /\ sealing = "log" => SealRecord \in Request
<1>1. ASSUME consuming = "log" PROVE carried[1] \in Request
  <2>1. /\ Len(leaves) \in Nat /\ recovered \in Nat
        /\ Len(leaves) > recovered
    BY <1>1 DEF SupervisorTypeOK, ThreadsHold, ConsumerHolds
  <2>2. Len(leaves) \in 1..Len(leaves) /\ Len(leaves) - 1 \in Nat
    BY <2>1
  <2>3. leaves[Len(leaves)] \in Hash
    BY <2>2 DEF SupervisorTypeOK
  <2>4. carried[1] = LeafRequest(Len(leaves) - 1, leaves[Len(leaves)])
    BY <1>1 DEF ThreadsHold, ConsumerHolds
  <2>. QED
    BY <2>2, <2>3, <2>4 DEF LeafRequest, Request
<1>2. VetoRequest \in Request
  BY SupervisorAssumption DEF VetoRequest, Request, VETO_CONTENT_ID
<1>3. ASSUME sealing = "log" PROVE SealRecord \in Request
  <2>1. epoch - 1 \in Nat
    BY <1>3 DEF SupervisorTypeOK, ThreadsHold, CallerHolds
  <2>2. BagRoot(leaves) \in Hash
    BY DEF HashTypes, SupervisorTypeOK
  <2>. QED
    BY <2>1, <2>2 DEF SealRecord, Request
<1>. QED
  BY <1>1, <1>2, <1>3

\* The three threads that write, told apart.
LEMMA WritersAre ==
  /\ Consumer \in Writers /\ Commander \in Writers /\ Caller \in Writers
  /\ \A w \in Writers : w \in {Consumer, Commander, Caller}
  /\ Consumer # Commander /\ Consumer # Caller /\ Commander # Caller
<1>1. Writers = {Consumer, Commander, Caller} /\ Cardinality(Writers) = 3
  BY SupervisorAssumption
<1>2. ASSUME NEW a, NEW b PROVE Cardinality({a, b}) <= 2
  <2>1. /\ IsFiniteSet({a}) /\ Cardinality({a}) = 1
    BY FS_Singleton
  <2>2. Cardinality({a} \cup {b}) = IF b \in {a} THEN 1 ELSE 2
    BY <2>1, FS_AddElement
  <2>3. {a} \cup {b} = {a, b}
    OBVIOUS
  <2>. QED
    BY <2>2, <2>3
<1>3. ASSUME \/ Consumer = Commander \/ Consumer = Caller
             \/ Commander = Caller
      PROVE  \E a, b : Writers = {a, b}
  BY <1>1, <1>3
<1>4. ASSUME NEW a, NEW b, Writers = {a, b} PROVE FALSE
  <2>1. Cardinality({a, b}) <= 2
    BY <1>2
  <2>2. Cardinality({a, b}) = 3
    BY <1>1, <1>4
  <2>. QED
    BY <2>1, <2>2
<1>. QED
  BY <1>1, <1>3, <1>4

\* Each step of the supervisor is one of the log, or leaves the log alone.
LEMMA StepsOfTheLog ==
  ASSUME HashTypes, SupervisorTypeOK, ThreadsHold, [SupervisorNext]_allVars
  PROVE  [WalStep]_walVars
<1>1. ASSUME Quiet PROVE UNCHANGED walVars
  BY <1>1 DEF Quiet
<1>2. SpawnFile \/ SpawnFresh \/ SpawnAgain \/ Die \/ DropEnd => WalStep
  BY DEF SpawnFile, SpawnFresh, SpawnAgain, Die, DropEnd, WalStep
<1>3. ConsumerReceive \/ ConsumerInsert \/ ConsumerSeal \/ ConsumerEnd
        \/ SealBegin => UNCHANGED walVars
  BY DEF ConsumerReceive, ConsumerInsert, ConsumerSeal, ConsumerEnd, SealBegin
<1>4. ConsumerLog => WalStep
  BY RequestsTyped, WritersAre DEF ConsumerLog, WalStep
<1>5. CommandLog => WalStep
  BY RequestsTyped, WritersAre DEF CommandLog, WalStep
<1>6. ConsumerWrite \/ CommandWrite => WalStep
  BY WritersAre DEF ConsumerWrite, CommandWrite, WalStep
<1>7. SealStep => WalStep
  BY RequestsTyped, WritersAre DEF SealStep, WalStep
<1>8. SealEnd => WalStep
  BY WritersAre DEF SealEnd, WalStep
<1>. QED
  BY <1>1, <1>2, <1>3, <1>4, <1>5, <1>6, <1>7, <1>8, QuietSteps
  DEF SupervisorNext, MmrConsumer, CommandProcessor, SealCaller

\* The channels and the digestor of a new process.
Reset ==
  /\ membrane' = <<>> /\ connected' = TRUE /\ running' = TRUE
  /\ digesting' = "check" /\ inhand' = <<>> /\ suppressed' = FALSE
  /\ hashes' = <<>> /\ processed' = 0 /\ dropped' = 0 /\ suppressions' = 0
  /\ UNCHANGED <<tick, accepted>>

\* Each step of the supervisor is one of the bio loop, leaves it alone, or is
\* the start of a new one.
LEMMA StepsOfTheBioLoop ==
  ASSUME DigestTypeOK, [SupervisorNext]_allVars
  PROVE  Reset \/ [DigestStep]_digestVars
<1>1. SpawnFresh \/ SpawnAgain \/ Die \/ DropEnd => Reset
  BY DEF SpawnFresh, SpawnAgain, Die, DropEnd, StartThreads, Reset
<1>2. SpawnFile \/ ConsumerInsert \/ ConsumerLog \/ ConsumerWrite
        \/ ConsumerSeal \/ ConsumerEnd => UNCHANGED digestVars
  BY DEF SpawnFile, ConsumerInsert, ConsumerLog, ConsumerWrite, ConsumerSeal,
         ConsumerEnd
<1>3. SendCommand \/ CommandCheck \/ CommandTimeout \/ CommandVeto
        \/ CommandLog \/ CommandWrite => UNCHANGED digestVars
  BY DEF SendCommand, CommandCheck, CommandTimeout, CommandVeto, CommandLog,
         CommandWrite
<1>4. SealBegin \/ SealStep \/ SealEnd => UNCHANGED digestVars
  BY DEF SealBegin, SealStep, SealEnd
<1>5. Consolidate \/ ConsolidationEnd \/ ZkProve \/ ZkEnd \/ TakeProof
        \/ JoinNext => UNCHANGED digestVars
  BY DEF Consolidate, ConsolidationEnd, ZkProve, ZkEnd, TakeProof, JoinNext,
         Join
<1>6. FeedEvent => DigestStep
  BY DEF FeedEvent, DigestStep
<1>7. FeedHeartbeat => DigestStep
  <2>1. FeedHeartbeat => BeatStep
    BY DEF FeedHeartbeat, BeatStep
  <2>. QED
    BY <2>1 DEF DigestStep
<1>8. DigestorStep => DigestStep
  BY DEF DigestorStep, DigestStep
<1>9. ConsumerReceive => DigestStep
  BY DEF ConsumerReceive, DigestStep
<1>10. CommandShutdown \/ DropBegin => [DigestStep]_digestVars
  <2>1. CASE running
    BY <2>1 DEF CommandShutdown, DropBegin, DigestStep, RequestStop
  <2>2. CASE ~running
    BY <2>2 DEF CommandShutdown, DropBegin, digestVars, DigestTypeOK
  <2>. QED
    BY <2>1, <2>2
<1>11. UNCHANGED allVars => UNCHANGED digestVars
  BY DEF allVars
<1>. QED
  BY <1>1, <1>2, <1>3, <1>4, <1>5, <1>6, <1>7, <1>8, <1>9, <1>10, <1>11
  DEF SupervisorNext, MmrConsumer, CommandProcessor, SealCaller

\* DigestReset leaves a typed bio loop.
LEMMA ResetTyped ==
  ASSUME DigestTypeOK, Reset
  PROVE  DigestTypeOK' /\ Paid'
<1>1. /\ membrane' \in Seq(Event) /\ inhand' \in Seq(Event)
      /\ hashes' \in Seq(MmrMessage)
      /\ Len(membrane') = 0 /\ Len(inhand') = 0 /\ Len(hashes') = 0
  BY EmptyType DEF Reset
<1>2. /\ digesting' = "check" /\ connected' = TRUE /\ running' = TRUE
      /\ suppressed' = FALSE
      /\ processed' = 0 /\ dropped' = 0 /\ suppressions' = 0
      /\ tick' \in Nat /\ accepted' \in Nat
  BY DEF Reset, DigestTypeOK
<1>3. Len(membrane') <= MembraneCapacity /\ Len(hashes') <= HashCapacity
  BY <1>1, DigestAssumption
<1>4. DigestTypeOK'
  BY <1>1, <1>2, <1>3 DEF DigestTypeOK
<1>5. 0 * Gap = 0
  BY Watermarks
<1>6. Paid'
  BY <1>1, <1>2, <1>5 DEF Paid, Gap, HYSTERESIS_HIGH, HYSTERESIS_LOW
<1>. QED
  BY <1>4, <1>6

-----------------------------------------------------------------------------
\* A step that is Quiet keeps what the threads hold; so do the others, one by
\* one.
LEMMA QuietTyped ==
  ASSUME SupervisorTypeOK, ThreadsHold, Quiet,
         commanding' \in {"check", "receive", "log", "write", "stopped"},
         dropping' \in {"none", "digestor", "mmr", "command", "consolidation",
                        "zk", "done"}
  PROVE  SupervisorTypeOK' /\ ThreadsHold'
BY DEF SupervisorTypeOK, Quiet, walVars, ThreadsHold, ConsumerHolds,
       CommanderHolds, CallerHolds, LeafRequest

\* A new process: no thread holds anything.
LEMMA StartTyped ==
  ASSUME NEW ls \in Seq(Hash), StartThreads(ls), appending' = Idle
  PROVE  SupervisorTypeOK' /\ ThreadsHold'
<1>1. Len(ls) \in Nat
  OBVIOUS
<1>2. SupervisorTypeOK'
  BY <1>1 DEF StartThreads, SupervisorTypeOK
<1>3. /\ appending'[Consumer] = None /\ appending'[Commander] = None
      /\ appending'[Caller] = None
  BY WritersAre DEF Idle
<1>. QED
  BY <1>2, <1>3 DEF StartThreads, ThreadsHold, ConsumerHolds, CommanderHolds,
                    CallerHolds

\* What an append in progress and the end of one do to the other threads.
LEMMA AppendTyped ==
  ASSUME WalTypeOK, NEW w \in Writers
  PROVE  /\ \A req \in Request : AppendDraw(w, req)
              => /\ appending[w] = None
                 /\ appending'[w].type = req.type
                 /\ appending'[w].leaf_index = req.leaf_index
                 /\ appending'[w].hash = req.hash
                 /\ appending'[w].content_id = req.content_id
                 /\ \A v \in Writers \ {w} : appending'[v] = appending[v]
         /\ (AppendWrite(w) \/ \E n \in ShortWrites : AppendFail(w, n))
              => /\ appending[w] # None
                 /\ appending'[w] = None
                 /\ \A v \in Writers \ {w} : appending'[v] = appending[v]
         /\ SyncLoad(w) \/ SyncWrite(w) => appending' = appending
<1>1. appending \in [Writers -> WalRecord \cup {None}]
  BY DEF WalTypeOK
<1>. QED
  BY <1>1 DEF AppendDraw, AppendWrite, AppendFail, SyncLoad, SyncWrite

\* Each step keeps what the threads hold consistent with where they are.
LEMMA NextHolds ==
  ASSUME HashTypes, TypesAndHolds, [SupervisorNext]_allVars
  PROVE  SupervisorTypeOK' /\ ThreadsHold'
<1> USE DEF TypesAndHolds
<1> DEFINE Goal == SupervisorTypeOK' /\ ThreadsHold'
<1>a. /\ leaves \in Seq(Hash) /\ Len(leaves) \in Nat
      /\ recovered \in Nat /\ recovered <= Len(leaves)
  BY DEF SupervisorTypeOK
<1>1. CASE SpawnFile
  BY <1>1 DEF SpawnFile, CreateFile, supVars, consumerVars, commandVars,
     callerVars, SupervisorTypeOK, ThreadsHold, ConsumerHolds, CommanderHolds,
     CallerHolds, LeafRequest
<1>2. CASE SpawnFresh \/ SpawnAgain \/ Die \/ DropEnd
  <2>1. appending' = Idle
    BY <1>2 DEF SpawnFresh, SpawnAgain, Die, DropEnd, CreateHeader, Open,
       Crash, Close, LifeCycle, IsOpen
  <2>2. <<>> \in Seq(Hash) /\ ReplayedHashes(file) \in Seq(Hash)
    BY ReplayedType DEF WalTypeOK
  <2>3. PICK ls \in Seq(Hash) : StartThreads(ls)
    BY <1>2, <2>2 DEF SpawnFresh, SpawnAgain, Die, DropEnd
  <2>. QED
    BY <2>1, <2>3, StartTyped
<1>3. CASE ConsumerReceive
  <2>1. Head(hashes) \in MmrMessage
    BY <1>3, HeadTailProperties DEF ConsumerReceive, TakeHash, DigestTypeOK
  <2>2. carried'[1] = Head(hashes) /\ consuming' \in {"insert", "seal"}
    BY <1>3 DEF ConsumerReceive
  <2>. QED
    BY <1>3, <2>1, <2>2 DEF ConsumerReceive, walVars, commandVars, callerVars,
       SupervisorTypeOK, ThreadsHold, ConsumerHolds, CommanderHolds, CallerHolds
<1>4. CASE ConsumerInsert
  <2> DEFINE h == Sha(carried[1].value)
  <2>1. h \in Hash
    BY <1>4 DEF ConsumerInsert, HashTypes, ThreadsHold, ConsumerHolds,
       MmrMessage
  <2>2. /\ leaves' = Append(leaves, h) /\ consuming' = "log"
        /\ carried' = <<LeafRequest(Len(leaves), h)>>
        /\ sealing = "idle"
        /\ UNCHANGED <<recovered, unlogged, epoch, sealing, commanding,
                       dropping, appending>>
    BY <1>4 DEF ConsumerInsert, Unlocked, walVars, commandVars, callerVars
  <2>3. consuming = "insert"
    BY <1>4 DEF ConsumerInsert
  <2> HIDE DEF h
  <2>4. /\ leaves' \in Seq(Hash) /\ Len(leaves') = Len(leaves) + 1
        /\ leaves'[Len(leaves')] = h
        /\ Len(leaves') - 1 = Len(leaves)
    BY <2>1, <2>2, <1>a
  <2>5. SupervisorTypeOK'
    BY <2>2, <2>4, <1>a DEF SupervisorTypeOK
  <2>6. ConsumerHolds'
    <3>1. Len(leaves') > recovered'
      BY <2>2, <2>4, <1>a
    <3>2. appending'[Consumer] = None
      BY <2>2, <2>3 DEF ThreadsHold, ConsumerHolds
    <3>3. carried'[1] = LeafRequest(Len(leaves') - 1, leaves'[Len(leaves')])
      BY <2>2, <2>4
    <3>. QED
      BY <2>2, <3>1, <3>2, <3>3 DEF ConsumerHolds, LeafRequest
  <2>7. CommanderHolds' /\ CallerHolds'
    BY <2>2 DEF ThreadsHold, CommanderHolds, CallerHolds
  <2>. QED
    BY <2>5, <2>6, <2>7 DEF ThreadsHold
<1>5. CASE ConsumerLog
  <2>1. /\ consuming = "log" /\ consuming' = "write"
        /\ AppendDraw(Consumer, carried[1])
        /\ UNCHANGED <<leaves, carried, recovered, unlogged, epoch, sealing,
                       commanding, dropping>>
    BY <1>5 DEF ConsumerLog, commandVars, callerVars
  <2>2. carried[1] = LeafRequest(Len(leaves) - 1, leaves[Len(leaves)])
    BY <2>1 DEF ThreadsHold, ConsumerHolds
  <2>3. carried[1] \in Request
    BY <2>1, RequestsTyped
  <2>4. /\ appending'[Consumer].type = carried[1].type
        /\ appending'[Consumer].leaf_index = carried[1].leaf_index
        /\ appending'[Consumer].hash = carried[1].hash
        /\ appending'[Consumer].content_id = carried[1].content_id
        /\ \A v \in Writers \ {Consumer} : appending'[v] = appending[v]
    BY <2>1, <2>3, WritersAre, AppendTyped
  <2>5. /\ appending'[Commander] = appending[Commander]
        /\ appending'[Caller] = appending[Caller]
    BY <2>4, WritersAre
  <2>6. ConsumerHolds'
    BY <2>1, <2>2, <2>4 DEF ThreadsHold, ConsumerHolds, LeafRequest
  <2>. QED
    BY <2>1, <2>5, <2>6 DEF SupervisorTypeOK, ThreadsHold, CommanderHolds,
       CallerHolds
<1>6. CASE ConsumerWrite
  <2>1. /\ consuming = "write" /\ consuming' = "receive"
        /\ AppendWrite(Consumer) \/ \E n \in ShortWrites : AppendFail(Consumer, n)
        /\ unlogged' \in {unlogged, unlogged + 1}
        /\ UNCHANGED <<leaves, recovered, epoch, sealing, commanding, dropping>>
    BY <1>6 DEF ConsumerWrite, commandVars, callerVars
  <2>2. /\ appending'[Consumer] = None
        /\ appending'[Commander] = appending[Commander]
        /\ appending'[Caller] = appending[Caller]
    BY <2>1, WritersAre, AppendTyped
  <2>. QED
    BY <2>1, <2>2 DEF SupervisorTypeOK, ThreadsHold, ConsumerHolds,
       CommanderHolds, CallerHolds
<1>7. CASE ConsumerSeal
  <2>1. /\ consuming = "seal" /\ consuming' = "receive" /\ sealing = "idle"
        /\ epoch' \in {epoch, epoch + 1}
        /\ UNCHANGED <<leaves, recovered, unlogged, sealing, commanding,
                       dropping, appending>>
    BY <1>7 DEF ConsumerSeal, Unlocked, walVars, commandVars, callerVars
  <2>. QED
    BY <2>1 DEF SupervisorTypeOK, ThreadsHold, ConsumerHolds, CommanderHolds,
       CallerHolds
<1>8. CASE ConsumerEnd
  BY <1>8 DEF ConsumerEnd, walVars, commandVars, callerVars, SupervisorTypeOK,
     ThreadsHold, ConsumerHolds, CommanderHolds, CallerHolds
<1>9. CASE CommandLog
  <2>1. /\ commanding' = "write"
        /\ AppendDraw(Commander, VetoRequest)
        /\ UNCHANGED <<leaves, consuming, carried, recovered, unlogged, epoch,
                       sealing, dropping>>
    BY <1>9 DEF CommandLog, consumerVars, callerVars
  <2>2. /\ appending'[Commander].type = Leaf
        /\ appending'[Commander].content_id = VETO_CONTENT_ID
        /\ appending'[Consumer] = appending[Consumer]
        /\ appending'[Caller] = appending[Caller]
    BY <2>1, WritersAre, RequestsTyped, AppendTyped DEF VetoRequest
  <2>. QED
    BY <2>1, <2>2 DEF SupervisorTypeOK, ThreadsHold, ConsumerHolds,
       CommanderHolds, CallerHolds, LeafRequest
<1>10. CASE CommandWrite
  <2>1. /\ commanding' = "check"
        /\ AppendWrite(Commander) \/ \E n \in ShortWrites : AppendFail(Commander, n)
        /\ UNCHANGED <<leaves, consuming, carried, recovered, unlogged, epoch,
                       sealing, dropping>>
    BY <1>10 DEF CommandWrite, consumerVars, callerVars
  <2>2. /\ appending'[Commander] = None
        /\ appending'[Consumer] = appending[Consumer]
        /\ appending'[Caller] = appending[Caller]
    BY <2>1, WritersAre, AppendTyped
  <2>. QED
    BY <2>1, <2>2 DEF SupervisorTypeOK, ThreadsHold, ConsumerHolds,
       CommanderHolds, CallerHolds, LeafRequest
<1>11. CASE SealBegin
  <2>1. /\ sealing = "idle" /\ sealing' = "log" /\ epoch' = epoch + 1
        /\ UNCHANGED <<leaves, consuming, carried, recovered, unlogged,
                       commanding, dropping, appending>>
    BY <1>11 DEF SealBegin, walVars, consumerVars, commandVars
  <2>. QED
    BY <2>1 DEF SupervisorTypeOK, ThreadsHold, ConsumerHolds, CommanderHolds,
       CallerHolds, LeafRequest
<1>12. CASE SealStep
  <2>1. UNCHANGED <<leaves, consuming, carried, recovered, unlogged, epoch,
                    commanding, dropping>>
    BY <1>12 DEF SealStep, consumerVars, commandVars
  <2>2. \/ /\ sealing = "log" /\ sealing' = "write"
           /\ AppendDraw(Caller, SealRecord)
        \/ /\ sealing = "write" /\ sealing' = "load"
           /\ AppendWrite(Caller) \/ \E n \in ShortWrites : AppendFail(Caller, n)
        \/ /\ sealing = "load" /\ sealing' = "sync"
           /\ SyncLoad(Caller)
    BY <1>12 DEF SealStep
  <2>3. /\ appending'[Consumer] = appending[Consumer]
        /\ appending'[Commander] = appending[Commander]
        /\ \/ /\ sealing' = "write"
              /\ appending'[Caller].type = EpochSeal
              /\ appending'[Caller].hash = BagRoot(leaves)
           \/ appending'[Caller] = None
    <3>1. CASE sealing = "log"
      <4>1. SealRecord \in Request
        BY <3>1, RequestsTyped
      <4>2. AppendDraw(Caller, SealRecord) /\ sealing' = "write"
        BY <3>1, <2>2
      <4>. QED
        BY <4>1, <4>2, WritersAre, AppendTyped DEF SealRecord
    <3>2. CASE sealing = "write"
      BY <3>2, <2>2, WritersAre, AppendTyped
    <3>3. CASE sealing = "load"
      <4>1. appending' = appending
        BY <3>3, <2>2, WritersAre, AppendTyped
      <4>2. appending[Caller] = None
        BY <3>3 DEF ThreadsHold, CallerHolds
      <4>. QED
        BY <4>1, <4>2
    <3>. QED
      BY <2>2, <3>1, <3>2, <3>3
  <2>4. epoch > 0 /\ sealing' \in {"write", "load", "sync"}
    BY <2>2 DEF ThreadsHold, CallerHolds
  <2>. QED
    BY <2>1, <2>3, <2>4 DEF SupervisorTypeOK, ThreadsHold, ConsumerHolds,
       CommanderHolds, CallerHolds, LeafRequest
<1>13. CASE SealEnd
  <2>1. /\ sealing = "sync" /\ sealing' = "idle" /\ appending' = appending
        /\ UNCHANGED <<leaves, consuming, carried, recovered, unlogged, epoch,
                       commanding, dropping>>
    BY <1>13 DEF SealEnd, SyncWrite, consumerVars, commandVars
  <2>. QED
    BY <2>1 DEF SupervisorTypeOK, ThreadsHold, ConsumerHolds, CommanderHolds,
       CallerHolds, LeafRequest
<1>14. ASSUME \/ FeedEvent \/ FeedHeartbeat \/ DigestorStep \/ SendCommand
              \/ CommandCheck \/ CommandTimeout \/ CommandVeto
              \/ CommandShutdown \/ Consolidate \/ ConsolidationEnd \/ ZkProve
              \/ ZkEnd \/ TakeProof \/ DropBegin \/ JoinNext
              \/ UNCHANGED allVars
       PROVE  Goal
  <2>1. Quiet
    BY <1>14, QuietSteps
  <2> USE DEF SupervisorTypeOK
  <2>2. FeedEvent \/ FeedHeartbeat \/ DigestorStep
          => UNCHANGED <<commanding, dropping>>
    BY DEF FeedEvent, FeedHeartbeat, DigestorStep, supVars, commandVars
  <2>3. SendCommand \/ CommandCheck \/ CommandTimeout \/ CommandVeto
          \/ CommandShutdown
          => /\ commanding' \in {"check", "receive", "log", "stopped",
                                 commanding}
             /\ UNCHANGED dropping
    BY DEF SendCommand, CommandCheck, CommandTimeout, CommandVeto,
       CommandShutdown
  <2>4. Consolidate \/ ConsolidationEnd \/ ZkProve \/ ZkEnd \/ TakeProof
          \/ UNCHANGED allVars
          => UNCHANGED <<commanding, dropping>>
    BY DEF Consolidate, ConsolidationEnd, ZkProve, ZkEnd, TakeProof, allVars,
       supVars, commandVars
  <2>5. DropBegin \/ JoinNext
          => /\ UNCHANGED commanding
             /\ dropping' \in {"digestor", "mmr", "command", "consolidation",
                               "zk", "done"}
    BY DEF DropBegin, JoinNext, Join, commandVars
  <2>. QED
    BY <1>14, <2>1, <2>2, <2>3, <2>4, <2>5, QuietTyped
<1>. QED
  BY <1>1, <1>2, <1>3, <1>4, <1>5, <1>6, <1>7, <1>8, <1>9, <1>10, <1>11,
     <1>12, <1>13, <1>14
  DEF SupervisorNext, MmrConsumer, CommandProcessor, SealCaller

\* What the types and the threads' hands need of each other holds throughout.
LEMMA InitTypesAndHolds == SupervisorInit => TypesAndHolds
<1> SUFFICES ASSUME SupervisorInit PROVE TypesAndHolds
  OBVIOUS
<1>1. WalTypeOK /\ LifeCycle
  BY InitTyped DEF SupervisorInit
<1>2. DigestTypeOK
  BY InitDigestTyped DEF SupervisorInit
<1>3. /\ appending[Consumer] = None /\ appending[Commander] = None
      /\ appending[Caller] = None
  BY WritersAre DEF SupervisorInit, WalInit, Idle
<1>4. leaves \in Seq(Hash) /\ Len(leaves) = 0
  BY DEF SupervisorInit
<1>5. SupervisorTypeOK
  BY <1>4 DEF SupervisorInit, SupervisorTypeOK
<1>6. ThreadsHold
  BY <1>3 DEF SupervisorInit, ThreadsHold, ConsumerHolds, CommanderHolds,
     CallerHolds
<1>. QED
  BY <1>1, <1>2, <1>5, <1>6 DEF TypesAndHolds

\* The same, together with the types of the log and of the bio loop.
LEMMA NextTypesAndHolds ==
  ASSUME HashTypes, TypesAndHolds, [SupervisorNext]_allVars
  PROVE  TypesAndHolds'
<1>1. WalTypeOK' /\ LifeCycle'
  BY StepsOfTheLog, NextTyped DEF TypesAndHolds
<1>2. DigestTypeOK'
  BY StepsOfTheBioLoop, NextDigestTyped, ResetTyped DEF TypesAndHolds
<1>. QED
  BY <1>1, <1>2, NextHolds DEF TypesAndHolds

\* The supervisor keeps its types and those of the log and the bio loop, and
\* what each thread is about to write is what it took in hand.
THEOREM SupervisorTypeCorrect ==
  ASSUME HashTypes
  PROVE  SupervisorSpec => []TypesAndHolds
<1>1. TypesAndHolds /\ [SupervisorNext]_allVars => TypesAndHolds'
  BY NextTypesAndHolds
<1>. QED
  BY <1>1, InitTypesAndHolds, PTL DEF SupervisorSpec

\* Under the supervisor, too, records stay in place, no two appends of a
\* session share a timestamp and the hysteresis does not flap: its steps are
\* steps of the log and of the bio loop.
THEOREM SupervisorKeepsTheLog ==
  ASSUME HashTypes
  PROVE  SupervisorSpec => [](RecordsInPlace /\ TimestampsUnique)
<1>1. SupervisorInit => RecordsInPlace /\ TimestampsUnique
  BY DEF SupervisorInit, WalInit, RecordsInPlace, TimestampsUnique, IsOpen
<1>2. TypesAndHolds /\ RecordsInPlace /\ TimestampsUnique
        /\ [SupervisorNext]_allVars
        => (RecordsInPlace /\ TimestampsUnique)'
  BY StepsOfTheLog, NextInPlace, NextUnique DEF TypesAndHolds
<1>. QED
  BY <1>1, <1>2, SupervisorTypeCorrect, PTL DEF SupervisorSpec

\* What a new process replays are the leaves of the log, vetoes included.
THEOREM SupervisorReplayExact ==
  ASSUME HashTypes, TailsAreShort
  PROVE  SupervisorSpec => []ReplayExact
<1>1. SupervisorInit => SyncsCounted /\ TailBounded
  BY BoundedInitially DEF SupervisorInit
<1>2. TypesAndHolds /\ SyncsCounted /\ TailBounded /\ [SupervisorNext]_allVars
        => (SyncsCounted /\ TailBounded)'
  BY StepsOfTheLog, NextCounted, NextBounded DEF TypesAndHolds
<1>3. TypesAndHolds /\ SyncsCounted /\ RecordsInPlace /\ TailBounded
        => ReplayExact
  BY ShortTailReplays DEF TypesAndHolds
<1>. QED
  BY <1>1, <1>2, <1>3, SupervisorTypeCorrect, SupervisorKeepsTheLog, PTL
     DEF SupervisorSpec

\* The bound on suppressions survives restarts of the process: a new one
\* starts its hysteresis from nothing.
THEOREM SupervisorNoFlapping ==
  ASSUME HashTypes
  PROVE  SupervisorSpec => []NoFlapping
<1>1. SupervisorInit => Paid
  BY InitPaid DEF SupervisorInit
<1>2. TypesAndHolds /\ TypesAndHolds' /\ Paid /\ [SupervisorNext]_allVars
        => Paid'
  BY StepsOfTheBioLoop, NextPaid, ResetTyped DEF TypesAndHolds
<1>3. Paid => NoFlapping
  BY DEF Paid, NoFlapping, Gap
<1>. QED
  BY <1>1, <1>2, <1>3, SupervisorTypeCorrect, PTL DEF SupervisorSpec

-----------------------------------------------------------------------------
\* A record that is appended to the log leaves the ones before it alone.
LEMMA LogGrows ==
  ASSUME WalTypeOK, NEW r \in WalRecord, log' = Append(log, r),
         session' = session
  PROVE  /\ Len(log) \in Nat /\ Len(log') = Len(log) + 1
         /\ log'[Len(log) + 1] = r
         /\ \A k \in 1..Len(log) : log'[k] = log[k]
         /\ \A k : k \in (session' + 1)..Len(log')
                     <=> (k \in (session + 1)..Len(log) \/ k = Len(log) + 1)
         /\ \A k \in (session + 1)..Len(log) : k \in 1..Len(log)
         /\ \A k \in (session + 1)..Len(log) : k \in Nat /\ k < Len(log) + 1
         /\ \A k : k \in DataRecords' <=>
              (k \in DataRecords \/ (k = Len(log) + 1 /\ IsData(r)))
<1>1. /\ log \in Seq(WalRecord) /\ Len(log) \in Nat
      /\ session \in Nat /\ session <= Len(log)
  BY DEF WalTypeOK
<1>2. /\ Len(log') = Len(log) + 1
      /\ log'[Len(log) + 1] = r
      /\ \A k \in 1..Len(log) : log'[k] = log[k]
  BY <1>1
<1>3. /\ \A k \in (session + 1)..Len(log) : k \in 1..Len(log)
      /\ \A k \in (session + 1)..Len(log) : k \in Nat /\ k < Len(log) + 1
      /\ \A k : k \in (session + 1)..(Len(log) + 1)
                  <=> (k \in (session + 1)..Len(log) \/ k = Len(log) + 1)
  BY <1>1
<1>4. \A k : k \in (session' + 1)..Len(log')
               <=> (k \in (session + 1)..Len(log) \/ k = Len(log) + 1)
  BY <1>2, <1>3
<1>5. \A k : k \in DataRecords' <=>
               (k \in DataRecords \/ (k = Len(log) + 1 /\ IsData(r)))
  <2>1. \A k : k \in DataRecords'
                 <=> (k \in (session' + 1)..Len(log') /\ IsData(log'[k]))
    BY DEF DataRecords, IsData
  <2>2. \A k \in (session + 1)..Len(log) : log'[k] = log[k]
    BY <1>2, <1>3
  <2>3. ~(Len(log) + 1 \in (session + 1)..Len(log))
    BY <1>1
  <2>. QED
    BY <2>1, <2>2, <2>3, <1>2, <1>4 DEF DataRecords, IsData
<1>. QED
  BY <1>1, <1>2, <1>3, <1>4, <1>5

\* The log and the MMR stay as they are, and so does what is settled.
LEMMA LogKept ==
  ASSUME LogInv, UNCHANGED <<mode, log, session, leaves, recovered>>,
         \/ unlogged' = unlogged \/ ~(unlogged' = 0),
         Settled' >= Settled, Settled \in Int, Settled' \in Int,
         unlogged' = 0 => Settled' = Settled,
         recovered \in Nat
  PROVE  LogInv'
<1> SUFFICES ASSUME IsOpen'
             PROVE  /\ RecordsIndexed' /\ RecordsOrdered' /\ RecordsComplete'
                    /\ SealsCover'
  BY DEF LogInv
<1>1. IsOpen /\ RecordsIndexed /\ RecordsOrdered /\ RecordsComplete /\ SealsCover
  BY DEF IsOpen, LogInv
<1>2. DataRecords' = DataRecords /\ IndexesLogged' = IndexesLogged
      /\ \A k : IndexesBefore(k)' = IndexesBefore(k)
  BY DEF DataRecords, IndexesLogged, IndexesBefore, IsData
<1>3. \A i : i \in recovered..(Settled - 1) => i \in recovered..(Settled' - 1)
  <2> DEFINE s == Settled
             t == Settled'
  <2>1. s \in Int /\ t \in Int /\ t >= s
    OBVIOUS
  <2> HIDE DEF s, t
  <2>2. \A i : i \in recovered..(s - 1) => i \in recovered..(t - 1)
    BY <2>1
  <2>. QED
    BY <2>2 DEF s, t
<1>4. RecordsIndexed'
  BY <1>1, <1>2, <1>3 DEF RecordsIndexed
<1>5. RecordsOrdered'
  BY <1>1, <1>2 DEF RecordsOrdered
<1>6. RecordsComplete'
  BY <1>1, <1>2 DEF RecordsComplete
<1>7. SealsCover'
  BY <1>1, <1>2 DEF SealsCover
<1>. QED
  BY <1>4, <1>5, <1>6, <1>7

\* A record that is not data: a veto, or a seal of what has been logged and of
\* at most one leaf more.
LEMMA LogOther ==
  ASSUME WalTypeOK, LogInv, UNCHANGED <<mode, session, leaves, recovered, unlogged>>,
         Settled' = Settled, NEW r \in WalRecord, log' = Append(log, r),
         ~IsData(r),
         \/ r.type # EpochSeal
         \/ unlogged = 0 =>
              \E covered \in recovered..Len(leaves), ahead \in 0..1 :
                /\ IndexesLogged = recovered..(covered - ahead - 1)
                /\ r.hash = BagRoot(SubSeq(leaves, 1, covered))
  PROVE  LogInv'
<1> SUFFICES ASSUME IsOpen'
             PROVE  /\ RecordsIndexed' /\ RecordsOrdered' /\ RecordsComplete'
                    /\ SealsCover'
  BY DEF LogInv
<1>1. IsOpen /\ RecordsIndexed /\ RecordsOrdered /\ RecordsComplete /\ SealsCover
  BY DEF IsOpen, LogInv
<1>2. /\ \A k \in DataRecords' : k \in DataRecords
      /\ DataRecords' = DataRecords
      /\ \A k \in DataRecords : log'[k] = log[k] /\ k < Len(log) + 1
      /\ \A k \in (session + 1)..Len(log) : log'[k] = log[k]
      /\ log'[Len(log) + 1] = r
  <2>1. \A k \in DataRecords : k \in (session + 1)..Len(log)
    BY DEF DataRecords
  <2>. QED
    BY <2>1, LogGrows
<1>3. /\ IndexesLogged' = IndexesLogged
      /\ \A k : IndexesBefore(k)' = IndexesBefore(k)
      /\ IndexesBefore(Len(log) + 1) = IndexesLogged
  BY <1>2 DEF IndexesLogged, IndexesBefore
<1>4. RecordsIndexed'
  BY <1>1, <1>2 DEF RecordsIndexed
<1>5. RecordsOrdered'
  BY <1>1, <1>2 DEF RecordsOrdered
<1>6. RecordsComplete'
  BY <1>1, <1>3 DEF RecordsComplete
<1>7. SealsCover'
  <2> SUFFICES ASSUME unlogged' = 0, NEW k \in (session' + 1)..Len(log'),
                      log'[k].type = EpochSeal
               PROVE  \E covered \in recovered..Len(leaves), ahead \in 0..1 :
                        /\ IndexesBefore(k)' = recovered..(covered - ahead - 1)
                        /\ log'[k].hash = BagRoot(SubSeq(leaves, 1, covered))
    BY DEF SealsCover
  <2>1. k \in (session + 1)..Len(log) \/ k = Len(log) + 1
    BY LogGrows
  <2>2. CASE k \in (session + 1)..Len(log)
    <3>1. log[k].type = EpochSeal /\ unlogged = 0 /\ log'[k] = log[k]
      BY <2>2, <1>2
    <3>2. PICK covered \in recovered..Len(leaves), ahead \in 0..1 :
                        /\ IndexesBefore(k) = recovered..(covered - ahead - 1)
                        /\ log[k].hash = BagRoot(SubSeq(leaves, 1, covered))
      BY <3>1, <2>2, <1>1 DEF SealsCover
    <3>. QED
      BY <3>1, <3>2, <1>3
  <2>3. CASE k = Len(log) + 1
    <3>1. log'[k] = r /\ r.type = EpochSeal /\ unlogged = 0
      BY <2>3, <1>2
    <3>2. IndexesBefore(k)' = IndexesLogged
      BY <2>3, <1>3
    <3>. QED
      BY <3>1, <3>2, <1>1
  <2>. QED
    BY <2>1, <2>2, <2>3
<1>. QED
  BY <1>4, <1>5, <1>6, <1>7

\* The record of the leaf the consumer put in the MMR last.
LEMMA LogData ==
  ASSUME WalTypeOK, LogInv, SupervisorTypeOK,
         UNCHANGED <<mode, session, leaves, recovered, unlogged>>,
         NEW r \in WalRecord, log' = Append(log, r), IsData(r),
         Len(leaves) > recovered, Settled = Len(leaves) - 1,
         Settled' = Len(leaves),
         r.leaf_index = Len(leaves) - 1, r.hash = leaves[Len(leaves)]
  PROVE  LogInv'
<1> SUFFICES ASSUME IsOpen'
             PROVE  /\ RecordsIndexed' /\ RecordsOrdered' /\ RecordsComplete'
                    /\ SealsCover'
  BY DEF LogInv
<1> DEFINE n == Len(leaves)
           top == Len(log) + 1
<1>1. IsOpen /\ RecordsIndexed /\ RecordsOrdered /\ RecordsComplete /\ SealsCover
  BY DEF IsOpen, LogInv
<1>2. /\ n \in Nat /\ recovered \in Nat /\ n > recovered
      /\ Settled = n - 1 /\ Settled' = n
  BY DEF SupervisorTypeOK
<1>3. /\ \A k : k \in DataRecords' <=> (k \in DataRecords \/ k = top)
      /\ \A k \in DataRecords : log'[k] = log[k] /\ k \in Nat /\ k < top
      /\ \A k \in (session + 1)..Len(log) :
           log'[k] = log[k] /\ k \in Nat /\ k < top
      /\ log'[top] = r /\ top \in Nat
  <2>1. \A k \in DataRecords : k \in (session + 1)..Len(log)
    BY DEF DataRecords
  <2>. QED
    BY <2>1, LogGrows
<1> HIDE DEF n, top
<1>4. \A k \in DataRecords :
        /\ log[k].leaf_index \in Int
        /\ log[k].leaf_index >= recovered /\ log[k].leaf_index <= n - 2
        /\ leaves[log[k].leaf_index + 1] = log[k].hash
  <2>1. \A i \in recovered..(Settled - 1) : i \in Int /\ i >= recovered /\ i <= n - 2
    BY <1>2
  <2>. QED
    BY <2>1, <1>1 DEF RecordsIndexed
<1>5. r.leaf_index = n - 1 /\ r.hash = leaves[(n - 1) + 1]
  BY <1>2 DEF n
<1>6. RecordsIndexed'
  <2> SUFFICES ASSUME NEW k \in DataRecords'
               PROVE  /\ log'[k].leaf_index \in recovered..(n - 1)
                      /\ leaves[log'[k].leaf_index + 1] = log'[k].hash
    BY <1>2 DEF RecordsIndexed
  <2>1. CASE k \in DataRecords
    <3>1. log'[k] = log[k]
      BY <2>1, <1>3
    <3>2. log[k].leaf_index \in recovered..(n - 1)
      BY <2>1, <1>2, <1>4
    <3>. QED
      BY <2>1, <3>1, <3>2, <1>4
  <2>2. CASE k = top
    <3>1. n - 1 \in recovered..(n - 1)
      BY <1>2
    <3>. QED
      BY <2>2, <3>1, <1>3, <1>5
  <2>. QED
    BY <2>1, <2>2, <1>3
<1>7. RecordsOrdered'
  <2> SUFFICES ASSUME NEW j \in DataRecords', NEW k \in DataRecords', j < k
               PROVE  log'[j].leaf_index < log'[k].leaf_index
    BY DEF RecordsOrdered
  <2>1. CASE j \in DataRecords /\ k \in DataRecords
    BY <2>1, <1>1, <1>3 DEF RecordsOrdered
  <2>2. CASE j \in DataRecords /\ k = top
    <3>1. log'[j] = log[j] /\ log'[k] = r
      BY <2>2, <1>3
    <3>2. log[j].leaf_index \in Int /\ log[j].leaf_index <= n - 2
      BY <2>2, <1>4
    <3>. QED
      BY <3>1, <3>2, <1>2, <1>5
  <2>3. CASE j = top
    <3>1. k = top \/ (k \in Nat /\ k < top)
      BY <1>3
    <3>. QED
      BY <2>3, <3>1, <1>3
  <2>. QED
    BY <2>1, <2>2, <2>3, <1>3
<1>8. RecordsComplete'
  <2> SUFFICES ASSUME unlogged = 0
               PROVE  IndexesLogged' = recovered..(n - 1)
    BY <1>2 DEF RecordsComplete
  <2>1. IndexesLogged = recovered..(n - 2)
    <3>1. Settled - 1 = n - 2
      BY <1>2
    <3>. QED
      BY <3>1, <1>1 DEF RecordsComplete
  <2>2. \A i : i \in IndexesLogged' <=> (i \in IndexesLogged \/ i = n - 1)
    BY <1>3, <1>5 DEF IndexesLogged
  <2>3. \A i : i \in recovered..(n - 1) <=> (i \in recovered..(n - 2) \/ i = n - 1)
    BY <1>2
  <2>. QED
    BY <2>1, <2>2, <2>3
<1>9. SealsCover'
  <2> SUFFICES ASSUME unlogged = 0, NEW k \in (session' + 1)..Len(log'),
                      log'[k].type = EpochSeal
               PROVE  \E covered \in recovered..Len(leaves), ahead \in 0..1 :
                        /\ IndexesBefore(k)' = recovered..(covered - ahead - 1)
                        /\ log'[k].hash = BagRoot(SubSeq(leaves, 1, covered))
    BY DEF SealsCover
  <2>1. k \in (session + 1)..Len(log)
    <3>1. k \in (session + 1)..Len(log) \/ k = top
      BY LogGrows DEF top
    <3>2. r.type # EpochSeal
      BY DEF IsData, Leaf, EpochSeal
    <3>. QED
      BY <3>1, <3>2, <1>3
  <2>2. log'[k] = log[k] /\ k \in Nat /\ k < top
    BY <2>1, <1>3
  <2>3. IndexesBefore(k)' = IndexesBefore(k)
    <3>1. \A j : (j \in DataRecords' /\ j < k) <=> (j \in DataRecords /\ j < k)
      BY <1>3, <2>2
    <3>2. \A j \in DataRecords : log'[j] = log[j]
      BY <1>3
    <3>. QED
      BY <3>1, <3>2 DEF IndexesBefore
  <2>. QED
    BY <2>1, <2>2, <2>3, <1>1 DEF SealsCover
<1>. QED
  BY <1>6, <1>7, <1>8, <1>9

\* A leaf the MMR takes leaves what has been logged, and sealed, as it was.
LEMMA MmrGrows ==
  ASSUME LogInv, SupervisorTypeOK,
         UNCHANGED <<mode, log, session, recovered, unlogged>>,
         NEW h \in Hash, leaves' = Append(leaves, h), Settled' = Settled,
         Settled = Len(leaves)
  PROVE  LogInv'
<1> SUFFICES ASSUME IsOpen'
             PROVE  /\ RecordsIndexed' /\ RecordsOrdered' /\ RecordsComplete'
                    /\ SealsCover'
  BY DEF LogInv
<1>1. IsOpen /\ RecordsIndexed /\ RecordsOrdered /\ RecordsComplete /\ SealsCover
  BY DEF IsOpen, LogInv
<1>2. DataRecords' = DataRecords /\ IndexesLogged' = IndexesLogged
      /\ \A k : IndexesBefore(k)' = IndexesBefore(k)
  BY DEF DataRecords, IndexesLogged, IndexesBefore, IsData
<1>3. /\ leaves \in Seq(Hash) /\ Len(leaves) \in Nat /\ recovered \in Nat
      /\ Len(leaves') = Len(leaves) + 1
      /\ \A i \in 1..Len(leaves) : leaves'[i] = leaves[i]
  BY DEF SupervisorTypeOK
<1>4. RecordsIndexed'
  <2>1. \A i \in recovered..(Len(leaves) - 1) : leaves'[i + 1] = leaves[i + 1]
    <3>1. \A i \in recovered..(Len(leaves) - 1) : i + 1 \in 1..Len(leaves)
      BY <1>3
    <3>. QED
      BY <3>1, <1>3
  <2>. QED
    BY <2>1, <1>1, <1>2 DEF RecordsIndexed
<1>5. RecordsOrdered'
  BY <1>1, <1>2 DEF RecordsOrdered
<1>6. RecordsComplete'
  BY <1>1, <1>2 DEF RecordsComplete
<1>7. SealsCover'
  <2> SUFFICES ASSUME unlogged = 0, NEW k \in (session + 1)..Len(log),
                      log[k].type = EpochSeal
               PROVE  \E covered \in recovered..Len(leaves'), ahead \in 0..1 :
                        /\ IndexesBefore(k) = recovered..(covered - ahead - 1)
                        /\ log[k].hash = BagRoot(SubSeq(leaves', 1, covered))
    BY <1>2 DEF SealsCover
  <2>1. PICK covered \in recovered..Len(leaves), ahead \in 0..1 :
                        /\ IndexesBefore(k) = recovered..(covered - ahead - 1)
                        /\ log[k].hash = BagRoot(SubSeq(leaves, 1, covered))
    BY <1>1 DEF SealsCover
  <2>2. covered \in Nat /\ covered <= Len(leaves)
    BY <1>3
  <2>3. SubSeq(leaves', 1, covered) = SubSeq(leaves, 1, covered)
    BY <2>2, <1>3
  <2>4. covered \in recovered..Len(leaves')
    BY <1>3, <2>2
  <2>. QED
    BY <2>1, <2>3, <2>4
<1>. QED
  BY <1>4, <1>5, <1>6, <1>7

\* A session begins: nothing is logged yet.
LEMMA LogStarts ==
  ASSUME LifeCycle, WalTypeOK,
         NEW ls \in Seq(Hash), StartThreads(ls), ~IsOpen' \/ session' = Len(log'),
         Len(log') \in Nat
  PROVE  LogInv'
<1>1. CASE ~IsOpen'
  BY <1>1 DEF LogInv
<1>2. CASE session' = Len(log')
  <2>1. \A k : ~(k \in (session' + 1)..Len(log'))
    BY <1>2
  <2>2. DataRecords' = {} /\ IndexesLogged' = {}
    BY <2>1 DEF DataRecords, IndexesLogged
  <2>3. /\ leaves' = ls /\ recovered' = Len(ls) /\ Len(ls) \in Nat
        /\ consuming' = "receive"
    BY DEF StartThreads
  <2>4. Settled' = Len(ls)
    BY <2>3 DEF Settled
  <2>5. recovered'..(Settled' - 1) = {}
    BY <2>3, <2>4
  <2>. QED
    BY <2>1, <2>2, <2>5 DEF LogInv, RecordsIndexed, RecordsOrdered,
       RecordsComplete, SealsCover
<1>. QED
  BY <1>1, <1>2

\* What the calls of the store do to the log.
LEMMA CallsOnTheLog ==
  ASSUME WalTypeOK, NEW w \in Writers
  PROVE  /\ AppendWrite(w) =>
              /\ log' = Append(log, appending[w]) /\ appending[w] # None
              /\ appending[w] \in WalRecord
              /\ UNCHANGED <<mode, session>>
         /\ (\E n \in ShortWrites : AppendFail(w, n)) =>
              UNCHANGED <<mode, log, session>>
         /\ (\E req : AppendDraw(w, req)) => UNCHANGED <<mode, log, session>>
         /\ SyncLoad(w) \/ SyncWrite(w) => UNCHANGED <<mode, log, session>>
BY DEF WalTypeOK, AppendWrite, AppendFail, AppendDraw, SyncLoad, SyncWrite

\* A step that changes neither log nor MMR nor what is settled.
LEMMA LogUntouched ==
  ASSUME SupervisorTypeOK, LogInv,
         UNCHANGED <<mode, log, session, leaves, recovered, unlogged>>,
         consuming \in {"log", "write"} <=> consuming' \in {"log", "write"}
  PROVE  LogInv'
<1>1. Len(leaves) \in Nat /\ recovered \in Nat
  BY DEF SupervisorTypeOK
<1>2. Settled' = Settled /\ Settled \in Int
  BY <1>1 DEF Settled
<1>3. Settled' >= Settled
  BY <1>2
<1>. QED
  BY <1>1, <1>2, <1>3, LogKept

\* Each step keeps what the records say of the MMR.
LEMMA NextLogInv ==
  ASSUME HashTypes, TypesAndHolds, LogInv, [SupervisorNext]_allVars
  PROVE  LogInv'
<1> USE DEF TypesAndHolds
<1>a. /\ Len(leaves) \in Nat /\ recovered \in Nat /\ recovered <= Len(leaves)
      /\ unlogged \in Nat
  BY DEF SupervisorTypeOK
<1>1. CASE SpawnFile
  BY <1>1 DEF SpawnFile, CreateFile, LogInv, IsOpen
<1>2. CASE SpawnFresh \/ SpawnAgain \/ Die \/ DropEnd
  <2>1. <<>> \in Seq(Hash) /\ ReplayedHashes(file) \in Seq(Hash)
    BY ReplayedType DEF WalTypeOK
  <2>2. PICK ls \in Seq(Hash) : StartThreads(ls)
    BY <1>2, <2>1 DEF SpawnFresh, SpawnAgain, Die, DropEnd
  <2>3. Len(log) \in Nat /\ session \in 0..Len(log)
    BY DEF WalTypeOK
  <2>4. /\ ~IsOpen' \/ session' = Len(log')
        /\ Len(log') \in Nat
    <3>1. CASE SpawnFresh
      <4>1. log = <<>> /\ UNCHANGED <<log, session>>
        BY <3>1 DEF SpawnFresh, CreateHeader, LifeCycle
      <4>2. Len(log) = 0
        BY <4>1
      <4>. QED
        BY <4>1, <4>2, <2>3
    <3>2. CASE SpawnAgain
      BY <3>2, <2>3 DEF SpawnAgain, Open
    <3>3. CASE Die \/ DropEnd
      BY <3>3, <2>3 DEF Die, DropEnd, Crash, Close, IsOpen
    <3>. QED
      BY <1>2, <3>1, <3>2, <3>3
  <2>. QED
    BY <2>2, <2>4, LogStarts
<1>3. CASE ConsumerReceive \/ ConsumerSeal \/ ConsumerEnd
  <2>1. /\ UNCHANGED <<mode, log, session, leaves, recovered, unlogged>>
        /\ ~(consuming \in {"log", "write"})
        /\ ~(consuming' \in {"log", "write"})
    BY <1>3 DEF ConsumerReceive, ConsumerSeal, ConsumerEnd, walVars
  <2>. QED
    BY <2>1, LogUntouched
<1>4. CASE ConsumerInsert
  <2> DEFINE h == Sha(carried[1].value)
  <2>1. h \in Hash
    BY <1>4 DEF ConsumerInsert, HashTypes, ThreadsHold, ConsumerHolds,
       MmrMessage
  <2>2. /\ leaves' = Append(leaves, h)
        /\ UNCHANGED <<mode, log, session, recovered, unlogged>>
        /\ consuming = "insert" /\ consuming' = "log"
    BY <1>4 DEF ConsumerInsert, walVars
  <2>3. Len(leaves') = Len(leaves) + 1
    BY <2>1, <2>2 DEF SupervisorTypeOK
  <2>4. Settled = Len(leaves) /\ Settled' = Settled
    BY <2>2, <2>3, <1>a DEF Settled
  <2> HIDE DEF h
  <2>. QED
    BY <2>1, <2>2, <2>4, MmrGrows
<1>5. CASE ConsumerLog
  <2>1. /\ UNCHANGED <<leaves, recovered, unlogged>>
        /\ consuming = "log" /\ consuming' = "write"
        /\ AppendDraw(Consumer, carried[1])
    BY <1>5 DEF ConsumerLog
  <2>2. UNCHANGED <<mode, log, session>>
    BY <2>1, WritersAre, CallsOnTheLog
  <2>. QED
    BY <2>1, <2>2, LogUntouched
<1>6. CASE ConsumerWrite
  <2>1. /\ UNCHANGED <<leaves, recovered>>
        /\ consuming = "write" /\ consuming' = "receive"
    BY <1>6 DEF ConsumerWrite
  <2>2. /\ Settled = Len(leaves) - 1 /\ Settled' = Len(leaves)
        /\ Settled \in Int /\ Settled' \in Int /\ Settled' >= Settled
    BY <2>1, <1>a DEF Settled
  <2>3. CASE AppendWrite(Consumer) /\ UNCHANGED unlogged
    <3> DEFINE r == appending[Consumer]
    <3>1. /\ log' = Append(log, r) /\ r # None /\ r \in WalRecord
          /\ UNCHANGED <<mode, session>>
      BY <2>3, WritersAre, CallsOnTheLog
    <3>2. /\ r.type = Leaf /\ r.content_id = 0
          /\ r.leaf_index = Len(leaves) - 1
          /\ r.hash = leaves[Len(leaves)]
      BY <3>1 DEF ThreadsHold, ConsumerHolds
    <3>3. Len(leaves) > recovered
      BY <2>1 DEF ThreadsHold, ConsumerHolds
    <3>4. IsData(r)
      BY <3>2 DEF IsData, VETO_CONTENT_ID
    <3> HIDE DEF r
    <3>. QED
      BY <2>1, <2>2, <2>3, <3>1, <3>2, <3>3, <3>4, LogData
  <2>4. CASE \E n \in ShortWrites :
               AppendFail(Consumer, n) /\ unlogged' = unlogged + 1
    <3>1. unlogged' = unlogged + 1 /\ UNCHANGED <<mode, log, session>>
      BY <2>4, WritersAre, CallsOnTheLog
    <3>2. ~(unlogged' = 0)
      BY <3>1, <1>a
    <3>. QED
      BY <2>1, <2>2, <3>1, <3>2, <1>a, LogKept
  <2>. QED
    BY <1>6, <2>3, <2>4 DEF ConsumerWrite
<1>7. CASE CommandLog \/ SealBegin \/ SealEnd
  <2>1. /\ UNCHANGED <<leaves, recovered, unlogged, consuming>>
    BY <1>7 DEF CommandLog, SealBegin, SealEnd, consumerVars
  <2>2. UNCHANGED <<mode, log, session>>
    BY <1>7, WritersAre, CallsOnTheLog DEF CommandLog, SealBegin, SealEnd,
       walVars
  <2>. QED
    BY <2>1, <2>2, LogUntouched
<1>8. CASE CommandWrite
  <2>1. UNCHANGED <<leaves, recovered, unlogged, consuming>>
    BY <1>8 DEF CommandWrite, consumerVars
  <2>2. CASE AppendWrite(Commander)
    <3> DEFINE r == appending[Commander]
    <3>1. /\ log' = Append(log, r) /\ r # None /\ r \in WalRecord
          /\ UNCHANGED <<mode, session>>
      BY <2>2, WritersAre, CallsOnTheLog
    <3>2. r.type = Leaf /\ r.content_id = VETO_CONTENT_ID
      BY <3>1 DEF ThreadsHold, CommanderHolds
    <3>3. ~IsData(r) /\ r.type # EpochSeal
      BY <3>2 DEF IsData, Leaf, EpochSeal
    <3>4. Settled' = Settled
      BY <2>1 DEF Settled
    <3> HIDE DEF r
    <3>. QED
      BY <2>1, <3>1, <3>3, <3>4, LogOther
  <2>3. CASE \E n \in ShortWrites : AppendFail(Commander, n)
    <3>1. UNCHANGED <<mode, log, session>>
      BY <2>3, WritersAre, CallsOnTheLog
    <3>. QED
      BY <2>1, <3>1, LogUntouched
  <2>. QED
    BY <1>8, <2>2, <2>3 DEF CommandWrite
<1>9. CASE SealStep
  <2>1. UNCHANGED <<leaves, recovered, unlogged, consuming>>
    BY <1>9 DEF SealStep, consumerVars
  <2>2. CASE AppendWrite(Caller)
    <3> DEFINE r == appending[Caller]
    <3>1. /\ log' = Append(log, r) /\ r # None /\ r \in WalRecord
          /\ UNCHANGED <<mode, session>>
      BY <2>2, WritersAre, CallsOnTheLog
    <3>2. r.type = EpochSeal /\ r.hash = BagRoot(leaves) /\ IsOpen
      BY <3>1, WritersAre DEF ThreadsHold, CallerHolds, LifeCycle, Idle
    <3>3. ~IsData(r)
      BY <3>2 DEF IsData, Leaf, EpochSeal
    <3>4. Settled' = Settled
      BY <2>1 DEF Settled
    <3>5. SubSeq(leaves, 1, Len(leaves)) = leaves
      BY DEF SupervisorTypeOK
    <3> HIDE DEF r
    <3>6. ASSUME unlogged = 0
          PROVE  \E covered \in recovered..Len(leaves), ahead \in 0..1 :
                   /\ IndexesLogged = recovered..(covered - ahead - 1)
                   /\ r.hash = BagRoot(SubSeq(leaves, 1, covered))
      <4> DEFINE ahead == IF consuming \in {"log", "write"} THEN 1 ELSE 0
      <4>1. IndexesLogged = recovered..(Settled - 1)
        BY <3>2, <3>6 DEF LogInv, RecordsComplete
      <4>2. Settled - 1 = Len(leaves) - ahead - 1 /\ ahead \in 0..1
        BY <1>a DEF Settled
      <4>3. Len(leaves) \in recovered..Len(leaves)
        BY <1>a
      <4> HIDE DEF ahead
      <4>. QED
        BY <4>1, <4>2, <4>3, <3>2, <3>5
    <3>. QED
      BY <2>1, <3>1, <3>3, <3>4, <3>6, LogOther
  <2>3. CASE ~AppendWrite(Caller)
    <3>1. UNCHANGED <<mode, log, session>>
      BY <1>9, <2>3, WritersAre, CallsOnTheLog DEF SealStep
    <3>. QED
      BY <2>1, <3>1, LogUntouched
  <2>. QED
    BY <2>2, <2>3
<1>10. ASSUME \/ FeedEvent \/ FeedHeartbeat \/ DigestorStep \/ SendCommand
              \/ CommandCheck \/ CommandTimeout \/ CommandVeto
              \/ CommandShutdown \/ Consolidate \/ ConsolidationEnd \/ ZkProve
              \/ ZkEnd \/ TakeProof \/ DropBegin \/ JoinNext
              \/ UNCHANGED allVars
       PROVE  LogInv'
  <2>1. Quiet
    BY <1>10, QuietSteps
  <2>2. UNCHANGED <<mode, log, session, leaves, recovered, unlogged, consuming>>
    BY <2>1 DEF Quiet, walVars
  <2>. QED
    BY <2>2, LogUntouched
<1>. QED
  BY <1>1, <1>2, <1>3, <1>4, <1>5, <1>6, <1>7, <1>8, <1>9, <1>10
  DEF SupervisorNext, MmrConsumer, CommandProcessor, SealCaller

\* What the records of the session say about the MMR, for each property that
\* follows from it.
LEMMA SupervisorLogInv ==
  ASSUME HashTypes
  PROVE  SupervisorSpec => []LogInv
<1>1. SupervisorInit => LogInv
  BY DEF SupervisorInit, WalInit, LogInv, IsOpen
<1>2. TypesAndHolds /\ LogInv /\ [SupervisorNext]_allVars => LogInv'
  BY NextLogInv
<1>. QED
  BY <1>1, <1>2, SupervisorTypeCorrect, PTL DEF SupervisorSpec

\* The data records of a session are the leaves the MMR took in it, in its
\* order and without a gap, whatever vetoes, seals and crashes fall between.
THEOREM SupervisorLogFollowsMmr ==
  ASSUME HashTypes
  PROVE  SupervisorSpec => []LogFollowsMmr
<1>1. ASSUME TypesAndHolds, LogInv PROVE LogFollowsMmr
  <2> SUFFICES ASSUME IsOpen, unlogged = 0
               PROVE  /\ IndexesLogged = recovered..(Len(leaves) - Len(Pending) - 1)
                      /\ RecordsOrdered
                      /\ \A k \in DataRecords :
                           leaves[log[k].leaf_index + 1] = log[k].hash
                      /\ Pending # <<>> => leaves[Len(leaves)] = Pending[1]
    BY DEF LogFollowsMmr, RecordsOrdered
  <2>1. RecordsIndexed /\ RecordsOrdered /\ RecordsComplete
    BY <1>1 DEF LogInv
  <2>2. Len(leaves) \in Nat
    BY <1>1 DEF TypesAndHolds, SupervisorTypeOK
  <2>3. Len(Pending) = IF consuming \in {"log", "write"} THEN 1 ELSE 0
    BY DEF Pending
  <2>4. Settled = Len(leaves) - Len(Pending)
    BY <2>2, <2>3 DEF Settled
  <2>5. Pending # <<>> => leaves[Len(leaves)] = Pending[1]
    BY <1>1 DEF Pending, TypesAndHolds, ThreadsHold, ConsumerHolds, LeafRequest
  <2>. QED
    BY <2>1, <2>4, <2>5 DEF RecordsIndexed, RecordsComplete
<1>. QED
  BY <1>1, SupervisorLogInv, SupervisorTypeCorrect, PTL

\* The index in a data record is the one of its hash, also after an append
\* that the disk refused.
THEOREM SupervisorIndexNamesLeaf ==
  ASSUME HashTypes
  PROVE  SupervisorSpec => []IndexNamesLeaf
<1>1. ASSUME TypesAndHolds, LogInv PROVE IndexNamesLeaf
  <2> SUFFICES ASSUME IsOpen, NEW k \in DataRecords
               PROVE  /\ log[k].leaf_index \in recovered..(Len(leaves) - 1)
                      /\ leaves[log[k].leaf_index + 1] = log[k].hash
    BY DEF IndexNamesLeaf
  <2>1. /\ log[k].leaf_index \in recovered..(Settled - 1)
        /\ leaves[log[k].leaf_index + 1] = log[k].hash
    BY <1>1 DEF LogInv, RecordsIndexed
  <2>2. Len(leaves) \in Nat /\ recovered \in Nat
    BY <1>1 DEF TypesAndHolds, SupervisorTypeOK
  <2>3. Settled \in Int /\ Settled <= Len(leaves)
    BY <2>2 DEF Settled
  <2>4. \A i \in recovered..(Settled - 1) : i \in recovered..(Len(leaves) - 1)
    BY <2>2, <2>3
  <2>. QED
    BY <2>1, <2>4
<1>. QED
  BY <1>1, SupervisorLogInv, SupervisorTypeCorrect, PTL

\* A seal record is the root of the leaves logged before it, and of at most
\* one leaf more: the lock on the MMR is held from the seal to the fsync.
THEOREM SupervisorSealAheadByOne ==
  ASSUME HashTypes
  PROVE  SupervisorSpec => []SealAheadByOne
<1>1. LogInv => SealAheadByOne
  BY DEF LogInv, SealsCover, SealAheadByOne
<1>. QED
  BY <1>1, SupervisorLogInv, PTL

-----------------------------------------------------------------------------
\* How many hashes a channel holds is a number.
LEMMA CountFinite ==
  ASSUME NEW q \in Seq(MmrMessage)
  PROVE  IsFiniteSet(HashesIn(q)) /\ Cardinality(HashesIn(q)) \in Nat
<1>1. IsFiniteSet(1..Len(q)) /\ HashesIn(q) \in SUBSET (1..Len(q))
  BY FS_Interval DEF HashesIn
<1>2. IsFiniteSet(HashesIn(q))
  BY <1>1, FS_Subset
<1>. QED
  BY <1>2, FS_CardinalityType

\* An empty channel holds no hash.
LEMMA CountEmpty == Cardinality(HashesIn(<<>>)) = 0
<1>1. HashesIn(<<>>) = {}
  BY DEF HashesIn
<1>. QED
  BY <1>1, FS_EmptySet

\* A message that comes in counts if it is a hash.
LEMMA CountSent ==
  ASSUME NEW q \in Seq(MmrMessage), NEW m \in MmrMessage
  PROVE  Cardinality(HashesIn(q \o <<m>>))
           = Cardinality(HashesIn(q)) + (IF m.kind = "hash" THEN 1 ELSE 0)
<1> DEFINE p == q \o <<m>>
           n == Len(q) + 1
<1>1. /\ Len(q) \in Nat /\ Len(p) = n /\ p[n] = m
      /\ \A i \in 1..Len(q) : p[i] = q[i]
  OBVIOUS
<1>2. \A i : i \in 1..n <=> (i \in 1..Len(q) \/ i = n)
  BY <1>1
<1> HIDE DEF p
<1>3. n \notin HashesIn(q)
  BY <1>1 DEF HashesIn
<1>4. CASE m.kind = "hash"
  <2>1. HashesIn(p) = HashesIn(q) \cup {n}
    BY <1>1, <1>2, <1>4 DEF HashesIn
  <2> HIDE DEF n
  <2>. QED
    BY <2>1, <1>3, <1>4, CountFinite, FS_AddElement DEF p
<1>5. CASE m.kind # "hash"
  <2>1. HashesIn(p) = HashesIn(q)
    BY <1>1, <1>2, <1>5 DEF HashesIn
  <2>. QED
    BY <2>1, <1>5, CountFinite DEF p
<1>. QED
  BY <1>4, <1>5

\* A message that goes out no longer does.
LEMMA CountTaken ==
  ASSUME NEW q \in Seq(MmrMessage), q # <<>>
  PROVE  Cardinality(HashesIn(q))
           = Cardinality(HashesIn(Tail(q)))
               + (IF Head(q).kind = "hash" THEN 1 ELSE 0)
<1> DEFINE t == Tail(q)
           rest == HashesIn(q) \ {1}
           f == [i \in HashesIn(t) |-> i + 1]
<1>1. /\ Len(q) \in Nat /\ Len(q) >= 1 /\ t \in Seq(MmrMessage)
      /\ Len(t) = Len(q) - 1
      /\ \A i \in 1..Len(t) : t[i] = q[i + 1]
      /\ Head(q) = q[1]
  BY HeadTailProperties
<1> HIDE DEF t
<1>2. f \in Bijection(HashesIn(t), rest)
  <2>1. \A i \in HashesIn(t) : i \in Int /\ i + 1 \in rest /\ f[i] = i + 1
    BY <1>1 DEF HashesIn
  <2>2. \A j \in rest : j - 1 \in HashesIn(t) /\ (j - 1) + 1 = j
    <3> TAKE j \in rest
    <3>1. j \in 2..Len(q) /\ q[j].kind = "hash"
      BY <1>1 DEF HashesIn
    <3>2. j - 1 \in 1..Len(t) /\ (j - 1) + 1 = j
      BY <1>1, <3>1
    <3>. QED
      BY <1>1, <3>1, <3>2 DEF HashesIn
  <2> HIDE DEF rest
  <2>3. f \in [HashesIn(t) -> rest]
    BY <2>1
  <2>4. \A a, b \in HashesIn(t) : f[a] = f[b] => a = b
    BY <2>1
  <2>5. \A j \in rest : \E i \in HashesIn(t) : f[i] = j
    BY <2>1, <2>2
  <2>6. DOMAIN f = HashesIn(t)
    OBVIOUS
  <2> HIDE DEF f
  <2>. QED
    BY <2>3, <2>4, <2>5, <2>6 DEF Bijection, Injection, Surjection, IsInjective
<1>3. Cardinality(rest) = Cardinality(HashesIn(t))
  <2>1. IsFiniteSet(HashesIn(t))
    BY <1>1, CountFinite
  <2>2. ExistsBijection(HashesIn(t), rest)
    BY <1>2 DEF ExistsBijection
  <2> HIDE DEF rest, f
  <2>. QED
    BY <2>1, <2>2, FS_Bijection
<1>4. Cardinality(rest) = IF 1 \in HashesIn(q) THEN Cardinality(HashesIn(q)) - 1
                          ELSE Cardinality(HashesIn(q))
  BY CountFinite, FS_RemoveElement
<1>5. 1 \in HashesIn(q) <=> Head(q).kind = "hash"
  BY <1>1 DEF HashesIn
<1> HIDE DEF rest
<1>. QED
  BY <1>3, <1>4, <1>5, CountFinite DEF t

\* digest_event() loses no hash while the channel is longer than the events
\* there are.
LEMMA DigestCounts ==
  ASSUME DigestTypeOK, DigestEvent, accepted <= MaxFed,
         Len(membrane) + Len(inhand) + Len(hashes) <= accepted
  PROVE  /\ Len(membrane') + Len(inhand') + Len(hashes') <= accepted'
         /\ MaxFed <= HashCapacity =>
              Cardinality(HashesIn(hashes')) - processed'
                = Cardinality(HashesIn(hashes)) - processed
<1> DEFINE ev == Head(inhand)
           ms == MessageOf(ev)
<1>1. /\ hashes \in Seq(MmrMessage) /\ Len(hashes) \in Nat
      /\ Len(membrane) \in Nat /\ accepted \in Nat /\ processed \in Nat
      /\ inhand \in Seq(Event) /\ Len(inhand) = 1
      /\ MaxFed \in Nat /\ HashCapacity \in Nat
  BY DigestAssumption DEF DigestTypeOK, DigestEvent
<1>2. ev \in Event
  <2>1. Len(inhand) # Len(<<>>)
    BY <1>1
  <2>. QED
    BY <2>1, <1>1, HeadTailProperties
<1>3. /\ hashes' = TrySend(hashes, HashCapacity, ms)
      /\ processed' = IF ev.kind = "data" THEN processed + 1 ELSE processed
      /\ inhand' = <<>> /\ UNCHANGED <<membrane, accepted>>
  BY DEF DigestEvent
<1>4. HashOf(ev.value) \in MmrMessage /\ SealRequest \in MmrMessage
      /\ HashOf(ev.value).kind = "hash" /\ SealRequest.kind # "hash"
  BY <1>2 DEF HashOf, SealRequest, MmrMessage, Event
<1>5. \/ ev.kind = "data" /\ ms = <<HashOf(ev.value)>>
      \/ ev.kind # "data" /\ ms = <<SealRequest>>
      \/ ev.kind # "data" /\ ms = <<>>
  BY DEF MessageOf
<1>6. Len(inhand') = 0
  BY <1>3, EmptyType
<1>7. Cardinality(HashesIn(hashes)) \in Nat
  BY <1>1, CountFinite
<1> HIDE DEF ev, ms
<1>8. CASE ms = <<>>
  <2>1. hashes \o <<>> = hashes
    BY <1>1
  <2>2. hashes' = hashes
    BY <1>3, <1>8, <2>1 DEF TrySend
  <2>3. processed' = processed
    BY <1>3, <1>4, <1>5, <1>8
  <2>. QED
    BY <1>1, <1>3, <1>6, <1>7, <2>2, <2>3
<1>9. ASSUME NEW m \in MmrMessage, ms = <<m>>,
             ev.kind = "data" <=> m.kind = "hash"
      PROVE  /\ Len(membrane') + Len(inhand') + Len(hashes') <= accepted'
             /\ MaxFed <= HashCapacity =>
                  Cardinality(HashesIn(hashes')) - processed'
                    = Cardinality(HashesIn(hashes)) - processed
  <2>1. Len(ms) = 1 /\ Len(hashes \o <<m>>) = Len(hashes) + 1
    BY <1>1, <1>9
  <2>2. hashes' = IF Len(hashes) + 1 <= HashCapacity THEN hashes \o <<m>>
                  ELSE hashes
    BY <1>3, <1>9, <2>1 DEF TrySend
  <2>3. Len(hashes') \in Nat /\ Len(hashes') <= Len(hashes) + 1
    BY <1>1, <2>1, <2>2
  <2>4. Len(membrane') + Len(inhand') + Len(hashes') <= accepted'
    BY <1>1, <1>3, <1>6, <2>3
  <2>5. ASSUME MaxFed <= HashCapacity
        PROVE  Cardinality(HashesIn(hashes')) - processed'
                 = Cardinality(HashesIn(hashes)) - processed
    <3>1. Len(hashes) + 1 <= HashCapacity
      BY <1>1, <2>5
    <3>2. hashes' = hashes \o <<m>>
      BY <2>2, <3>1
    <3>3. Cardinality(HashesIn(hashes'))
            = Cardinality(HashesIn(hashes)) + (IF m.kind = "hash" THEN 1 ELSE 0)
      BY <1>1, <3>2, CountSent
    <3>. QED
      BY <1>1, <1>3, <1>7, <1>9, <3>3
  <2>. QED
    BY <2>4, <2>5
<1>. QED
  BY <1>4, <1>5, <1>8, <1>9

\* A step that touches nothing the flow depends on.
LEMMA FlowUntouched ==
  ASSUME Flow,
         UNCHANGED <<membrane, inhand, hashes, accepted, processed, recovered,
                     leaves, consuming, digesting>>,
         dropping' = dropping,
         IsOpen' <=> IsOpen
  PROVE  Flow'
BY DEF Flow, FlowBounded, FlowCounted, FlowEnds, HashesIn

\* A new process has nothing in flight.
LEMMA FlowStarts ==
  ASSUME TypesAndHolds, Flow, NEW ls \in Seq(Hash), StartThreads(ls)
  PROVE  Flow'
<1>1. /\ membrane' = <<>> /\ inhand' = <<>> /\ hashes' = <<>>
      /\ processed' = 0 /\ accepted' = accepted
      /\ leaves' = ls /\ recovered' = Len(ls) /\ Len(ls) \in Nat
      /\ consuming' = "receive" /\ dropping' = "none"
  BY DEF StartThreads
<1>2. Len(membrane') = 0 /\ Len(inhand') = 0 /\ Len(hashes') = 0
  BY <1>1
<1>3. Cardinality(HashesIn(hashes')) = 0
  BY <1>1, CountEmpty
<1>4. FlowBounded'
  BY <1>1, <1>2, DigestAssumption DEF Flow, FlowBounded, TypesAndHolds,
     DigestTypeOK
<1>5. FlowCounted'
  BY <1>1, <1>3 DEF FlowCounted, HashesIn
<1>6. FlowEnds'
  BY <1>1 DEF FlowEnds
<1>. QED
  BY <1>4, <1>5, <1>6 DEF Flow

\* An event that the membrane takes, or the digestor from it.
LEMMA FlowOfEvents ==
  ASSUME TypesAndHolds, Flow, FeedEvent \/ FeedHeartbeat \/ DigestorStep
  PROVE  Flow'
<1>a. /\ membrane \in Seq(Event) /\ Len(membrane) \in Nat
      /\ Len(inhand) \in Nat /\ Len(hashes) \in Nat
      /\ hashes \in Seq(MmrMessage)
      /\ accepted \in Nat /\ processed \in Nat /\ MaxFed \in Nat
      /\ leaves \in Seq(Hash) /\ Len(leaves) \in Nat /\ recovered \in Nat
  BY DigestAssumption DEF TypesAndHolds, DigestTypeOK, SupervisorTypeOK
<1>b. Cardinality(HashesIn(hashes)) \in Nat
  BY <1>a, CountFinite
<1>c. UNCHANGED <<leaves, recovered, consuming, dropping, mode>>
  BY DEF FeedEvent, FeedHeartbeat, DigestorStep, walVars, supVars, consumerVars
<1>1. ASSUME NEW ev, Feed(ev), accepted < MaxFed,
             UNCHANGED <<inhand, hashes, processed, digesting>>
      PROVE  Flow'
  <2>1. /\ Len(membrane') = Len(membrane) + 1 /\ accepted' = accepted + 1
    BY <1>1, <1>a DEF Feed
  <2>2. FlowBounded'
    BY <1>1, <1>a, <2>1 DEF Flow, FlowBounded
  <2>3. FlowCounted' /\ FlowEnds'
    BY <1>1, <1>c DEF Flow, FlowCounted, FlowEnds, HashesIn, IsOpen
  <2>. QED
    BY <2>2, <2>3 DEF Flow
<1>2. ASSUME Len(membrane') + Len(inhand') <= Len(membrane) + Len(inhand),
             Len(membrane') \in Nat, Len(inhand') \in Nat,
             UNCHANGED <<hashes, processed, accepted>>,
             digesting # "stopped"
      PROVE  Flow'
  <2>1. FlowBounded'
    BY <1>2, <1>a DEF Flow, FlowBounded
  <2>2. FlowCounted' /\ FlowEnds'
    BY <1>2, <1>c DEF Flow, FlowCounted, FlowEnds, HashesIn, IsOpen
  <2>. QED
    BY <2>1, <2>2 DEF Flow
<1>3. CASE FeedEvent
  BY <1>1, <1>3 DEF FeedEvent, FeedData, FeedShutdown
<1>4. CASE FeedHeartbeat
  <2>1. CASE Feed(HeartbeatEvent(tick)) /\ accepted < MaxFed
    BY <1>1, <1>4, <2>1 DEF FeedHeartbeat
  <2>2. CASE UNCHANGED <<membrane, accepted>>
    BY <1>4, <1>c, <2>2, FlowUntouched DEF FeedHeartbeat, IsOpen
  <2>. QED
    BY <1>4, <2>1, <2>2 DEF FeedHeartbeat
<1>5. CASE CheckRunning
  BY <1>2, <1>5, <1>a, EmptyType DEF CheckRunning
<1>6. CASE Measure \/ ReceiveTimeout \/ ReceiveDisconnected
  BY <1>2, <1>6, <1>a DEF Measure, ReceiveTimeout, ReceiveDisconnected
<1>7. CASE DropEvent
  <2>1. Len(membrane') \in Nat /\ Len(membrane') = Len(membrane) - 1
    BY <1>7, <1>a, HeadTailProperties DEF DropEvent
  <2>2. UNCHANGED <<inhand, hashes, processed, accepted>> /\ digesting = "receive"
    BY <1>7 DEF DropEvent
  <2>. QED
    BY <2>1, <2>2, <1>2, <1>a
<1>8. CASE TakeEvent
  <2>1. /\ Len(membrane') \in Nat /\ Len(membrane') = Len(membrane) - 1
        /\ Len(inhand') = 1 /\ Len(inhand) = 0
    BY <1>8, <1>a, HeadTailProperties DEF TakeEvent, TypesAndHolds, DigestTypeOK
  <2>2. UNCHANGED <<hashes, processed, accepted>> /\ digesting = "receive"
    BY <1>8 DEF TakeEvent
  <2>. QED
    BY <2>1, <2>2, <1>2, <1>a
<1>9. CASE DigestEvent
  <2>1. /\ Len(membrane') + Len(inhand') + Len(hashes') <= accepted'
        /\ MaxFed <= HashCapacity =>
             Cardinality(HashesIn(hashes')) - processed'
               = Cardinality(HashesIn(hashes)) - processed
    BY <1>9, DigestCounts DEF Flow, FlowBounded, TypesAndHolds
  <2>2. /\ hashes' \in Seq(MmrMessage) /\ processed' \in Nat
        /\ accepted' = accepted
    <3>1. DigestTypeOK'
      BY <1>9, NextDigestTyped DEF TypesAndHolds, DigestStep, Digestor
    <3>. QED
      BY <1>9, <3>1 DEF DigestTypeOK, DigestEvent
  <2>3. Cardinality(HashesIn(hashes')) \in Nat
    BY <2>2, CountFinite
  <2>4. FlowBounded'
    BY <2>1, <2>2 DEF Flow, FlowBounded
  <2>5. FlowCounted'
    <3>1. PICK c \in Nat : c = Cardinality(HashesIn(hashes))
      BY <1>b
    <3>2. PICK d \in Nat : d = Cardinality(HashesIn(hashes'))
      BY <2>3
    <3>3. PICK i \in Nat : i = IF consuming = "insert" THEN 1 ELSE 0
      OBVIOUS
    <3>4. PICK p \in Nat : p = processed'
      BY <2>2
    <3>5. /\ c \in Nat /\ d \in Nat /\ i \in Nat /\ p \in Nat
          /\ processed \in Nat /\ recovered \in Nat /\ Len(leaves) \in Nat
      BY <1>a, <3>1, <3>2, <3>3, <3>4
    <3>6. MaxFed <= HashCapacity =>
            /\ d - p = c - processed
            /\ recovered + processed = Len(leaves) + i + c
      BY <2>1, <3>1, <3>2, <3>3, <3>4 DEF Flow, FlowCounted
    <3>7. MaxFed <= HashCapacity => recovered + p = Len(leaves) + i + d
      BY ONLY <3>5, <3>6
    <3>. QED
      BY <3>2, <3>3, <3>4, <3>7, <1>c DEF FlowCounted, HashesIn
  <2>6. FlowEnds'
    BY <1>9, <1>c DEF DigestEvent, Flow, FlowEnds, IsOpen
  <2>. QED
    BY <2>4, <2>5, <2>6 DEF Flow
<1>. QED
  BY <1>3, <1>4, <1>5, <1>6, <1>7, <1>8, <1>9 DEF DigestorStep, Digestor

\* A message that the consumer takes, and the leaf it makes of it.
LEMMA FlowOfHashes ==
  ASSUME TypesAndHolds, Flow,
         ConsumerReceive \/ ConsumerInsert \/ ConsumerEnd
  PROVE  Flow'
<1>a. /\ hashes \in Seq(MmrMessage) /\ Len(hashes) \in Nat
      /\ Len(membrane) \in Nat /\ Len(inhand) \in Nat
      /\ accepted \in Nat /\ processed \in Nat
      /\ leaves \in Seq(Hash) /\ Len(leaves) \in Nat /\ recovered \in Nat
  BY DEF TypesAndHolds, DigestTypeOK, SupervisorTypeOK
<1>b. Cardinality(HashesIn(hashes)) \in Nat
  BY <1>a, CountFinite
<1>c. UNCHANGED <<membrane, inhand, accepted, processed, digesting, recovered,
                  dropping, mode>>
  BY DEF ConsumerReceive, ConsumerInsert, ConsumerEnd, TakeHash, walVars,
     digestVars
<1>d. /\ FlowBounded /\ FlowEnds
      /\ MaxFed <= HashCapacity =>
           recovered + processed
             = Len(leaves) + (IF consuming = "insert" THEN 1 ELSE 0)
                 + Cardinality(HashesIn(hashes))
  BY DEF Flow, FlowCounted
<1>1. CASE ConsumerReceive
  <2>1. /\ hashes # <<>> /\ hashes' = Tail(hashes) /\ leaves' = leaves
        /\ consuming = "receive"
        /\ consuming' = IF Head(hashes).kind = "hash" THEN "insert" ELSE "seal"
    BY <1>1 DEF ConsumerReceive, TakeHash
  <2>2. /\ hashes' \in Seq(MmrMessage) /\ Len(hashes') \in Nat
        /\ Len(hashes') = Len(hashes) - 1
    BY <1>a, <2>1, HeadTailProperties
  <2>3. /\ Cardinality(HashesIn(hashes')) \in Nat
        /\ Cardinality(HashesIn(hashes))
             = Cardinality(HashesIn(hashes'))
                 + (IF Head(hashes).kind = "hash" THEN 1 ELSE 0)
    BY <1>a, <2>1, <2>2, CountFinite, CountTaken
  <2>4. FlowBounded'
    BY <1>a, <1>c, <1>d, <2>2 DEF FlowBounded
  <2>5. MaxFed <= HashCapacity =>
          recovered + processed
            = Len(leaves) + (IF Head(hashes).kind = "hash" THEN 1 ELSE 0)
                + Cardinality(HashesIn(hashes'))
    BY <1>a, <1>b, <1>d, <2>1, <2>3
  <2>6. FlowCounted'
    BY <1>c, <2>1, <2>5 DEF FlowCounted, HashesIn
  <2>7. FlowEnds'
    BY <1>c, <1>d, <2>1 DEF FlowEnds, IsOpen
  <2>. QED
    BY <2>4, <2>6, <2>7 DEF Flow
<1>2. CASE ConsumerInsert
  <2>1. /\ leaves' = Append(leaves, Sha(carried[1].value))
        /\ consuming = "insert" /\ consuming' = "log" /\ hashes' = hashes
    BY <1>2 DEF ConsumerInsert, digestVars
  <2>2. Len(leaves') = Len(leaves) + 1
    BY <1>a, <2>1
  <2>3. MaxFed <= HashCapacity =>
          recovered + processed
            = Len(leaves') + 0 + Cardinality(HashesIn(hashes))
    BY <1>a, <1>b, <1>d, <2>1, <2>2
  <2>4. FlowCounted'
    BY <1>c, <2>1, <2>3 DEF FlowCounted, HashesIn
  <2>5. FlowBounded' /\ FlowEnds'
    BY <1>c, <1>d, <2>1 DEF FlowBounded, FlowEnds, IsOpen
  <2>. QED
    BY <2>4, <2>5 DEF Flow
<1>3. CASE ConsumerEnd
  <2>1. /\ UNCHANGED <<leaves, hashes>> /\ hashes = <<>>
        /\ digesting = "stopped"
        /\ consuming = "receive" /\ consuming' = "stopped"
    BY <1>3 DEF ConsumerEnd, digestVars
  <2>. QED
    BY <1>c, <2>1 DEF Flow, FlowBounded, FlowCounted, FlowEnds, HashesIn, IsOpen
<1>. QED
  BY <1>1, <1>2, <1>3

\* Each step keeps the account of events, hashes and leaves.
LEMMA NextFlow ==
  ASSUME TypesAndHolds, Flow, [SupervisorNext]_allVars
  PROVE  Flow'
<1>1. CASE SpawnFile
  BY <1>1, FlowUntouched DEF SpawnFile, CreateFile, digestVars, supVars,
     consumerVars, Flow, FlowBounded, FlowCounted, FlowEnds, HashesIn, IsOpen
<1>2. CASE SpawnFresh \/ SpawnAgain \/ Die \/ DropEnd
  <2>1. <<>> \in Seq(Hash) /\ ReplayedHashes(file) \in Seq(Hash)
    BY ReplayedType DEF TypesAndHolds, WalTypeOK
  <2>2. PICK ls \in Seq(Hash) : StartThreads(ls)
    BY <1>2, <2>1 DEF SpawnFresh, SpawnAgain, Die, DropEnd
  <2>. QED
    BY <2>2, FlowStarts
<1>3. CASE FeedEvent \/ FeedHeartbeat \/ DigestorStep
  BY <1>3, FlowOfEvents
<1>4. CASE ConsumerReceive \/ ConsumerInsert \/ ConsumerEnd
  BY <1>4, FlowOfHashes
<1>5. CASE ConsumerLog \/ ConsumerWrite \/ ConsumerSeal
  <2>1. /\ UNCHANGED <<digestVars, leaves, recovered, dropping>>
        /\ consuming \in {"log", "write", "seal"}
        /\ consuming' \in {"write", "receive"}
    BY <1>5 DEF ConsumerLog, ConsumerWrite, ConsumerSeal
  <2>2. mode' = mode
    BY <1>5, WritersAre, CallsOnTheLog DEF ConsumerLog, ConsumerWrite,
       ConsumerSeal, walVars, TypesAndHolds
  <2>. QED
    BY <2>1, <2>2 DEF digestVars, Flow, FlowBounded, FlowCounted, FlowEnds,
       HashesIn, IsOpen
<1>6. CASE \/ SendCommand \/ CommandCheck \/ CommandTimeout \/ CommandVeto
           \/ CommandLog \/ CommandWrite \/ CommandShutdown
  <2>1. UNCHANGED <<membrane, inhand, hashes, accepted, processed, digesting>>
    BY <1>6 DEF SendCommand, CommandCheck, CommandTimeout, CommandVeto,
       CommandLog, CommandWrite, CommandShutdown, digestVars
  <2>2. UNCHANGED <<recovered, leaves, consuming, dropping>>
    BY <1>6 DEF SendCommand, CommandCheck, CommandTimeout, CommandVeto,
       CommandLog, CommandWrite, CommandShutdown, consumerVars
  <2>3. mode' = mode
    BY <1>6, WritersAre, CallsOnTheLog DEF SendCommand, CommandCheck,
       CommandTimeout, CommandVeto, CommandLog, CommandWrite, CommandShutdown,
       walVars, TypesAndHolds
  <2>. QED
    BY <2>1, <2>2, <2>3, FlowUntouched DEF IsOpen
<1>7. CASE SealBegin \/ SealStep \/ SealEnd
  <2>1. UNCHANGED <<digestVars, recovered, leaves, consuming, dropping>>
    BY <1>7 DEF SealBegin, SealStep, SealEnd, consumerVars
  <2>2. mode' = mode
    <3>1. SealBegin => mode' = mode
      BY DEF SealBegin, walVars
    <3>2. SealStep \/ SealEnd => mode' = mode
      BY WritersAre, CallsOnTheLog DEF SealStep, SealEnd, TypesAndHolds
    <3>. QED
      BY <1>7, <3>1, <3>2
  <2>. QED
    BY <2>1, <2>2, FlowUntouched DEF IsOpen, digestVars
<1>8. CASE Consolidate \/ ConsolidationEnd \/ ZkProve \/ ZkEnd \/ TakeProof
           \/ UNCHANGED allVars
  <2>1. UNCHANGED <<walVars, digestVars, recovered, leaves, consuming, dropping>>
    BY <1>8 DEF Consolidate, ConsolidationEnd, ZkProve, ZkEnd, TakeProof,
       allVars, supVars, consumerVars
  <2>. QED
    BY <2>1, FlowUntouched DEF IsOpen, walVars, digestVars
<1>9. CASE DropBegin \/ JoinNext
  <2>1. UNCHANGED <<membrane, inhand, hashes, accepted, processed, recovered,
                    leaves, consuming, digesting, mode>>
    BY <1>9 DEF DropBegin, JoinNext, Join, walVars, digestVars, consumerVars
  <2>2. IsOpen /\ (dropping' \in {"digestor", "mmr"} \/ consuming = "stopped")
    BY <1>9 DEF DropBegin, JoinNext, Join, Flow, FlowEnds
  <2>. QED
    BY <2>1, <2>2 DEF Flow, FlowBounded, FlowCounted, FlowEnds, HashesIn, IsOpen
<1>. QED
  BY <1>1, <1>2, <1>3, <1>4, <1>5, <1>6, <1>7, <1>8, <1>9
  DEF SupervisorNext, MmrConsumer, CommandProcessor, SealCaller

\* A supervisor that was dropped, and whose disk refused no append, has in the
\* log each hash the digestor handed over, if the channel has a slot for each
\* event there can be.
THEOREM SupervisorDropLogsAll ==
  ASSUME HashTypes
  PROVE  SupervisorSpec => []DropLogsAll
<1>1. SupervisorInit => Flow
  <2> SUFFICES ASSUME SupervisorInit PROVE Flow
    OBVIOUS
  <2>1. /\ Len(membrane) = 0 /\ Len(inhand) = 0 /\ hashes = <<>>
        /\ accepted = 0 /\ processed = 0 /\ recovered = 0
        /\ consuming = "receive" /\ dropping = "none" /\ Len(leaves) = 0
    BY DEF SupervisorInit, DigestInit
  <2>2. Len(hashes) = 0 /\ Cardinality(HashesIn(hashes)) = 0
    BY <2>1, CountEmpty
  <2>. QED
    BY <2>1, <2>2, DigestAssumption DEF Flow, FlowBounded, FlowCounted, FlowEnds
<1>2. TypesAndHolds /\ Flow /\ [SupervisorNext]_allVars => Flow'
  BY NextFlow
<1>3. ASSUME TypesAndHolds, Flow, LogInv PROVE DropLogsAll
  <2> SUFFICES ASSUME dropping = "done", unlogged = 0, MaxFed <= HashCapacity
               PROVE  /\ IndexesLogged = recovered..(recovered + processed - 1)
                      /\ Len(leaves) = recovered + processed
    BY DEF DropLogsAll
  <2>1. IsOpen /\ consuming = "stopped" /\ hashes = <<>>
    BY <1>3 DEF Flow, FlowEnds
  <2>2. Len(leaves) \in Nat /\ recovered \in Nat /\ processed \in Nat
    BY <1>3 DEF TypesAndHolds, SupervisorTypeOK, DigestTypeOK
  <2>3. Cardinality(HashesIn(hashes)) = 0
    BY <2>1, CountEmpty
  <2>4. recovered + processed = Len(leaves)
    BY <1>3, <2>1, <2>2, <2>3 DEF Flow, FlowCounted
  <2>5. IndexesLogged = recovered..(Settled - 1)
    BY <1>3, <2>1 DEF LogInv, RecordsComplete
  <2>6. Settled - 1 = recovered + processed - 1
    BY <2>1, <2>2, <2>4 DEF Settled
  <2>7. IndexesLogged = recovered..(recovered + processed - 1)
    BY ONLY <2>5, <2>6
  <2>. QED
    BY <2>4, <2>7
<1>. QED
  BY <1>1, <1>2, <1>3, SupervisorLogInv, SupervisorTypeCorrect, PTL
  DEF SupervisorSpec

=============================================================================
