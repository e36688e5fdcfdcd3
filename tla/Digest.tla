------------------------------- MODULE Digest -------------------------------
(***************************************************************************)
(* The bio loop (nexoia-core/bio_loop): producers and the heart feed a      *)
(* bounded channel, the membrane; the digestor thread takes one event at a  *)
(* time, hashes the data and passes the hashes on by try_send.  Above a     *)
(* high watermark it enters suppression, in which it takes events and       *)
(* throws them away, until the backlog falls below a low watermark.         *)
(***************************************************************************)
EXTENDS Integers, Sequences

CONSTANTS
  MembraneCapacity,   \* MEMBRANE_CAPACITY, 1024 in the code
  HashCapacity,       \* slots of the hash channel, 1024
  SealPeriod,         \* one heartbeat in so many asks for a seal, 10
  MaxFed,             \* bound on the events the membrane accepts
  MaxTicks            \* bound on the beats of the heart

ASSUME DigestAssumption ==
  /\ MembraneCapacity \in Nat \ {0} /\ HashCapacity \in Nat \ {0}
  /\ SealPeriod \in Nat \ {0}
  /\ MaxFed \in Nat /\ MaxTicks \in Nat

HYSTERESIS_HIGH == (MembraneCapacity * 80) \div 100
HYSTERESIS_LOW == (MembraneCapacity * 20) \div 100

VARIABLES
  membrane,     \* the bounded channel of events
  connected,    \* some Sender of the membrane is alive
  running,      \* the AtomicBool shared by the threads
  digesting,    \* where the digestor is: "check", "measure", "receive",
                \* "digest" or "stopped"
  inhand,       \* the event it took and has not digested, as a sequence
  suppressed,   \* local state of the hysteresis
  hashes,       \* the bounded channel of MmrMessages
  processed, dropped, suppressions,   \* DigestorMetrics
  tick,         \* the beats of the heart
  accepted      \* history: how many events the membrane accepted

digestVars == <<membrane, connected, running, digesting, inhand, suppressed,
                hashes, processed, dropped, suppressions, tick, accepted>>

DataEvent(p) == [kind |-> "data", value |-> p]
HeartbeatEvent(t) == [kind |-> "heartbeat", value |-> t]
ShutdownEvent == [kind |-> "shutdown", value |-> 0]
HashOf(p) == [kind |-> "hash", value |-> p]
SealRequest == [kind |-> "seal", value |-> 0]

\* The message a digested event sends, as a sequence; data is known by the
\* payload, its SHA-256 being a function of it.
MessageOf(ev) ==
  IF ev.kind = "data" THEN <<HashOf(ev.value)>>
  ELSE IF ev.kind = "heartbeat" /\ ev.value % SealPeriod = 0
       THEN <<SealRequest>>
  ELSE <<>>

\* try_send on a bounded channel: a full channel keeps what it holds.
TrySend(channel, capacity, msgs) ==
  IF Len(channel) + Len(msgs) <= capacity THEN channel \o msgs ELSE channel

-----------------------------------------------------------------------------
DigestInit ==
  /\ membrane = <<>> /\ connected = TRUE /\ running = TRUE
  /\ digesting = "check" /\ inhand = <<>> /\ suppressed = FALSE
  /\ hashes = <<>>
  /\ processed = 0 /\ dropped = 0 /\ suppressions = 0
  /\ tick = 0 /\ accepted = 0

\* A try_send that the membrane accepts; when it is full, or the digestor has
\* dropped its end, the sender gets the event back and nothing changes.
Feed(ev) ==
  /\ connected /\ digesting # "stopped"
  /\ Len(membrane) < MembraneCapacity
  /\ membrane' = Append(membrane, ev)
  /\ accepted' = accepted + 1

FeedData ==
  /\ accepted < MaxFed
  /\ Feed(DataEvent(accepted + 1))
  /\ UNCHANGED <<connected, running, digesting, inhand, suppressed, hashes,
                 processed, dropped, suppressions, tick>>

FeedShutdown ==
  /\ accepted < MaxFed
  /\ Feed(ShutdownEvent)
  /\ UNCHANGED <<connected, running, digesting, inhand, suppressed, hashes,
                 processed, dropped, suppressions, tick>>

\* One turn of spawn_heart(): the beat is lost when the membrane is full.
Beat ==
  /\ running /\ connected
  /\ tick < MaxTicks
  /\ tick' = tick + 1
  /\ IF accepted < MaxFed /\ Len(membrane) < MembraneCapacity
          /\ digesting # "stopped"
     THEN Feed(HeartbeatEvent(tick))
     ELSE UNCHANGED <<membrane, accepted>>
  /\ UNCHANGED <<connected, running, digesting, inhand, suppressed, hashes,
                 processed, dropped, suppressions>>

\* The owner stores running = false, or drops the last Sender.
RequestStop ==
  /\ running
  /\ running' = FALSE
  /\ UNCHANGED <<membrane, connected, digesting, inhand, suppressed, hashes,
                 processed, dropped, suppressions, tick, accepted>>

Disconnect ==
  /\ connected
  /\ connected' = FALSE
  /\ UNCHANGED <<membrane, running, digesting, inhand, suppressed, hashes,
                 processed, dropped, suppressions, tick, accepted>>

-----------------------------------------------------------------------------
\* Mutant: the flag is not looked at.
CheckNothing ==
  /\ digesting = "check"
  /\ digesting' = "measure"
  /\ UNCHANGED <<membrane, connected, running, inhand, suppressed, hashes,
                 processed, dropped, suppressions, tick, accepted>>

\* run(): the head of the loop.  A digestor that ends drops the Receiver, and
\* the events in the membrane with it.
CheckRunning ==
  /\ digesting = "check"
  /\ IF running
     THEN digesting' = "measure" /\ UNCHANGED membrane
     ELSE digesting' = "stopped" /\ membrane' = <<>>
  /\ UNCHANGED <<connected, running, inhand, suppressed, hashes, processed,
                 dropped, suppressions, tick, accepted>>

\* Mutants: one watermark for both ways; suppression ends with the backlog.
MeasureOneMark ==
  /\ digesting = "measure"
  /\ digesting' = "receive"
  /\ suppressed' = (Len(membrane) >= HYSTERESIS_HIGH)
  /\ suppressions' = IF suppressed' /\ ~suppressed THEN suppressions + 1
                     ELSE suppressions
  /\ UNCHANGED <<membrane, connected, running, inhand, hashes, processed,
                 dropped, tick, accepted>>

\* The backlog is read once; producers may add to it before the event is taken.
Measure ==
  /\ digesting = "measure"
  /\ digesting' = "receive"
  /\ suppressed' = (Len(membrane) >= IF suppressed THEN HYSTERESIS_LOW
                                      ELSE HYSTERESIS_HIGH)
  /\ suppressions' = IF suppressed' /\ ~suppressed THEN suppressions + 1
                     ELSE suppressions
  /\ UNCHANGED <<membrane, connected, running, inhand, hashes, processed,
                 dropped, tick, accepted>>

\* Under suppression any event is thrown away, whatever its kind.
DropEvent ==
  /\ digesting = "receive" /\ membrane # <<>> /\ suppressed
  /\ membrane' = Tail(membrane)
  /\ dropped' = dropped + 1
  /\ digesting' = "check"
  /\ UNCHANGED <<connected, running, inhand, suppressed, hashes, processed,
                 suppressions, tick, accepted>>

TakeEvent ==
  /\ digesting = "receive" /\ membrane # <<>> /\ ~suppressed
  /\ membrane' = Tail(membrane)
  /\ inhand' = <<Head(membrane)>>
  /\ digesting' = "digest"
  /\ UNCHANGED <<connected, running, suppressed, hashes, processed, dropped,
                 suppressions, tick, accepted>>

ReceiveTimeout ==
  /\ digesting = "receive" /\ membrane = <<>> /\ connected
  /\ digesting' = "check"
  /\ UNCHANGED <<membrane, connected, running, inhand, suppressed, hashes,
                 processed, dropped, suppressions, tick, accepted>>

ReceiveDisconnected ==
  /\ digesting = "receive" /\ membrane = <<>> /\ ~connected
  /\ digesting' = "stopped"
  /\ UNCHANGED <<membrane, connected, running, inhand, suppressed, hashes,
                 processed, dropped, suppressions, tick, accepted>>

\* digest_event().
DigestEvent ==
  /\ digesting = "digest"
  /\ LET ev == Head(inhand)
     IN /\ hashes' = TrySend(hashes, HashCapacity, MessageOf(ev))
        /\ processed' = IF ev.kind = "data" THEN processed + 1 ELSE processed
        /\ running' = (running /\ ev.kind # "shutdown")
  /\ inhand' = <<>>
  /\ digesting' = "check"
  /\ UNCHANGED <<membrane, connected, suppressed, dropped, suppressions, tick,
                 accepted>>

Digestor ==
  \/ CheckRunning \/ Measure \/ DropEvent \/ TakeEvent
  \/ ReceiveTimeout \/ ReceiveDisconnected \/ DigestEvent

\* Whoever reads the hash channel takes one message.
TakeHash ==
  /\ hashes # <<>>
  /\ hashes' = Tail(hashes)
  /\ UNCHANGED <<membrane, connected, running, digesting, inhand, suppressed,
                 processed, dropped, suppressions, tick, accepted>>

DigestNext ==
  \/ FeedData \/ FeedShutdown \/ Beat \/ RequestStop \/ Disconnect
  \/ Digestor \/ TakeHash

DigestSpec == DigestInit /\ [][DigestNext]_digestVars

\* The digestor is a thread the scheduler runs; producers owe nothing.
FairDigestSpec == DigestSpec /\ WF_digestVars(Digestor)

-----------------------------------------------------------------------------
Event == [kind : {"data", "heartbeat", "shutdown"}, value : Nat]
MmrMessage == [kind : {"hash", "seal"}, value : Nat]

\* Type invariant of the bio loop.
DigestTypeOK ==
  /\ membrane \in Seq(Event) /\ Len(membrane) <= MembraneCapacity
  /\ connected \in BOOLEAN /\ running \in BOOLEAN /\ suppressed \in BOOLEAN
  /\ digesting \in {"check", "measure", "receive", "digest", "stopped"}
  /\ inhand \in Seq(Event)
  /\ Len(inhand) = IF digesting = "digest" THEN 1 ELSE 0
  /\ hashes \in Seq(MmrMessage) /\ Len(hashes) <= HashCapacity
  /\ processed \in Nat /\ dropped \in Nat /\ suppressions \in Nat
  /\ tick \in Nat /\ accepted \in Nat

\* The asymmetry of the watermarks keeps the digestor from flapping: the first
\* suppression takes HIGH events, and each one after it takes as many fresh
\* events as the backlog fell by in between, HIGH - LOW + 1.
NoFlapping ==
  suppressions > 0 =>
    accepted >= HYSTERESIS_HIGH
                  + (suppressions - 1) * (HYSTERESIS_HIGH - HYSTERESIS_LOW + 1)

\* A digestor told to stop, or left without senders, ends.
StopsWhenTold == (~running \/ ~connected) ~> digesting = "stopped"

=============================================================================
