----------------------------- MODULE Heartbeat -----------------------------
(***************************************************************************)
(* Who is alive (crates/host/src/network/heartbeat.rs, PeerState of         *)
(* transport.rs, the heartbeats of handshake_runner.rs and                  *)
(* nex/action_executor.rs) beside the handshake: the listener records       *)
(* heartbeats, the sender counts misses, the monitor decides under the read *)
(* lock of peer_states, lets go of it, and then removes peers and schedules *)
(* reconnections.  An action is what a task does under one lock.  Time is   *)
(* how long ago a peer was heard: not for 30 seconds, not for 300.          *)
(***************************************************************************)
EXTENDS Handshake, Reactive

CONSTANTS
  MAX_PEER_STATES,   \* 512 in the code
  MIN_MISSES_FOR_INACTIVE,   \* 3 in the code
  Suspicious,        \* misses the rules hear of: 2 in the code
  MAX_ATTEMPTS,      \* should_reconnect(): 5 in the code
  RuleSources,       \* where the rules may come from: [saved, program], as InForce takes them
  MaxMisses,         \* bound of the model: misses are counted up to it
  MaxHeartbeats      \* bound of the model: heartbeats and acks received

ASSUME HeartbeatAssumption ==
  /\ MAX_PEER_STATES \in Nat \ {0} /\ MAX_ATTEMPTS \in Nat
  /\ MIN_MISSES_FOR_INACTIVE \in Nat \ {0}
  /\ Suspicious \in Nat \ {0}
  /\ MaxMisses \in Nat /\ MaxMisses >= MIN_MISSES_FOR_INACTIVE /\ MaxHeartbeats \in Nat

\* node_id: the name the monitor gives to a peer that went, "peer_" and its address.
\* A peer announces its own in the Hello, and none announces one of these.
Named(a) == <<"peer", a>>
ASSUME NamesAssumption == \A a \in Addrs : Named(a) \notin Keys \cup {NoKey}

VARIABLES
  states,      \* the map peer_states: address -> PeerState
  lastSeen,    \* its addresses, by last_seen
  sending,     \* the addresses the sender works on, or none
  monitoring,  \* where the monitor is: idle, read, act, remove, reconnect
  decided,     \* what the monitor decided under the read lock
  engine,      \* the rules of the monitor
  heartbeats   \* heartbeats received

heartbeatVars == <<states, lastSeen, sending, monitoring, decided, engine, heartbeats>>
nodeVars == <<handshakeVars, heartbeatVars>>

-----------------------------------------------------------------------------
\* heard: how long ago the last heartbeat of the window came, never for an
\* empty window; due: next_reconnect has come.
Ages == {"now", "30s", "300s"}
PeerState ==
  [heard : Ages \cup {"never"}, misses : 0..MaxMisses, attempts : Nat, due : BOOLEAN]
NewState == [heard |-> "never", misses |-> 0, attempts |-> 0, due |-> TRUE]

Known == DOMAIN states
\* The map with New of the state of each address in changed.
Changed(changed, New(_)) ==
  [a \in Known |-> IF a \in changed THEN New(states[a]) ELSE states[a]]

record_heartbeat(s) == [s EXCEPT !.heard = "now", !.misses = 0, !.attempts = 0]

\* n calls of record_miss().
record_miss(s, n) ==
  [s EXCEPT !.misses = IF @ + n < MaxMisses THEN @ + n ELSE MaxMisses]

\* Mutant: a window without heartbeats is not a reason.
is_inactive_heard(s, longer) ==
  s.heard \in longer /\ s.misses >= MIN_MISSES_FOR_INACTIVE

\* longer: the ages above the timeout.
is_inactive(s, longer) ==
  \/ s.heard = "never"
  \/ s.heard \in longer /\ s.misses >= MIN_MISSES_FOR_INACTIVE

should_reconnect(s) == s.due /\ s.attempts <= MAX_ATTEMPTS

schedule_reconnect(s) == [s EXCEPT !.attempts = @ + 1, !.due = FALSE]

-----------------------------------------------------------------------------
NoAddrs == [n \in {} |-> NoKey]
NoEvents == [a \in {} |-> PeerDisconnected(NoKey)]
Nothing == [remove |-> {}, reconnect |-> {}, events |-> NoEvents, addrOf |-> NoAddrs]
HeartbeatInit ==
  /\ HandshakeInit
  /\ states = [a \in {} |-> NewState] /\ lastSeen = <<>>
  /\ sending = {} /\ monitoring = "idle"
  /\ decided = Nothing /\ heartbeats = 0
  /\ \E src \in RuleSources : engine = InForce(src.saved, src.program)

\* A peer with a state is heard now.
Heard(a) ==
  /\ states' = Changed({a}, record_heartbeat)
  /\ lastSeen' = Append(SelectSeq(lastSeen, LAMBDA b : b # a), a)

\* A heartbeat of a peer with a session: at the limit the peer not seen for the
\* longest makes room.  What is new has an empty window.
HeartbeatMessage(a) ==
  /\ Receiving /\ a \in DOMAIN sessions /\ heartbeats < MaxHeartbeats
  /\ IF a \in Known THEN Heard(a)
     ELSE IF Full(states, MAX_PEER_STATES)
     THEN /\ states' = Put(Without(states, Head(lastSeen)), a, NewState)
          /\ lastSeen' = Append(Tail(lastSeen), a)
     ELSE states' = Put(states, a, NewState) /\ lastSeen' = Append(lastSeen, a)
  /\ heartbeats' = heartbeats + 1
  /\ UNCHANGED <<handshakeVars, sending, monitoring, decided, engine>>

HeartbeatAck(a) ==
  /\ Receiving /\ a \in Known /\ heartbeats < MaxHeartbeats
  /\ Heard(a)
  /\ heartbeats' = heartbeats + 1
  /\ UNCHANGED <<handshakeVars, sending, monitoring, decided, engine>>

\* The sender reads the list of trusted peers and sends to each of them; then
\* it counts the misses of those it read, and adds those without a state.
SenderTick ==
  /\ sending = {} /\ trusted # <<>>
  /\ sending' = TrustedAddrs
  /\ UNCHANGED <<handshakeVars, states, lastSeen, monitoring, decided, engine, heartbeats>>
Missed(silent) ==
  /\ states' = [a \in Known \cup sending |->
                  IF a \in silent THEN record_miss(states[a], 1)
                  ELSE IF a \in Known THEN states[a] ELSE NewState]
  /\ lastSeen' = lastSeen \o SetToSeq(sending \ Known)
  /\ sending' = {}
  /\ UNCHANGED <<handshakeVars, monitoring, decided, engine, heartbeats>>
\* Mutant: who is silent for 30 seconds is missed.
SenderRecordByAge ==
  /\ sending # {}
  /\ Missed({a \in sending \cap Known : states[a].heard # "now"})
SenderRecord ==
  /\ sending # {}
  /\ Missed({a \in sending \cap Known : is_inactive(states[a], {"30s", "300s"})})

\* The monitor decides under the read lock ...
Outlived(a) == is_inactive(states[a], {"300s"})
Reconnects(a) ==
  /\ ~Outlived(a)
  /\ states[a].misses >= MIN_MISSES_FOR_INACTIVE /\ should_reconnect(states[a])
Suspected(a) == ~Outlived(a) /\ states[a].misses >= Suspicious
EventOf(a) ==
  IF Outlived(a) THEN PeerDisconnected(Named(a)) ELSE HeartbeatMiss(states[a].misses)
MonitorCheck ==
  LET noticed == {a \in Known : Outlived(a) \/ Reconnects(a) \/ Suspected(a)}
  IN /\ monitoring = "idle" /\ noticed # {}
     /\ decided' = [remove |-> {a \in Known : Outlived(a)},
                    reconnect |-> {a \in Known : Reconnects(a)},
                    events |-> [a \in noticed |-> EventOf(a)],
                    addrOf |-> NoAddrs]
     /\ monitoring' = "read"
     /\ UNCHANGED <<handshakeVars, states, lastSeen, sending, engine, heartbeats>>

\* ... reads the names of the trusted peers, of one name any ...
Names == {trusted[i].key : i \in DOMAIN trusted}
MonitorRead ==
  /\ monitoring = "read"
  /\ \E addrOf \in [Names -> TrustedAddrs] :
       /\ \A n \in Names : \E i \in DOMAIN trusted :
            trusted[i].key = n /\ trusted[i].addr = addrOf[n]
       /\ decided' = [decided EXCEPT !.addrOf = addrOf]
  /\ monitoring' = "act"
  /\ UNCHANGED <<handshakeVars, states, lastSeen, sending, engine, heartbeats>>

\* What is left to do of a round.
Proceed(d) ==
  LET acted == DOMAIN d.events = {} IN
  /\ decided' = IF acted THEN [d EXCEPT !.addrOf = NoAddrs] ELSE d
  /\ monitoring' = CASE ~acted -> "act"
                     [] acted /\ d.remove # {} -> "remove"
                     [] acted /\ d.remove = {} /\ d.reconnect # {} -> "reconnect"
                     [] OTHER -> "idle"

\* ... hands one event after the other to the rules, which may mark peers, ...
MonitorAct ==
  /\ monitoring = "act"
  /\ \E a \in DOMAIN decided.events :
       /\ LET actions == Evaluate(engine, decided.events[a])
          IN states' = [b \in Known |->
                          record_miss(states[b], Execute(actions, decided.addrOf, b))]
       /\ Proceed([decided EXCEPT !.events = Without(@, a)])
  /\ UNCHANGED <<handshakeVars, lastSeen, sending, engine, heartbeats>>

\* ... removes, from the list and from the states, what it decided to remove, and
\* schedules the reconnections.
MonitorApply ==
  /\ monitoring \in {"remove", "reconnect"}
  /\ IF monitoring = "remove"
     THEN /\ states' = [a \in Known \ decided.remove |-> states[a]]
          /\ lastSeen' = SelectSeq(lastSeen, LAMBDA a : a \notin decided.remove)
          /\ trusted' = remove(trusted, decided.remove)
          /\ Proceed([decided EXCEPT !.remove = {}])
     ELSE /\ states' = Changed(decided.reconnect, schedule_reconnect)
          /\ Proceed([decided EXCEPT !.reconnect = {}])
          /\ UNCHANGED <<trusted, lastSeen>>
  /\ UNCHANGED <<pending, sessions, listening, authenticating, begun, derived,
                 sending, engine, heartbeats>>

\* Time passes for a peer: its heartbeat gets older, its reconnection comes due.
Older(heard) == IF heard = "now" THEN "30s" ELSE IF heard = "30s" THEN "300s" ELSE heard
PeerAges(a) ==
  /\ a \in Known
  /\ states' = [states EXCEPT ![a].heard = Older(@), ![a].due = TRUE]
  /\ UNCHANGED <<handshakeVars, lastSeen, sending, monitoring, decided, engine, heartbeats>>

Sender == SenderTick \/ SenderRecord
Monitor == MonitorCheck \/ MonitorRead \/ MonitorAct \/ MonitorApply

HeartbeatNext ==
  \/ HandshakeNext /\ UNCHANGED heartbeatVars
  \/ \E a \in Addrs :
       HeartbeatMessage(a) \/ HeartbeatAck(a) \/ PeerAges(a)
  \/ Sender \/ Monitor

HeartbeatSpec == HeartbeatInit /\ [][HeartbeatNext]_nodeVars

\* Time passes, the tasks are scheduled and their intervals end.
FairHeartbeatSpec ==
  /\ HeartbeatSpec
  /\ WF_nodeVars(Monitor)
  /\ \A a \in Addrs : WF_handshakeVars(PendingExpires(a))
  /\ WF_handshakeVars(PendingCleanup)

-----------------------------------------------------------------------------

\* Only silence is counted that was never broken: the sender asks is_inactive(30), and
\* that asks for misses.  A peer that was heard has none until the state goes: a look at
\* it finds no reason to suspect, reconnect or remove it, however long it is silent and
\* whatever the rules mark ("inativo por mais de 5 minutos", heartbeat.rs:129, is never).
SilenceUncounted ==
  /\ \A a \in Known :
       states[a].heard # "never" => states[a].misses = 0 /\ states[a].attempts = 0
  /\ decided.reconnect = {}

\* A state that is left without a peer, because the sender had read the list
\* before the monitor removed the peer, does not stay: it is heard of, or goes.
OrphanLeaves ==
  \A a \in Addrs :
    (a \in Known /\ states[a].heard = "never")
      ~> (a \notin Known \/ states[a].heard # "never")

=============================================================================
