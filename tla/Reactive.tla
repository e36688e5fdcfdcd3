------------------------------ MODULE Reactive ------------------------------
(***************************************************************************)
(* The reactive rules of a node (crates/host/src/nex/reactive.rs and        *)
(* nex/action_executor.rs): how an engine takes up rules, what an event     *)
(* sets off, and what that does to the states of the peers.  Rules come     *)
(* from the checkpoint, a file of NEX or the defaults (main.rs).  What a    *)
(* rule prints is left out; what AdjustReputation does is in module         *)
(* Records.                                                                 *)
(***************************************************************************)
EXTENDS Integers, FiniteSets, Sequences, SequencesExt

Layers == <<"basic", "intermediate", "advanced">>
Level(layer) == CHOOSE i \in DOMAIN Layers : Layers[i] = layer

\* Statements and rules: on a trigger, actions; or a block for an event.
OnTrigger(trigger, threshold, actions) ==
  [kind |-> "on", trigger |-> trigger, threshold |-> threshold, actions |-> actions]
OnEvent(event, body) ==
  [kind |-> "block", trigger |-> event, threshold |-> 0, actions |-> body]

\* Events of one peer: who it is and how often it was missed.
HeartbeatMiss(count) == [kind |-> "heartbeat_miss", node |-> "none", value |-> count]
PeerDisconnected(node) == [kind |-> "peer_disconnected", node |-> node, value |-> 0]

Say(what) == [kind |-> what, peer |-> "none"]     \* log, emit
MarkInactive(peer) == [kind |-> "mark_inactive", peer |-> peer]
RunNexBlock(peer) == [kind |-> "run_block", peer |-> peer]

\* Only an engine of the advanced layer takes rules.
AddRule(layer, rules, rule) ==
  IF Level(layer) < Level("advanced") THEN rules ELSE Append(rules, rule)
AddRules(layer, added) == FoldLeft(LAMBDA rules, r : AddRule(layer, rules, r), <<>>, added)
LoadFromProgram(layer, program) ==
  AddRules(layer, SelectSeq(program, LAMBDA s : s.kind \in {"on", "block"}))

\* A trigger with a threshold: enough misses, or too little reputation.
MatchesTrigger(rule, event) ==
  /\ rule.trigger = event.kind
  /\ event.kind = "heartbeat_miss" => event.value >= rule.threshold
  /\ event.kind = "reputation_below" => event.value < rule.threshold
\* A block: the threshold and the window it states are nobody's concern, and a
\* missed heartbeat, which names no peer, never sets it off.
MatchesEvent(rule, event) ==
  rule.trigger = event.kind /\ event.kind \in {"zk_proof_invalid", "malformed_packet"}

\* The peer that went is marked, whatever peer the rule names.
PrepareAction(action, event) ==
  IF action.kind = "mark_inactive" /\ event.kind = "peer_disconnected"
  THEN MarkInactive(event.node) ELSE action

\* What the rules set off, each action at the place it has in its rule.
Fires(rule, event) ==
  \/ rule.kind = "on" /\ MatchesTrigger(rule, event)
  \/ rule.kind = "block" /\ MatchesEvent(rule, event)
ActionsOf(rule, event) ==
  IF rule.kind = "block" THEN <<RunNexBlock(event.node)>>
  ELSE [j \in DOMAIN rule.actions |-> PrepareAction(rule.actions[j], event)]
Evaluate(rules, event) ==
  UNION {{[rule |-> i, place |-> j, action |-> ActionsOf(rules[i], event)[j]] :
            j \in DOMAIN ActionsOf(rules[i], event)} :
           i \in {k \in DOMAIN rules : Fires(rules[k], event)}}

\* What actions do to the peer at an address: how often they mark it, each time one
\* heartbeat missed more.  addrOf: the addresses by node_id.  A block that should
\* ban a peer bans nobody, as the caller hands over no membrane.
Execute(actions, addrOf, addr) ==
  Cardinality({x \in actions : /\ x.action.kind = "mark_inactive"
                               /\ x.action.peer \in DOMAIN addrOf
                               /\ addrOf[x.action.peer] = addr})

\* main(): the rules of the checkpoint, else those of a file that can be read, else
\* the defaults.
Defaults ==
  <<OnTrigger("heartbeat_miss", 3, <<Say("log")>>),
    OnTrigger("heartbeat_miss", 5, <<MarkInactive("default")>>)>>
NoFile == <<"no file">>
LoadFromFile(layer, program) ==
  IF program = NoFile THEN AddRules(layer, Defaults) ELSE LoadFromProgram(layer, program)
InForce(saved, program) ==
  IF saved # <<>> THEN AddRules("advanced", saved) ELSE LoadFromFile("advanced", program)
=============================================================================
