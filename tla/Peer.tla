------------------------------- MODULE Peer -------------------------------
(***************************************************************************)
(* Peers of the gossip layer (nexoia-core/gossip/src/peer.rs): the ring of  *)
(* behaviour samples and the trust score of a PeerState, and the PeerTable  *)
(* of fixed size.  An action is one call on the table or on the peer that   *)
(* get_mut() found in it; the calls come from one thread.                   *)
(***************************************************************************)
EXTENDS Integers, Sequences, FiniteSetsExt

CONSTANTS
  Ids,                  \* identities of peers
  MAX_PEERS,            \* slots of the table, 256 in the code
  TRUST_WINDOW_SIZE,    \* samples in the ring, 64 in the code
  None,                 \* an empty slot
  \* bounds of the model:
  Ticks,                \* the ticks at which calls are made
  MaxSamples            \* samples recorded of one peer

VARIABLES
  peers, count,   \* the table
  tick,           \* the tick of the last call
  \* history, read by no action:
  samples         \* of each identity, all samples since it was inserted

peerVars == <<peers, count, tick, samples>>

-----------------------------------------------------------------------------
TRUST_MAX == 100
TRUST_MIN == -100
TRUST_THRESHOLD_BAN == -50
SILENCE_DECAY_TICKS == 1000

Slots == 0..(MAX_PEERS - 1)
Ring == 0..(TRUST_WINDOW_SIZE - 1)
Sample == {"Good", "Bad"}
ConnectionState == {"Handshaking", "Active", "Suspended", "Banned"}

\* The values of an i16 and of a u8.
I16 == {n \in Int : -32768 <= n /\ n <= 32767}
U8 == {n \in Nat : n <= 255}

PeerState ==
  [id : Ids, trust_score : I16,
   behavior_window : [Ring -> Sample \cup {"Empty"}],
   window_head : Ring, window_fill : 0..TRUST_WINDOW_SIZE,
   last_active_tick : Nat, vdf_verified : BOOLEAN, strike_count : U8,
   connection : ConnectionState]

ASSUME PeerAssumption ==
  /\ MAX_PEERS \in Nat \ {0} /\ TRUST_WINDOW_SIZE \in Nat \ {0}
  /\ IsFiniteSet(Ids) /\ Ticks \subseteq Nat /\ 0 \in Ticks
  /\ MaxSamples \in Nat /\ None \notin PeerState

NewPeer(id) ==
  [id |-> id, trust_score |-> 0,
   behavior_window |-> [i \in Ring |-> "Empty"],
   window_head |-> 0, window_fill |-> 0,
   last_active_tick |-> 0, vdf_verified |-> FALSE, strike_count |-> 0,
   connection |-> "Handshaking"]

\* A number as an i16, and a quotient as Rust rounds it.
AsI16(n) == ((n + 32768) % 65536) - 32768
Quotient(n, d) == IF n >= 0 THEN n \div d ELSE -((-n) \div d)

\* Mutant: the slots are those of the head, not of the fill.
score_up_to_head(p) ==
  LET Recorded(s) == {i \in 0..(p.window_head - 1) : p.behavior_window[i] = s}
  IN IF p.window_fill = 0 THEN 0
     ELSE Quotient((Cardinality(Recorded("Good"))
                      - Cardinality(Recorded("Bad"))) * 100, p.window_fill)

\* recalculate_score(): the difference of good and bad over the filled slots.
recalculate_score(p) ==
  LET Recorded(s) == {i \in 0..(p.window_fill - 1) : p.behavior_window[i] = s}
      raw == Quotient((Cardinality(Recorded("Good"))
                         - Cardinality(Recorded("Bad"))) * 100, p.window_fill)
  IN IF p.window_fill = 0 THEN 0
     ELSE Max({TRUST_MIN, Min({TRUST_MAX, raw})})

\* update_connection_state() for a score.
Connection(score, verified) ==
  CASE score <= TRUST_THRESHOLD_BAN -> "Banned"
    [] TRUST_THRESHOLD_BAN < score /\ score < 0 -> "Suspended"
    [] score >= 0 -> IF verified THEN "Active" ELSE "Handshaking"

Scored(p, score) ==
  [p EXCEPT !.trust_score = score,
            !.connection = Connection(score, p.vdf_verified)]

\* Mutant: the head stays in the first slots until the ring is full.
Written_at_fill(p, sample, t) ==
  [p EXCEPT
    !.behavior_window[p.window_head] = sample,
    !.window_head = IF p.window_fill < TRUST_WINDOW_SIZE - 1
                    THEN p.window_fill + 1 ELSE 0,
    !.window_fill = Min({TRUST_WINDOW_SIZE, @ + 1}),
    !.last_active_tick = t,
    !.strike_count = IF sample = "Bad" THEN Min({255, @ + 1}) ELSE @]

\* What record() writes before it recalculates.
Written(p, sample, t) ==
  [p EXCEPT
    !.behavior_window[p.window_head] = sample,
    !.window_head = (@ + 1) % TRUST_WINDOW_SIZE,
    !.window_fill = Min({TRUST_WINDOW_SIZE, @ + 1}),
    !.last_active_tick = t,
    !.strike_count = IF sample = "Bad" THEN Min({255, @ + 1}) ELSE @]

\* apply_silence_decay(): i16 arithmetic, which wraps in a release build.
Decayed(p, t) ==
  LET silent_ticks == Max({0, t - p.last_active_tick})
      decay == AsI16(silent_ticks \div SILENCE_DECAY_TICKS)
  IN IF decay > 0
     THEN Scored(p, Max({TRUST_MIN, AsI16(p.trust_score - decay)}))
     ELSE p

-----------------------------------------------------------------------------
Occupied == {i \in Slots : peers[i] # None}
SlotsOf(id) == {i \in Occupied : peers[i].id = id}

PeerInit ==
  /\ peers = [i \in Slots |-> None] /\ count = 0
  /\ tick = 0
  /\ samples = [id \in Ids |-> <<>>]

\* Time passes, and not backwards, before a call.
At(t) == t >= tick /\ tick' = t

\* Mutant: a peer that is known is not looked for.
upsert_anew(id) ==
  /\ Slots # Occupied
  /\ peers' = [peers EXCEPT ![Min(Slots \ Occupied)] = NewPeer(id)]
  /\ count' = count + 1
  /\ samples' = [samples EXCEPT ![id] = <<>>]
  /\ UNCHANGED tick

\* upsert() of a new peer; it fails where the table is full.
upsert(id) ==
  /\ \/ /\ SlotsOf(id) # {}
        /\ peers' = [peers EXCEPT ![Min(SlotsOf(id))] = NewPeer(id)]
        /\ UNCHANGED count
     \/ /\ SlotsOf(id) = {} /\ Slots # Occupied
        /\ peers' = [peers EXCEPT ![Min(Slots \ Occupied)] = NewPeer(id)]
        /\ count' = count + 1
  /\ samples' = [samples EXCEPT ![id] = <<>>]
  /\ UNCHANGED tick

\* record() on the peer that get_mut() finds.
record(id, sample, t) ==
  /\ At(t)
  /\ Len(samples[id]) < MaxSamples
  /\ SlotsOf(id) # {}
  /\ LET i == Min(SlotsOf(id))
         p == Written(peers[i], sample, t)
     IN peers' = [peers EXCEPT ![i] = Scored(p, recalculate_score(p))]
  /\ samples' = [samples EXCEPT ![id] = Append(@, sample)]
  /\ UNCHANGED count

\* admit_after_vdf(): the state and the bonus, whatever the score was.
admit_after_vdf(id, t) ==
  /\ At(t)
  /\ SlotsOf(id) # {}
  /\ peers' = [peers EXCEPT ![Min(SlotsOf(id))] =
                 [@ EXCEPT !.vdf_verified = TRUE, !.last_active_tick = t,
                           !.connection = "Active", !.trust_score = 10]]
  /\ UNCHANGED <<count, samples>>

\* tick_all(): the silence of every peer.
tick_all(t) ==
  /\ At(t)
  /\ peers' = [i \in Slots |-> IF peers[i] = None THEN None
                               ELSE Decayed(peers[i], t)]
  /\ UNCHANGED <<count, samples>>

Banned == {i \in Occupied : peers[i].connection = "Banned"}

evict_banned ==
  /\ Banned # {}
  /\ peers' = [i \in Slots |-> IF i \in Banned THEN None ELSE peers[i]]
  /\ count' = Max({0, count - Cardinality(Banned)})
  /\ UNCHANGED <<tick, samples>>

PeerNext ==
  \/ \E id \in Ids : upsert(id)
  \/ \E id \in Ids, sample \in Sample, t \in Ticks : record(id, sample, t)
  \/ \E id \in Ids, t \in Ticks : admit_after_vdf(id, t)
  \/ \E t \in Ticks : tick_all(t)
  \/ evict_banned

PeerSpec == PeerInit /\ [][PeerNext]_peerVars

-----------------------------------------------------------------------------
\* Type invariant of the table.
PeerTypeOK ==
  /\ peers \in [Slots -> PeerState \cup {None}]
  /\ count \in 0..MAX_PEERS
  /\ tick \in Nat
  /\ samples \in [Ids -> Seq(Sample)]

\* The table is a map: upsert() and evict_banned() never leave an identity in
\* two slots, in whatever slots it comes and goes, and the count is right.
TableIsMap ==
  /\ count = Cardinality(Occupied)
  /\ \A i, j \in Occupied : peers[i].id = peers[j].id => i = j

\* The last samples of an identity, newest first, as many as the ring holds.
Recent(id) ==
  LET all == samples[id]
  IN [k \in 1..Min({TRUST_WINDOW_SIZE, Len(all)}) |-> all[Len(all) - k + 1]]

\* The ring, read backwards from its head, is the recent history: also after
\* it has wrapped around, and after the identity was evicted and came back.
RingIsHistory ==
  \A i \in Occupied :
    LET p == peers[i]
    IN /\ p.window_fill = Len(Recent(p.id))
       /\ \A k \in 1..p.window_fill :
            p.behavior_window[(p.window_head - k + TRUST_WINDOW_SIZE)
                                % TRUST_WINDOW_SIZE] = Recent(p.id)[k]

\* record() bans a peer just when the bad samples of its recent history are at
\* least three times the good ones: the score that is rounded towards zero says
\* the same as the exact one, for every fill of the ring.
BanIsDeserved ==
  [][\A i \in Occupied :
       LET id == peers[i].id
           Recently(s) == Cardinality({k \in DOMAIN Recent(id)' :
                                         Recent(id)'[k] = s})
       IN Len(samples'[id]) > Len(samples[id]) =>
            (peers'[i].connection = "Banned"
               <=> Recently("Bad") >= 3 * Recently("Good"))]_peerVars

=============================================================================
