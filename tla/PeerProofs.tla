---------------------------- MODULE PeerProofs ----------------------------
(***************************************************************************)
(* Proofs about what a node keeps of its peers.  The peer table of the      *)
(* gossip layer, for any size of the table and of the rings: types, among   *)
(* them the 16 bits of the score; the table is a map; the ring holds the    *)
(* recent samples; a ban is deserved.  The anti-replay window of a session, *)
(* for every number of words, every set of peers and every order of         *)
(* counters.                                                               *)
(***************************************************************************)
EXTENDS Peer, Session, FiniteSetTheorems, WellFoundedInduction, TLAPS

\* A set of naturals has a smallest element.
LEMMA SmallestExists ==
  ASSUME NEW S \in SUBSET Nat, S # {}
  PROVE  \E x \in S : \A y \in S : x <= y
<1>1. PICK x \in S : \A y \in S : ~(<<y, x>> \in OpToRel(<, Nat))
  BY NatLessThanWellFounded, WFMin
<1>2. \A y \in S : ~(y < x)
  BY <1>1 DEF OpToRel
<1>3. x \in Nat /\ \A y \in S : y \in Nat
  OBVIOUS
<1>. QED
  BY <1>2, <1>3

\* Min of slots is one of them.
LEMMA MinOfSlots ==
  ASSUME NEW S \in SUBSET Slots, S # {}
  PROVE  Min(S) \in S
<1>1. S \in SUBSET Nat
  BY DEF Slots
<1>. QED
  BY <1>1, SmallestExists DEF Min

\* Min and Max of two numbers.
LEMMA MinMaxPair ==
  ASSUME NEW a \in Int, NEW b \in Int
  PROVE  /\ Min({a, b}) = IF a <= b THEN a ELSE b
         /\ Max({a, b}) = IF a >= b THEN a ELSE b
<1>1. Min({a, b}) = CHOOSE x \in {a, b} : x <= a /\ x <= b
  BY DEF Min
<1>2. Max({a, b}) = CHOOSE x \in {a, b} : x >= a /\ x >= b
  BY DEF Max
<1>3. \E x \in {a, b} : x <= a /\ x <= b
  OBVIOUS
<1>4. \E x \in {a, b} : x >= a /\ x >= b
  OBVIOUS
<1>. QED
  BY <1>1, <1>2, <1>3, <1>4

-----------------------------------------------------------------------------
\* The 16 bits are integers.
LEMMA Sixteen == \A x \in I16 : x \in Int /\ -32768 <= x /\ x <= 32767
  BY DEF I16

\* Each connection state follows from some score.
LEMMA ConnectionType ==
  ASSUME NEW score \in Int, NEW verified
  PROVE  Connection(score, verified) \in ConnectionState
  BY DEF Connection, ConnectionState, TRUST_THRESHOLD_BAN

\* What a call makes of a peer is a peer, and the same one.
\* (The fields first, and one update at a time.)
LEMMA PeerFields ==
  ASSUME NEW p \in PeerState
  PROVE  /\ p.id \in Ids /\ p.trust_score \in I16
         /\ p.behavior_window \in [Ring -> Sample \cup {"Empty"}]
         /\ p.window_head \in Ring /\ p.window_fill \in 0..TRUST_WINDOW_SIZE
         /\ p.last_active_tick \in Nat /\ p.strike_count \in U8
         /\ p.connection \in ConnectionState
  BY DEF PeerState

\* A field of a peer changed within its type leaves a peer.
LEMMA PeerUpdates ==
  ASSUME NEW p \in PeerState
  PROVE  /\ \A x \in I16 : [p EXCEPT !.trust_score = x] \in PeerState
         /\ \A x \in [Ring -> Sample \cup {"Empty"}] :
              [p EXCEPT !.behavior_window = x] \in PeerState
         /\ \A x \in Ring : [p EXCEPT !.window_head = x] \in PeerState
         /\ \A x \in 0..TRUST_WINDOW_SIZE :
              [p EXCEPT !.window_fill = x] \in PeerState
         /\ \A x \in Nat : [p EXCEPT !.last_active_tick = x] \in PeerState
         /\ \A x \in BOOLEAN : [p EXCEPT !.vdf_verified = x] \in PeerState
         /\ \A x \in U8 : [p EXCEPT !.strike_count = x] \in PeerState
         /\ \A x \in ConnectionState : [p EXCEPT !.connection = x] \in PeerState
  BY DEF PeerState

\* PeerState::new() makes a peer of the identity it is given.
LEMMA NewPeerType ==
  ASSUME NEW id \in Ids
  PROVE  NewPeer(id) \in PeerState /\ NewPeer(id).id = id
<1>1. 0 \in Ring /\ 0 \in 0..TRUST_WINDOW_SIZE /\ 0 \in I16 /\ 0 \in U8
  BY PeerAssumption DEF Ring, I16, U8
<1>2. [i \in Ring |-> "Empty"] \in [Ring -> Sample \cup {"Empty"}]
  OBVIOUS
<1>3. "Handshaking" \in ConnectionState
  BY DEF ConnectionState
<1>. QED
  BY <1>1, <1>2, <1>3 DEF NewPeer, PeerState

\* A score within 16 bits, and the connection that follows from it.
LEMMA ScoredType ==
  ASSUME NEW p \in PeerState, NEW score \in I16
  PROVE  Scored(p, score) \in PeerState /\ Scored(p, score).id = p.id
<1> DEFINE q == [p EXCEPT !.trust_score = score]
<1>1. score \in Int
  BY DEF I16
<1>2. Connection(score, p.vdf_verified) \in ConnectionState
  BY <1>1, ConnectionType
<1>3. q \in PeerState /\ q.id = p.id
  BY PeerUpdates DEF PeerState
<1>4. Scored(p, score) = [q EXCEPT !.connection = Connection(score, p.vdf_verified)]
  BY DEF Scored
<1> HIDE DEF q
<1>5. /\ [q EXCEPT !.connection = Connection(score, p.vdf_verified)] \in PeerState
      /\ [q EXCEPT !.connection = Connection(score, p.vdf_verified)].id = q.id
  BY <1>2, <1>3, PeerUpdates DEF PeerState
<1>. QED
  BY <1>3, <1>4, <1>5

\* record() writes its sample, head, fill, tick and strikes.
LEMMA WrittenType ==
  ASSUME NEW p \in PeerState, NEW sample \in Sample, NEW t \in Nat
  PROVE  Written(p, sample, t) \in PeerState /\ Written(p, sample, t).id = p.id
<1> DEFINE w == [p.behavior_window EXCEPT ![p.window_head] = sample]
           h == (p.window_head + 1) % TRUST_WINDOW_SIZE
           f == Min({TRUST_WINDOW_SIZE, p.window_fill + 1})
           c == IF sample = "Bad" THEN Min({255, p.strike_count + 1})
                ELSE p.strike_count
           q1 == [p EXCEPT !.behavior_window = w]
           q2 == [q1 EXCEPT !.window_head = h]
           q3 == [q2 EXCEPT !.window_fill = f]
           q4 == [q3 EXCEPT !.last_active_tick = t]
           q5 == [q4 EXCEPT !.strike_count = c]
<1>1. h \in Ring
  BY PeerAssumption, PeerFields DEF Ring
<1>2. f \in 0..TRUST_WINDOW_SIZE
  BY PeerAssumption, PeerFields, MinMaxPair
<1>3. c \in U8
  <2>1. p.strike_count \in Nat /\ p.strike_count <= 255
    BY PeerFields DEF U8
  <2>2. Min({255, p.strike_count + 1})
          = IF 255 <= p.strike_count + 1 THEN 255 ELSE p.strike_count + 1
    BY <2>1, MinMaxPair
  <2>. QED
    BY <2>1, <2>2 DEF U8
<1>4. w \in [Ring -> Sample \cup {"Empty"}]
  BY PeerFields
<1>5. Written(p, sample, t) = q5
  BY DEF Written
<1> HIDE DEF w, h, f, c
<1>6. q1 \in PeerState /\ q1.id = p.id
  BY <1>4, PeerUpdates DEF PeerState
<1> HIDE DEF q1
<1>7. q2 \in PeerState /\ q2.id = p.id
  BY <1>1, <1>6, PeerUpdates DEF PeerState
<1> HIDE DEF q2
<1>8. q3 \in PeerState /\ q3.id = p.id
  BY <1>2, <1>7, PeerUpdates DEF PeerState
<1> HIDE DEF q3
<1>9. q4 \in PeerState /\ q4.id = p.id
  BY <1>8, PeerUpdates DEF PeerState
<1> HIDE DEF q4
<1>10. q5 \in PeerState /\ q5.id = p.id
  BY <1>3, <1>9, PeerUpdates DEF PeerState
<1>. QED
  BY <1>5, <1>10

\* The clamped score is within its bounds.
LEMMA ScoreType ==
  ASSUME NEW p \in PeerState
  PROVE  recalculate_score(p) \in TRUST_MIN..TRUST_MAX
<1> DEFINE Recorded(s) ==
             {i \in 0..(p.window_fill - 1) : p.behavior_window[i] = s}
           n == (Cardinality(Recorded("Good"))
                   - Cardinality(Recorded("Bad"))) * 100
<1>1. p.window_fill \in Nat
  BY PeerAssumption, PeerFields
<1>2. IsFiniteSet(0..(p.window_fill - 1))
  BY <1>1, FS_Interval
<1>3. \A s : Cardinality(Recorded(s)) \in Nat
  BY <1>2, FS_Subset, FS_CardinalityType
<1>4. n \in Int
  <2>1. Cardinality(Recorded("Good")) \in Nat /\ Cardinality(Recorded("Bad")) \in Nat
    BY <1>3
  <2> HIDE DEF Recorded
  <2>. QED
    BY <2>1
<1>5. CASE p.window_fill = 0
  BY <1>5 DEF recalculate_score, TRUST_MIN, TRUST_MAX
<1>6. CASE p.window_fill # 0
  <2>1. Quotient(n, p.window_fill) \in Int
    <3>1. p.window_fill > 0
      BY <1>1, <1>6
    <3> HIDE DEF n
    <3>. QED
      BY <1>1, <1>4, <3>1 DEF Quotient
  <2>2. recalculate_score(p)
          = Max({TRUST_MIN, Min({TRUST_MAX, Quotient(n, p.window_fill)})})
    BY <1>6 DEF recalculate_score
  <2> DEFINE raw == Quotient(n, p.window_fill)
             low == Min({TRUST_MAX, raw})
  <2>3. raw \in Int /\ TRUST_MAX \in Int /\ TRUST_MIN \in Int
    BY <2>1 DEF TRUST_MAX, TRUST_MIN
  <2> HIDE DEF raw
  <2>4. low = IF TRUST_MAX <= raw THEN TRUST_MAX ELSE raw
    BY <2>3, MinMaxPair
  <2>5. low \in Int
    BY <2>3, <2>4
  <2> HIDE DEF low
  <2>6. Max({TRUST_MIN, low}) = IF TRUST_MIN >= low THEN TRUST_MIN ELSE low
    BY <2>3, <2>5, MinMaxPair
  <2>7. recalculate_score(p) = Max({TRUST_MIN, low})
    BY <2>2 DEF raw, low
  <2>. QED
    BY <2>3, <2>4, <2>6, <2>7 DEF TRUST_MIN, TRUST_MAX
<1>. QED
  BY <1>5, <1>6

\* A cast to an i16 is an i16.
LEMMA CastType ==
  ASSUME NEW n \in Int
  PROVE  AsI16(n) \in I16
<1> DEFINE a == n + 32768
           r == a % 65536
<1>1. a \in Int
  OBVIOUS
<1>2. AsI16(n) = r - 32768
  BY DEF AsI16
<1> HIDE DEF a
<1>3. r \in Int /\ 0 <= r /\ r <= 65535
  BY <1>1, SMTT(30)
<1> HIDE DEF r
<1>. QED
  BY <1>2, <1>3 DEF I16

\* apply_silence_decay() lowers a score within 16 bits.
LEMMA DecayedType ==
  ASSUME NEW p \in PeerState, NEW t \in Nat
  PROVE  Decayed(p, t) \in PeerState /\ Decayed(p, t).id = p.id
<1> DEFINE silent == Max({0, t - p.last_active_tick})
           decay == AsI16(silent \div SILENCE_DECAY_TICKS)
           score == Max({TRUST_MIN, AsI16(p.trust_score - decay)})
<1>1. \A n \in Int : AsI16(n) \in I16
  BY CastType
<1>2. silent \in Nat
  BY MinMaxPair, PeerFields
<1>3. silent \div SILENCE_DECAY_TICKS \in Int
  <2> HIDE DEF silent
  <2>. QED
    BY <1>2 DEF SILENCE_DECAY_TICKS
<1>4. decay \in Int
  <2> HIDE DEF silent
  <2>1. decay \in I16
    BY <1>1, <1>3
  <2> HIDE DEF decay
  <2>. QED
    BY <2>1, Sixteen
<1>5. AsI16(p.trust_score - decay) \in I16
  <2> HIDE DEF decay
  <2>1. p.trust_score - decay \in Int
    BY <1>4, PeerFields, Sixteen
  <2>. QED
    BY <1>1, <2>1
<1>6. score \in I16
  <2> DEFINE rest == AsI16(p.trust_score - decay)
  <2>1. rest \in I16
    BY <1>5
  <2>2. score = Max({TRUST_MIN, rest})
    OBVIOUS
  <2> HIDE DEF rest, score
  <2>3. rest \in Int /\ TRUST_MIN \in Int
    BY <2>1, Sixteen DEF TRUST_MIN
  <2>4. score = IF TRUST_MIN >= rest THEN TRUST_MIN ELSE rest
    BY <2>2, <2>3, MinMaxPair
  <2>5. TRUST_MIN \in I16
    BY DEF TRUST_MIN, I16
  <2>. QED
    BY <2>1, <2>4, <2>5
<1>7. Decayed(p, t) = IF decay > 0 THEN Scored(p, score) ELSE p
  BY DEF Decayed
<1> HIDE DEF decay, score
<1>. QED
  BY <1>6, <1>7, ScoredType

-----------------------------------------------------------------------------
\* The inductive invariant: the type of the peers, and the table a map.  The
\* bound of the count follows from both, since slots are finite in number.
TableInv == PeerTypeOK /\ TableIsMap

\* The slots of a table are finite in number.
LEMMA SlotsFinite ==
  /\ IsFiniteSet(Slots) /\ Cardinality(Slots) = MAX_PEERS
  /\ \A S \in SUBSET Slots : /\ IsFiniteSet(S) /\ Cardinality(S) \in Nat
                             /\ Cardinality(S) <= MAX_PEERS
<1>1. IsFiniteSet(Slots) /\ Cardinality(Slots) = MAX_PEERS
  BY PeerAssumption, FS_Interval DEF Slots
<1>. QED
  BY <1>1, FS_Subset, FS_CardinalityType

\* What the table holds, it holds in its slots.
LEMMA OccupiedSlots == Occupied \subseteq Slots /\ \A id : SlotsOf(id) \subseteq Slots
  BY DEF Occupied, SlotsOf

\* A peer is not an empty slot.
LEMMA PeerNotNone == \A p \in PeerState : p # None
  BY PeerAssumption

\* Initially the table is empty.
LEMMA InitTable == PeerInit => TableInv
<1> SUFFICES ASSUME PeerInit PROVE TableInv
  OBVIOUS
<1>1. peers \in [Slots -> PeerState \cup {None}] /\ Occupied = {}
  BY DEF PeerInit, Occupied
<1>2. count \in 0..MAX_PEERS /\ count = Cardinality(Occupied)
  BY <1>1, PeerAssumption, FS_EmptySet DEF PeerInit
<1>3. tick \in Nat /\ samples \in [Ids -> Seq(Sample)]
  BY DEF PeerInit
<1>. QED
  BY <1>1, <1>2, <1>3 DEF TableInv, PeerTypeOK, TableIsMap

\* A peer put in a slot that holds the same identity, or in a free one when
\* no slot holds it, keeps the table.
LEMMA PuttingKeeps ==
  ASSUME TableInv, NEW i \in Slots, NEW p \in PeerState,
         peers' = [peers EXCEPT ![i] = p],
         \/ i \in SlotsOf(p.id) /\ count' = count
         \/ i \notin Occupied /\ SlotsOf(p.id) = {} /\ count' = count + 1
  PROVE  /\ peers' \in [Slots -> PeerState \cup {None}]
         /\ count' \in 0..MAX_PEERS
         /\ TableIsMap'
<1>1. /\ peers \in [Slots -> PeerState \cup {None}]
      /\ count = Cardinality(Occupied)
  BY DEF TableInv, PeerTypeOK, TableIsMap
<1>2. peers' \in [Slots -> PeerState \cup {None}]
  BY <1>1
<1>3. /\ peers'[i] = p /\ p # None
      /\ \A j \in Slots : j # i => peers'[j] = peers[j]
  BY <1>1, PeerNotNone
<1>4. Occupied' = Occupied \cup {i}
  BY <1>3 DEF Occupied
<1>5. count' = Cardinality(Occupied')
  <2>1. CASE i \in SlotsOf(p.id) /\ count' = count
    <3>1. Occupied' = Occupied
      BY <1>4, <2>1 DEF SlotsOf
    <3>. QED
      BY <1>1, <2>1, <3>1
  <2>2. CASE i \notin Occupied /\ count' = count + 1
    <3>1. IsFiniteSet(Occupied)
      BY OccupiedSlots, SlotsFinite
    <3>2. Cardinality(Occupied \cup {i}) = Cardinality(Occupied) + 1
      BY <2>2, <3>1, FS_AddElement
    <3>. QED
      BY <1>1, <1>4, <2>2, <3>2
  <2>. QED
    BY <2>1, <2>2
<1>6. Occupied' \subseteq Slots
  BY <1>4, OccupiedSlots
<1>7. count' \in 0..MAX_PEERS
  BY <1>5, <1>6, SlotsFinite, PeerAssumption
<1>8. \A j \in Occupied : peers[j].id = p.id => j = i
  BY DEF TableInv, TableIsMap, SlotsOf
<1>9. ASSUME NEW j \in Occupied', NEW k \in Occupied',
             peers'[j].id = peers'[k].id
      PROVE  j = k
  <2>1. CASE j = i \/ k = i
    BY <1>3, <1>4, <1>6, <1>8, <1>9, <2>1
  <2>2. CASE j # i /\ k # i
    <3>1. j \in Occupied /\ k \in Occupied /\ peers[j].id = peers[k].id
      BY <1>3, <1>4, <1>6, <1>9, <2>2
    <3>. QED
      BY <3>1 DEF TableInv, TableIsMap
  <2>. QED
    BY <2>1, <2>2
<1>. QED
  BY <1>2, <1>5, <1>7, <1>9 DEF TableIsMap

\* The slot that get_mut() finds, with the peer in it.
LEMMA FoundPeer ==
  ASSUME TableInv, NEW id \in Ids, SlotsOf(id) # {}
  PROVE  LET i == Min(SlotsOf(id))
         IN /\ i \in Slots /\ i \in SlotsOf(id)
            /\ peers[i] \in PeerState /\ peers[i].id = id
<1>1. Min(SlotsOf(id)) \in SlotsOf(id)
  BY OccupiedSlots, MinOfSlots
<1>. QED
  BY <1>1 DEF TableInv, PeerTypeOK, SlotsOf, Occupied

\* upsert() takes the slot of the identity or a free one.
LEMMA UpsertKeeps ==
  ASSUME TableInv, NEW id \in Ids, upsert(id)
  PROVE  TableInv'
<1>1. NewPeer(id) \in PeerState /\ NewPeer(id).id = id
  BY NewPeerType
<1>2. tick' \in Nat /\ samples' \in [Ids -> Seq(Sample)]
  <2>1. <<>> \in Seq(Sample)
    OBVIOUS
  <2>. QED
    BY <2>1 DEF upsert, TableInv, PeerTypeOK
<1>3. CASE /\ SlotsOf(id) # {}
           /\ peers' = [peers EXCEPT ![Min(SlotsOf(id))] = NewPeer(id)]
           /\ count' = count
  <2>1. Min(SlotsOf(id)) \in Slots /\ Min(SlotsOf(id)) \in SlotsOf(id)
    BY <1>3, FoundPeer
  <2>. QED
    BY <1>1, <1>2, <1>3, <2>1, PuttingKeeps DEF TableInv, PeerTypeOK
<1>4. CASE /\ SlotsOf(id) = {} /\ Slots # Occupied
           /\ peers' = [peers EXCEPT ![Min(Slots \ Occupied)] = NewPeer(id)]
           /\ count' = count + 1
  <2>1. Slots \ Occupied # {} /\ Slots \ Occupied \in SUBSET Slots
    BY <1>4, OccupiedSlots
  <2>2. Min(Slots \ Occupied) \in Slots \ Occupied
    BY <2>1, MinOfSlots
  <2>. QED
    BY <1>1, <1>2, <1>4, <2>2, PuttingKeeps DEF TableInv, PeerTypeOK
<1>. QED
  BY <1>3, <1>4 DEF upsert

\* record() puts the peer back where it was found.
LEMMA RecordKeeps ==
  ASSUME TableInv, NEW id \in Ids, NEW sample \in Sample, NEW t \in Ticks,
         record(id, sample, t)
  PROVE  TableInv'
<1> DEFINE i == Min(SlotsOf(id))
           p == Written(peers[i], sample, t)
           q == Scored(p, recalculate_score(p))
<1>1. t \in Nat /\ tick' = t
  BY PeerAssumption DEF record, At
<1>2. /\ i \in Slots /\ i \in SlotsOf(id)
      /\ peers[i] \in PeerState /\ peers[i].id = id
  BY FoundPeer DEF record
<1>3. p \in PeerState /\ p.id = id
  BY <1>1, <1>2, WrittenType
<1>4. recalculate_score(p) \in I16
  <2> HIDE DEF p
  <2>1. recalculate_score(p) \in TRUST_MIN..TRUST_MAX
    BY <1>3, ScoreType
  <2>. QED
    BY <2>1 DEF TRUST_MIN, TRUST_MAX, I16
<1>5. q \in PeerState /\ q.id = id
  BY <1>3, <1>4, ScoredType
<1>6. peers' = [peers EXCEPT ![i] = q] /\ count' = count
  BY DEF record
<1>7. samples' \in [Ids -> Seq(Sample)]
  <2>1. /\ samples \in [Ids -> Seq(Sample)]
        /\ samples' = [samples EXCEPT ![id] = Append(samples[id], sample)]
    BY DEF record, TableInv, PeerTypeOK
  <2>2. Append(samples[id], sample) \in Seq(Sample)
    BY <2>1
  <2>. QED
    BY <2>1, <2>2
<1> HIDE DEF i, p, q
<1>. QED
  BY <1>1, <1>2, <1>5, <1>6, <1>7, PuttingKeeps DEF TableInv, PeerTypeOK

\* admit_after_vdf() likewise.
LEMMA AdmitKeeps ==
  ASSUME TableInv, NEW id \in Ids, NEW t \in Ticks, admit_after_vdf(id, t)
  PROVE  TableInv'
<1> DEFINE i == Min(SlotsOf(id))
           q1 == [peers[i] EXCEPT !.vdf_verified = TRUE]
           q2 == [q1 EXCEPT !.last_active_tick = t]
           q3 == [q2 EXCEPT !.connection = "Active"]
           q4 == [q3 EXCEPT !.trust_score = 10]
<1>1. t \in Nat /\ tick' = t
  BY PeerAssumption DEF admit_after_vdf, At
<1>2. /\ i \in Slots /\ i \in SlotsOf(id)
      /\ peers[i] \in PeerState /\ peers[i].id = id
  BY FoundPeer DEF admit_after_vdf
<1>3. peers' = [peers EXCEPT ![i] = q4] /\ UNCHANGED <<count, samples>>
  BY DEF admit_after_vdf
<1> HIDE DEF i
<1>4. q1 \in PeerState /\ q1.id = id
  BY <1>2, PeerUpdates DEF PeerState
<1> HIDE DEF q1
<1>5. q2 \in PeerState /\ q2.id = id
  BY <1>1, <1>4, PeerUpdates DEF PeerState
<1> HIDE DEF q2
<1>6. q3 \in PeerState /\ q3.id = id
  <2>1. "Active" \in ConnectionState
    BY DEF ConnectionState
  <2>. QED
    BY <1>5, <2>1, PeerUpdates DEF PeerState
<1> HIDE DEF q3
<1>7. q4 \in PeerState /\ q4.id = id
  <2>1. 10 \in I16
    BY DEF I16
  <2>. QED
    BY <1>6, <2>1, PeerUpdates DEF PeerState
<1> HIDE DEF q4
<1>. QED
  BY <1>1, <1>2, <1>3, <1>7, PuttingKeeps DEF TableInv, PeerTypeOK

\* tick_all() leaves every peer in its slot.
LEMMA TickKeeps ==
  ASSUME TableInv, NEW t \in Ticks, tick_all(t)
  PROVE  TableInv'
<1>1. t \in Nat /\ tick' = t /\ UNCHANGED <<count, samples>>
  BY PeerAssumption DEF tick_all, At
<1>2. peers \in [Slots -> PeerState \cup {None}]
  BY DEF TableInv, PeerTypeOK
<1>3. peers' = [i \in Slots |-> IF peers[i] = None THEN None
                                ELSE Decayed(peers[i], t)]
  BY DEF tick_all
<1>4. ASSUME NEW i \in Slots
      PROVE  /\ peers'[i] \in PeerState \cup {None}
             /\ peers'[i] = None <=> peers[i] = None
             /\ peers[i] # None => peers'[i].id = peers[i].id
  <2>1. CASE peers[i] = None
    BY <1>3, <2>1
  <2>2. CASE peers[i] # None
    <3>1. peers[i] \in PeerState
      BY <1>2, <2>2
    <3>2. Decayed(peers[i], t) \in PeerState /\ Decayed(peers[i], t).id = peers[i].id
      BY <1>1, <3>1, DecayedType
    <3>. QED
      BY <1>3, <2>2, <3>2, PeerNotNone
  <2>. QED
    BY <2>1, <2>2
<1>5. peers' \in [Slots -> PeerState \cup {None}]
  BY <1>3, <1>4
<1>6. Occupied' = Occupied
  BY <1>4 DEF Occupied
<1>7. TableIsMap'
  BY <1>1, <1>4, <1>6, OccupiedSlots DEF TableInv, TableIsMap, Occupied
<1>. QED
  BY <1>1, <1>5, <1>7 DEF TableInv, PeerTypeOK

\* evict_banned() empties slots and counts them.
LEMMA EvictKeeps ==
  ASSUME TableInv, evict_banned
  PROVE  TableInv'
<1>1. /\ peers \in [Slots -> PeerState \cup {None}]
      /\ count = Cardinality(Occupied)
  BY DEF TableInv, PeerTypeOK, TableIsMap
<1>2. /\ peers' = [i \in Slots |-> IF i \in Banned THEN None ELSE peers[i]]
      /\ count' = Max({0, count - Cardinality(Banned)})
      /\ UNCHANGED <<tick, samples>>
  BY DEF evict_banned
<1>3. Banned \subseteq Occupied /\ Occupied \subseteq Slots
  BY OccupiedSlots DEF Banned
<1>4. Occupied' = Occupied \ Banned
  BY <1>2, <1>3 DEF Occupied
<1>5. /\ IsFiniteSet(Occupied) /\ Occupied \cap Banned = Banned
      /\ Cardinality(Occupied) \in Nat /\ Cardinality(Banned) \in Nat
  BY <1>3, SlotsFinite
<1>6. Cardinality(Occupied') = Cardinality(Occupied) - Cardinality(Banned)
  <2>1. Cardinality(Occupied \ Banned)
          = Cardinality(Occupied) - Cardinality(Occupied \cap Banned)
    BY <1>5, FS_Difference
  <2>. QED
    BY <1>4, <1>5, <2>1
<1>7. Cardinality(Occupied') \in 0..MAX_PEERS
  BY <1>3, <1>4, SlotsFinite, PeerAssumption
<1>8. count' = Cardinality(Occupied')
  <2>1. count - Cardinality(Banned) \in Int /\ 0 <= count - Cardinality(Banned)
    BY <1>1, <1>5, <1>6, <1>7
  <2> DEFINE rest == count - Cardinality(Banned)
  <2>2. rest = Cardinality(Occupied') /\ count' = Max({0, rest})
    BY <1>1, <1>2, <1>6
  <2>3. rest \in Int /\ 0 <= rest
    BY <2>1
  <2> HIDE DEF rest
  <2>4. Max({0, rest}) = IF 0 >= rest THEN 0 ELSE rest
    BY <2>3, MinMaxPair
  <2>. QED
    BY <2>2, <2>3, <2>4
<1>9. peers' \in [Slots -> PeerState \cup {None}]
  BY <1>1, <1>2
<1>10. \A i \in Occupied' : i \in Occupied /\ peers'[i] = peers[i]
  BY <1>2, <1>3, <1>4
<1>11. tick' \in Nat /\ samples' \in [Ids -> Seq(Sample)]
  <2>1. tick \in Nat /\ samples \in [Ids -> Seq(Sample)]
    BY DEF TableInv, PeerTypeOK
  <2>. QED
    BY <1>2, <2>1
<1>12. count' \in 0..MAX_PEERS
  BY ONLY <1>7, <1>8
<1>13. PeerTypeOK'
  BY ONLY <1>9, <1>11, <1>12 DEF PeerTypeOK
<1>14. \A i, j \in Occupied' : peers'[i].id = peers'[j].id => i = j
  <2>1. \A i, j \in Occupied : peers[i].id = peers[j].id => i = j
    BY DEF TableInv, TableIsMap
  <2>. QED
    BY ONLY <1>10, <2>1
<1>15. TableIsMap'
  BY ONLY <1>8, <1>14 DEF TableIsMap
<1>. QED
  BY ONLY <1>13, <1>15 DEF TableInv

\* Each call on the table keeps its invariant.
LEMMA NextKeeps == TableInv /\ [PeerNext]_peerVars => TableInv'
<1> SUFFICES ASSUME TableInv, [PeerNext]_peerVars PROVE TableInv'
  OBVIOUS
<1>1. CASE UNCHANGED peerVars
  BY <1>1 DEF TableInv, PeerTypeOK, TableIsMap, Occupied, peerVars
<1>2. CASE PeerNext
  BY <1>2, UpsertKeeps, RecordKeeps, AdmitKeeps, TickKeeps, EvictKeeps DEF PeerNext
<1>. QED
  BY <1>1, <1>2

\* It holds in every reachable state.
LEMMA TableInvariance == PeerSpec => []TableInv
<1>. QED
  BY InitTable, NextKeeps, PTL DEF PeerSpec

-----------------------------------------------------------------------------
\* Every reachable table has its type: after record() the head is in the ring
\* and the fill within its size, and upsert() never counts past the table.
THEOREM PeerTypeCorrect == PeerSpec => []PeerTypeOK
<1>1. TableInv => PeerTypeOK
  BY DEF TableInv
<1>. QED
  BY <1>1, TableInvariance, PTL

\* For every size of the table and any order of upsert() and evict_banned(),
\* no identity has two slots, and the count is the number of peers.
THEOREM PeerTableIsMap == PeerSpec => []TableIsMap
<1>1. TableInv => TableIsMap
  BY DEF TableInv
<1>. QED
  BY <1>1, TableInvariance, PTL

-----------------------------------------------------------------------------
\* The slot that is k samples back from the head.
Back(h, k) == (h - k + TRUST_WINDOW_SIZE) % TRUST_WINDOW_SIZE

\* Going back from the head, and on to the next one, without the remainder.
LEMMA BackSteps ==
  ASSUME NEW h \in Ring, NEW k \in 1..TRUST_WINDOW_SIZE
  PROVE  /\ Back(h, k) = IF h >= k THEN h - k ELSE h - k + TRUST_WINDOW_SIZE
         /\ Back(h, k) \in Ring
         /\ (h + 1) % TRUST_WINDOW_SIZE
              = IF h + 1 = TRUST_WINDOW_SIZE THEN 0 ELSE h + 1
<1> DEFINE W == TRUST_WINDOW_SIZE
<1>1. /\ W \in Nat /\ W > 0 /\ h \in Nat /\ h < W
      /\ k \in Nat /\ 1 <= k /\ k <= W
  BY PeerAssumption DEF Ring
<1>2. \A n \in Nat : n < W => n % W = n
  BY <1>1
<1>3. \A n \in Nat : n >= W /\ n < W + W => n % W = n - W
  <2> SUFFICES ASSUME NEW n \in Nat, n >= W, n < W + W PROVE n % W = n - W
    OBVIOUS
  <2>1. n = W * 1 + (n - W) /\ n - W \in 0..(W - 1)
    BY <1>1
  <2>. QED
    BY <1>1, <2>1
<1> HIDE DEF W
<1>4. Back(h, k) = (h - k + W) % W
  BY DEF Back, W
<1>5. Back(h, k) = IF h >= k THEN h - k ELSE h - k + W
  <2>1. CASE h >= k
    BY <1>1, <1>3, <1>4, <2>1
  <2>2. CASE h < k
    BY <1>1, <1>2, <1>4, <2>2
  <2>. QED
    BY <1>1, <2>1, <2>2
<1>6. (h + 1) % W = IF h + 1 = W THEN 0 ELSE h + 1
  <2>1. CASE h + 1 = W
    BY <1>1, <1>3, <2>1
  <2>2. CASE h + 1 < W
    BY <1>1, <1>2, <2>2
  <2>. QED
    BY <1>1, <2>1, <2>2
<1>. QED
  BY <1>1, <1>5, <1>6 DEF W, Ring

\* A peer whose ring, read backwards, is the end of a history.
Exact(p, all) ==
  /\ p.window_fill = IF TRUST_WINDOW_SIZE <= Len(all) THEN TRUST_WINDOW_SIZE
                                                       ELSE Len(all)
  /\ \A k \in 1..p.window_fill :
       p.behavior_window[Back(p.window_head, k)] = all[Len(all) - k + 1]

\* record() takes one history to the next: the slot written is the one that is
\* a whole ring back, so none of the younger samples is lost.
LEMMA WrittenExact ==
  ASSUME NEW p \in PeerState, NEW all \in Seq(Sample), Exact(p, all),
         NEW sample \in Sample, NEW t \in Nat
  PROVE  Exact(Written(p, sample, t), Append(all, sample))
<1> DEFINE W == TRUST_WINDOW_SIZE
           q == Written(p, sample, t)
           next == Append(all, sample)
           h == p.window_head
           g == q.window_head
<1>1. /\ W \in Nat /\ W > 0 /\ h \in Ring /\ p.window_fill \in 0..W
      /\ p.behavior_window \in [Ring -> Sample \cup {"Empty"}]
      /\ Len(all) \in Nat
  BY PeerAssumption, PeerFields
<1>2. /\ q.behavior_window = [p.behavior_window EXCEPT ![h] = sample]
      /\ g = (h + 1) % W
      /\ q.window_fill = Min({W, p.window_fill + 1})
  BY DEF Written, PeerState
<1>3. /\ Len(next) = Len(all) + 1 /\ next[Len(all) + 1] = sample
      /\ \A j \in 1..Len(all) : next[j] = all[j]
  OBVIOUS
<1>4. q.window_fill = IF W <= p.window_fill + 1 THEN W ELSE p.window_fill + 1
  BY <1>1, <1>2, MinMaxPair
<1>5. q.window_fill = IF W <= Len(next) THEN W ELSE Len(next)
  BY <1>1, <1>3, <1>4 DEF Exact
<1>6. g = IF h + 1 = W THEN 0 ELSE h + 1
  BY <1>1, <1>2, BackSteps
<1>7. g \in Ring
  BY <1>1, <1>6 DEF Ring
<1> HIDE DEF q, g, next, h, W
<1>8. ASSUME NEW k \in 1..q.window_fill
      PROVE  q.behavior_window[Back(g, k)] = next[Len(next) - k + 1]
  <2>1. k \in 1..W /\ k <= p.window_fill + 1
    BY <1>1, <1>4
  <2>2. Back(g, k) = IF g >= k THEN g - k ELSE g - k + W
    BY <1>7, <2>1, BackSteps DEF W
  <2>3. h \in Nat /\ h < W
    BY <1>1 DEF Ring, W
  <2>4. CASE k = 1
    <3>1. Back(g, k) = h
      BY <1>6, <2>2, <2>3, <2>4, <1>1
    <3>. QED
      BY <1>1, <1>2, <1>3, <2>4, <3>1
  <2>5. CASE k > 1
    <3> DEFINE j == k - 1
    <3>1. j \in 1..W /\ j \in 1..p.window_fill /\ j < W
      BY <1>1, <2>1, <2>5
    <3>2. Back(h, j) = IF h >= j THEN h - j ELSE h - j + W
      BY <1>1, <3>1, BackSteps DEF W
    <3>3. Back(g, k) = Back(h, j) /\ Back(h, j) # h
      BY <1>1, <1>6, <2>1, <2>2, <2>3, <3>1, <3>2
    <3>4. Back(h, j) \in Ring
      BY <1>1, <3>1, BackSteps DEF W
    <3>5. q.behavior_window[Back(g, k)] = all[Len(all) - j + 1]
      BY <1>1, <1>2, <3>1, <3>3, <3>4 DEF Exact, h
    <3>6. p.window_fill <= Len(all)
      BY <1>1 DEF Exact
    <3>7. /\ Len(all) - j + 1 \in 1..Len(all)
          /\ Len(next) - k + 1 = Len(all) - j + 1
      BY <1>1, <1>3, <2>1, <3>1, <3>6
    <3>. QED
      BY <1>3, <3>5, <3>7
  <2>. QED
    BY <2>1, <2>4, <2>5
<1>. QED
  BY <1>5, <1>8 DEF Exact, W, q, g, next

\* A score, a decay and an admission leave ring and history as they are.
SameRing(p, q) ==
  /\ q.window_fill = p.window_fill /\ q.window_head = p.window_head
  /\ q.behavior_window = p.behavior_window

\* The ring of such a peer shows the same history.
LEMMA SameRingExact ==
  ASSUME NEW p, NEW q, NEW all, SameRing(p, q), Exact(p, all)
  PROVE  Exact(q, all)
  BY DEF SameRing, Exact

\* A new score is such a change ...
LEMMA ScoredSameRing ==
  ASSUME NEW p \in PeerState, NEW score
  PROVE  SameRing(p, Scored(p, score))
  BY DEF Scored, SameRing, PeerState

\* ... and a decay is one.
LEMMA DecayedSameRing ==
  ASSUME NEW p \in PeerState, NEW t
  PROVE  SameRing(p, Decayed(p, t))
<1>1. SameRing(p, p)
  BY DEF SameRing
<1>. QED
  BY <1>1, ScoredSameRing DEF Decayed

\* The property in terms of Exact.
Ringed == \A i \in Occupied : Exact(peers[i], samples[peers[i].id])

\* It is the property the runs check.
LEMMA RingedIsHistory ==
  ASSUME PeerTypeOK
  PROVE  Ringed => RingIsHistory
<1> SUFFICES ASSUME Ringed, NEW i \in Occupied
             PROVE  LET p == peers[i]
                    IN /\ p.window_fill = Len(Recent(p.id))
                       /\ \A k \in 1..p.window_fill :
                            p.behavior_window[Back(p.window_head, k)]
                              = Recent(p.id)[k]
  BY DEF RingIsHistory, Back
<1> DEFINE p == peers[i]
           all == samples[p.id]
           m == Min({TRUST_WINDOW_SIZE, Len(all)})
<1>1. p \in PeerState /\ p.id \in Ids
  BY PeerFields DEF PeerTypeOK, Occupied
<1>2. all \in Seq(Sample) /\ Len(all) \in Nat
  BY <1>1 DEF PeerTypeOK
<1>3. Exact(p, all)
  BY DEF Ringed
<1>4. m = p.window_fill /\ m \in Nat
  <2> DEFINE n == Len(all)
             f == p.window_fill
  <2>1. f = IF TRUST_WINDOW_SIZE <= n THEN TRUST_WINDOW_SIZE ELSE n
    BY <1>3 DEF Exact
  <2>2. n \in Nat /\ TRUST_WINDOW_SIZE \in Nat
    BY <1>2, PeerAssumption
  <2>3. m = Min({TRUST_WINDOW_SIZE, n})
    OBVIOUS
  <2> HIDE DEF n, f, m
  <2>4. m = IF TRUST_WINDOW_SIZE <= n THEN TRUST_WINDOW_SIZE ELSE n
    BY <2>2, <2>3, MinMaxPair
  <2>. QED
    BY <2>1, <2>2, <2>4 DEF f
<1>5. Recent(p.id) = [k \in 1..m |-> all[Len(all) - k + 1]]
  BY DEF Recent
<1> HIDE DEF p, all, m
<1>6. Len(Recent(p.id)) = m
  BY <1>4, <1>5
<1>7. \A k \in 1..p.window_fill : Recent(p.id)[k] = all[Len(all) - k + 1]
  BY <1>4, <1>5
<1>8. /\ p.window_fill = Len(Recent(p.id))
      /\ \A k \in 1..p.window_fill :
           p.behavior_window[Back(p.window_head, k)] = Recent(p.id)[k]
  BY <1>3, <1>4, <1>6, <1>7 DEF Exact
<1>. QED
  BY <1>8 DEF p

\* A peer put in a slot, with the history that belongs to it.
LEMMA PuttingRinged ==
  ASSUME TableInv, Ringed, NEW i \in Slots, NEW p \in PeerState,
         peers' = [peers EXCEPT ![i] = p],
         i \in SlotsOf(p.id) \/ SlotsOf(p.id) = {},
         Exact(p, samples'[p.id]),
         \A id \in Ids : id # p.id => samples'[id] = samples[id]
  PROVE  Ringed'
<1>1. /\ peers \in [Slots -> PeerState \cup {None}]
      /\ \A j, k \in Occupied : peers[j].id = peers[k].id => j = k
  BY DEF TableInv, PeerTypeOK, TableIsMap
<1>2. ASSUME NEW j \in Occupied'
      PROVE  Exact(peers'[j], samples'[peers'[j].id])
  <2>1. CASE j = i
    BY <1>1, <2>1
  <2>2. CASE j # i
    <3>1. j \in Occupied /\ peers'[j] = peers[j] /\ peers[j] \in PeerState
      BY <1>1, <1>2, <2>2 DEF Occupied
    <3>2. peers[j].id # p.id /\ peers[j].id \in Ids
      BY <1>1, <2>2, <3>1, PeerFields DEF SlotsOf
    <3>. QED
      BY <3>1, <3>2 DEF Ringed
  <2>. QED
    BY <2>1, <2>2
<1>. QED
  BY <1>2 DEF Ringed

\* Each call on the table keeps the rings.
LEMMA NextRinged == TableInv /\ Ringed /\ [PeerNext]_peerVars => Ringed'
<1> SUFFICES ASSUME TableInv, Ringed, [PeerNext]_peerVars PROVE Ringed'
  OBVIOUS
<1>0. samples \in [Ids -> Seq(Sample)] /\ peers \in [Slots -> PeerState \cup {None}]
  BY DEF TableInv, PeerTypeOK
<1>1. ASSUME NEW id \in Ids, upsert(id) PROVE Ringed'
  <2> DEFINE i == IF SlotsOf(id) # {} THEN Min(SlotsOf(id))
                  ELSE Min(Slots \ Occupied)
  <2>1. NewPeer(id) \in PeerState /\ NewPeer(id).id = id
    BY NewPeerType
  <2>2. peers' = [peers EXCEPT ![i] = NewPeer(id)]
    BY <1>1 DEF upsert
  <2>3. i \in Slots /\ (i \in SlotsOf(id) \/ SlotsOf(id) = {})
    <3>1. CASE SlotsOf(id) # {}
      BY <3>1, FoundPeer
    <3>2. CASE SlotsOf(id) = {}
      <4>1. Slots \ Occupied # {} /\ Slots \ Occupied \in SUBSET Slots
        BY <1>1, <3>2, OccupiedSlots DEF upsert
      <4>. QED
        BY <3>2, <4>1, MinOfSlots
    <3>. QED
      BY <3>1, <3>2
  <2>4. samples' = [samples EXCEPT ![id] = <<>>]
    BY <1>1 DEF upsert
  <2>5. Exact(NewPeer(id), <<>>)
    BY PeerAssumption DEF NewPeer, Exact
  <2> HIDE DEF i
  <2>. QED
    BY <1>0, <2>1, <2>2, <2>3, <2>4, <2>5, PuttingRinged
<1>2. ASSUME NEW id \in Ids, NEW sample \in Sample, NEW t \in Ticks,
             record(id, sample, t)
      PROVE  Ringed'
  <2> DEFINE i == Min(SlotsOf(id))
             p == Written(peers[i], sample, t)
             q == Scored(p, recalculate_score(p))
  <2>1. /\ i \in Slots /\ i \in SlotsOf(id)
        /\ peers[i] \in PeerState /\ peers[i].id = id
    BY <1>2, FoundPeer DEF record
  <2>2. p \in PeerState /\ p.id = id /\ t \in Nat
    BY <2>1, WrittenType, PeerAssumption
  <2>3. recalculate_score(p) \in I16
    <3> HIDE DEF p
    <3>1. recalculate_score(p) \in TRUST_MIN..TRUST_MAX
      BY <2>2, ScoreType
    <3>. QED
      BY <3>1 DEF TRUST_MIN, TRUST_MAX, I16
  <2>4. q \in PeerState /\ q.id = id /\ SameRing(p, q)
    BY <2>2, <2>3, ScoredType, ScoredSameRing
  <2>5. Exact(p, Append(samples[id], sample))
    <3>1. Exact(peers[i], samples[id]) /\ samples[id] \in Seq(Sample)
      BY <1>0, <2>1 DEF Ringed, SlotsOf
    <3>. QED
      BY <2>1, <2>2, <3>1, WrittenExact
  <2>6. /\ peers' = [peers EXCEPT ![i] = q]
        /\ samples' = [samples EXCEPT ![id] = Append(samples[id], sample)]
    BY <1>2 DEF record
  <2> HIDE DEF i, p, q
  <2>7. Exact(q, samples'[id])
    BY <1>0, <2>4, <2>5, <2>6, SameRingExact
  <2>. QED
    BY <1>0, <2>1, <2>4, <2>6, <2>7, PuttingRinged
<1>3. ASSUME NEW id \in Ids, NEW t \in Ticks, admit_after_vdf(id, t)
      PROVE  Ringed'
  <2> DEFINE i == Min(SlotsOf(id))
  <2>1. /\ i \in Slots /\ i \in SlotsOf(id)
        /\ peers[i] \in PeerState /\ peers[i].id = id
    BY <1>3, FoundPeer DEF admit_after_vdf
  <2>2. /\ peers' \in [Slots -> PeerState \cup {None}]
        /\ samples' = samples
    BY <1>3, AdmitKeeps DEF admit_after_vdf, TableInv, PeerTypeOK
  <2>3. peers' = [peers EXCEPT ![i] =
                    [peers[i] EXCEPT !.vdf_verified = TRUE, !.last_active_tick = t,
                              !.connection = "Active", !.trust_score = 10]]
    BY <1>3 DEF admit_after_vdf
  <2> HIDE DEF i
  <2>4. /\ \A j \in Slots : j # i => peers'[j] = peers[j]
        /\ peers'[i].id = id /\ SameRing(peers[i], peers'[i])
    BY <1>0, <2>1, <2>3 DEF SameRing, PeerState
  <2>5. i \in Occupied /\ Exact(peers[i], samples[id])
    BY <2>1 DEF SlotsOf, Ringed
  <2>6. \A j \in Occupied' : Exact(peers'[j], samples'[peers'[j].id])
    BY <2>1, <2>2, <2>4, <2>5, SameRingExact DEF Ringed, Occupied
  <2>. QED
    BY <2>6 DEF Ringed
<1>4. ASSUME NEW t \in Ticks, tick_all(t) PROVE Ringed'
  <2>1. /\ peers' = [i \in Slots |-> IF peers[i] = None THEN None
                                     ELSE Decayed(peers[i], t)]
        /\ samples' = samples
    BY <1>4 DEF tick_all
  <2>2. ASSUME NEW i \in Occupied'
        PROVE  Exact(peers'[i], samples'[peers'[i].id])
    <3>1. i \in Slots /\ peers'[i] # None
      BY <2>2 DEF Occupied
    <3>2. peers[i] # None /\ peers'[i] = Decayed(peers[i], t)
      BY <2>1, <3>1
    <3>3. i \in Occupied /\ peers[i] \in PeerState /\ t \in Nat
      BY <1>0, <3>1, <3>2, PeerAssumption DEF Occupied
    <3>4. /\ SameRing(peers[i], Decayed(peers[i], t))
          /\ Decayed(peers[i], t).id = peers[i].id
      BY <3>3, DecayedSameRing, DecayedType
    <3>. QED
      BY <2>1, <3>2, <3>3, <3>4, SameRingExact DEF Ringed
  <2>. QED
    BY <2>2 DEF Ringed
<1>5. ASSUME evict_banned PROVE Ringed'
  BY <1>5 DEF evict_banned, Ringed, Occupied
<1>6. CASE UNCHANGED peerVars
  BY <1>6 DEF Ringed, Occupied, peerVars
<1>. QED
  BY <1>1, <1>2, <1>3, <1>4, <1>5, <1>6 DEF PeerNext

\* For every size of the ring and of the table: read backwards from its head,
\* the ring of each peer is its recent history, whatever was recorded, how
\* often the ring wrapped around and how often peers were evicted.
THEOREM PeerRingIsHistory == PeerSpec => []RingIsHistory
<1>1. PeerInit => Ringed
  BY DEF PeerInit, Ringed, Occupied
<1>2. TableInv /\ Ringed => RingIsHistory
  BY RingedIsHistory DEF TableInv
<1>. QED
  BY <1>1, <1>2, NextRinged, TableInvariance, PTL DEF PeerSpec

-----------------------------------------------------------------------------
\* A ring is filled from its first slot on.
FillsUp(p) == p.window_fill < TRUST_WINDOW_SIZE => p.window_head = p.window_fill

\* The rings of the table are.
FillsInOrder == \A i \in Occupied : FillsUp(peers[i])

\* record() moves head and fill together until the ring is full.
LEMMA WrittenFills ==
  ASSUME NEW p \in PeerState, FillsUp(p), NEW sample, NEW t
  PROVE  FillsUp(Written(p, sample, t)) /\ Written(p, sample, t).window_fill > 0
<1> DEFINE W == TRUST_WINDOW_SIZE
           h == p.window_head
           f == p.window_fill
           q == Written(p, sample, t)
<1>1. /\ W \in Nat /\ W > 0 /\ h \in Ring /\ f \in Nat /\ f <= W
      /\ (h + 1) % W = IF h + 1 = W THEN 0 ELSE h + 1
  <2>1. W \in Nat /\ W > 0 /\ h \in Ring /\ f \in 0..W /\ 1 \in 1..W
    BY PeerAssumption, PeerFields
  <2>. QED
    BY <2>1, BackSteps
<1>2. q.window_head = (h + 1) % W /\ q.window_fill = Min({W, f + 1})
  BY DEF Written, PeerState
<1>3. f < W => h = f
  BY DEF FillsUp
<1> HIDE DEF W, h, f, q
<1>4. Min({W, f + 1}) = IF W <= f + 1 THEN W ELSE f + 1
  BY <1>1, MinMaxPair
<1>5. q.window_fill < W => q.window_head = q.window_fill
  BY <1>1, <1>2, <1>3, <1>4
<1>6. q.window_fill > 0
  BY <1>1, <1>2, <1>4
<1>. QED
  BY <1>5, <1>6 DEF FillsUp, W, q

\* Each call on the table keeps the rings filled in order.
LEMMA NextFills ==
  TableInv /\ FillsInOrder /\ [PeerNext]_peerVars => FillsInOrder'
<1> SUFFICES ASSUME TableInv, FillsInOrder, [PeerNext]_peerVars,
                    NEW i \in Slots, peers'[i] # None
             PROVE  FillsUp(peers'[i])
  BY DEF FillsInOrder, Occupied
<1>1. /\ peers \in [Slots -> PeerState \cup {None}]
      /\ \A j \in Slots : peers[j] # None => FillsUp(peers[j])
  BY DEF TableInv, PeerTypeOK, FillsInOrder, Occupied
<1>2. \A p, q : SameRing(p, q) /\ FillsUp(p) => FillsUp(q)
  BY DEF SameRing, FillsUp
<1>3. \A id : FillsUp(NewPeer(id))
  BY DEF FillsUp, NewPeer
<1>4. ASSUME NEW id \in Ids, upsert(id) PROVE FillsUp(peers'[i])
  <2>1. PICK j : peers' = [peers EXCEPT ![j] = NewPeer(id)]
    BY <1>4 DEF upsert
  <2>. QED
    BY <1>1, <1>3, <2>1
<1>5. ASSUME NEW id \in Ids, NEW sample \in Sample, NEW t \in Ticks,
             record(id, sample, t)
      PROVE  FillsUp(peers'[i])
  <2> DEFINE j == Min(SlotsOf(id))
             p == Written(peers[j], sample, t)
  <2>1. j \in Slots /\ peers[j] \in PeerState /\ peers[j] # None
    BY <1>5, FoundPeer, PeerNotNone DEF record
  <2>2. p \in PeerState /\ FillsUp(p)
    BY <1>1, <2>1, WrittenFills, WrittenType, PeerAssumption
  <2>3. peers' = [peers EXCEPT ![j] = Scored(p, recalculate_score(p))]
    BY <1>5 DEF record
  <2> HIDE DEF j, p
  <2>4. FillsUp(Scored(p, recalculate_score(p)))
    BY <1>2, <2>2, ScoredSameRing
  <2>. QED
    BY <1>1, <2>3, <2>4
<1>6. ASSUME NEW id \in Ids, NEW t \in Ticks, admit_after_vdf(id, t)
      PROVE  FillsUp(peers'[i])
  <2> DEFINE j == Min(SlotsOf(id))
             q == [peers[j] EXCEPT !.vdf_verified = TRUE, !.last_active_tick = t,
                                   !.connection = "Active", !.trust_score = 10]
  <2>1. j \in Slots /\ peers[j] \in PeerState /\ peers[j] # None
    BY <1>6, FoundPeer, PeerNotNone DEF admit_after_vdf
  <2>2. peers' = [peers EXCEPT ![j] = q]
    BY <1>6 DEF admit_after_vdf
  <2>3. SameRing(peers[j], q)
    BY <2>1 DEF SameRing, PeerState
  <2> HIDE DEF j, q
  <2>. QED
    BY <1>1, <1>2, <2>1, <2>2, <2>3
<1>7. ASSUME NEW t \in Ticks, tick_all(t) PROVE FillsUp(peers'[i])
  <2>1. peers[i] # None /\ peers'[i] = Decayed(peers[i], t)
    BY <1>7 DEF tick_all
  <2>2. SameRing(peers[i], Decayed(peers[i], t))
    BY <1>1, <2>1, DecayedSameRing
  <2>. QED
    BY <1>1, <1>2, <2>1, <2>2
<1>8. CASE evict_banned
  BY <1>1, <1>8 DEF evict_banned
<1>9. CASE UNCHANGED peerVars
  BY <1>1, <1>9 DEF peerVars
<1>. QED
  BY <1>4, <1>5, <1>6, <1>7, <1>8, <1>9 DEF PeerNext

\* The samples that recalculate_score() counts in the ring ...
RingHas(p, s) == {i \in 0..(p.window_fill - 1) : p.behavior_window[i] = s}
\* ... and those at the end of a history.
EndHas(all, n, s) == {k \in 1..n : all[Len(all) - k + 1] = s}

\* The filled slots hold each sample as often as the recent history does: going
\* back from the head maps the one onto the other, one to one.
LEMMA RingCounts ==
  ASSUME NEW p \in PeerState, NEW all \in Seq(Sample), NEW s,
         Exact(p, all), FillsUp(p)
  PROVE  /\ IsFiniteSet(RingHas(p, s)) /\ IsFiniteSet(EndHas(all, p.window_fill, s))
         /\ Cardinality(RingHas(p, s))
              = Cardinality(EndHas(all, p.window_fill, s))
<1> DEFINE W == TRUST_WINDOW_SIZE
           h == p.window_head
           f == p.window_fill
           A == EndHas(all, f, s)
           B == RingHas(p, s)
           F == [k \in A |-> Back(h, k)]
<1>1. /\ W \in Nat /\ W > 0 /\ h \in Ring /\ h \in Nat /\ h < W
      /\ f \in Nat /\ f <= W
  BY PeerAssumption, PeerFields DEF Ring
<1>2. f < W => h = f
  BY DEF FillsUp
<1>3. \A k \in 1..f : p.behavior_window[Back(h, k)] = all[Len(all) - k + 1]
  BY DEF Exact
<1>4. \A k \in 1..f : Back(h, k) = IF h >= k THEN h - k ELSE h - k + W
  <2>1. \A k \in 1..f : k \in 1..W
    BY <1>1
  <2>. QED
    BY <1>1, <2>1, BackSteps
<1>5. A = {k \in 1..f : all[Len(all) - k + 1] = s}
  BY DEF EndHas
<1>6. B = {i \in 0..(f - 1) : p.behavior_window[i] = s}
  BY DEF RingHas
<1> HIDE DEF W, h, f, A, B
<1>7. IsFiniteSet(A)
  <2>1. IsFiniteSet(1..f)
    BY <1>1, FS_Interval
  <2>. QED
    BY <1>5, <2>1, FS_Subset
<1>8. F \in [A -> B]
  <2> SUFFICES ASSUME NEW k \in A PROVE Back(h, k) \in B
    OBVIOUS
  <2>1. k \in 1..f /\ p.behavior_window[Back(h, k)] = s
    BY <1>3, <1>5
  <2>2. Back(h, k) \in 0..(f - 1)
    BY <1>1, <1>2, <1>4, <2>1
  <2>. QED
    BY <1>6, <2>1, <2>2
<1>9. \A k, l \in A : F[k] = F[l] => k = l
  <2> SUFFICES ASSUME NEW k \in A, NEW l \in A, Back(h, k) = Back(h, l)
               PROVE  k = l
    OBVIOUS
  <2>1. k \in 1..f /\ l \in 1..f
    BY <1>5
  <2>. QED
    BY <1>1, <1>4, <2>1
<1>10. \A i \in B : \E k \in A : F[k] = i
  <2> SUFFICES ASSUME NEW i \in B PROVE \E k \in A : Back(h, k) = i
    OBVIOUS
  <2>1. i \in 0..(f - 1) /\ p.behavior_window[i] = s
    BY <1>6
  <2> DEFINE k == IF h > i THEN h - i ELSE h - i + W
  <2>2. k \in 1..f
    BY <1>1, <1>2, <2>1
  <2>3. Back(h, k) = i
    BY <1>1, <1>4, <2>1, <2>2
  <2>4. k \in A
    BY <1>3, <1>5, <2>1, <2>2, <2>3
  <2>. QED
    BY <2>3, <2>4
<1> HIDE DEF F
<1>11. F \in Bijection(A, B)
  BY <1>8, <1>9, <1>10 DEF Bijection, Injection, Surjection, IsInjective
<1>12. IsFiniteSet(B) /\ Cardinality(A) = Cardinality(B)
  BY <1>7, <1>11, FS_Bijection DEF ExistsBijection
<1>. QED
  BY <1>7, <1>12 DEF A, B, f

\* Each sample of a history is good or bad.
LEMMA GoodOrBad ==
  ASSUME NEW all \in Seq(Sample), NEW n \in Nat, n <= Len(all)
  PROVE  /\ Cardinality(EndHas(all, n, "Good")) \in Nat
         /\ Cardinality(EndHas(all, n, "Bad")) \in Nat
         /\ Cardinality(EndHas(all, n, "Good"))
              + Cardinality(EndHas(all, n, "Bad")) = n
<1> DEFINE G == EndHas(all, n, "Good")
           B == EndHas(all, n, "Bad")
<1>1. IsFiniteSet(1..n) /\ Cardinality(1..n) = n
  BY FS_Interval
<1>2. G \subseteq 1..n /\ B \subseteq 1..n
  BY DEF EndHas
<1>3. G \cup B = 1..n
  <2> SUFFICES ASSUME NEW k \in 1..n
               PROVE  all[Len(all) - k + 1] \in {"Good", "Bad"}
    BY DEF EndHas
  <2>1. Len(all) - k + 1 \in 1..Len(all)
    OBVIOUS
  <2>. QED
    BY <2>1 DEF Sample
<1>4. G \cap B = {}
  BY DEF EndHas
<1> HIDE DEF G, B
<1>5. /\ IsFiniteSet(G) /\ IsFiniteSet(B)
      /\ Cardinality(G) \in Nat /\ Cardinality(B) \in Nat
  BY <1>1, <1>2, FS_Subset, FS_CardinalityType
<1>6. Cardinality(G \cup B)
        = Cardinality(G) + Cardinality(B) - Cardinality(G \cap B)
  BY <1>5, FS_Union
<1>7. Cardinality(G \cap B) = 0
  BY <1>4, FS_EmptySet
<1>8. Cardinality(G) + Cardinality(B) = n
  <2>1. Cardinality(G \cup B) = n
    BY ONLY <1>1, <1>3, Zenon
  <2>2. PICK x \in Nat, y \in Nat : x = Cardinality(G) /\ y = Cardinality(B)
    BY <1>5
  <2>3. n = x + y - 0
    BY ONLY <1>6, <1>7, <2>1, <2>2, Zenon
  <2>. QED
    BY <2>2, <2>3
<1>. QED
  BY <1>5, <1>8 DEF G, B

\* Rounded towards zero and clamped, the score is at most the threshold just
\* when the bad samples are three times the good ones.
LEMMA ScoreBans ==
  ASSUME NEW g \in Nat, NEW b \in Nat, g + b > 0,
         NEW n \in Int, n = (g - b) * 100
  PROVE  LET raw == Quotient(n, g + b)
         IN /\ raw \in Int
            /\ Max({TRUST_MIN, Min({TRUST_MAX, raw})}) <= TRUST_THRESHOLD_BAN
                 <=> b >= 3 * g
<1> DEFINE d == g + b
           raw == Quotient(n, g + b)
           low == Min({TRUST_MAX, raw})
<1>1. d \in Nat /\ d > 0
  OBVIOUS
<1>2. raw \in Int /\ (raw <= -50 <=> b >= 3 * g)
  <2>1. CASE n >= 0
    <3>1. raw = n \div d
      BY <2>1 DEF Quotient
    <3>2. n \div d \in Int /\ n \div d >= 0
      <4> HIDE DEF d
      <4>. QED
        BY <1>1, <2>1
    <3>3. ~(b >= 3 * g)
      BY <2>1
    <3> HIDE DEF raw, d
    <3>. QED
      BY <3>1, <3>2, <3>3
  <2>2. CASE n < 0
    <3> DEFINE x == -n
               m == x \div d
    <3>1. raw = -m /\ x \in Nat
      BY <2>2 DEF Quotient
    <3>2. (x >= 50 * d) <=> b >= 3 * g
      OBVIOUS
    <3> HIDE DEF raw, d, x
    <3>3. m \in Nat /\ d * m <= x /\ x < d * m + d
      BY <1>1, <3>1
    <3> HIDE DEF m
    <3>4. m >= 50 => x >= 50 * d
      <4> SUFFICES ASSUME m >= 50 PROVE x >= 50 * d
        OBVIOUS
      <4>1. PICK e \in Nat : m = 50 + e
        <5>1. m - 50 \in Nat /\ m = 50 + (m - 50)
          BY <3>3
        <5>. QED
          BY <5>1
      <4>2. d * m = d * 50 + d * e /\ d * e >= 0
        BY <1>1, <4>1
      <4>. QED
        BY <1>1, <3>1, <3>3, <4>1, <4>2
    <3>5. m < 50 => x < 50 * d
      <4> SUFFICES ASSUME m < 50 PROVE x < 50 * d
        OBVIOUS
      <4>1. PICK e \in Nat : m + 1 + e = 50
        <5>1. 49 - m \in Nat /\ m + 1 + (49 - m) = 50
          BY <3>3
        <5>. QED
          BY <5>1
      <4>2. d * 50 = d * m + d + d * e /\ d * e >= 0
        BY <1>1, <3>3, <4>1
      <4>. QED
        BY <1>1, <3>1, <3>3, <4>1, <4>2
    <3>. QED
      BY <1>1, <3>1, <3>2, <3>3, <3>4, <3>5
  <2>. QED
    BY <2>1, <2>2
<1>3. 100 \in Int /\ TRUST_MAX = 100
  BY DEF TRUST_MAX
<1> HIDE DEF raw
<1>4. low = IF 100 <= raw THEN 100 ELSE raw
  BY <1>2, <1>3, MinMaxPair
<1> HIDE DEF low
<1>5. low \in Int
  BY <1>2, <1>4
<1>6. Max({TRUST_MIN, low}) = IF TRUST_MIN >= low THEN TRUST_MIN ELSE low
  <2>1. TRUST_MIN \in Int
    BY DEF TRUST_MIN
  <2>. QED
    BY <1>5, <2>1, MinMaxPair
<1>7. Max({TRUST_MIN, low}) <= TRUST_THRESHOLD_BAN <=> raw <= -50
  BY <1>2, <1>4, <1>5, <1>6 DEF TRUST_THRESHOLD_BAN, TRUST_MIN
<1>. QED
  BY <1>2, <1>7 DEF raw, low

\* record() bans just the peers whose history deserves it.
LEMMA RecordBans ==
  ASSUME NEW p \in PeerState, NEW all \in Seq(Sample), Exact(p, all), FillsUp(p),
         p.window_fill > 0
  PROVE  Scored(p, recalculate_score(p)).connection = "Banned"
           <=> Cardinality(EndHas(all, p.window_fill, "Bad"))
                 >= 3 * Cardinality(EndHas(all, p.window_fill, "Good"))
<1> DEFINE f == p.window_fill
           g == Cardinality(EndHas(all, f, "Good"))
           b == Cardinality(EndHas(all, f, "Bad"))
           score == recalculate_score(p)
<1>1. f \in Nat /\ f <= Len(all)
  BY PeerAssumption, PeerFields DEF Exact
<1>2. g \in Nat /\ b \in Nat /\ g + b = f
  BY <1>1, GoodOrBad
<1>3. Cardinality(RingHas(p, "Good")) = g /\ Cardinality(RingHas(p, "Bad")) = b
  BY RingCounts
<1>4. score = Max({TRUST_MIN, Min({TRUST_MAX, Quotient((g - b) * 100, f)})})
  <2>1. recalculate_score(p)
          = Max({TRUST_MIN, Min({TRUST_MAX,
              Quotient((Cardinality(RingHas(p, "Good"))
                          - Cardinality(RingHas(p, "Bad"))) * 100, f)})})
    BY DEF recalculate_score, RingHas
  <2>. QED
    BY <1>3, <2>1
<1>5. score \in Int
  <2>1. score \in TRUST_MIN..TRUST_MAX
    BY ScoreType
  <2> HIDE DEF score
  <2>. QED
    BY <2>1 DEF TRUST_MIN, TRUST_MAX
<1>6. Scored(p, score).connection = Connection(score, p.vdf_verified)
  BY DEF Scored, PeerState
<1> HIDE DEF f, g, b, score
<1>7. score <= TRUST_THRESHOLD_BAN <=> b >= 3 * g
  <2>1. g + b > 0 /\ (g - b) * 100 \in Int
    BY <1>2 DEF f
  <2>. QED
    BY <1>2, <1>4, <2>1, ScoreBans
<1>8. Connection(score, p.vdf_verified) = "Banned"
        <=> score <= TRUST_THRESHOLD_BAN
  BY <1>5 DEF Connection, TRUST_THRESHOLD_BAN
<1>. QED
  BY <1>6, <1>7, <1>8 DEF score, g, b, f

\* What the property says of one slot.
BansRight(i) ==
  LET id == peers[i].id
      Recently(s) == Cardinality({k \in DOMAIN Recent(id)' :
                                    Recent(id)'[k] = s})
  IN Len(samples'[id]) > Len(samples[id]) =>
       (peers'[i].connection = "Banned"
          <=> Recently("Bad") >= 3 * Recently("Good"))

\* Only record() lengthens a history, and it bans who deserves it.
LEMMA NextBans ==
  ASSUME TableInv, Ringed, FillsInOrder, PeerNext, NEW i \in Occupied
  PROVE  BansRight(i)
<1> DEFINE me == peers[i].id
<1>1. /\ peers \in [Slots -> PeerState \cup {None}] /\ samples \in [Ids -> Seq(Sample)]
      /\ samples' \in [Ids -> Seq(Sample)]
      /\ i \in Slots /\ peers[i] \in PeerState /\ me \in Ids
  BY NextKeeps, PeerFields DEF TableInv, PeerTypeOK, Occupied
<1>2. CASE samples'[me] = samples[me] \/ samples'[me] = <<>>
  <2>1. Len(samples[me]) \in Nat /\ Len(<<>>) = 0
    BY <1>1
  <2>2. ~(Len(samples'[me]) > Len(samples[me]))
    BY <1>2, <2>1
  <2>. QED
    BY <2>2 DEF BansRight
<1>3. ASSUME NEW id \in Ids, upsert(id)
      PROVE  samples'[me] = samples[me] \/ samples'[me] = <<>>
  BY <1>1, <1>3 DEF upsert
<1>4. ASSUME NEW id \in Ids, NEW t \in Ticks, admit_after_vdf(id, t)
      PROVE  samples'[me] = samples[me]
  BY <1>4 DEF admit_after_vdf
<1>5. ASSUME NEW t \in Ticks, tick_all(t) PROVE samples'[me] = samples[me]
  BY <1>5 DEF tick_all
<1>6. CASE evict_banned
  BY <1>2, <1>6 DEF evict_banned
<1>7. ASSUME NEW id \in Ids, NEW sample \in Sample, NEW t \in Ticks,
             record(id, sample, t)
      PROVE  BansRight(i)
  <2>1. CASE id # me
    BY <1>1, <1>2, <1>7, <2>1 DEF record
  <2>2. CASE id = me
    <3> DEFINE p == Written(peers[i], sample, t)
               q == Scored(p, recalculate_score(p))
               all == Append(samples[me], sample)
               f == p.window_fill
    <3>1. Min(SlotsOf(id)) = i
      BY <1>7, <2>2, FoundPeer
         DEF record, TableInv, TableIsMap, SlotsOf
    <3>2. /\ peers' = [peers EXCEPT ![i] = q]
          /\ samples' = [samples EXCEPT ![me] = all]
      BY <1>7, <2>2, <3>1 DEF record
    <3>3. p \in PeerState /\ FillsUp(p) /\ f > 0 /\ p.id = me
      BY <1>1, WrittenType, WrittenFills, PeerAssumption DEF FillsInOrder
    <3>4. all \in Seq(Sample) /\ Exact(p, all)
      BY <1>1, WrittenExact, PeerAssumption DEF Ringed
    <3>5. q.id = me
      <4> HIDE DEF p
      <4>1. recalculate_score(p) \in I16
        <5>1. recalculate_score(p) \in TRUST_MIN..TRUST_MAX
          BY <3>3, ScoreType
        <5>. QED
          BY <5>1 DEF TRUST_MIN, TRUST_MAX, I16
      <4>. QED
        BY <3>3, <4>1, ScoredType
    <3> HIDE DEF p, all
    <3>6. q.connection = "Banned"
            <=> Cardinality(EndHas(all, f, "Bad"))
                  >= 3 * Cardinality(EndHas(all, f, "Good"))
      BY <3>3, <3>4, RecordBans
    <3> HIDE DEF q
    <3>7. peers'[i] = q /\ samples'[me] = all /\ peers[i].id' = me
      BY <1>1, <3>2, <3>5
    <3>8. Recent(peers[i].id)' = [k \in 1..f |-> all[Len(all) - k + 1]]
      <4>1. Min({TRUST_WINDOW_SIZE, Len(all)}) = f
        <5>1. Len(all) \in Nat /\ TRUST_WINDOW_SIZE \in Nat
          BY <3>4, PeerAssumption
        <5>. QED
          BY <3>4, <5>1, MinMaxPair DEF Exact
      <4>. QED
        BY <3>7, <4>1 DEF Recent
    <3>9. \A s : {k \in DOMAIN Recent(peers[i].id)' : Recent(peers[i].id)'[k] = s}
                   = EndHas(all, f, s)
      <4> DEFINE R == [k \in 1..f |-> all[Len(all) - k + 1]]
      <4>1. \A s : {k \in DOMAIN R : R[k] = s} = EndHas(all, f, s)
        BY DEF EndHas
      <4>. QED
        BY <3>8, <4>1
    <3>. QED
      BY <3>6, <3>7, <3>9 DEF BansRight
  <2>. QED
    BY <2>1, <2>2
<1>. QED
  BY <1>2, <1>3, <1>4, <1>5, <1>6, <1>7 DEF PeerNext

\* For every size of the ring and any mix of samples: record() bans a peer just
\* when three quarters of its recent history are bad, although the score is
\* rounded towards zero and counts slots of the ring and not the history.
THEOREM PeerBanIsDeserved == PeerSpec => BanIsDeserved
<1>1. PeerInit => Ringed /\ FillsInOrder
  BY DEF PeerInit, Ringed, FillsInOrder, Occupied
<1>2. TableInv /\ Ringed /\ FillsInOrder /\ [PeerNext]_peerVars
        => [\A i \in Occupied : BansRight(i)]_peerVars
  BY NextBans
<1>3. PeerSpec => [][\A i \in Occupied : BansRight(i)]_peerVars
  BY <1>1, <1>2, NextRinged, NextFills, TableInvariance, PTL DEF PeerSpec
<1>. QED
  BY <1>3, PTL DEF BanIsDeserved, BansRight

-----------------------------------------------------------------------------
\* Sessions.

\* A position and its word and bit.
LEMMA WordAndBit ==
  ASSUME NEW p \in Nat
  PROVE  p \div 64 \in Nat /\ p % 64 \in Bits /\ p = 64 * (p \div 64) + (p % 64)
<1>1. p \div 64 \in Nat
  OBVIOUS
<1>2. p % 64 \in 0..63
  OBVIOUS
<1>3. p = 64 * (p \div 64) + (p % 64)
  OBVIOUS
<1> QED  BY <1>1, <1>2, <1>3 DEF Bits, WORD_BITS

USE SessionAssumption DEF SessionAssumption, WORD_BITS

\* A position of the window is in one of its words.
LEMMA PositionInWindow ==
  ASSUME NEW p \in 0..(ANTI_REPLAY_WINDOW_SIZE - 1)
  PROVE  p \div 64 \in Words /\ p \div 64 < WINDOW_WORDS
<1>1. p \in Nat /\ p < 64 * WINDOW_WORDS
  BY DEF ANTI_REPLAY_WINDOW_SIZE
<1>2. p \div 64 \in Nat /\ p \div 64 < WINDOW_WORDS
  BY <1>1, WordAndBit DEF Bits
<1> QED  BY <1>2 DEF Words

\* The bit b of word i is at the position 64 * i + b.
LEMMA PositionOf ==
  ASSUME NEW i \in Nat, NEW b \in Bits
  PROVE  (64 * i + b) \div 64 = i /\ (64 * i + b) % 64 = b
BY DEF Bits

\* What shift_window_left() does to a position: it moves up by so many bits,
\* over the word boundaries, and what enters at the bottom is clear.
LEMMA ShiftMoves ==
  ASSUME NEW window \in Window, NEW bits \in Nat \ {0},
         NEW p \in 0..(ANTI_REPLAY_WINDOW_SIZE - 1)
  PROVE  get_bit(shift_window_left(window, bits), p)
           <=> p >= bits /\ get_bit(window, p - bits)
<1> DEFINE i == p \div 64
           b == p % 64
           ws == bits \div 64
           bs == bits % 64
<1>1. i \in Words /\ i \in Nat /\ b \in Bits /\ p = 64 * i + b
  BY WordAndBit, PositionInWindow DEF ANTI_REPLAY_WINDOW_SIZE
<1>2. ws \in Nat /\ bs \in Bits /\ bits = 64 * ws + bs
  BY WordAndBit
<1> HIDE DEF i, b, ws, bs
<1>3. CASE bits >= ANTI_REPLAY_WINDOW_SIZE
  <2>1. shift_window_left(window, bits) = EmptyWindow
    BY <1>3 DEF shift_window_left
  <2>2. ~get_bit(EmptyWindow, p)
    BY <1>1 DEF get_bit, EmptyWindow, i, b
  <2> QED
    BY <1>3, <2>1, <2>2 DEF ANTI_REPLAY_WINDOW_SIZE
<1>4. CASE bits < ANTI_REPLAY_WINDOW_SIZE
  <2> DEFINE word == IF i < ws THEN {}
                     ELSE ShiftUp(window[i - ws], bs)
                            \cup IF bs > 0 /\ i > ws
                                 THEN ShiftDown(window[i - ws - 1], 64 - bs)
                                 ELSE {}
  <2>1. get_bit(shift_window_left(window, bits), p) <=> b \in word
    <3>1. ~(bits >= ANTI_REPLAY_WINDOW_SIZE)
      BY <1>4 DEF ANTI_REPLAY_WINDOW_SIZE
    <3>2. shift_window_left(window, bits)[i] = word
      BY <3>1, <1>1 DEF shift_window_left, ws, bs
    <3> QED  BY <3>2, <1>1 DEF get_bit, Words, i, b
  <2>2. CASE i < ws
    BY <2>1, <2>2, <1>1, <1>2 DEF Bits
  <2>3. CASE i >= ws /\ b >= bs
    <3>1. p >= bits /\ (p - bits) \div 64 = i - ws /\ (p - bits) % 64 = b - bs
      <4>1. i - ws \in Nat /\ b - bs \in Bits
        BY <2>3, <1>1, <1>2 DEF Bits
      <4>2. p - bits = 64 * (i - ws) + (b - bs) /\ p >= bits
        BY <2>3, <1>1, <1>2 DEF Bits
      <4> QED  BY <4>1, <4>2, PositionOf
    <3>2. i - ws \in Words /\ i - ws < WINDOW_WORDS
      BY <2>3, <1>1, <1>2 DEF Words
    <3>3. window[i - ws] \subseteq Bits
      BY <3>2 DEF Window
    <3>4. b \in ShiftUp(window[i - ws], bs) <=> b - bs \in window[i - ws]
      BY <3>3, <1>1, <1>2 DEF ShiftUp, Bits
    <3>5. (bs > 0 /\ i > ws) => b \notin ShiftDown(window[i - ws - 1], 64 - bs)
      <4> SUFFICES ASSUME bs > 0, i > ws,
                          b \in ShiftDown(window[i - ws - 1], 64 - bs)
                   PROVE  FALSE
        OBVIOUS
      <4>1. window[i - ws - 1] \subseteq Bits
        BY <1>1, <1>2 DEF Window, Words
      <4> QED  BY <4>1, <2>3, <1>1, <1>2 DEF ShiftDown, Bits
    <3>6. b \in word <=> b - bs \in window[i - ws]
      BY <2>3, <1>1, <1>2, <3>4, <3>5
    <3> QED  BY <2>1, <3>1, <3>2, <3>6 DEF get_bit
  <2>4. CASE i >= ws /\ b < bs
    <3>1. b \notin ShiftUp(window[i - ws], bs)
      <4>1. window[i - ws] \subseteq Bits
        BY <2>4, <1>1, <1>2 DEF Window, Words
      <4> QED  BY <4>1, <2>4, <1>1, <1>2 DEF ShiftUp, Bits
    <3>2. CASE i = ws
      <4>1. b \notin word
        BY <3>1, <3>2, <2>4, <1>1, <1>2
      <4>2. p < bits
        BY <3>2, <2>4, <1>1, <1>2 DEF Bits
      <4> QED  BY <2>1, <4>1, <4>2, <1>2
    <3>3. CASE i > ws
      <4>1. /\ p >= bits
            /\ (p - bits) \div 64 = i - ws - 1
            /\ (p - bits) % 64 = b + 64 - bs
        <5>1. i - ws - 1 \in Nat /\ b + 64 - bs \in Bits
          BY <3>3, <2>4, <1>1, <1>2 DEF Bits
        <5>2. p - bits = 64 * (i - ws - 1) + (b + 64 - bs) /\ p >= bits
          BY <3>3, <2>4, <1>1, <1>2 DEF Bits
        <5> QED  BY <5>1, <5>2, PositionOf
      <4>2. i - ws - 1 \in Words /\ i - ws - 1 < WINDOW_WORDS
        BY <3>3, <1>1, <1>2 DEF Words
      <4>3. window[i - ws - 1] \subseteq Bits
        BY <4>2 DEF Window
      <4>4. b \in ShiftDown(window[i - ws - 1], 64 - bs)
              <=> b + 64 - bs \in window[i - ws - 1]
        BY <4>3, <1>1, <1>2 DEF ShiftDown, Bits
      <4>5. b \in word <=> b + 64 - bs \in window[i - ws - 1]
        BY <3>1, <3>3, <4>4, <2>4, <1>1, <1>2 DEF Bits
      <4> QED  BY <2>1, <4>1, <4>2, <4>5 DEF get_bit
    <3> QED  BY <3>2, <3>3, <2>4, <1>1, <1>2
  <2> QED  BY <2>2, <2>3, <2>4, <1>1, <1>2 DEF Bits, Words
<1> QED  BY <1>3, <1>4 DEF ANTI_REPLAY_WINDOW_SIZE

\* set_bit() sets its position and no other.
LEMMA SetBitSets ==
  ASSUME NEW window \in Window,
         NEW q \in 0..(ANTI_REPLAY_WINDOW_SIZE - 1),
         NEW p \in 0..(ANTI_REPLAY_WINDOW_SIZE - 1)
  PROVE  get_bit(set_bit(window, q), p) <=> p = q \/ get_bit(window, p)
<1>1. /\ p \div 64 \in Words /\ p % 64 \in Bits
      /\ p = 64 * (p \div 64) + (p % 64) /\ p \div 64 < WINDOW_WORDS
  BY WordAndBit, PositionInWindow DEF ANTI_REPLAY_WINDOW_SIZE
<1>2. /\ q \div 64 \in Words /\ q % 64 \in Bits
      /\ q = 64 * (q \div 64) + (q % 64) /\ q \div 64 < WINDOW_WORDS
  BY WordAndBit, PositionInWindow DEF ANTI_REPLAY_WINDOW_SIZE
<1>3. set_bit(window, q)
        = [window EXCEPT ![q \div 64] = @ \cup {q % 64}]
  BY <1>2 DEF set_bit
<1>4. set_bit(window, q)[p \div 64]
        = IF p \div 64 = q \div 64 THEN window[p \div 64] \cup {q % 64}
          ELSE window[p \div 64]
  BY <1>1, <1>2, <1>3 DEF Window
<1>5. p = q <=> (p \div 64 = q \div 64 /\ p % 64 = q % 64)
  BY <1>1, <1>2
<1> QED  BY <1>1, <1>4, <1>5 DEF get_bit

\* Both leave a window of the same shape.
LEMMA WindowOps ==
  ASSUME NEW window \in Window, NEW n \in Nat
  PROVE  /\ shift_window_left(window, n) \in Window
         /\ set_bit(window, n) \in Window
<1>1. shift_window_left(window, n) \in Window
  <2>1. EmptyWindow \in Window
    BY DEF EmptyWindow, Window
  <2>2. \A w, k : ShiftUp(w, k) \subseteq Bits /\ ShiftDown(w, k) \subseteq Bits
    BY DEF ShiftUp, ShiftDown
  <2> QED  BY <2>1, <2>2 DEF shift_window_left, Window
<1>2. set_bit(window, n) \in Window
  <2>1. n % 64 \in Bits
    BY DEF Bits
  <2> QED  BY <2>1 DEF set_bit, Window
<1> QED  BY <1>1, <1>2

-----------------------------------------------------------------------------
\* What an accepted counter leaves: the same key, the higher counter, and one
\* position more, the one of this counter.
LEMMA ReceivedExact ==
  ASSUME NEW s \in SessionState, NEW counter \in Nat, now \in Nat,
         Accepts(s, counter)
  PROVE  /\ Received(s, counter) \in SessionState
         /\ Received(s, counter).session_key = s.session_key
         /\ Received(s, counter).recv_counter
              = IF Ahead(s, counter) THEN counter ELSE s.recv_counter
         /\ \A p \in 0..(ANTI_REPLAY_WINDOW_SIZE - 1) :
              LET q == p - (Received(s, counter).recv_counter - s.recv_counter)
              IN get_bit(Received(s, counter).recv_window, p)
                   <=> \/ Received(s, counter).recv_counter - p = counter
                       \/ q >= 0 /\ get_bit(s.recv_window, q)
<1>0. /\ s.recv_counter \in Nat /\ s.recv_window \in Window
      /\ 0 \in 0..(ANTI_REPLAY_WINDOW_SIZE - 1)
  BY DEF SessionState, ANTI_REPLAY_WINDOW_SIZE
<1>1. CASE Ahead(s, counter)
  <2> DEFINE d == counter - s.recv_counter
             w == shift_window_left(s.recv_window, d)
  <2>1. d \in Nat \ {0}
    BY <1>0, <1>1 DEF Ahead
  <2>2. w \in Window /\ set_bit(w, 0) \in Window
    BY <1>0, <2>1, WindowOps
  <2>3. Received(s, counter)
          = [s EXCEPT !.recv_window = set_bit(w, 0),
                      !.recv_counter = counter, !.last_activity = now]
    BY <1>1 DEF Received
  <2>4. /\ Received(s, counter).recv_window = set_bit(w, 0)
        /\ Received(s, counter).recv_counter = counter
        /\ Received(s, counter).session_key = s.session_key
        /\ Received(s, counter) \in SessionState
    BY <2>2, <2>3 DEF SessionState
  <2> HIDE DEF w
  <2>5. ASSUME NEW p \in 0..(ANTI_REPLAY_WINDOW_SIZE - 1)
        PROVE  get_bit(set_bit(w, 0), p)
                 <=> p = 0 \/ (p - d >= 0 /\ get_bit(s.recv_window, p - d))
    <3>1. get_bit(set_bit(w, 0), p) <=> p = 0 \/ get_bit(w, p)
      BY <1>0, <2>2, SetBitSets
    <3>2. get_bit(w, p) <=> p >= d /\ get_bit(s.recv_window, p - d)
      BY <1>0, <2>1, ShiftMoves DEF w
    <3> QED  BY <3>1, <3>2, <2>1
  <2> QED  BY <1>0, <1>1, <2>1, <2>4, <2>5
<1>2. CASE ~Ahead(s, counter)
  <2> DEFINE d == s.recv_counter - counter
  <2>1. d \in 0..(ANTI_REPLAY_WINDOW_SIZE - 1)
    BY <1>0, <1>2 DEF Ahead, Accepts, ANTI_REPLAY_WINDOW_SIZE
  <2>2. set_bit(s.recv_window, d) \in Window
    BY <1>0, <2>1, WindowOps
  <2>3. Received(s, counter)
          = [s EXCEPT !.recv_window = set_bit(s.recv_window, d),
                      !.last_activity = now]
    BY <1>2 DEF Received
  <2>4. /\ Received(s, counter).recv_window = set_bit(s.recv_window, d)
        /\ Received(s, counter).recv_counter = s.recv_counter
        /\ Received(s, counter).session_key = s.session_key
        /\ Received(s, counter) \in SessionState
    BY <2>2, <2>3 DEF SessionState
  <2>5. ASSUME NEW p \in 0..(ANTI_REPLAY_WINDOW_SIZE - 1)
        PROVE  get_bit(set_bit(s.recv_window, d), p)
                 <=> p = d \/ get_bit(s.recv_window, p)
    BY <1>0, <2>1, SetBitSets
  <2>6. \A p \in 0..(ANTI_REPLAY_WINDOW_SIZE - 1) :
          /\ p - (s.recv_counter - s.recv_counter) = p /\ p >= 0
          /\ p = d <=> s.recv_counter - p = counter
    BY <1>0, <2>1
  <2> QED  BY <1>0, <1>2, <2>4, <2>5, <2>6
<1> QED  BY <1>1, <1>2

-----------------------------------------------------------------------------
\* The inductive invariant: the window is exact, nothing above the highest
\* counter was accepted, no two sessions share a key and none has one that is
\* still to come.
KeysDistinct ==
  /\ \A a, b \in DOMAIN sessions :
       sessions[a].session_key = sessions[b].session_key => a = b
  /\ \A a \in DOMAIN sessions : sessions[a].session_key < keys
  /\ \A d \in delivered : d[1] < keys
NoneAhead ==
  \A a \in DOMAIN sessions, c \in Nat :
    <<sessions[a].session_key, c>> \in delivered
      => c <= sessions[a].recv_counter
DeliveriesCounted == IsFiniteSet(delivered) /\ ReplayRefused

SessionInv ==
  /\ SessionTypeOK /\ KeysDistinct /\ NoneAhead /\ WindowExact
  /\ DeliveriesCounted

\* The start: no session, no window.
LEMMA InitEstablishes == SessionInit => SessionInv
<1> SUFFICES ASSUME SessionInit PROVE SessionInv
  OBVIOUS
<1>1. DOMAIN sessions = {} /\ delivered = {}
  BY DEF SessionInit
<1>2. Cardinality({}) = 0 /\ IsFiniteSet({})
  BY FS_EmptySet
<1> QED
  BY <1>1, <1>2 DEF SessionInit, SessionInv, SessionTypeOK, KeysDistinct,
     NoneAhead, WindowExact, DeliveriesCounted, ReplayRefused

\* Forgetting sessions disturbs nothing.
LEMMA ForgettingKeeps ==
  ASSUME SessionInv, NEW gone, sessions' = Without(sessions, gone),
         UNCHANGED <<clone, now, keys, delivered, deliveries, draws>>
  PROVE  SessionInv'
<1>1. /\ DOMAIN sessions' = DOMAIN sessions \ gone
      /\ \A a \in DOMAIN sessions' : sessions'[a] = sessions[a]
  BY DEF Without
<1>2. Cardinality(DOMAIN sessions') <= Cardinality(DOMAIN sessions)
  <2>1. IsFiniteSet(DOMAIN sessions)
    BY FS_Subset DEF SessionInv, SessionTypeOK
  <2> QED  BY <1>1, <2>1, FS_Subset
<1>3. SessionTypeOK'
  <2>1. /\ Cardinality(DOMAIN sessions) \in Nat
        /\ Cardinality(DOMAIN sessions') \in Nat
    BY <1>1, FS_Subset, FS_CardinalityType DEF SessionInv, SessionTypeOK
  <2> QED  BY <1>1, <1>2, <2>1 DEF SessionInv, SessionTypeOK
<1>4. KeysDistinct'
  BY <1>1 DEF SessionInv, KeysDistinct
<1>5. NoneAhead' /\ WindowExact' /\ DeliveriesCounted'
  BY <1>1 DEF SessionInv, NoneAhead, WindowExact, DeliveriesCounted,
     ReplayRefused
<1> QED  BY <1>3, <1>4, <1>5 DEF SessionInv

\* A new session has a key and a window of its own.
LEMMA PutKeeps ==
  ASSUME SessionInv, NEW a \in Addrs, NEW gone,
         Cardinality(DOMAIN sessions \ gone) < MAX_SESSIONS,
         sessions' = Put(Without(sessions, gone), a, NewSession(keys)),
         keys' = keys + 1,
         UNCHANGED <<clone, now, delivered, deliveries, draws>>
  PROVE  SessionInv'
<1> DEFINE left == DOMAIN sessions \ gone
<1>1. /\ DOMAIN sessions' = left \cup {a}
      /\ sessions'[a] = NewSession(keys)
      /\ \A b \in left : b # a => sessions'[b] = sessions[b]
      /\ \A b \in DOMAIN sessions' : b # a => b \in left
  BY DEF Without, Put
<1>2. /\ EmptyWindow \in Window
      /\ \A p \in 0..(ANTI_REPLAY_WINDOW_SIZE - 1) : ~get_bit(EmptyWindow, p)
  <2>1. EmptyWindow \in Window
    BY DEF EmptyWindow, Window
  <2>2. \A p \in 0..(ANTI_REPLAY_WINDOW_SIZE - 1) : ~get_bit(EmptyWindow, p)
    BY PositionInWindow DEF get_bit, EmptyWindow
  <2> QED  BY <2>1, <2>2
<1>3. SessionTypeOK'
  <2>1. IsFiniteSet(left) /\ Cardinality(left) \in Nat
    BY FS_Subset, FS_CardinalityType DEF SessionInv, SessionTypeOK
  <2>2. Cardinality(left \cup {a}) <= MAX_SESSIONS
    <3> HIDE DEF left
    <3>1. Cardinality(left \cup {a})
            = IF a \in left THEN Cardinality(left) ELSE Cardinality(left) + 1
      BY <2>1, FS_AddElement
    <3>2. Cardinality(left) < MAX_SESSIONS
      BY DEF left
    <3> QED  BY <2>1, <3>1, <3>2
  <2>3. NewSession(keys) \in SessionState
    BY <1>2 DEF NewSession, SessionState, SessionInv, SessionTypeOK
  <2>4. \A b \in DOMAIN sessions' : sessions'[b] \in SessionState
    BY <1>1, <2>3 DEF SessionInv, SessionTypeOK
  <2> QED  BY <1>1, <2>2, <2>4 DEF SessionInv, SessionTypeOK
<1>4. sessions'[a].session_key = keys /\ sessions'[a].recv_counter = 0
      /\ sessions'[a].recv_window = EmptyWindow
  BY <1>1 DEF NewSession
<1>5. KeysDistinct'
  <2>1. /\ keys \in Nat
        /\ \A b \in DOMAIN sessions : sessions[b].session_key \in Nat
        /\ \A d \in delivered : d[1] \in Nat
    BY DEF SessionInv, SessionTypeOK, SessionState
  <2>2. \A b \in DOMAIN sessions' : b # a => sessions'[b].session_key < keys
    BY <1>1 DEF SessionInv, KeysDistinct
  <2>3. \A b, c \in DOMAIN sessions' :
          sessions'[b].session_key = sessions'[c].session_key => b = c
    BY <1>1, <1>4, <2>1, <2>2 DEF SessionInv, KeysDistinct
  <2>4. \A b \in DOMAIN sessions' : sessions'[b].session_key < keys'
    BY <1>1, <1>4, <2>1, <2>2
  <2>5. \A d \in delivered' : d[1] < keys'
    BY <2>1 DEF SessionInv, KeysDistinct
  <2> QED  BY <2>3, <2>4, <2>5 DEF KeysDistinct
<1>6. \A c : <<keys, c>> \notin delivered
  BY DEF SessionInv, KeysDistinct, SessionTypeOK
<1>7. NoneAhead'
  BY <1>1, <1>4, <1>6 DEF SessionInv, NoneAhead
<1>8. WindowExact'
  <2> SUFFICES ASSUME NEW b \in DOMAIN sessions',
                      NEW p \in 0..(ANTI_REPLAY_WINDOW_SIZE - 1)
               PROVE  get_bit(sessions'[b].recv_window, p)
                        <=> <<sessions'[b].session_key,
                              sessions'[b].recv_counter - p>> \in delivered
    BY DEF WindowExact
  <2>1. CASE b = a
    BY <2>1, <1>2, <1>4, <1>6
  <2>2. CASE b # a
    BY <2>2, <1>1 DEF SessionInv, WindowExact
  <2> QED  BY <2>1, <2>2
<1>9. DeliveriesCounted'
  BY DEF SessionInv, DeliveriesCounted, ReplayRefused
<1> QED  BY <1>3, <1>5, <1>7, <1>8, <1>9 DEF SessionInv

\* insert(), with and without an eviction.
LEMMA InsertKeeps ==
  ASSUME SessionInv, NEW a \in Addrs, insert(a)
  PROVE  SessionInv'
<1>1. IsFiniteSet(DOMAIN sessions) /\ Cardinality(DOMAIN sessions) \in Nat
  BY FS_Subset, FS_CardinalityType DEF SessionInv, SessionTypeOK
<1>2. CASE Cardinality(DOMAIN sessions) >= MAX_SESSIONS
  <2>1. PICK old \in Oldest :
          sessions' = Put(Without(sessions, {old}), a, NewSession(keys))
    BY <1>2 DEF insert
  <2>2. Cardinality(DOMAIN sessions \ {old}) < MAX_SESSIONS
    <3>1. old \in DOMAIN sessions /\ Cardinality(DOMAIN sessions) <= MAX_SESSIONS
      BY DEF Oldest, SessionInv, SessionTypeOK
    <3>2. Cardinality(DOMAIN sessions \ {old}) = Cardinality(DOMAIN sessions) - 1
      BY <1>1, <3>1, FS_RemoveElement
    <3> QED  BY <1>1, <3>1, <3>2
  <2> QED  BY <2>1, <2>2, PutKeeps DEF insert
<1>3. CASE ~(Cardinality(DOMAIN sessions) >= MAX_SESSIONS)
  <2>1. sessions' = Put(sessions, a, NewSession(keys))
    BY <1>3 DEF insert
  <2>2. Put(Without(sessions, {}), a, NewSession(keys))
          = Put(sessions, a, NewSession(keys))
    BY DEF Put, Without
  <2>3. DOMAIN sessions \ {} = DOMAIN sessions
    OBVIOUS
  <2>4. Cardinality(DOMAIN sessions \ {}) < MAX_SESSIONS
    BY <1>1, <1>3, <2>3
  <2> QED  BY <2>1, <2>2, <2>4, PutKeeps DEF insert
<1> QED  BY <1>2, <1>3

\* check_counter(): an accepted counter is new, and the window then knows it.
LEMMA CheckKeeps ==
  ASSUME SessionInv, NEW a \in Addrs, NEW counter \in Counters,
         check_counter(a, counter)
  PROVE  SessionInv'
<1> DEFINE s == sessions[a]
           r == Received(s, counter)
<1>1. /\ a \in DOMAIN sessions /\ s \in SessionState /\ counter \in Nat
      /\ now \in Nat /\ Accepts(s, counter)
      /\ s.session_key \in Nat /\ s.recv_counter \in Nat
  BY DEF check_counter, SessionInv, SessionTypeOK, SessionState
<1>2. /\ DOMAIN sessions' = DOMAIN sessions
      /\ sessions'[a] = r
      /\ \A b \in DOMAIN sessions : b # a => sessions'[b] = sessions[b]
      /\ delivered' = delivered \cup {<<s.session_key, counter>>}
      /\ deliveries' = deliveries + 1
      /\ UNCHANGED <<clone, now, keys, draws>>
  BY <1>1 DEF check_counter
<1>3. /\ r \in SessionState /\ r.session_key = s.session_key
      /\ r.recv_counter = IF Ahead(s, counter) THEN counter ELSE s.recv_counter
      /\ \A p \in 0..(ANTI_REPLAY_WINDOW_SIZE - 1) :
           LET q == p - (r.recv_counter - s.recv_counter)
           IN get_bit(r.recv_window, p)
                <=> \/ r.recv_counter - p = counter
                    \/ q >= 0 /\ get_bit(s.recv_window, q)
  BY <1>1, ReceivedExact
<1>4. /\ r.recv_counter \in Nat /\ s.recv_counter <= r.recv_counter
      /\ counter <= r.recv_counter
  BY <1>1, <1>3 DEF Ahead
<1>5. \A b \in DOMAIN sessions : b # a =>
        sessions[b].session_key # s.session_key
  BY <1>1 DEF SessionInv, KeysDistinct
<1> HIDE DEF r
<1>6. <<s.session_key, counter>> \notin delivered
  <2>1. CASE Ahead(s, counter)
    BY <2>1, <1>1 DEF SessionInv, NoneAhead, Ahead
  <2>2. CASE ~Ahead(s, counter)
    <3>1. /\ s.recv_counter - counter \in 0..(ANTI_REPLAY_WINDOW_SIZE - 1)
          /\ ~get_bit(s.recv_window, s.recv_counter - counter)
      BY <1>1, <2>2 DEF Accepts, Ahead, ANTI_REPLAY_WINDOW_SIZE
    <3>2. s.recv_counter - (s.recv_counter - counter) = counter
      BY <1>1
    <3> QED  BY <1>1, <3>1, <3>2 DEF SessionInv, WindowExact
  <2> QED  BY <2>1, <2>2
<1>7. SessionTypeOK'
  <2>1. \A b \in DOMAIN sessions' : sessions'[b] \in SessionState
    BY <1>1, <1>2, <1>3 DEF SessionInv, SessionTypeOK
  <2>2. <<s.session_key, counter>> \in Nat \X Nat
    BY <1>1
  <2> QED  BY <1>2, <2>1, <2>2 DEF SessionInv, SessionTypeOK
<1>8. KeysDistinct'
  <2>1. \A b \in DOMAIN sessions :
          sessions'[b].session_key = sessions[b].session_key
    BY <1>2, <1>3
  <2> QED  BY <1>1, <1>2, <2>1 DEF SessionInv, KeysDistinct
<1>9. NoneAhead'
  <2> SUFFICES ASSUME NEW b \in DOMAIN sessions, NEW c \in Nat,
                      <<sessions'[b].session_key, c>> \in delivered'
               PROVE  c <= sessions'[b].recv_counter
    BY <1>2 DEF NoneAhead
  <2>1. CASE b = a
    <3>1. <<s.session_key, c>> \in delivered \/ c = counter
      BY <2>1, <1>2, <1>3
    <3>2. <<s.session_key, c>> \in delivered => c <= s.recv_counter
      BY <1>1 DEF SessionInv, NoneAhead
    <3> QED  BY <2>1, <1>1, <1>2, <1>4, <3>1, <3>2
  <2>2. CASE b # a
    <3>1. <<sessions[b].session_key, c>> \in delivered
      BY <2>2, <1>2, <1>5
    <3> QED  BY <2>2, <1>2, <3>1 DEF SessionInv, NoneAhead
  <2> QED  BY <2>1, <2>2
<1>10. WindowExact'
  <2> SUFFICES ASSUME NEW b \in DOMAIN sessions,
                      NEW p \in 0..(ANTI_REPLAY_WINDOW_SIZE - 1)
               PROVE  get_bit(sessions'[b].recv_window, p)
                        <=> <<sessions'[b].session_key,
                              sessions'[b].recv_counter - p>> \in delivered'
    BY <1>2 DEF WindowExact
  <2>1. CASE b = a
    <3> DEFINE q == p - (r.recv_counter - s.recv_counter)
    <3>1. get_bit(r.recv_window, p)
            <=> r.recv_counter - p = counter \/ (q >= 0 /\ get_bit(s.recv_window, q))
      BY <1>3
    <3>2. q <= p /\ q \in Int /\ s.recv_counter - q = r.recv_counter - p
      BY <1>1, <1>4
    <3>3. q >= 0 => (get_bit(s.recv_window, q)
                       <=> <<s.session_key, r.recv_counter - p>> \in delivered)
      <4> SUFFICES ASSUME q >= 0
                   PROVE  get_bit(s.recv_window, q)
                            <=> <<s.session_key, s.recv_counter - q>> \in delivered
        BY <3>2
      <4>1. q \in 0..(ANTI_REPLAY_WINDOW_SIZE - 1)
        BY <3>2 DEF ANTI_REPLAY_WINDOW_SIZE
      <4> QED  BY <1>1, <4>1 DEF SessionInv, WindowExact
    <3>4. q < 0 => <<s.session_key, r.recv_counter - p>> \notin delivered
      <4> SUFFICES ASSUME q < 0, <<s.session_key, r.recv_counter - p>> \in delivered
                   PROVE  FALSE
        OBVIOUS
      <4>1. r.recv_counter - p \in Nat
        BY DEF SessionInv, SessionTypeOK
      <4>2. r.recv_counter - p <= s.recv_counter
        BY <1>1, <4>1 DEF SessionInv, NoneAhead
      <4> QED  BY <4>2, <3>2, <1>1, <1>4
    <3>5. <<s.session_key, r.recv_counter - p>> \in delivered'
            <=> \/ r.recv_counter - p = counter
                \/ <<s.session_key, r.recv_counter - p>> \in delivered
      BY <1>2
    <3>6. q >= 0 \/ q < 0
      BY <3>2
    <3> QED  BY <2>1, <1>2, <1>3, <3>1, <3>3, <3>4, <3>5, <3>6
  <2>2. CASE b # a
    <3>1. \A c : <<sessions[b].session_key, c>> \in delivered'
                   <=> <<sessions[b].session_key, c>> \in delivered
      BY <2>2, <1>2, <1>5
    <3> QED  BY <2>2, <1>2, <3>1 DEF SessionInv, WindowExact
  <2> QED  BY <2>1, <2>2
<1>11. DeliveriesCounted'
  BY <1>2, <1>6, FS_AddElement DEF SessionInv, DeliveriesCounted, ReplayRefused
<1> QED  BY <1>7, <1>8, <1>9, <1>10, <1>11 DEF SessionInv

\* The steps that touch no session keep the invariant.
LEMMA OthersKeep ==
  ASSUME SessionInv, UNCHANGED <<sessions, keys, delivered, deliveries>>,
         \/ next_send_counter \/ Tick \/ UNCHANGED sessionVars
         \/ \E a \in Addrs : get(a)
  PROVE  SessionInv'
<1>1. /\ clone' \subseteq [session_key : Nat, send_counter : Nat]
      /\ now' \in Nat /\ draws' \in Nat
  BY DEF next_send_counter, Tick, sessionVars, get, SessionInv, SessionTypeOK,
     SessionState
<1> QED
  BY <1>1 DEF SessionInv, SessionTypeOK, KeysDistinct, NoneAhead, WindowExact,
     DeliveriesCounted, ReplayRefused

\* Each call keeps the invariant.
LEMMA StepKeeps == SessionInv /\ [SessionNext]_sessionVars => SessionInv'
<1> SUFFICES ASSUME SessionInv, [SessionNext]_sessionVars PROVE SessionInv'
  OBVIOUS
<1>1. ASSUME NEW a \in Addrs, insert(a) PROVE SessionInv'
  BY <1>1, InsertKeeps
<1>2. ASSUME NEW a \in Addrs, get(a) PROVE SessionInv'
  BY <1>2, OthersKeep DEF get
<1>3. ASSUME NEW a \in Addrs, remove(a) PROVE SessionInv'
  BY <1>3, ForgettingKeeps DEF remove
<1>4. ASSUME NEW a \in Addrs, NEW counter \in Counters,
             check_counter(a, counter)
      PROVE  SessionInv'
  BY <1>4, CheckKeeps
<1>5. CASE next_send_counter
  BY <1>5, OthersKeep DEF next_send_counter
<1>6. ASSUME NEW timeout \in Timeouts, cleanup(timeout) PROVE SessionInv'
  BY <1>6, ForgettingKeeps DEF cleanup
<1>7. CASE Tick
  BY <1>7, OthersKeep DEF Tick
<1>8. CASE UNCHANGED sessionVars
  BY <1>8, OthersKeep DEF sessionVars
<1> QED
  BY <1>1, <1>2, <1>3, <1>4, <1>5, <1>6, <1>7, <1>8 DEF SessionNext

\* It holds in every reachable state.
LEMMA SessionInvariance == SessionSpec => []SessionInv
BY InitEstablishes, StepKeeps, PTL DEF SessionSpec

-----------------------------------------------------------------------------
\* The sessions and their windows have their types, and insert() keeps the map
\* within MAX_SESSIONS.
THEOREM SessionTypeCorrect == SessionSpec => []SessionTypeOK
<1>1. SessionInv => SessionTypeOK
  BY DEF SessionInv
<1> QED  BY <1>1, SessionInvariance, PTL

\* check_counter(): the bits of a window are the counters accepted, for any
\* number of words and any order of counters.
THEOREM SessionWindowExact == SessionSpec => []WindowExact
<1>1. SessionInv => WindowExact
  BY DEF SessionInv
<1> QED  BY <1>1, SessionInvariance, PTL

\* check_counter(): no counter of a session is accepted twice.
THEOREM SessionRefusesReplay == SessionSpec => []ReplayRefused
<1>1. SessionInv => ReplayRefused
  BY DEF SessionInv, DeliveriesCounted
<1> QED  BY <1>1, SessionInvariance, PTL

=============================================================================
