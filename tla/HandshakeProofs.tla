-------------------------- MODULE HandshakeProofs --------------------------
(***************************************************************************)
(* The handshake for every table, list and number of peers: limits, the use *)
(* of ephemeral secrets, and trust and session going together.              *)
(***************************************************************************)
EXTENDS Heartbeat, FiniteSetTheorems, WellFoundedInduction, TLAPS

-----------------------------------------------------------------------------
\* The last of the positions greeted.
LEMMA LastOfPositions ==
  ASSUME NEW n \in Nat, NEW K \in SUBSET (1..n), K # {}
  PROVE  \E m \in K : \A k \in K : k <= m
<1> DEFINE R == {p \in Nat \X Nat : p[1] < p[2]}
           T == {n - k : k \in K}
<1>1. IsWellFoundedOn(R, Nat)
  BY NatLessThanWellFounded DEF OpToRel
<1>2. T \subseteq Nat /\ T # {}
  <2>1. ASSUME NEW k \in K PROVE n - k \in Nat
    <3>1. k \in 1..n
      OBVIOUS
    <3> QED  BY <3>1
  <2>2. T \subseteq Nat
    BY <2>1
  <2>3. PICK k \in K : TRUE
    OBVIOUS
  <2>4. n - k \in T
    OBVIOUS
  <2> QED  BY <2>2, <2>4
<1>3. PICK x \in T : \A y \in T : ~(<<y, x>> \in R)
  <2> HIDE DEF R, T
  <2> QED  BY <1>1, <1>2, WFMin
<1>4. PICK m \in K : x = n - m
  BY <1>3
<1>5. ASSUME NEW k \in K PROVE k <= m
  <2>1. n - k \in T /\ n - k \in Nat /\ x \in Nat
    BY <1>2, <1>3
  <2>2. ~(<<n - k, x>> \in R)
    BY <2>1, <1>3
  <2>3. ~(n - k < x)
    BY <2>1, <2>2
  <2> QED  BY <2>1, <2>3, <1>4
<1> QED  BY <1>5

\* A set that takes an element grows by one at most.
LEMMA OneMore ==
  ASSUME NEW S, IsFiniteSet(S), NEW x
  PROVE  /\ IsFiniteSet(S \cup {x})
         /\ Cardinality(S) \in Nat /\ Cardinality(S \cup {x}) \in Nat
         /\ Cardinality(S \cup {x}) <= Cardinality(S) + 1
<1>1. Cardinality(S) \in Nat
  BY FS_CardinalityType
<1>2. IsFiniteSet(S \cup {x})
  BY FS_AddElement
<1>3. Cardinality(S \cup {x}) = IF x \in S THEN Cardinality(S) ELSE Cardinality(S) + 1
  BY FS_AddElement
<1> QED  BY <1>1, <1>2, <1>3

\* As long as an address is greeted only while there is room, the table keeps its
\* limit.
LEMMA GreetedFit ==
  ASSUME NEW table, DOMAIN table \in SUBSET Addrs,
         Cardinality(DOMAIN table) <= MAX_PENDING_HANDSHAKES,
         NEW addrs \in Seq(Addrs), NEW known
  PROVE  Cardinality(DOMAIN table \cup {addrs[k] : k \in Greeted(table, addrs, known)})
           <= MAX_PENDING_HANDSHAKES
<1> USE HandshakeAssumption DEF HandshakeAssumption
<1> DEFINE D == DOMAIN table
           K == Greeted(table, addrs, known)
           S(m) == D \cup ({addrs[i] : i \in 1..(m - 1)} \ known)
<1>0. /\ Len(addrs) \in Nat /\ K \in SUBSET (1..Len(addrs))
      /\ \A k \in K : addrs[k] \notin known /\ Cardinality(S(k)) < MAX_PENDING_HANDSHAKES
  BY DEF Greeted
<1> SUFFICES Cardinality(D \cup {addrs[k] : k \in K}) <= MAX_PENDING_HANDSHAKES
  OBVIOUS
<1> HIDE DEF K
<1>1. CASE K = {}
  <2>1. D \cup {addrs[k] : k \in K} = D
    BY <1>1
  <2> QED  BY <2>1
<1>2. CASE K # {}
  <2>2. PICK m \in K : \A k \in K : k <= m
    BY <1>0, <1>2, LastOfPositions
  <2>3. S(m) \in SUBSET Addrs /\ addrs[m] \in Addrs
    BY <1>0
  <2>4. IsFiniteSet(S(m)) /\ IsFiniteSet(S(m) \cup {addrs[m]})
    BY <2>3, FS_Subset
  <2>5. Cardinality(S(m)) < MAX_PENDING_HANDSHAKES /\ Cardinality(S(m)) \in Nat
    BY <1>0, <2>2, <2>4, FS_CardinalityType
  <2>7. D \cup {addrs[k] : k \in K} \in SUBSET (S(m) \cup {addrs[m]})
    <3>1. ASSUME NEW k \in K PROVE addrs[k] \in S(m) \cup {addrs[m]}
      <4>1. k \in Nat \ {0} /\ m \in Nat /\ k <= m
        BY <1>0, <2>2
      <4>2. k = m \/ k \in 1..(m - 1)
        BY <4>1
      <4>3. addrs[k] \notin known
        BY <1>0
      <4> QED  BY <4>2, <4>3
    <3> QED  BY <3>1
  <2> HIDE DEF S
  <2>6. /\ Cardinality(S(m) \cup {addrs[m]}) <= MAX_PENDING_HANDSHAKES
        /\ Cardinality(S(m) \cup {addrs[m]}) \in Nat
    <3>1. /\ Cardinality(S(m) \cup {addrs[m]}) <= Cardinality(S(m)) + 1
          /\ Cardinality(S(m) \cup {addrs[m]}) \in Nat
      BY <2>4, OneMore
    <3>2. MAX_PENDING_HANDSHAKES \in Nat
      OBVIOUS
    <3> QED  BY <2>5, <3>1, <3>2
  <2>8. /\ Cardinality(D \cup {addrs[k] : k \in K}) <= Cardinality(S(m) \cup {addrs[m]})
        /\ IsFiniteSet(D \cup {addrs[k] : k \in K})
    BY <2>4, <2>7, FS_Subset
  <2>9. Cardinality(D \cup {addrs[k] : k \in K}) \in Nat
    BY <2>8, FS_CardinalityType
  <2> QED  BY <2>6, <2>8, <2>9
<1> QED  BY <1>1, <1>2

\* The numbers given to those greeted: in their order, from 0 up.
LEMMA Ranks ==
  ASSUME NEW n \in Nat, NEW K \in SUBSET (1..n)
  PROVE  /\ Cardinality(K) \in Nat
         /\ \A k \in K : /\ Cardinality(Before(K, k)) \in Nat
                         /\ Cardinality(Before(K, k)) < Cardinality(K)
         /\ \A j, k \in K :
              Cardinality(Before(K, j)) = Cardinality(Before(K, k)) => j = k
<1>1. IsFiniteSet(K) /\ Cardinality(K) \in Nat
  <2>1. IsFiniteSet(1..n)
    BY FS_Interval
  <2>2. IsFiniteSet(K)
    BY <2>1, FS_Subset
  <2> QED  BY <2>2, FS_CardinalityType
<1>2. ASSUME NEW k \in K
      PROVE  /\ IsFiniteSet(Before(K, k)) /\ Cardinality(Before(K, k)) \in Nat
             /\ Cardinality(Before(K, k)) < Cardinality(K)
  <2>1. Before(K, k) \in SUBSET K /\ k \notin Before(K, k)
    BY DEF Before
  <2>2. /\ IsFiniteSet(Before(K, k))
        /\ Cardinality(Before(K, k)) <= Cardinality(K)
        /\ Cardinality(Before(K, k)) # Cardinality(K)
    BY <1>1, <2>1, FS_Subset
  <2>3. Cardinality(Before(K, k)) \in Nat
    BY <2>2, FS_CardinalityType
  <2> QED  BY <1>1, <2>2, <2>3
<1>3. ASSUME NEW j \in K, NEW k \in K, j < k
      PROVE  Cardinality(Before(K, j)) # Cardinality(Before(K, k))
  <2>1. Before(K, j) \in SUBSET Before(K, k) /\ j \in Before(K, k) /\ j \notin Before(K, j)
    <3>1. j \in Nat /\ k \in Nat
      OBVIOUS
    <3>2. ~(j < j) /\ \A i \in 1..n : i < j => i < k
      BY <1>3, <3>1
    <3> QED  BY <1>3, <3>2 DEF Before
  <2> QED  BY <1>2, <2>1, FS_Subset
<1>4. ASSUME NEW j \in K, NEW k \in K,
             Cardinality(Before(K, j)) = Cardinality(Before(K, k))
      PROVE  j = k
  BY <1>3, <1>4
<1> QED  BY <1>1, <1>2, <1>4

\* The position an address is greeted at.
LEMMA LastOfIs ==
  ASSUME NEW n \in Nat, NEW K \in SUBSET (1..n), NEW addrs, NEW a,
         a \in {addrs[k] : k \in K}
  PROVE  LastOf(K, addrs, a) \in K /\ addrs[LastOf(K, addrs, a)] = a
<1> DEFINE G == {k \in K : addrs[k] = a}
<1>1. G \in SUBSET (1..n) /\ G # {}
  OBVIOUS
<1>2. PICK m \in G : \A k \in G : k <= m
  <2> HIDE DEF G
  <2> QED  BY <1>1, LastOfPositions
<1>3. \E k \in K : addrs[k] = a /\ \A j \in K : addrs[j] = a => j <= k
  BY <1>2
<1> QED  BY <1>3 DEF LastOf

-----------------------------------------------------------------------------
\* Entries have numbers of their own, below the next ...
Fresh(table, n) ==
  /\ DOMAIN table \subseteq Addrs
  /\ \A a \in DOMAIN table : table[a] \in PendingHandshake /\ table[a].number < n
  /\ \A a, b \in DOMAIN table : table[a].number = table[b].number => a = b
\* ... and an entry that has its secret has not made a key.
Once(table, n, keys) ==
  /\ n \in Nat /\ keys \in Seq(Nat) /\ Fresh(table, n)
  /\ \A i \in DOMAIN keys : keys[i] < n
  /\ \A a \in DOMAIN table :
       table[a].secret => \A i \in DOMAIN keys : keys[i] # table[a].number
  /\ IsInjective(keys)

\* What a hello sent (new_initiator) or received (new_responder) puts into the table.
LEMMA NewTyped ==
  ASSUME NEW n \in Nat
  PROVE  /\ new_initiator(n) \in PendingHandshake
         /\ new_initiator(n).number = n /\ ~new_initiator(n).expired
         /\ \A key \in Keys : /\ new_responder(n, key) \in PendingHandshake
                              /\ new_responder(n, key).number = n
BY DEF new_initiator, new_responder, PendingHandshake, Phases

\* Hellos to some of a sequence of addresses.
LEMMA InitiateOnce ==
  ASSUME NEW table, NEW n, NEW keys, Once(table, n, keys),
         NEW addrs \in Seq(Addrs), NEW K \in SUBSET DOMAIN addrs
  PROVE  /\ Once(Initiate(table, n, addrs, K), n + Cardinality(K), keys)
         /\ Cardinality(K) \in Nat
<1> DEFINE T == Initiate(table, n, addrs, K)
           R == {addrs[k] : k \in K}
           pos(a) == LastOf(K, addrs, a)
           rank(k) == Cardinality(Before(K, k))
<1>1. n \in Nat /\ Len(addrs) \in Nat /\ K \in SUBSET (1..Len(addrs))
  BY DEF Once
<1>2. /\ Cardinality(K) \in Nat
      /\ \A k \in K : rank(k) \in Nat /\ rank(k) < Cardinality(K)
      /\ \A j, k \in K : rank(j) = rank(k) => j = k
  BY <1>1, Ranks
<1>3. \A a \in R : pos(a) \in K /\ addrs[pos(a)] = a
  BY <1>1, LastOfIs
<1>4. /\ DOMAIN T = DOMAIN table \cup R
      /\ \A a \in R : T[a] = new_initiator(n + rank(pos(a)))
      /\ \A a \in DOMAIN table \ R : T[a] = table[a]
  BY DEF Initiate
<1> HIDE DEF T, pos, rank
<1>5. /\ DOMAIN table \subseteq Addrs
      /\ \A a \in DOMAIN table : table[a] \in PendingHandshake /\ table[a].number < n
                                /\ table[a].number \in Nat
      /\ \A a, b \in DOMAIN table : table[a].number = table[b].number => a = b
  BY DEF Once, Fresh, PendingHandshake
<1>6. ASSUME NEW a \in R
      PROVE  /\ T[a] \in PendingHandshake /\ T[a].number = n + rank(pos(a))
             /\ T[a].number \in Nat /\ n <= T[a].number
             /\ T[a].number < n + Cardinality(K)
  <2>1. n + rank(pos(a)) \in Nat /\ n <= n + rank(pos(a))
        /\ n + rank(pos(a)) < n + Cardinality(K)
    BY <1>1, <1>2, <1>3
  <2> QED  BY <1>4, <2>1, NewTyped
<1>7. ASSUME NEW a \in DOMAIN table \ R
      PROVE  /\ T[a] = table[a] /\ T[a] \in PendingHandshake /\ T[a].number \in Nat
             /\ T[a].number < n /\ T[a].number < n + Cardinality(K)
  BY <1>1, <1>2, <1>4, <1>5
<1>8. Fresh(T, n + Cardinality(K))
  <2>1. DOMAIN T \subseteq Addrs
    BY <1>1, <1>4, <1>5
  <2>2. ASSUME NEW a \in DOMAIN T
        PROVE  T[a] \in PendingHandshake /\ T[a].number < n + Cardinality(K)
    BY <1>4, <1>6, <1>7
  <2>3. ASSUME NEW a \in R, NEW b \in R, T[a].number = T[b].number PROVE a = b
    <3>1. rank(pos(a)) = rank(pos(b))
      <4>1. rank(pos(a)) \in Nat /\ rank(pos(b)) \in Nat
        BY <1>2, <1>3
      <4> QED  BY <1>1, <1>6, <2>3, <4>1
    <3> QED  BY <1>2, <1>3, <3>1
  <2>4. ASSUME NEW a \in DOMAIN T, NEW b \in DOMAIN T, T[a].number = T[b].number
        PROVE  a = b
    <3>1. CASE a \in R /\ b \in R
      BY <2>3, <2>4, <3>1
    <3>2. CASE a \in R /\ b \notin R
      BY <1>1, <1>4, <1>6, <1>7, <2>4, <3>2
    <3>3. CASE a \notin R /\ b \in R
      BY <1>1, <1>4, <1>6, <1>7, <2>4, <3>3
    <3>4. CASE a \notin R /\ b \notin R
      BY <1>4, <1>5, <1>7, <2>4, <3>4
    <3> QED  BY <3>1, <3>2, <3>3, <3>4
  <2> QED  BY <2>1, <2>2, <2>4 DEF Fresh
<1>9. ASSUME NEW a \in DOMAIN T, T[a].secret, NEW i \in DOMAIN keys
      PROVE  keys[i] # T[a].number
  <2>1. keys[i] \in Nat /\ keys[i] < n
    BY DEF Once
  <2>2. CASE a \in R
    BY <1>1, <1>6, <2>1, <2>2
  <2>3. CASE a \notin R
    BY <1>4, <1>7, <1>9, <2>3 DEF Once
  <2> QED  BY <2>2, <2>3
<1>10. \A i \in DOMAIN keys : keys[i] < n + Cardinality(K)
  <2>1. ASSUME NEW i \in DOMAIN keys PROVE keys[i] \in Nat /\ keys[i] < n
    BY DEF Once
  <2> QED  BY <1>1, <1>2, <2>1
<1> QED  BY <1>1, <1>2, <1>8, <1>9, <1>10 DEF Once, T

\* A hello received: a number of its own, after all those before it.
LEMMA HelloOnce ==
  ASSUME NEW table, NEW n, NEW keys, Once(table, n, keys),
         NEW a \in Addrs, NEW key \in Keys
  PROVE  Once(Put(table, a, new_responder(n, key)), n + 1, keys)
<1> DEFINE T == Put(table, a, new_responder(n, key))
<1>1. n \in Nat
  BY DEF Once
<1>2. /\ DOMAIN T = DOMAIN table \cup {a}
      /\ T[a] = new_responder(n, key)
      /\ \A b \in DOMAIN table \ {a} : T[b] = table[b]
  BY DEF Put
<1>3. T[a] \in PendingHandshake /\ T[a].number = n
  BY <1>1, <1>2, NewTyped
<1> HIDE DEF T
<1>4. \A b \in DOMAIN table \ {a} :
        /\ T[b] = table[b] /\ T[b] \in PendingHandshake
        /\ T[b].number \in Nat /\ T[b].number < n
  BY <1>2 DEF Once, Fresh, PendingHandshake
<1>5. Fresh(T, n + 1)
  <2>1. DOMAIN T \subseteq Addrs
    BY <1>2 DEF Once, Fresh
  <2>2. \A b \in DOMAIN T : T[b] \in PendingHandshake /\ T[b].number < n + 1
    BY <1>1, <1>2, <1>3, <1>4
  <2>3. ASSUME NEW b \in DOMAIN T, NEW c \in DOMAIN T, T[b].number = T[c].number
        PROVE  b = c
    <3>1. CASE b = a \/ c = a
      BY <1>1, <1>2, <1>3, <1>4, <2>3, <3>1
    <3>2. CASE b # a /\ c # a
      BY <1>2, <1>4, <2>3, <3>2 DEF Once, Fresh
    <3> QED  BY <3>1, <3>2
  <2> QED  BY <2>1, <2>2, <2>3 DEF Fresh
<1>6. ASSUME NEW i \in DOMAIN keys PROVE keys[i] \in Nat /\ keys[i] < n /\ keys[i] < n + 1
  BY <1>1 DEF Once
<1>7. ASSUME NEW b \in DOMAIN T, T[b].secret, NEW i \in DOMAIN keys
      PROVE  keys[i] # T[b].number
  <2>1. CASE b = a
    BY <1>1, <1>3, <1>6, <2>1
  <2>2. CASE b # a
    BY <1>2, <1>4, <1>7, <2>2 DEF Once
  <2> QED  BY <2>1, <2>2
<1> QED  BY <1>1, <1>5, <1>6, <1>7 DEF Once, T

\* Entries that go, or change in what does not matter here.
LEMMA FewerOnce ==
  ASSUME NEW table, NEW n, NEW keys, Once(table, n, keys), NEW T,
         DOMAIN T \subseteq DOMAIN table,
         \A a \in DOMAIN T : /\ T[a] \in PendingHandshake
                             /\ T[a].number = table[a].number
                             /\ T[a].secret => table[a].secret
  PROVE  Once(T, n, keys)
<1>1. Fresh(T, n)
  BY DEF Once, Fresh
<1>2. ASSUME NEW a \in DOMAIN T, T[a].secret, NEW i \in DOMAIN keys
      PROVE  keys[i] # T[a].number
  BY <1>2 DEF Once
<1> QED  BY <1>1, <1>2 DEF Once

\* A key is made, and the secret is gone.
LEMMA KeyOnce ==
  ASSUME NEW table, NEW n, NEW keys, Once(table, n, keys),
         NEW a \in DOMAIN table, table[a].secret, NEW T,
         DOMAIN T = DOMAIN table, T[a] \in PendingHandshake,
         T[a].number = table[a].number, ~T[a].secret,
         \A b \in DOMAIN table \ {a} : T[b] = table[b]
  PROVE  Once(T, n, Append(keys, table[a].number))
<1> DEFINE new == table[a].number
           ks == Append(keys, new)
<1>1. /\ n \in Nat /\ new \in Nat /\ new < n /\ keys \in Seq(Nat)
  BY DEF Once, Fresh, PendingHandshake
<1>2. /\ ks \in Seq(Nat) /\ DOMAIN ks = 1..(Len(keys) + 1) /\ Len(keys) \in Nat
      /\ DOMAIN keys = 1..Len(keys)
      /\ \A i \in DOMAIN keys : ks[i] = keys[i]
      /\ ks[Len(keys) + 1] = new
  BY <1>1
<1> HIDE DEF ks, new
<1>3. \A i \in DOMAIN ks : i \in DOMAIN keys \/ i = Len(keys) + 1
  BY <1>2
<1>4. Fresh(T, n)
  <2>1. \A b \in DOMAIN T : T[b] \in PendingHandshake /\ T[b].number = table[b].number
    BY DEF Once, Fresh
  <2> QED  BY <2>1 DEF Once, Fresh
<1>5. \A i \in DOMAIN ks : ks[i] < n
  BY <1>1, <1>2, <1>3 DEF Once
<1>6. ASSUME NEW b \in DOMAIN T, T[b].secret, NEW i \in DOMAIN ks
      PROVE  ks[i] # T[b].number
  <2>1. b # a /\ b \in DOMAIN table /\ T[b] = table[b]
    BY <1>6
  <2>2. CASE i \in DOMAIN keys
    BY <1>2, <1>6, <2>1, <2>2 DEF Once
  <2>3. CASE i = Len(keys) + 1
    BY <1>2, <2>1, <2>3 DEF Once, Fresh, new
  <2> QED  BY <1>3, <2>2, <2>3
<1>7. IsInjective(ks)
  <2>1. \A i \in DOMAIN keys : keys[i] # new
    BY DEF Once, new
  <2>2. \A i, j \in DOMAIN keys : keys[i] = keys[j] => i = j
    BY DEF Once, IsInjective
  <2>3. \A i, j \in DOMAIN ks : ks[i] = ks[j] => i = j
    BY <1>2, <1>3, <2>1, <2>2
  <2> QED  BY <2>3 DEF IsInjective
<1> QED  BY <1>1, <1>2, <1>4, <1>5, <1>6, <1>7 DEF Once, ks, new

-----------------------------------------------------------------------------
OnceInv == Once(pending, begun, derived)

\* The start: hellos to the bootstrap addresses, and no key yet.
LEMMA OnceInitially == HandshakeInit => OnceInv
<1> SUFFICES ASSUME HandshakeInit PROVE OnceInv
  OBVIOUS
<1> DEFINE none == [a \in {} |-> 0]
           K == Greeted(none, Bootstrap, {})
<1>1. Bootstrap \in Seq(Addrs) /\ K \in SUBSET DOMAIN Bootstrap
  BY HandshakeAssumption DEF HandshakeAssumption, Greeted
<1>2. Once(none, 0, <<>>)
  BY DEF Once, Fresh, IsInjective
<1>3. /\ pending = Initiate(none, 0, Bootstrap, K)
      /\ begun = Cardinality(K) /\ derived = <<>>
  BY DEF HandshakeInit
<1> HIDE DEF none, K
<1>4. /\ Once(Initiate(none, 0, Bootstrap, K), 0 + Cardinality(K), <<>>)
      /\ Cardinality(K) \in Nat
  BY <1>1, <1>2, InitiateOnce
<1> QED  BY <1>3, <1>4 DEF OnceInv

\* An entry without its secret, however else it was changed.
LEMMA SecretTaken ==
  ASSUME NEW hs \in PendingHandshake
  PROVE  /\ \A p \in Phases : [hs EXCEPT !.phase = p] \in PendingHandshake
         /\ [hs EXCEPT !.expired = TRUE] \in PendingHandshake
         /\ \A p \in Phases : [hs EXCEPT !.secret = FALSE, !.phase = p] \in PendingHandshake
         /\ \A p \in Phases : [hs EXCEPT !.secret = FALSE, !.session_key = TRUE, !.phase = p]
                                \in PendingHandshake
BY DEF PendingHandshake

\* Each message, each expiry and each cleanup keeps them once.
LEMMA OncePreserved ==
  ASSUME OnceInv, [HandshakeNext]_handshakeVars
  PROVE  OnceInv'
<1>0. /\ Once(pending, begun, derived)
      /\ DOMAIN pending \subseteq Addrs
      /\ \A a \in DOMAIN pending : pending[a] \in PendingHandshake
  BY DEF OnceInv, Once, Fresh
<1>1. ASSUME NEW a \in Addrs, NEW key \in Keys, Hello(a, key) PROVE OnceInv'
  BY <1>0, <1>1, HelloOnce DEF Hello, OnceInv
<1>2. ASSUME NEW a \in Addrs, Challenge(a) PROVE OnceInv'
  <2> DEFINE T == [pending EXCEPT ![a].phase = "ChallengeSent"]
  <2>1. pending' = T /\ begun' = begun /\ derived' = derived /\ a \in DOMAIN pending
    BY <1>2 DEF Challenge
  <2>2. /\ DOMAIN T = DOMAIN pending
        /\ T[a] = [pending[a] EXCEPT !.phase = "ChallengeSent"]
        /\ \A b \in DOMAIN pending \ {a} : T[b] = pending[b]
    BY <2>1
  <2>3. T[a] \in PendingHandshake
    BY <1>0, <2>1, <2>2, SecretTaken DEF Phases
  <2>4. T[a].number = pending[a].number /\ T[a].secret = pending[a].secret
    BY <1>0, <2>1, <2>2 DEF PendingHandshake
  <2> HIDE DEF T
  <2>5. \A b \in DOMAIN T : /\ T[b] \in PendingHandshake
                            /\ T[b].number = pending[b].number
                            /\ T[b].secret => pending[b].secret
    BY <1>0, <2>2, <2>3, <2>4
  <2>6. Once(T, begun, derived)
    BY <1>0, <2>2, <2>5, FewerOnce
  <2> QED  BY <2>1, <2>6 DEF OnceInv
<1>3. ASSUME NEW a \in Addrs, NEW key \in Keys, NEW n, NEW wellFormed,
             ChallengeResponse(a, key, n, wellFormed)
      PROVE  OnceInv'
  <2>0. a \in DOMAIN pending /\ begun' = begun
    BY <1>3 DEF ChallengeResponse
  <2>1. CASE pending' = Without(pending, a) /\ derived' = derived
    <3>1. Once(Without(pending, a), begun, derived)
      <4> DEFINE T == Without(pending, a)
      <4>1. DOMAIN T \subseteq DOMAIN pending /\ \A b \in DOMAIN T : T[b] = pending[b]
        BY DEF Without
      <4> HIDE DEF T
      <4>2. Once(T, begun, derived)
        BY <1>0, <4>1, FewerOnce
      <4> QED  BY <4>2 DEF T
    <3> QED  BY <2>0, <2>1, <3>1 DEF OnceInv
  <2>2. CASE ~(pending' = Without(pending, a) /\ derived' = derived)
    <3> DEFINE T == [pending EXCEPT ![a].secret = FALSE, ![a].session_key = TRUE,
                                    ![a].phase = "ResponseReceived"]
    <3>1. /\ pending' = T /\ derived' = Append(derived, pending[a].number)
          /\ pending[a].secret
      BY <1>3, <2>2 DEF ChallengeResponse
    <3>2. /\ DOMAIN T = DOMAIN pending
          /\ T[a] = [pending[a] EXCEPT !.secret = FALSE, !.session_key = TRUE,
                                       !.phase = "ResponseReceived"]
          /\ \A b \in DOMAIN pending \ {a} : T[b] = pending[b]
      BY <2>0
    <3>3. T[a] \in PendingHandshake
      BY <1>0, <2>0, <3>2, SecretTaken DEF Phases
    <3>4. T[a].number = pending[a].number /\ T[a].secret = FALSE
      BY <1>0, <2>0, <3>2 DEF PendingHandshake
    <3> HIDE DEF T
    <3>5. Once(T, begun, Append(derived, pending[a].number))
      BY <1>0, <2>0, <3>1, <3>2, <3>3, <3>4, KeyOnce
    <3> QED  BY <2>0, <3>1, <3>5 DEF OnceInv
  <2> QED  BY <2>1, <2>2
<1>4. ASSUME NEW a \in Addrs, NEW wellFormed, SessionKeyExchange(a, wellFormed)
      PROVE  OnceInv'
  <2>0. begun' = begun
    BY <1>4 DEF SessionKeyExchange
  <2>1. CASE pending' = pending /\ derived' = derived
    BY <1>0, <2>0, <2>1 DEF OnceInv
  <2>2. CASE ~(pending' = pending /\ derived' = derived)
    <3> DEFINE T == [pending EXCEPT ![a].secret = FALSE, ![a].phase = "Complete"]
    <3>1. /\ pending' = T /\ derived' = Append(derived, pending[a].number)
          /\ pending[a].secret /\ a \in DOMAIN pending
      BY <1>4, <2>2 DEF SessionKeyExchange
    <3>2. /\ DOMAIN T = DOMAIN pending
          /\ T[a] = [pending[a] EXCEPT !.secret = FALSE, !.phase = "Complete"]
          /\ \A b \in DOMAIN pending \ {a} : T[b] = pending[b]
      BY <3>1
    <3>3. T[a] \in PendingHandshake
      BY <1>0, <3>1, <3>2, SecretTaken DEF Phases
    <3>4. T[a].number = pending[a].number /\ T[a].secret = FALSE
      BY <1>0, <3>1, <3>2 DEF PendingHandshake
    <3> HIDE DEF T
    <3>5. Once(T, begun, Append(derived, pending[a].number))
      BY <1>0, <3>1, <3>2, <3>3, <3>4, KeyOnce
    <3> QED  BY <2>0, <3>1, <3>5 DEF OnceInv
  <2> QED  BY <2>1, <2>2
<1>5. ASSUME NEW a \in Addrs, NEW isOk, SessionKeyConfirm(a, isOk) PROVE OnceInv'
  <2>0. begun' = begun /\ derived' = derived
    BY <1>5 DEF SessionKeyConfirm
  <2>1. CASE pending' = pending
    BY <1>0, <2>0, <2>1 DEF OnceInv
  <2>2. CASE pending' = Without(pending, a)
    <3> DEFINE T == Without(pending, a)
    <3>1. DOMAIN T \subseteq DOMAIN pending /\ \A b \in DOMAIN T : T[b] = pending[b]
      BY DEF Without
    <3>2. pending' = T
      BY <2>2
    <3> HIDE DEF T
    <3>3. Once(T, begun, derived)
      BY <1>0, <3>1, FewerOnce
    <3> QED  BY <2>0, <3>2, <3>3 DEF OnceInv
  <2> QED  BY <1>5, <2>1, <2>2 DEF SessionKeyConfirm
<1>6. ASSUME NEW a \in Addrs, NEW addrs \in Exchanges, PeerExchange(a, addrs) PROVE OnceInv'
  <2> DEFINE K == Greeted(pending, addrs, TrustedAddrs \cup {a})
  <2>1. addrs \in Seq(Addrs) /\ K \in SUBSET DOMAIN addrs
    BY HandshakeAssumption DEF HandshakeAssumption, Greeted
  <2>2. /\ pending' = Initiate(pending, begun, addrs, K)
        /\ begun' = begun + Cardinality(K) /\ derived' = derived
    BY <1>6 DEF PeerExchange
  <2> HIDE DEF K
  <2>3. Once(Initiate(pending, begun, addrs, K), begun + Cardinality(K), derived)
    BY <1>0, <2>1, InitiateOnce
  <2> QED  BY <2>2, <2>3 DEF OnceInv
<1>7. ASSUME Authenticate PROVE OnceInv'
  BY <1>0, <1>7 DEF Authenticate, OnceInv
<1>8. ASSUME NEW a \in Addrs, PendingExpires(a) PROVE OnceInv'
  <2> DEFINE T == [pending EXCEPT ![a].expired = TRUE]
  <2>1. pending' = T /\ begun' = begun /\ derived' = derived /\ a \in DOMAIN pending
    BY <1>8 DEF PendingExpires
  <2>2. /\ DOMAIN T = DOMAIN pending
        /\ T[a] = [pending[a] EXCEPT !.expired = TRUE]
        /\ \A b \in DOMAIN pending \ {a} : T[b] = pending[b]
    BY <2>1
  <2>3. T[a] \in PendingHandshake
    BY <1>0, <2>1, <2>2, SecretTaken
  <2>4. T[a].number = pending[a].number /\ T[a].secret = pending[a].secret
    BY <1>0, <2>1, <2>2 DEF PendingHandshake
  <2> HIDE DEF T
  <2>5. \A b \in DOMAIN T : /\ T[b] \in PendingHandshake
                            /\ T[b].number = pending[b].number
                            /\ T[b].secret => pending[b].secret
    BY <1>0, <2>2, <2>3, <2>4
  <2>6. Once(T, begun, derived)
    BY <1>0, <2>2, <2>5, FewerOnce
  <2> QED  BY <2>1, <2>6 DEF OnceInv
<1>9. ASSUME PendingCleanup PROVE OnceInv'
  <2> DEFINE T == [a \in {b \in DOMAIN pending : ~pending[b].expired} |-> pending[a]]
  <2>1. DOMAIN T \subseteq DOMAIN pending /\ \A b \in DOMAIN T : T[b] = pending[b]
    OBVIOUS
  <2>2. pending' = T /\ begun' = begun /\ derived' = derived
    BY <1>9 DEF PendingCleanup
  <2> HIDE DEF T
  <2>3. Once(T, begun, derived)
    BY <1>0, <2>1, FewerOnce
  <2> QED  BY <2>2, <2>3 DEF OnceInv
<1>10. ASSUME NEW a \in Addrs, SessionExpires(a) PROVE OnceInv'
  BY <1>0, <1>10 DEF SessionExpires, OnceInv
<1>11. CASE UNCHANGED handshakeVars
  BY <1>0, <1>11 DEF handshakeVars, OnceInv
<1> QED
  BY <1>1, <1>2, <1>3, <1>4, <1>5, <1>6, <1>7, <1>8, <1>9, <1>10, <1>11
  DEF HandshakeNext, HandshakeMessage

\* Handshakes and heartbeats together, for any number of addresses, keys, limits and
\* messages: an ephemeral secret makes one key at most.  What the heartbeats do never
\* touches the table.
THEOREM NodeEphemeralOnce == HeartbeatSpec => []EphemeralOnce
<1>1. HeartbeatInit => OnceInv
  BY OnceInitially DEF HeartbeatInit
<1>2. OnceInv /\ [HeartbeatNext]_nodeVars => OnceInv'
  <2> SUFFICES ASSUME OnceInv, [HeartbeatNext]_nodeVars PROVE OnceInv'
    OBVIOUS
  <2>1. CASE HandshakeNext
    BY <2>1, OncePreserved
  <2>2. CASE UNCHANGED <<pending, begun, derived>>
    BY <2>2 DEF OnceInv
  <2>3. ASSUME NEW a \in Addrs, HeartbeatMessage(a) \/ HeartbeatAck(a) \/ PeerAges(a)
        PROVE  UNCHANGED <<pending, begun, derived>>
    BY <2>3 DEF HeartbeatMessage, HeartbeatAck, PeerAges, handshakeVars
  <2>4. Sender \/ Monitor => UNCHANGED <<pending, begun, derived>>
    BY DEF Sender, SenderTick, SenderRecord, Missed, Monitor, MonitorCheck, MonitorRead, MonitorAct,
           MonitorApply, handshakeVars
  <2>5. CASE UNCHANGED nodeVars
    BY <2>2, <2>5 DEF nodeVars, handshakeVars
  <2> QED  BY <2>1, <2>2, <2>3, <2>4, <2>5 DEF HeartbeatNext
<1>3. OnceInv => EphemeralOnce
  BY DEF OnceInv, Once, EphemeralOnce
<1> QED  BY <1>1, <1>2, <1>3, PTL DEF HeartbeatSpec

-----------------------------------------------------------------------------
\* The limits.  An entry that is put, with room for it, keeps the table in its limit.
LEMMA PutFits ==
  ASSUME NEW table, DOMAIN table \subseteq Addrs, NEW a \in Addrs, NEW x,
         ~Full(table, MAX_PENDING_HANDSHAKES)
  PROVE  /\ DOMAIN Put(table, a, x) \subseteq Addrs
         /\ Cardinality(DOMAIN Put(table, a, x)) <= MAX_PENDING_HANDSHAKES
<1>1. IsFiniteSet(DOMAIN table) /\ MAX_PENDING_HANDSHAKES \in Nat
  BY HandshakeAssumption, FS_Subset DEF HandshakeAssumption
<1>2. DOMAIN Put(table, a, x) = DOMAIN table \cup {a}
  BY DEF Put
<1>3. /\ Cardinality(DOMAIN table) \in Nat
      /\ Cardinality(DOMAIN table \cup {a}) \in Nat
      /\ Cardinality(DOMAIN table \cup {a}) <= Cardinality(DOMAIN table) + 1
  BY <1>1, OneMore
<1>4. Cardinality(DOMAIN table) < MAX_PENDING_HANDSHAKES
  BY <1>1, <1>3 DEF Full
<1>5. Cardinality(DOMAIN table \cup {a}) <= MAX_PENDING_HANDSHAKES
  BY <1>1, <1>3, <1>4
<1> QED  BY <1>2, <1>5

\* A table that loses entries keeps its limit.
LEMMA FewerFit ==
  ASSUME NEW table, DOMAIN table \subseteq Addrs,
         Cardinality(DOMAIN table) <= MAX_PENDING_HANDSHAKES,
         NEW T, DOMAIN T \subseteq DOMAIN table
  PROVE  DOMAIN T \subseteq Addrs /\ Cardinality(DOMAIN T) <= MAX_PENDING_HANDSHAKES
<1>1. IsFiniteSet(DOMAIN table) /\ MAX_PENDING_HANDSHAKES \in Nat
  BY HandshakeAssumption, FS_Subset DEF HandshakeAssumption
<1>2. /\ IsFiniteSet(DOMAIN T)
      /\ Cardinality(DOMAIN T) <= Cardinality(DOMAIN table)
  BY <1>1, FS_Subset
<1>3. Cardinality(DOMAIN T) \in Nat /\ Cardinality(DOMAIN table) \in Nat
  BY <1>1, <1>2, FS_CardinalityType
<1> QED  BY <1>1, <1>2, <1>3

\* The list takes a peer and keeps its limit.
LEMMA AddFits ==
  ASSUME NEW list \in Seq(TrustedPeer), Len(list) <= MAX_PEERS, NEW peer \in TrustedPeer
  PROVE  /\ add(list, peer) \in Seq(TrustedPeer) /\ Len(add(list, peer)) <= MAX_PEERS
         /\ peer.addr \notin AddrsOf(list) =>
              \A i \in DOMAIN add(list, peer) :
                \/ add(list, peer)[i] = peer
                \/ \E j \in DOMAIN list : add(list, peer)[i] = list[j]
<1> DEFINE room == IF Len(list) >= MAX_PEERS THEN Tail(list) ELSE list
<1>1. MAX_PEERS \in Nat \ {0}
  BY HandshakeAssumption DEF HandshakeAssumption
<1>2. /\ room \in Seq(TrustedPeer) /\ Len(room) < MAX_PEERS
      /\ \A i \in DOMAIN room : \E j \in DOMAIN list : room[i] = list[j]
  <2>1. CASE Len(list) >= MAX_PEERS
    <3>1. list # <<>> /\ room = Tail(list)
      BY <1>1, <2>1
    <3>2. room \in Seq(TrustedPeer) /\ Len(room) = Len(list) - 1
      BY <3>1
    <3>3. \A i \in DOMAIN room : i + 1 \in DOMAIN list /\ room[i] = list[i + 1]
      BY <3>1
    <3> QED  BY <1>1, <3>2, <3>3
  <2>2. CASE ~(Len(list) >= MAX_PEERS)
    BY <1>1, <2>2
  <2> QED  BY <2>1, <2>2
<1> HIDE DEF room
<1>3. CASE peer.addr \in AddrsOf(list)
  BY <1>3 DEF add
<1>4. CASE peer.addr \notin AddrsOf(list)
  <2>1. add(list, peer) = Append(room, peer)
    BY <1>4 DEF add, room
  <2>2. Append(room, peer) \in Seq(TrustedPeer) /\ Len(Append(room, peer)) <= MAX_PEERS
    BY <1>1, <1>2
  <2>3. ASSUME NEW i \in DOMAIN Append(room, peer)
        PROVE  \/ Append(room, peer)[i] = peer
               \/ \E j \in DOMAIN list : Append(room, peer)[i] = list[j]
    <3>1. CASE i \in DOMAIN room
      <4>1. Append(room, peer)[i] = room[i]
        BY <1>2, <3>1
      <4> QED  BY <1>2, <3>1, <4>1
    <3>2. CASE i \notin DOMAIN room
      BY <1>2, <3>2
    <3> QED  BY <3>1, <3>2
  <2> QED  BY <2>1, <2>2, <2>3
<1> QED  BY <1>3, <1>4

\* What is left of the types once OnceInv has seen to the entries.
Limits ==
  /\ Cardinality(DOMAIN pending) <= MAX_PENDING_HANDSHAKES
  /\ trusted \in Seq(TrustedPeer) /\ Len(trusted) <= MAX_PEERS
  /\ DOMAIN sessions \subseteq Addrs
  /\ \A a \in DOMAIN sessions : sessions[a] \in Nat
  /\ listening \in BOOLEAN
  /\ \A p \in authenticating : p \in TrustedPeer /\ p.number # FromDisk

\* The start: the table greets while there is room, the trusted list is read from its file.
LEMMA LimitsInitially == HandshakeInit => Limits
<1> SUFFICES ASSUME HandshakeInit PROVE Limits
  OBVIOUS
<1> DEFINE none == [a \in {} |-> 0]
           K == Greeted(none, Bootstrap, {})
<1>1. pending = Initiate(none, 0, Bootstrap, K)
  BY DEF HandshakeInit
<1>2. Bootstrap \in Seq(Addrs)
  BY HandshakeAssumption DEF HandshakeAssumption
<1>3. /\ DOMAIN none \in SUBSET Addrs /\ Cardinality(DOMAIN none) <= MAX_PENDING_HANDSHAKES
  BY HandshakeAssumption, FS_EmptySet DEF HandshakeAssumption
<1>4. DOMAIN Initiate(none, 0, Bootstrap, K) = DOMAIN none \cup {Bootstrap[k] : k \in K}
  BY DEF Initiate
<1> HIDE DEF none
<1>5. Cardinality(DOMAIN pending) <= MAX_PENDING_HANDSHAKES
  BY <1>1, <1>2, <1>3, <1>4, GreetedFit
<1>6. trusted \in Seq(TrustedPeer) /\ Len(trusted) <= MAX_PEERS
  BY DiskAssumption DEF HandshakeInit
<1>7. sessions = [a \in {} |-> 0] /\ listening = TRUE /\ authenticating = {}
  BY DEF HandshakeInit
<1> QED  BY <1>5, <1>6, <1>7 DEF Limits

\* The session of a peer takes its place, perhaps that of another.
LEMMA SessionInserted ==
  ASSUME Limits, NEW peer \in TrustedPeer, peer.number # FromDisk, InsertSession(peer)
  PROVE  /\ DOMAIN sessions' \subseteq Addrs
         /\ \A a \in DOMAIN sessions' : sessions'[a] \in Nat
         /\ sessions'[peer.addr] = peer.number
         /\ \A a \in DOMAIN sessions' \ {peer.addr} :
              a \in DOMAIN sessions /\ sessions'[a] = sessions[a]
<1>1. peer.addr \in Addrs /\ peer.number \in Nat
  BY DEF TrustedPeer
<1>2. ASSUME NEW map, DOMAIN map \subseteq DOMAIN sessions,
             \A a \in DOMAIN map : map[a] = sessions[a],
             sessions' = Put(map, peer.addr, peer.number)
      PROVE  /\ DOMAIN sessions' \subseteq Addrs
             /\ \A a \in DOMAIN sessions' : sessions'[a] \in Nat
             /\ sessions'[peer.addr] = peer.number
             /\ \A a \in DOMAIN sessions' \ {peer.addr} :
                  a \in DOMAIN sessions /\ sessions'[a] = sessions[a]
  <2>1. /\ DOMAIN sessions' = DOMAIN map \cup {peer.addr}
        /\ \A a \in DOMAIN sessions' :
             sessions'[a] = IF a = peer.addr THEN peer.number ELSE map[a]
    BY <1>2 DEF Put
  <2> QED  BY <1>1, <1>2, <2>1 DEF Limits
<1>3. CASE Full(sessions, MAX_SESSIONS)
  <2>1. PICK a \in DOMAIN sessions :
          sessions' = Put(Without(sessions, a), peer.addr, peer.number)
    BY <1>3 DEF InsertSession
  <2>2. /\ DOMAIN Without(sessions, a) \subseteq DOMAIN sessions
        /\ \A b \in DOMAIN Without(sessions, a) : Without(sessions, a)[b] = sessions[b]
    BY DEF Without
  <2> QED  BY <1>2, <2>1, <2>2
<1>4. CASE ~Full(sessions, MAX_SESSIONS)
  BY <1>2, <1>4 DEF InsertSession
<1> QED  BY <1>3, <1>4

\* The peer a finished handshake adds to the trusted list, never one read from disk.
LEMMA NewPeerTyped ==
  ASSUME NEW a \in Addrs, pending[a] \in PendingHandshake
  PROVE  NewPeer(a) \in TrustedPeer /\ NewPeer(a).number # FromDisk
BY DEF NewPeer, TrustedPeer, PendingHandshake, FromDisk

\* Each message, each expiry and each cleanup keeps the limits.
LEMMA LimitsPreserved ==
  ASSUME OnceInv, Limits, [HandshakeNext]_handshakeVars
  PROVE  Limits'
<1>0. /\ DOMAIN pending \subseteq Addrs
      /\ \A a \in DOMAIN pending : pending[a] \in PendingHandshake
  BY DEF OnceInv, Once, Fresh
<1> DEFINE Rest ==
      /\ trusted' = trusted /\ sessions' = sessions
      /\ listening' \in BOOLEAN
      /\ \A p \in authenticating' : p \in TrustedPeer /\ p.number # FromDisk
<1>a. ASSUME DOMAIN pending' = DOMAIN pending, Rest PROVE Limits'
  BY <1>a DEF Limits
<1>b. ASSUME DOMAIN pending' \subseteq DOMAIN pending, Rest PROVE Limits'
  BY <1>0, <1>b, FewerFit DEF Limits
<1>c. ASSUME NEW a \in DOMAIN pending
      PROVE  \A p \in {NewPeer(a)} : p \in TrustedPeer /\ p.number # FromDisk
  BY <1>0, NewPeerTyped
<1>1. ASSUME NEW a \in Addrs, NEW key \in Keys, Hello(a, key) PROVE Limits'
  <2>1. Rest
    BY <1>1 DEF Hello, Limits
  <2>2. CASE pending' = pending
    BY <1>a, <2>1, <2>2
  <2>3. CASE pending' # pending
    <3>1. /\ ~Full(pending, MAX_PENDING_HANDSHAKES)
          /\ pending' = Put(pending, a, new_responder(begun, key))
      BY <1>1, <2>3 DEF Hello
    <3>2. Cardinality(DOMAIN pending') <= MAX_PENDING_HANDSHAKES
      BY <1>0, <3>1, PutFits
    <3> QED  BY <2>1, <3>2 DEF Limits
  <2> QED  BY <2>2, <2>3
<1>2. ASSUME NEW a \in Addrs, Challenge(a) PROVE Limits'
  BY <1>2, <1>a DEF Challenge, Limits
<1>3. ASSUME NEW a \in Addrs, NEW key \in Keys, NEW n, NEW wellFormed,
             ChallengeResponse(a, key, n, wellFormed)
      PROVE  Limits'
  <2>1. Rest
    BY <1>3 DEF ChallengeResponse, Limits
  <2>2. DOMAIN pending' \subseteq DOMAIN pending
    BY <1>3 DEF ChallengeResponse, Without
  <2> QED  BY <1>b, <2>1, <2>2
<1>4. ASSUME NEW a \in Addrs, NEW wellFormed, SessionKeyExchange(a, wellFormed)
      PROVE  Limits'
  <2>1. DOMAIN pending' = DOMAIN pending
    BY <1>4 DEF SessionKeyExchange
  <2>2. Rest
    BY <1>4, <1>c DEF SessionKeyExchange, Limits
  <2> QED  BY <1>a, <2>1, <2>2
<1>5. ASSUME NEW a \in Addrs, NEW isOk, SessionKeyConfirm(a, isOk) PROVE Limits'
  <2>1. DOMAIN pending' \subseteq DOMAIN pending
    BY <1>5 DEF SessionKeyConfirm, Without
  <2>2. Rest
    BY <1>5, <1>c DEF SessionKeyConfirm, Limits
  <2> QED  BY <1>b, <2>1, <2>2
<1>6. ASSUME NEW a \in Addrs, NEW addrs \in Exchanges, PeerExchange(a, addrs) PROVE Limits'
  <2> DEFINE known == TrustedAddrs \cup {a}
  <2>1. addrs \in Seq(Addrs)
    BY HandshakeAssumption DEF HandshakeAssumption
  <2>2. pending' = Initiate(pending, begun, addrs, Greeted(pending, addrs, known))
    BY <1>6 DEF PeerExchange
  <2>3. DOMAIN pending'
          = DOMAIN pending \cup {addrs[k] : k \in Greeted(pending, addrs, known)}
    BY <2>2 DEF Initiate
  <2>4. Cardinality(DOMAIN pending') <= MAX_PENDING_HANDSHAKES
    BY <1>0, <2>1, <2>3, GreetedFit DEF Limits
  <2> QED  BY <1>6, <2>4 DEF PeerExchange, Limits
<1>7. ASSUME Authenticate PROVE Limits'
  <2>1. PICK peer \in authenticating :
          IF peer.addr \in TrustedAddrs THEN UNCHANGED <<trusted, sessions>>
          ELSE trusted' = add(trusted, peer) /\ InsertSession(peer)
    BY <1>7 DEF Authenticate
  <2>2. peer \in TrustedPeer /\ peer.number # FromDisk
    BY DEF Limits
  <2>3. /\ trusted' \in Seq(TrustedPeer) /\ Len(trusted') <= MAX_PEERS
        /\ DOMAIN sessions' \subseteq Addrs
        /\ \A a \in DOMAIN sessions' : sessions'[a] \in Nat
    <3>1. CASE peer.addr \in TrustedAddrs
      BY <2>1, <3>1 DEF Limits
    <3>2. CASE peer.addr \notin TrustedAddrs
      BY <2>1, <2>2, <3>2, AddFits, SessionInserted DEF Limits
    <3> QED  BY <3>1, <3>2
  <2>4. pending' = pending /\ listening' = listening /\ authenticating' = {}
    BY <1>7 DEF Authenticate
  <2> QED  BY <2>3, <2>4 DEF Limits
<1>8. ASSUME NEW a \in Addrs, PendingExpires(a) PROVE Limits'
  BY <1>8, <1>a DEF PendingExpires, Limits
<1>9. ASSUME PendingCleanup PROVE Limits'
  <2>1. DOMAIN pending' \subseteq DOMAIN pending
    BY <1>9 DEF PendingCleanup
  <2> QED  BY <1>9, <1>b, <2>1 DEF PendingCleanup, Limits
<1>10. ASSUME NEW a \in Addrs, SessionExpires(a) PROVE Limits'
  BY <1>10 DEF SessionExpires, Without, Limits
<1>11. CASE UNCHANGED handshakeVars
  BY <1>11 DEF handshakeVars, Limits
<1> QED
  BY <1>1, <1>2, <1>3, <1>4, <1>5, <1>6, <1>7, <1>8, <1>9, <1>10, <1>11
  DEF HandshakeNext, HandshakeMessage

\* The handshake alone, for any number of addresses, keys, limits and messages: the table
\* and the list stay in their limits, and what becomes a peer is well formed, whatever
\* Hellos and exchanges arrive in whatever order.
THEOREM HandshakeTypeCorrect == HandshakeSpec => []HandshakeTypeOK
<1>1. HandshakeInit => OnceInv /\ Limits
  BY OnceInitially, LimitsInitially
<1>2. OnceInv /\ Limits /\ [HandshakeNext]_handshakeVars => OnceInv' /\ Limits'
  BY OncePreserved, LimitsPreserved
<1>3. OnceInv /\ Limits => HandshakeTypeOK
  BY DEF OnceInv, Once, Fresh, Limits, HandshakeTypeOK
<1> QED  BY <1>1, <1>2, <1>3, PTL DEF HandshakeSpec

\* The step in which a peer becomes trusted gives it its session; no other step gives one
\* to a peer that is.
LEMMA TrustPreserved ==
  ASSUME Limits, SessionOfTrust, [HandshakeNext]_handshakeVars
  PROVE  SessionOfTrust'
<1>1. CASE Authenticate
  <2>1. PICK peer \in authenticating :
          IF peer.addr \in TrustedAddrs THEN UNCHANGED <<trusted, sessions>>
          ELSE trusted' = add(trusted, peer) /\ InsertSession(peer)
    BY <1>1 DEF Authenticate
  <2>2. CASE peer.addr \in TrustedAddrs
    BY <2>1, <2>2 DEF SessionOfTrust
  <2>3. CASE peer.addr \notin TrustedAddrs
    <3>1. /\ peer \in TrustedPeer /\ peer.number # FromDisk
          /\ peer.addr \notin AddrsOf(trusted)
          /\ trusted' = add(trusted, peer) /\ InsertSession(peer)
      BY <2>1, <2>3 DEF Limits, TrustedAddrs
    <3>2. /\ sessions'[peer.addr] = peer.number
          /\ \A a \in DOMAIN sessions' \ {peer.addr} :
               a \in DOMAIN sessions /\ sessions'[a] = sessions[a]
      BY <3>1, SessionInserted
    <3>3. \A i \in DOMAIN trusted' :
            trusted'[i] = peer \/ \E j \in DOMAIN trusted : trusted'[i] = trusted[j]
      BY <3>1, AddFits DEF Limits
    <3>4. ASSUME NEW i \in DOMAIN trusted', trusted'[i].addr \in DOMAIN sessions'
          PROVE  sessions'[trusted'[i].addr] = trusted'[i].number
      <4>1. CASE trusted'[i] = peer
        BY <3>2, <4>1
      <4>2. CASE trusted'[i] # peer
        <5>1. PICK j \in DOMAIN trusted : trusted'[i] = trusted[j]
          BY <3>3, <4>2
        <5>2. trusted[j].addr # peer.addr
          BY <3>1 DEF AddrsOf
        <5> QED  BY <3>2, <3>4, <5>1, <5>2 DEF SessionOfTrust
      <4> QED  BY <4>1, <4>2
    <3> QED  BY <3>4 DEF SessionOfTrust
  <2> QED  BY <2>2, <2>3
<1>2. ASSUME NEW a \in Addrs, SessionExpires(a) PROVE SessionOfTrust'
  BY <1>2 DEF SessionExpires, Without, SessionOfTrust
<1>3. CASE UNCHANGED <<trusted, sessions>>
  BY <1>3 DEF SessionOfTrust
<1>4. Authenticate \/ (\E a \in Addrs : SessionExpires(a)) \/ UNCHANGED <<trusted, sessions>>
  BY DEF HandshakeNext, HandshakeMessage, Challenge, Hello, ChallengeResponse,
     SessionKeyExchange, SessionKeyConfirm, PeerExchange, PendingExpires, PendingCleanup,
     handshakeVars
<1> QED  BY <1>1, <1>2, <1>3, <1>4

\* The handshake alone: trust and session of an address come of the same handshake,
\* whatever is evicted or expires in between.
THEOREM HandshakeSessionOfTrust == HandshakeSpec => []SessionOfTrust
<1>1. HandshakeInit => OnceInv /\ Limits /\ SessionOfTrust
  <2>1. HandshakeInit => SessionOfTrust
    BY DEF HandshakeInit, SessionOfTrust
  <2> QED  BY <2>1, OnceInitially, LimitsInitially
<1>2. OnceInv /\ Limits /\ SessionOfTrust /\ [HandshakeNext]_handshakeVars
        => OnceInv' /\ Limits' /\ SessionOfTrust'
  BY OncePreserved, LimitsPreserved, TrustPreserved
<1> QED  BY <1>1, <1>2, PTL DEF HandshakeSpec

-----------------------------------------------------------------------------
\* Handshakes and heartbeats.  A set of naturals that is not empty has a least element.
LEMMA LeastNatural ==
  ASSUME NEW T \in SUBSET Nat, T # {}
  PROVE  \E x \in T : \A y \in T : x <= y
<1> DEFINE R == OpToRel(<, Nat)
<1>1. IsWellFoundedOn(R, Nat)
  BY NatLessThanWellFounded
<1>2. \A y, x \in Nat : y < x => <<y, x>> \in R
  BY DEF OpToRel
<1> HIDE DEF R
<1>3. PICK x \in T : \A y \in T : ~(<<y, x>> \in R)
  BY <1>1, WFMin
<1>4. x \in Nat /\ \A y \in T : y \in Nat
  BY <1>3
<1>5. \A y \in T : ~(y < x)
  BY <1>2, <1>3, <1>4
<1> QED  BY <1>3, <1>4, <1>5

\* Counting a set upwards, its size grows by one at a time and so meets every number
\* up to it: there is an n-th.
LEMMA NthExists ==
  ASSUME NEW N \in Nat, NEW S \in SUBSET (1..N), NEW n \in 1..Cardinality(S)
  PROVE  Nth(S, n) \in S
<1> DEFINE Upto(k) == {j \in S : j <= k}
           T == {k \in Nat : Cardinality(Upto(k)) >= n}
<1>1. \A j \in S : j \in Nat /\ j >= 1 /\ j <= N
  OBVIOUS
<1>2. IsFiniteSet(S) /\ Cardinality(S) \in Nat
  <2>1. IsFiniteSet(1..N)
    BY FS_Interval
  <2> QED  BY <2>1, FS_Subset, FS_CardinalityType
<1>3. \A k : IsFiniteSet(Upto(k)) /\ Cardinality(Upto(k)) \in Nat
  <2> TAKE k
  <2>1. Upto(k) \in SUBSET S
    OBVIOUS
  <2>2. IsFiniteSet(Upto(k))
    BY <2>1, <1>2, FS_Subset
  <2> QED  BY <2>2, FS_CardinalityType
<1>4. N \in T
  <2>1. Upto(N) = S
    BY <1>1
  <2>2. Cardinality(Upto(N)) >= n
    BY <2>1, <1>2
  <2> QED  BY <2>2
<1>5. PICK k \in T : \A j \in T : k <= j
  <2>1. T \in SUBSET Nat /\ T # {}
    BY <1>4
  <2> HIDE DEF T
  <2> QED  BY <2>1, LeastNatural
<1>6. k \in Nat /\ Cardinality(Upto(k)) >= n
  BY <1>5
<1>7. k - 1 \in Nat /\ Cardinality(Upto(k - 1)) < n
  <2>1. k # 0
    <3>1. \A j \in S : ~(j <= 0)
      BY <1>1
    <3>2. Upto(0) = {}
      BY <3>1
    <3>3. Cardinality(Upto(0)) = 0
      BY <3>2, FS_EmptySet
    <3> QED  BY <3>3, <1>6
  <2>2. k - 1 \in Nat /\ k - 1 < k
    BY <2>1, <1>6
  <2>3. k - 1 \notin T
    <3> HIDE DEF T
    <3>1. ~(k <= k - 1)
      BY <1>6
    <3> QED  BY <3>1, <1>5
  <2>4. ~(Cardinality(Upto(k - 1)) >= n)
    BY <2>2, <2>3
  <2>5. Cardinality(Upto(k - 1)) \in Nat
    BY <1>3
  <2> HIDE DEF Upto, T
  <2> QED  BY <2>2, <2>4, <2>5
<1>8. k \in S /\ Upto(k) = Upto(k - 1) \cup {k}
  <2>1. CASE k \in S
    <3>1. \A j \in S : j <= k <=> (j <= k - 1 \/ j = k)
      BY <2>1, <1>6, <1>1
    <3> QED  BY <3>1, <2>1
  <2>2. CASE k \notin S
    <3>1. \A j \in S : j <= k <=> j <= k - 1
      BY <2>2, <1>6, <1>1
    <3>2. Upto(k) = Upto(k - 1)
      BY <3>1
    <3> HIDE DEF Upto
    <3>3. Cardinality(Upto(k)) \in Nat /\ n \in Nat
      BY <1>3
    <3> QED  BY <3>3, <3>2, <1>6, <1>7
  <2> QED  BY <2>1, <2>2
<1>9. Cardinality(Upto(k)) = n
  <2> HIDE DEF Upto, T
  <2>1. /\ IsFiniteSet(Upto(k - 1))
        /\ Cardinality(Upto(k - 1)) \in Nat /\ Cardinality(Upto(k)) \in Nat
    BY <1>3
  <2>2. Cardinality(Upto(k)) <= Cardinality(Upto(k - 1)) + 1
    BY <2>1, <1>8, OneMore
  <2> QED  BY <2>1, <2>2, <1>6, <1>7, <1>2
<1>10. \E i \in S : Cardinality({j \in S : j <= i}) = n
  BY <1>8, <1>9
<1> QED  BY <1>10 DEF Nth

\* What is removed from the list leaves a list of peers that were in it.
LEMMA RemoveFits ==
  ASSUME NEW list \in Seq(TrustedPeer), Len(list) <= MAX_PEERS, NEW gone
  PROVE  /\ remove(list, gone) \in Seq(TrustedPeer) /\ Len(remove(list, gone)) <= MAX_PEERS
         /\ \A i \in DOMAIN remove(list, gone) :
              \E j \in DOMAIN list : remove(list, gone)[i] = list[j]
<1> DEFINE kept == {i \in DOMAIN list : list[i].addr \notin gone}
           size == Cardinality(kept)
<1>1. kept \in SUBSET (1..Len(list)) /\ Len(list) \in Nat
  OBVIOUS
<1>2. /\ IsFiniteSet(1..Len(list)) /\ Cardinality(1..Len(list)) = Len(list)
  <2>1. PICK n \in Nat : n = Len(list)
    BY <1>1
  <2>2. 1 \in Int /\ n \in Int
    BY <2>1
  <2>3. /\ IsFiniteSet(1..n)
        /\ Cardinality(1..n) = IF 1 > n THEN 0 ELSE n - 1 + 1
    BY ONLY <2>2, FS_Interval
  <2>4. Cardinality(1..n) = n
    BY <2>1, <2>3
  <2> QED  BY <2>1, <2>3, <2>4
<1>3. size \in Nat /\ size <= Len(list)
  BY <1>1, <1>2, FS_Subset, FS_CardinalityType
<1>4. remove(list, gone) = [n \in 1..size |-> list[Nth(kept, n)]]
  BY DEF remove
<1>5. \A n \in 1..size : Nth(kept, n) \in DOMAIN list
  BY <1>1, NthExists
<1>6. MAX_PEERS \in Nat
  BY HandshakeAssumption DEF HandshakeAssumption
<1> HIDE DEF kept, size
<1>7. \A n \in 1..size : list[Nth(kept, n)] \in TrustedPeer
  BY <1>5
<1>8. remove(list, gone) \in Seq(TrustedPeer) /\ Len(remove(list, gone)) = size
  BY <1>3, <1>4, <1>7
<1> QED  BY <1>3, <1>4, <1>5, <1>6, <1>8

\* What the heartbeats do to the state of the handshakes: nothing, but that the monitor
\* removes peers from the list.
LEMMA HeartbeatsApart ==
  ASSUME HeartbeatNext, ~HandshakeNext
  PROVE  \/ UNCHANGED handshakeVars
         \/ /\ UNCHANGED <<pending, sessions, listening, authenticating, begun, derived>>
            /\ trusted' = remove(trusted, decided.remove)
<1>1. ASSUME NEW a \in Addrs, HeartbeatMessage(a) \/ HeartbeatAck(a) \/ PeerAges(a)
      PROVE  UNCHANGED handshakeVars
  BY <1>1 DEF HeartbeatMessage, HeartbeatAck, PeerAges
<1>2. Sender \/ MonitorCheck \/ MonitorRead \/ MonitorAct => UNCHANGED handshakeVars
  BY DEF Sender, SenderTick, SenderRecord, Missed, MonitorCheck, MonitorRead, MonitorAct
<1>3. CASE MonitorApply
  BY <1>3 DEF MonitorApply, handshakeVars
<1> QED  BY <1>1, <1>2, <1>3 DEF HeartbeatNext, Monitor

\* The limits, and trust with its session, whatever the monitor removes.
LEMMA NodePreserved ==
  ASSUME OnceInv, Limits, SessionOfTrust, [HeartbeatNext]_nodeVars
  PROVE  OnceInv' /\ Limits' /\ SessionOfTrust'
<1>1. CASE HandshakeNext \/ UNCHANGED handshakeVars
  BY <1>1, OncePreserved, LimitsPreserved, TrustPreserved
<1>2. CASE /\ UNCHANGED <<pending, sessions, listening, authenticating, begun, derived>>
           /\ trusted' = remove(trusted, decided.remove)
  <2>1. /\ trusted' \in Seq(TrustedPeer) /\ Len(trusted') <= MAX_PEERS
        /\ \A i \in DOMAIN trusted' : \E j \in DOMAIN trusted : trusted'[i] = trusted[j]
    BY <1>2, RemoveFits DEF Limits
  <2>2. SessionOfTrust'
    BY <1>2, <2>1 DEF SessionOfTrust
  <2>3. Limits'
    BY <1>2, <2>1 DEF Limits
  <2> QED  BY <1>2, <2>2, <2>3 DEF OnceInv
<1>3. UNCHANGED nodeVars => UNCHANGED handshakeVars
  BY DEF nodeVars
<1> QED  BY <1>1, <1>2, <1>3, HeartbeatsApart

\* The start, with the rules and no state of a peer.
LEMMA NodeInitially == HeartbeatInit => OnceInv /\ Limits /\ SessionOfTrust
<1>1. HandshakeInit => SessionOfTrust
  BY DEF HandshakeInit, SessionOfTrust
<1> QED  BY <1>1, OnceInitially, LimitsInitially DEF HeartbeatInit

\* Handshakes and heartbeats together: the limits hold also while the monitor removes
\* peers from the list, between any two messages.
THEOREM NodeTypeCorrect == HeartbeatSpec => []HandshakeTypeOK
<1>1. OnceInv /\ Limits /\ SessionOfTrust /\ [HeartbeatNext]_nodeVars
        => OnceInv' /\ Limits' /\ SessionOfTrust'
  BY NodePreserved
<1>2. OnceInv /\ Limits => HandshakeTypeOK
  BY DEF OnceInv, Once, Fresh, Limits, HandshakeTypeOK
<1> QED  BY <1>1, <1>2, NodeInitially, PTL DEF HeartbeatSpec

\* Handshakes and heartbeats together: a session is that of the handshake its peer is
\* trusted for, also when the monitor removed the peer and a later one made it trusted.
THEOREM NodeSessionOfTrust == HeartbeatSpec => []SessionOfTrust
<1>1. OnceInv /\ Limits /\ SessionOfTrust /\ [HeartbeatNext]_nodeVars
        => OnceInv' /\ Limits' /\ SessionOfTrust'
  BY NodePreserved
<1> QED  BY <1>1, NodeInitially, PTL DEF HeartbeatSpec

-----------------------------------------------------------------------------
\* The states of the peers: who was heard has missed nothing, ...
Quiet(s) == s.heard # "never" => s.misses = 0 /\ s.attempts = 0
StatesInv ==
  /\ Known \subseteq Addrs /\ sending \subseteq Addrs
  /\ \A a \in Known : states[a] \in PeerState /\ Quiet(states[a])

\* ... and what the monitor decides is about peers that were never heard.
PeerWent(event) == \E a \in Addrs : event = PeerDisconnected(Named(a))
DecidedInv ==
  \E gone, events, addrOf :
    /\ decided = [remove |-> gone, reconnect |-> {}, events |-> events, addrOf |-> addrOf]
    /\ \A a \in DOMAIN events : PeerWent(events[a])
    /\ DOMAIN addrOf \subseteq Keys \cup {NoKey}

SilentInv == StatesInv /\ DecidedInv

\* A new state has missed nothing and is heard of by nobody.
LEMMA NewStateQuiet == NewState \in PeerState /\ Quiet(NewState)
BY HeartbeatAssumption DEF HeartbeatAssumption, NewState, PeerState, Quiet

\* A heartbeat makes good what was missed.
LEMMA HeardQuiet ==
  ASSUME NEW s \in PeerState
  PROVE  record_heartbeat(s) \in PeerState /\ Quiet(record_heartbeat(s))
<1>1. 0 \in 0..MaxMisses /\ 0 \in Nat
  BY HeartbeatAssumption DEF HeartbeatAssumption
<1>2. record_heartbeat(s) \in PeerState
  BY <1>1 DEF record_heartbeat, PeerState, Ages
<1> QED  BY <1>2 DEF record_heartbeat, PeerState, Quiet

\* A miss is counted for a peer that was never heard, and none for any.
LEMMA MissedQuiet ==
  ASSUME NEW s \in PeerState, Quiet(s), NEW n \in Nat, n = 0 \/ s.heard = "never"
  PROVE  record_miss(s, n) \in PeerState /\ Quiet(record_miss(s, n))
<1>1. s.misses \in 0..MaxMisses /\ MaxMisses \in Nat
  BY HeartbeatAssumption DEF PeerState, HeartbeatAssumption
<1> DEFINE m == IF s.misses + n < MaxMisses THEN s.misses + n ELSE MaxMisses
<1>2. m \in 0..MaxMisses /\ (n = 0 => m = s.misses)
  BY <1>1
<1>3. record_miss(s, n) = [s EXCEPT !.misses = m]
  BY DEF record_miss
<1> HIDE DEF m
<1>4. record_miss(s, n) \in PeerState
  BY <1>2, <1>3 DEF PeerState
<1>5. /\ record_miss(s, n).heard = s.heard /\ record_miss(s, n).misses = m
      /\ record_miss(s, n).attempts = s.attempts
  BY <1>3 DEF PeerState
<1> QED  BY <1>2, <1>4, <1>5 DEF Quiet

\* A peer that was heard gives the sender and the monitor no reason for anything.
LEMMA QuietUnnoticed ==
  ASSUME StatesInv, NEW a \in Known, states[a].heard # "never"
  PROVE  /\ \A longer : ~is_inactive(states[a], longer)
         /\ ~Reconnects(a) /\ ~Suspected(a)
<1>1. states[a].misses = 0
  BY DEF StatesInv, Quiet
<1>2. ~(0 >= MIN_MISSES_FOR_INACTIVE) /\ ~(0 >= Suspicious)
  BY HeartbeatAssumption DEF HeartbeatAssumption
<1> QED  BY <1>1, <1>2 DEF is_inactive, Reconnects, Suspected

\* Whatever the rules are, that a peer went marks nobody: the peer that went is meant
\* whomever a rule names, and by a name no peer has.
LEMMA NobodyMarked ==
  ASSUME NEW rules, NEW event, PeerWent(event),
         NEW addrOf, DOMAIN addrOf \subseteq Keys \cup {NoKey}, NEW addr
  PROVE  Execute(Evaluate(rules, event), addrOf, addr) = 0
<1>1. PICK b \in Addrs : event = PeerDisconnected(Named(b))
  BY DEF PeerWent
<1>2. event.kind = "peer_disconnected" /\ event.node \notin DOMAIN addrOf
  BY <1>1, NamesAssumption DEF PeerDisconnected, NamesAssumption
<1>3. ASSUME NEW x \in Evaluate(rules, event), x.action.kind = "mark_inactive"
      PROVE  x.action.peer = event.node
  <2>1. PICK i \in DOMAIN rules :
          /\ Fires(rules[i], event)
          /\ \E j \in DOMAIN ActionsOf(rules[i], event) :
               x = [rule |-> i, place |-> j, action |-> ActionsOf(rules[i], event)[j]]
    BY DEF Evaluate
  <2>2. PICK j \in DOMAIN ActionsOf(rules[i], event) :
          x.action = ActionsOf(rules[i], event)[j]
    BY <2>1
  <2>3. rules[i].kind # "block"
    BY <1>2, <2>1 DEF Fires, MatchesEvent
  <2>4. x.action = PrepareAction(rules[i].actions[j], event)
    BY <2>2, <2>3 DEF ActionsOf
  <2> QED  BY <1>2, <1>3, <2>4 DEF PrepareAction, MarkInactive
<1>4. {x \in Evaluate(rules, event) : /\ x.action.kind = "mark_inactive"
                                      /\ x.action.peer \in DOMAIN addrOf
                                      /\ addrOf[x.action.peer] = addr} = {}
  BY <1>2, <1>3
<1> QED  BY <1>4, FS_EmptySet DEF Execute

\* The list holds peers.
LEMMA TrustedPeers ==
  ASSUME Limits
  PROVE  \A i \in DOMAIN trusted : trusted[i] \in TrustedPeer
BY DEF Limits

\* The listener records a heartbeat.
LEMMA HeardKeeps ==
  ASSUME SilentInv, NEW a \in Addrs, HeartbeatMessage(a) \/ HeartbeatAck(a)
  PROVE  SilentInv'
<1>1. decided' = decided /\ sending' = sending
  BY DEF HeartbeatMessage, HeartbeatAck
<1>2. CASE a \in Known /\ Heard(a)
  <2>1. states' = [b \in Known |-> IF b \in {a} THEN record_heartbeat(states[b]) ELSE states[b]]
    BY <1>2 DEF Heard, Changed
  <2>2. StatesInv'
    BY <1>1, <2>1, HeardQuiet DEF SilentInv, StatesInv, Known
  <2> QED  BY <1>1, <2>2 DEF SilentInv, DecidedInv
<1>3. CASE \E map : /\ DOMAIN map \subseteq Known /\ \A b \in DOMAIN map : map[b] = states[b]
                    /\ states' = Put(map, a, NewState)
  <2>1. PICK map : /\ DOMAIN map \subseteq Known /\ \A b \in DOMAIN map : map[b] = states[b]
                   /\ states' = [b \in DOMAIN map \cup {a} |-> IF b = a THEN NewState ELSE map[b]]
    BY <1>3 DEF Put
  <2>2. StatesInv'
    BY <1>1, <2>1, NewStateQuiet DEF SilentInv, StatesInv, Known
  <2> QED  BY <1>1, <2>2 DEF SilentInv, DecidedInv
<1>4. /\ DOMAIN Without(states, Head(lastSeen)) \subseteq Known
      /\ \A b \in DOMAIN Without(states, Head(lastSeen)) :
           Without(states, Head(lastSeen))[b] = states[b]
  BY DEF Without, Known
<1>5. DOMAIN states \subseteq Known /\ \A b \in DOMAIN states : states[b] = states[b]
  BY DEF Known
<1> QED  BY <1>2, <1>3, <1>4, <1>5 DEF HeartbeatMessage, HeartbeatAck

\* The sender counts a miss of those that were never heard.
LEMMA SenderKeeps ==
  ASSUME Limits, SilentInv, Sender
  PROVE  SilentInv'
<1>1. CASE SenderTick
  <2>1. \A i \in DOMAIN trusted : trusted[i].addr \in Addrs
    BY TrustedPeers DEF TrustedPeer
  <2>2. sending' \subseteq Addrs
    BY <1>1, <2>1 DEF SenderTick, TrustedAddrs, AddrsOf
  <2> QED  BY <1>1, <2>2 DEF SenderTick, SilentInv, StatesInv, DecidedInv, Known
<1>2. CASE SenderRecord
  <2> DEFINE silent == {a \in sending \cap Known : is_inactive(states[a], {"30s", "300s"})}
  <2>1. \A a \in silent : a \in Known /\ states[a].heard = "never"
    BY QuietUnnoticed DEF SilentInv
  <2>2. /\ states' = [a \in Known \cup sending |->
                        IF a \in silent THEN record_miss(states[a], 1)
                        ELSE IF a \in Known THEN states[a] ELSE NewState]
        /\ sending' = {} /\ decided' = decided
    BY <1>2 DEF SenderRecord, Missed
  <2> HIDE DEF silent
  <2>3. \A a \in Known \cup sending : states'[a] \in PeerState /\ Quiet(states'[a])
    BY <2>1, <2>2, MissedQuiet, NewStateQuiet DEF SilentInv, StatesInv
  <2>4. StatesInv'
    BY <2>2, <2>3 DEF SilentInv, StatesInv, Known
  <2> QED  BY <2>2, <2>4 DEF SilentInv, DecidedInv
<1> QED  BY <1>1, <1>2 DEF Sender

\* The monitor decides about those that were never heard, and nobody else suffers.
LEMMA MonitorKeeps ==
  ASSUME Limits, SilentInv, Monitor
  PROVE  SilentInv'
<1>1. PICK gone, events, addrOf :
        /\ decided = [remove |-> gone, reconnect |-> {}, events |-> events, addrOf |-> addrOf]
        /\ \A a \in DOMAIN events : PeerWent(events[a])
        /\ DOMAIN addrOf \subseteq Keys \cup {NoKey}
  BY DEF SilentInv, DecidedInv
<1>2. DOMAIN NoAddrs \subseteq Keys \cup {NoKey}
  BY DEF NoAddrs
<1>3. ASSUME NEW g, NEW e, \A a \in DOMAIN e : PeerWent(e[a]),
             Proceed([remove |-> g, reconnect |-> {}, events |-> e, addrOf |-> addrOf])
      PROVE  DecidedInv'
  <2> DEFINE d == [remove |-> g, reconnect |-> {}, events |-> e, addrOf |-> addrOf]
  <2>1. \/ decided' = d
        \/ decided' = [remove |-> g, reconnect |-> {}, events |-> e, addrOf |-> NoAddrs]
    BY <1>3 DEF Proceed
  <2> QED  BY <1>1, <1>2, <1>3, <2>1 DEF DecidedInv
<1>4. CASE MonitorCheck
  <2> DEFINE noticed == {a \in Known : Outlived(a) \/ Reconnects(a) \/ Suspected(a)}
             g == {a \in Known : Outlived(a)}
             e == [a \in noticed |-> EventOf(a)]
  <2>1. \A a \in Known : ~Reconnects(a)
    <3> TAKE a \in Known
    <3>1. CASE states[a].heard = "never"
      BY <3>1 DEF Reconnects, Outlived, is_inactive
    <3> QED  BY <3>1, QuietUnnoticed DEF SilentInv
  <2>2. \A a \in noticed : Outlived(a)
    <3> TAKE a \in noticed
    <3>1. CASE states[a].heard = "never"
      BY <3>1 DEF Outlived, is_inactive
    <3> QED  BY <3>1, QuietUnnoticed DEF SilentInv
  <2>3. \A a \in DOMAIN e : PeerWent(e[a])
    BY <2>2 DEF EventOf, PeerWent, SilentInv, StatesInv
  <2>4. decided' = [remove |-> g, reconnect |-> {}, events |-> e, addrOf |-> NoAddrs]
    <3>1. {a \in Known : Reconnects(a)} = {}
      BY <2>1
    <3> QED  BY <1>4, <3>1 DEF MonitorCheck
  <2> HIDE DEF g, e
  <2>5. DecidedInv'
    BY <1>2, <2>3, <2>4 DEF DecidedInv
  <2> QED  BY <1>4, <2>5 DEF MonitorCheck, SilentInv, StatesInv, Known
<1>5. CASE MonitorRead
  <2>1. PICK names \in [Names -> TrustedAddrs] : decided' = [decided EXCEPT !.addrOf = names]
    BY <1>5 DEF MonitorRead
  <2>2. DOMAIN names \subseteq Keys \cup {NoKey}
    <3>1. \A i \in DOMAIN trusted : trusted[i].key \in Keys \cup {NoKey}
      BY TrustedPeers DEF TrustedPeer
    <3>2. DOMAIN names = Names
      BY <2>1
    <3> QED  BY <3>1, <3>2 DEF Names
  <2>3. decided' = [remove |-> gone, reconnect |-> {}, events |-> events, addrOf |-> names]
    BY <1>1, <2>1
  <2>4. DecidedInv'
    BY <1>1, <2>2, <2>3 DEF DecidedInv
  <2> QED  BY <1>5, <2>4 DEF MonitorRead, SilentInv, StatesInv, Known
<1>6. CASE MonitorAct
  <2>1. PICK a \in DOMAIN events :
          /\ states' = [b \in Known |->
               record_miss(states[b], Execute(Evaluate(engine, events[a]), addrOf, b))]
          /\ Proceed([decided EXCEPT !.events = Without(events, a)])
    BY <1>1, <1>6 DEF MonitorAct
  <2>2. \A b \in Known : Execute(Evaluate(engine, events[a]), addrOf, b) = 0
    BY <1>1, NobodyMarked
  <2>3. \A b \in Known : record_miss(states[b], 0) \in PeerState /\ Quiet(record_miss(states[b], 0))
    BY MissedQuiet DEF SilentInv, StatesInv
  <2>4. StatesInv'
    <3>1. sending' = sending
      BY <1>6 DEF MonitorAct
    <3>2. DOMAIN states' = Known /\ \A b \in Known : states'[b] = record_miss(states[b], 0)
      BY <2>1, <2>2
    <3> QED  BY <2>3, <3>1, <3>2 DEF SilentInv, StatesInv, Known
  <2>5. /\ [decided EXCEPT !.events = Without(events, a)]
             = [remove |-> gone, reconnect |-> {}, events |-> Without(events, a),
                addrOf |-> addrOf]
        /\ \A b \in DOMAIN Without(events, a) : PeerWent(Without(events, a)[b])
    BY <1>1 DEF Without
  <2>6. DecidedInv'
    BY <1>3, <2>1, <2>5
  <2> QED  BY <2>4, <2>6 DEF SilentInv
<1>7. CASE MonitorApply
  <2>1. CASE monitoring = "remove"
    <3>1. /\ states' = [a \in Known \ gone |-> states[a]] /\ sending' = sending
          /\ Proceed([decided EXCEPT !.remove = {}])
      BY <1>1, <1>7, <2>1 DEF MonitorApply
    <3>2. [decided EXCEPT !.remove = {}]
            = [remove |-> {}, reconnect |-> {}, events |-> events, addrOf |-> addrOf]
      BY <1>1
    <3>3. DecidedInv'
      BY <1>1, <1>3, <3>1, <3>2
    <3> QED  BY <3>1, <3>3 DEF SilentInv, StatesInv, Known
  <2>2. CASE monitoring # "remove"
    <3>1. /\ states' = Changed({}, schedule_reconnect) /\ sending' = sending
          /\ Proceed([decided EXCEPT !.reconnect = {}])
      BY <1>1, <1>7, <2>2 DEF MonitorApply
    <3>2. DOMAIN states' = Known /\ \A a \in Known : states'[a] = states[a]
      BY <3>1 DEF Changed
    <3>3. [decided EXCEPT !.reconnect = {}]
            = [remove |-> gone, reconnect |-> {}, events |-> events, addrOf |-> addrOf]
      BY <1>1
    <3>4. DecidedInv'
      BY <1>1, <1>3, <3>1, <3>3
    <3> QED  BY <3>1, <3>2, <3>4 DEF SilentInv, StatesInv, Known
  <2> QED  BY <2>1, <2>2
<1> QED  BY <1>4, <1>5, <1>6, <1>7 DEF Monitor

\* A peer gets older: that counts nothing.
LEMMA AgesKeep ==
  ASSUME SilentInv, NEW a \in Addrs, PeerAges(a)
  PROVE  SilentInv'
<1>1. a \in Known /\ states[a] \in PeerState /\ Quiet(states[a])
  BY DEF PeerAges, SilentInv, StatesInv
<1> DEFINE s == [[states[a] EXCEPT !.heard = Older(@)] EXCEPT !.due = TRUE]
<1>2. s \in PeerState /\ Quiet(s)
  BY <1>1 DEF PeerState, Ages, Quiet, Older
<1>3. /\ DOMAIN states' = Known /\ states'[a] = s
      /\ \A b \in Known : b # a => states'[b] = states[b]
      /\ sending' = sending /\ decided' = decided
  BY <1>1 DEF PeerAges, Known
<1> HIDE DEF s
<1>4. StatesInv'
  BY <1>2, <1>3 DEF SilentInv, StatesInv, Known
<1> QED  BY <1>3, <1>4 DEF SilentInv, DecidedInv

\* heartbeat.rs, for any peers, rules, limits and messages: silence that was ever broken
\* is not counted, so that no peer that was heard is suspected, reconnected or removed.
THEOREM NodeSilenceUncounted == HeartbeatSpec => []SilenceUncounted
<1>1. HeartbeatInit => SilentInv
  <2> SUFFICES ASSUME HeartbeatInit PROVE SilentInv
    OBVIOUS
  <2>1. StatesInv
    BY DEF HeartbeatInit, StatesInv, Known
  <2>2. DecidedInv
    <3>1. decided = [remove |-> {}, reconnect |-> {}, events |-> NoEvents, addrOf |-> NoAddrs]
      BY DEF HeartbeatInit, Nothing
    <3>2. DOMAIN NoEvents = {} /\ DOMAIN NoAddrs = {}
      BY DEF NoEvents, NoAddrs
    <3> QED  BY <3>1, <3>2 DEF DecidedInv
  <2> QED  BY <2>1, <2>2 DEF SilentInv
<1>2. Limits /\ SilentInv /\ [HeartbeatNext]_nodeVars => SilentInv'
  <2> SUFFICES ASSUME Limits, SilentInv, [HeartbeatNext]_nodeVars PROVE SilentInv'
    OBVIOUS
  <2>1. CASE UNCHANGED heartbeatVars
    BY <2>1 DEF heartbeatVars, SilentInv, StatesInv, DecidedInv, Known
  <2>2. UNCHANGED nodeVars => UNCHANGED heartbeatVars
    BY DEF nodeVars
  <2> QED
    BY <2>1, <2>2, HeardKeeps, AgesKeep, SenderKeeps, MonitorKeeps DEF HeartbeatNext
<1>3. SilentInv => SilenceUncounted
  <2> SUFFICES ASSUME SilentInv PROVE SilenceUncounted
    OBVIOUS
  <2>1. decided.reconnect = {}
    BY DEF SilentInv, DecidedInv
  <2> QED  BY <2>1 DEF SilentInv, StatesInv, Quiet, SilenceUncounted
<1>4. OnceInv /\ Limits /\ SessionOfTrust /\ [HeartbeatNext]_nodeVars
        => OnceInv' /\ Limits' /\ SessionOfTrust'
  BY NodePreserved
<1> QED  BY <1>1, <1>2, <1>3, <1>4, NodeInitially, PTL DEF HeartbeatSpec
=============================================================================
