--------------------------- MODULE BehaviorProofs ---------------------------
(***************************************************************************)
(* Proofs about the behaviour engine, for any number of runs, of crashes    *)
(* and of writes that fail, whatever is observed and however far the plan   *)
(* looks back: no iteration on disk is written over, what failed is not     *)
(* looked into for ever, and no lesson takes the name of an older one.      *)
(***************************************************************************)
EXTENDS Behavior, SequenceTheorems, FiniteSetTheorems, TLAPS

\* As many records as there are, and latest.json: what new() counts.
Reached == Cardinality(DOMAIN files) + IF latest THEN 1 ELSE 0

Action ==
  [tipo : {"corrigir_build", "limpar_warnings", "monitorar", "investigar", "otimizar"},
   about : Nat]
Typed ==
  /\ IsFiniteSet(DOMAIN files) /\ DOMAIN files \subseteq Nat \ {0}
  /\ latest \in BOOLEAN /\ counter \in Nat /\ lost \in Nat
  /\ plan \in Seq(Action)
  /\ \A id \in DOMAIN taken : taken[id] \in Nat

\* While no write failed, the counter is not behind any id on disk; what it is
\* ahead of the records, latest.json makes up for.
Counted ==
  lost = 0 =>
    /\ \A id \in DOMAIN files : id <= Reached
    /\ phase # "down" => counter <= Reached /\ \A id \in DOMAIN files : id <= counter

-----------------------------------------------------------------------------
\* Numbers in order: each place has one, with so many before it as there are
\* places before, so that no two places have the same.
LEMMA AscendingOrder ==
  ASSUME NEW S \in SUBSET Nat, IsFiniteSet(S)
  PROVE  LET a == Ascending(S)
             m == Cardinality(S)
         IN /\ m \in Nat /\ DOMAIN a = 1..m
            /\ \A i \in 1..m : /\ a[i] \in S
                               /\ Cardinality({k \in S : k < a[i]}) = i - 1
            /\ \A i, j \in 1..m : a[i] = a[j] => i = j
<1> DEFINE Below(n) == {k \in S : k < n}
           m == Cardinality(S)
           rank == [n \in S |-> Cardinality(Below(n)) + 1]
<1>1. m \in Nat /\ IsFiniteSet(1..m) /\ Cardinality(1..m) = m
  BY FS_CardinalityType, FS_Interval
<1>2. \A n : /\ IsFiniteSet(Below(n)) /\ Cardinality(Below(n)) \in Nat
  BY FS_Subset, FS_CardinalityType
<1>3. \A n \in S : Cardinality(Below(n)) < m
  <2> SUFFICES ASSUME NEW n \in S PROVE Cardinality(Below(n)) < m
    OBVIOUS
  <2>1. Below(n) \in SUBSET S /\ n \notin Below(n)
    OBVIOUS
  <2>2. Cardinality(Below(n)) <= m /\ Cardinality(Below(n)) # m
    <3> HIDE DEF Below
    <3>. QED
      BY <2>1, FS_Subset
  <2> HIDE DEF Below, m
  <2>. QED
    BY <1>1, <1>2, <2>2
<1>4. \A n, l \in S : n < l => Cardinality(Below(n)) < Cardinality(Below(l))
  <2> SUFFICES ASSUME NEW n \in S, NEW l \in S, n < l
               PROVE  Cardinality(Below(n)) < Cardinality(Below(l))
    OBVIOUS
  <2>0. \A k \in S : k \in Nat
    OBVIOUS
  <2>1. \A k \in S : k < n => k < l
    BY <2>0
  <2>2. Below(n) \in SUBSET Below(l) /\ n \in Below(l) /\ n \notin Below(n)
    <3>1. ~(n < n)
      BY <2>0
    <3>. QED
      BY <2>1, <3>1
  <2>3. /\ Cardinality(Below(n)) <= Cardinality(Below(l))
        /\ Cardinality(Below(n)) # Cardinality(Below(l))
    <3> HIDE DEF Below
    <3>. QED
      BY <1>2, <2>2, FS_Subset
  <2> HIDE DEF Below
  <2>. QED
    BY <1>2, <2>3
<1> HIDE DEF Below, m
<1>5. rank \in [S -> 1..m]
  BY <1>1, <1>2, <1>3
<1>6. \A n, l \in S : rank[n] = rank[l] => n = l
  <2> SUFFICES ASSUME NEW n \in S, NEW l \in S, n # l PROVE rank[n] # rank[l]
    OBVIOUS
  <2>1. n < l \/ l < n
    OBVIOUS
  <2>2. Cardinality(Below(n)) # Cardinality(Below(l))
    BY <1>2, <1>4, <2>1
  <2>. QED
    BY <1>2, <2>2
<1>7. \A i \in 1..m : \E n \in S : rank[n] = i
  <2>1. rank \in Injection(S, 1..m)
    BY <1>5, <1>6 DEF Injection, IsInjective
  <2>2. rank \in Surjection(S, 1..m)
    BY <1>1, <2>1, FS_Injection DEF m
  <2>. QED
    BY <2>2 DEF Surjection
<1> DEFINE a == Ascending(S)
<1>8. a = [i \in 1..m |-> CHOOSE n \in S : Cardinality(Below(n)) = i - 1]
  BY DEF Ascending, Below, m
<1> HIDE DEF a
<1>9. \A i \in 1..m : a[i] \in S /\ Cardinality(Below(a[i])) = i - 1
  <2> SUFFICES ASSUME NEW i \in 1..m
               PROVE  a[i] \in S /\ Cardinality(Below(a[i])) = i - 1
    OBVIOUS
  <2>1. PICK n \in S : rank[n] = i
    BY <1>7
  <2>2. Cardinality(Below(n)) = i - 1
    BY <1>1, <1>2, <2>1
  <2>. QED
    BY <1>8, <2>2
<1>10. \A i, j \in 1..m : a[i] = a[j] => i = j
  <2> SUFFICES ASSUME NEW i \in 1..m, NEW j \in 1..m, a[i] = a[j] PROVE i = j
    OBVIOUS
  <2>1. i - 1 = j - 1
    BY <1>9
  <2>. QED
    BY <1>1, <2>1
<1>. QED
  BY <1>1, <1>8, <1>9, <1>10 DEF a, m, Below

\* What is after a number, and what is not.
LEMMA AfterAndBefore ==
  ASSUME NEW S \in SUBSET Nat, IsFiniteSet(S), NEW n \in S
  PROVE  /\ Cardinality({k \in S : k > n}) \in Nat
         /\ Cardinality({k \in S : k > n})
              = Cardinality(S) - Cardinality({k \in S : k < n}) - 1
<1> DEFINE Below == {k \in S : k < n}
           Above == {k \in S : k > n}
<1>1. IsFiniteSet(Below) /\ IsFiniteSet(Above) /\ n \notin Below
  BY FS_Subset
<1>2. S \ (Below \cup {n}) = Above /\ S \cap (Below \cup {n}) = Below \cup {n}
  <2>1. \A k \in S : k \in Nat
    OBVIOUS
  <2>2. \A k \in S : k > n <=> ~(k < n) /\ k # n
    BY <2>1
  <2>3. S \ (Below \cup {n}) = Above
    BY <2>2
  <2>4. S \cap (Below \cup {n}) = Below \cup {n}
    OBVIOUS
  <2>. QED
    BY <2>3, <2>4
<1> HIDE DEF Below, Above
<1>3. /\ Cardinality(S) \in Nat /\ Cardinality(Below) \in Nat
      /\ Cardinality(Above) \in Nat
      /\ Cardinality(Below \cup {n}) = Cardinality(Below) + 1
  BY <1>1, FS_CardinalityType, FS_AddElement
<1>4. Cardinality(S \ (Below \cup {n}))
        = Cardinality(S) - Cardinality(S \cap (Below \cup {n}))
  BY FS_Difference
<1>5. Cardinality(Above) = Cardinality(S) - Cardinality(Below \cup {n})
  BY <1>2, <1>4
<1>6. PICK s \in Nat, b \in Nat :
        s = Cardinality(S) /\ b = Cardinality(Below)
  BY <1>3
<1>7. Cardinality(Above) = s - (b + 1)
  BY <1>3, <1>5, <1>6
<1>8. Cardinality(Above) = s - b - 1
  BY <1>6, <1>7
<1>. QED
  BY <1>3, <1>6, <1>8 DEF Above, Below

-----------------------------------------------------------------------------
\* registrar() takes the next id, whether or not the record can be written.
LEMMA Registers ==
  ASSUME Typed, Counted, phase # "down", NEW r, registrar(r)
  PROVE  /\ IsFiniteSet(DOMAIN files') /\ DOMAIN files' \subseteq Nat \ {0}
         /\ latest' \in BOOLEAN /\ counter' \in Nat /\ lost' \in Nat
         /\ lost' = 0 =>
              /\ lost = 0 /\ DOMAIN files' = DOMAIN files \cup {counter + 1}
              /\ \A id \in DOMAIN files : id <= counter /\ files'[id] = files[id]
              /\ \A id \in DOMAIN files' : id <= counter'
              /\ counter' <= Reached'
<1>1. /\ counter \in Nat /\ lost \in Nat /\ latest \in BOOLEAN
      /\ IsFiniteSet(DOMAIN files) /\ DOMAIN files \subseteq Nat \ {0}
      /\ Cardinality(DOMAIN files) \in Nat
  BY FS_CardinalityType DEF Typed
<1>2. counter' = counter + 1 /\ latest' \in {latest, TRUE}
  BY DEF registrar
<1>3. latest' \in BOOLEAN /\ counter' \in Nat
  <2>1. latest' \in BOOLEAN
    BY <1>1, <1>2, Zenon
  <2>2. counter' \in Nat
    BY <1>1, <1>2
  <2>. QED
    BY <2>1, <2>2
<1>4. CASE /\ files' = [id \in DOMAIN files \cup {counter + 1} |->
                         IF id = counter + 1 THEN r ELSE files[id]]
           /\ lost' = lost
  <2>1. DOMAIN files' = DOMAIN files \cup {counter + 1}
    BY <1>4
  <2>2. IsFiniteSet(DOMAIN files') /\ DOMAIN files' \subseteq Nat \ {0}
    BY <1>1, <2>1, FS_AddElement
  <2>3. ASSUME lost = 0
        PROVE  /\ \A id \in DOMAIN files : id <= counter /\ files'[id] = files[id]
               /\ counter' <= Reached'
    <3>1. counter <= Reached /\ \A id \in DOMAIN files : id \in Nat /\ id <= counter
      BY <1>1, <2>3 DEF Counted
    <3>2. counter + 1 \notin DOMAIN files
      BY <1>1, <3>1
    <3>3. \A id \in DOMAIN files : files'[id] = files[id]
      BY <1>4, <3>2
    <3>4. Cardinality(DOMAIN files') = Cardinality(DOMAIN files) + 1
      BY <1>1, <2>1, <3>2, FS_AddElement
    <3>5. PICK c \in Nat : c = Cardinality(DOMAIN files)
      BY <1>1
    <3>6. Reached' = c + 1 + IF latest' THEN 1 ELSE 0
      BY <3>4, <3>5 DEF Reached
    <3>7. counter <= c + IF latest THEN 1 ELSE 0
      BY <3>1, <3>5 DEF Reached
    <3>8. counter' <= Reached'
      <4>1. CASE latest
        <5>1. latest' = TRUE
          BY <1>2, <4>1
        <5>2. Reached' = c + 1 + 1 /\ counter <= c + 1
          BY <3>6, <3>7, <4>1, <5>1
        <5>. QED
          BY <1>1, <1>2, <5>2
      <4>2. CASE ~latest
        <5>1. counter <= c + 0
          BY <3>7, <4>2
        <5>2. Reached' >= c + 1
          BY <3>6
        <5>3. Reached' \in Int
          BY <3>6
        <5>. QED
          BY <1>1, <1>2, <5>1, <5>2, <5>3
      <4>. QED
        BY <4>1, <4>2
    <3>. QED
      BY <3>1, <3>3, <3>8
  <2>4. lost' = lost /\ lost' \in Nat
    BY <1>1, <1>4
  <2>5. lost = 0 => \A id \in DOMAIN files' : id <= counter'
    <3> SUFFICES ASSUME lost = 0, NEW id \in DOMAIN files' PROVE id <= counter'
      OBVIOUS
    <3>1. CASE id = counter + 1
      BY <1>1, <1>2, <3>1
    <3>2. CASE id \in DOMAIN files
      <4>1. id <= counter /\ id \in Nat
        BY <1>1, <2>3, <3>2
      <4>. QED
        BY <1>1, <1>2, <4>1
    <3>. QED
      BY <2>1, <3>1, <3>2
  <2>. QED
    BY <1>3, <2>1, <2>2, <2>3, <2>4, <2>5
<1>5. CASE lost' = lost + 1 /\ files' = files
  <2>1. lost' # 0 /\ lost' \in Nat
    BY <1>1, <1>5
  <2>2. IsFiniteSet(DOMAIN files') /\ DOMAIN files' \subseteq Nat \ {0}
    <3>1. files' = files
      BY <1>5
    <3>. QED
      BY <1>1, <3>1
  <2>. QED
    BY <1>3, <2>1, <2>2
<1>. QED
  BY <1>4, <1>5 DEF registrar

\* A step registers something or leaves the iterations on disk alone.
LEMMA LogSteps ==
  ASSUME [BehaviorNext]_behaviorVars
  PROVE  \/ phase # "down" /\ phase' # "down" /\ \E r : registrar(r)
         \/ /\ files' = files /\ latest' = latest /\ lost' = lost
            /\ \/ phase' = "down" /\ counter' = 0
               \/ counter' = Reached
               \/ counter' = counter /\ (phase' # "down" => phase # "down")
<1>1. CASE Start
  BY <1>1 DEF Start, CountFiles, Reached
<1>2. CASE Agir
  BY <1>2 DEF Agir
<1>3. CASE Executar
  <2>1. \E r : registrar(r)
    BY <1>3 DEF Executar
  <2>. QED
    BY <1>3, <2>1 DEF Executar
<1>4. CASE Aprender
  BY <1>4 DEF Aprender, storeVars
<1>5. CASE SalvarKnowledge
  BY <1>5 DEF SalvarKnowledge, FirstSaved, storeVars
<1>6. CASE SaveDictionary
  BY <1>6 DEF SaveDictionary, FirstSaved, storeVars, Exit
<1>7. CASE Crash
  BY <1>7 DEF Crash, storeVars, Exit
<1>8. CASE UNCHANGED behaviorVars
  BY <1>8 DEF behaviorVars
<1>. QED
  BY <1>1, <1>2, <1>3, <1>4, <1>5, <1>6, <1>7, <1>8 DEF BehaviorNext

\* The counter stays with the ids on disk.
LEMMA CountedKeeps ==
  ASSUME Typed, Counted, [BehaviorNext]_behaviorVars
  PROVE  Counted' /\ (lost' = 0 => \A id \in DOMAIN files :
                                    id \in DOMAIN files' /\ files'[id] = files[id])
<1>1. CASE phase # "down" /\ phase' # "down" /\ \E r : registrar(r)
  <2>1. PICK r : registrar(r)
    BY <1>1
  <2>2. /\ counter' \in Nat /\ DOMAIN files' \subseteq Nat
        /\ lost' = 0 =>
             /\ DOMAIN files' = DOMAIN files \cup {counter + 1}
             /\ \A id \in DOMAIN files : files'[id] = files[id]
             /\ \A id \in DOMAIN files' : id <= counter'
             /\ counter' <= Reached'
    BY <1>1, <2>1, Registers
  <2>3. Reached' \in Nat
    <3>1. Cardinality(DOMAIN files') \in Nat
      BY <1>1, <2>1, Registers, FS_CardinalityType
    <3>. QED
      BY <3>1 DEF Reached
  <2>4. lost' = 0 => \A id \in DOMAIN files' : id <= Reached'
    BY <2>2, <2>3
  <2>. QED
    BY <2>2, <2>4 DEF Counted
<1>2. CASE /\ files' = files /\ latest' = latest /\ lost' = lost
           /\ \/ phase' = "down" /\ counter' = 0
              \/ counter' = Reached
              \/ counter' = counter /\ (phase' # "down" => phase # "down")
  <2>1. Reached' = Reached /\ Reached \in Nat
    <3>1. Cardinality(DOMAIN files) \in Nat
      BY FS_CardinalityType DEF Typed
    <3>. QED
      BY <1>2, <3>1 DEF Reached
  <2>. QED
    BY <1>2, <2>1 DEF Counted
<1>. QED
  BY <1>1, <1>2, LogSteps

-----------------------------------------------------------------------------
\* The iterations registered after one, and how often one was taken up.
After(id) == Cardinality({k \in DOMAIN files : k > id})
Taken(id) == IF id \in DOMAIN taken THEN taken[id] ELSE 0

\* The plan looks back on iterations with less than Recent after them, each once.
LEMMA LookingBack ==
  ASSUME Typed
  PROVE  LET r == Reverse(LastOf(Ids))
         IN /\ Len(r) \in Nat /\ DOMAIN r = 1..Len(r)
            /\ \A i \in 1..Len(r) : r[i] \in DOMAIN files /\ After(r[i]) < Recent
            /\ \A i, j \in 1..Len(r) : r[i] = r[j] => i = j
<1> DEFINE D == DOMAIN files
           m == Cardinality(D)
           s == LastOf(Ids)
           b == IF m <= Recent THEN 0 ELSE m - Recent
           n == m - b
<1>1. D \in SUBSET Nat /\ IsFiniteSet(D) /\ Recent \in Nat /\ Recent > 0
  BY BehaviorAssumption DEF Typed
<1>2. /\ m \in Nat /\ Ids = Ascending(D) /\ DOMAIN Ids = 1..m
      /\ \A i \in 1..m : Ids[i] \in D /\ Cardinality({k \in D : k < Ids[i]}) = i - 1
      /\ \A i, j \in 1..m : Ids[i] = Ids[j] => i = j
  <2> HIDE DEF D
  <2>1. Ids = Ascending(D)
    BY DEF Ids, D
  <2>2. LET a == Ascending(D)
        IN /\ m \in Nat /\ DOMAIN a = 1..m
           /\ \A i \in 1..m : a[i] \in D /\ Cardinality({k \in D : k < a[i]}) = i - 1
           /\ \A i, j \in 1..m : a[i] = a[j] => i = j
    BY ONLY <1>1, AscendingOrder
  <2> HIDE DEF m
  <2>. QED
    BY ONLY <2>1, <2>2
<1>3. \A i \in 1..m : After(Ids[i]) = m - i
  <2> SUFFICES ASSUME NEW i \in 1..m PROVE After(Ids[i]) = m - i
    OBVIOUS
  <2>1. Ids[i] \in D /\ Cardinality({k \in D : k < Ids[i]}) = i - 1
    BY <1>2
  <2>2. Cardinality({k \in D : k > Ids[i]})
          = m - Cardinality({k \in D : k < Ids[i]}) - 1
    <3> HIDE DEF D
    <3>. QED
      BY <1>1, <2>1, AfterAndBefore
  <2>3. After(Ids[i]) = m - (i - 1) - 1
    BY <2>1, <2>2 DEF After
  <2> HIDE DEF m
  <2>. QED
    BY <1>2, <2>3
<1>4. Ids \in Seq(D) /\ Len(Ids) = m
  <2>1. Ids = [i \in 1..m |-> CHOOSE x \in D : Cardinality({k \in D : k < x}) = i - 1]
    BY DEF Ids, Ascending
  <2> HIDE DEF D, m
  <2>2. Ids \in [1..m -> D]
    BY <1>2, <2>1
  <2>. QED
    BY <1>2, <2>2
<1> HIDE DEF D, m
<1>5. b \in Nat /\ n \in Nat /\ n <= Recent /\ b + n = m
  BY <1>1, <1>2
<1>6. /\ Len(s) = n /\ DOMAIN s = 1..n
      /\ \A i \in 1..n : s[i] = Ids[b + i]
  <2>1. CASE m <= Recent
    <3>1. s = Ids /\ b = 0 /\ n = m
      BY <1>2, <1>4, <2>1 DEF LastOf
    <3> HIDE DEF s, n, b
    <3>2. \A i \in 1..m : b + i = i
      BY <1>2, <3>1
    <3>. QED
      BY <1>2, <1>4, <3>1, <3>2
  <2>2. CASE m > Recent
    <3>1. s = SubSeq(Ids, m - Recent + 1, m) /\ b = m - Recent /\ n = Recent
      BY <1>1, <1>2, <1>4, <2>2 DEF LastOf
    <3> HIDE DEF s, n, b
    <3>. QED
      BY <1>1, <1>2, <1>4, <2>2, <3>1
  <2>. QED
    BY <1>1, <1>2, <2>1, <2>2
<1> DEFINE r == Reverse(s)
<1> HIDE DEF s, b, n
<1>7. r = [i \in 1..n |-> s[n - i + 1]]
  BY <1>6 DEF Reverse
<1> HIDE DEF r
<1>8. Len(r) = n /\ DOMAIN r = 1..n
  BY <1>5, <1>7
<1>9. \A i \in 1..n : /\ m - i + 1 \in 1..m /\ r[i] = Ids[m - i + 1]
  <2> SUFFICES ASSUME NEW i \in 1..n
               PROVE  m - i + 1 \in 1..m /\ r[i] = Ids[m - i + 1]
    OBVIOUS
  <2>1. n - i + 1 \in 1..n /\ b + (n - i + 1) = m - i + 1 /\ m - i + 1 \in 1..m
    BY <1>2, <1>5
  <2>. QED
    BY <1>6, <1>7, <2>1
<1>10. \A i \in 1..n : r[i] \in D /\ After(r[i]) < Recent
  <2> SUFFICES ASSUME NEW i \in 1..n PROVE r[i] \in D /\ After(r[i]) < Recent
    OBVIOUS
  <2>1. r[i] \in D /\ After(r[i]) = m - (m - i + 1)
    BY <1>2, <1>3, <1>9
  <2>. QED
    BY <1>1, <1>2, <1>5, <2>1
<1>11. \A i, j \in 1..n : r[i] = r[j] => i = j
  <2> SUFFICES ASSUME NEW i \in 1..n, NEW j \in 1..n, r[i] = r[j] PROVE i = j
    OBVIOUS
  <2>1. m - i + 1 = m - j + 1
    BY <1>2, <1>9
  <2>. QED
    BY <1>2, <1>5, <2>1
<1>. QED
  BY <1>5, <1>8, <1>10, <1>11 DEF r, s, D

\* What is picked from a sequence of different things is different things of it.
OnceFrom(t, r, places) ==
  /\ Len(t) \in Nat /\ DOMAIN t = 1..Len(t)
  /\ \A i \in 1..Len(t) : \E k \in places : t[i] = r[k]
  /\ \A i, j \in 1..Len(t) : t[i] = t[j] => i = j

\* What is picked comes from the places, each at most once.
LEMMA PickedFrom ==
  ASSUME NEW r, NEW n \in Nat, NEW places \in SUBSET (1..n),
         \A i, j \in 1..n : r[i] = r[j] => i = j
  PROVE  OnceFrom(Picked(r, places), r, places)
<1> DEFINE a == Ascending(places)
           m == Cardinality(places)
           t == Picked(r, places)
<1>1. places \in SUBSET Nat /\ IsFiniteSet(places)
  <2>1. IsFiniteSet(1..n)
    BY FS_Interval
  <2>2. IsFiniteSet(places)
    BY <2>1, FS_Subset
  <2>3. places \in SUBSET Nat
    OBVIOUS
  <2>. QED
    BY <2>2, <2>3
<1>2. /\ m \in Nat /\ DOMAIN a = 1..m
      /\ \A i \in 1..m : a[i] \in places
      /\ \A i, j \in 1..m : a[i] = a[j] => i = j
  BY <1>1, AscendingOrder
<1>3. t = [i \in DOMAIN a |-> r[a[i]]]
  BY DEF Picked
<1> HIDE DEF a, m, t
<1>4. Len(t) = m /\ DOMAIN t = 1..m /\ \A i \in 1..m : t[i] = r[a[i]]
  BY <1>2, <1>3
<1>5. \A i, j \in 1..m : t[i] = t[j] => i = j
  <2> SUFFICES ASSUME NEW i \in 1..m, NEW j \in 1..m, t[i] = t[j] PROVE i = j
    OBVIOUS
  <2>1. a[i] \in 1..n /\ a[j] \in 1..n
    BY <1>2
  <2>2. a[i] = a[j]
    BY <1>4, <2>1
  <2>. QED
    BY <1>2, <2>2
<1>6. OnceFrom(t, r, places)
  BY <1>2, <1>4, <1>5 DEF OnceFrom
<1>. QED
  BY <1>6 DEF t

\* A plan begins with what was seen, and takes up iterations once each.
Ordered(p) ==
  /\ \A i, j \in 1..Len(p) : i < j /\ p[j].about # 0 => p[i].about # p[j].about
  /\ \A i, j \in 1..Len(p) : i < j /\ p[j].about = 0 => p[i].about = 0

\* pensar() puts first what its own program says, and asks at most once about each.
LEMMA PlanIsOrdered ==
  ASSUME Typed, NEW o
  PROVE  LET p == pensar(o)
         IN /\ p \in Seq(Action) /\ Len(p) > 0 /\ p[1].about = 0 /\ Ordered(p)
            /\ \A i \in 1..Len(p) :
                 p[i].about # 0 => /\ p[i].about \in DOMAIN files
                                   /\ After(p[i].about) < Recent
<1> DEFINE build == IF o.build_ok THEN <<>> ELSE <<"corrigir_build">>
           warn == IF o.warnings = 0 THEN <<>> ELSE <<"limpar_warnings">>
           seen == build \o warn
           first == IF seen = <<>> THEN <<"monitorar">> ELSE seen
           recentes == Reverse(LastOf(Ids))
           places == {i \in DOMAIN recentes :
                        files[recentes[i]].resultado \in {"falha", "padrao"}}
           troubled == Picked(recentes, places)
           f == [i \in DOMAIN first |-> [tipo |-> first[i], about |-> 0]]
           g == [i \in DOMAIN troubled |->
                   [tipo |-> IF files[troubled[i]].resultado = "falha" THEN "investigar"
                             ELSE "otimizar",
                    about |-> troubled[i]]]
           Seen == {"corrigir_build", "limpar_warnings", "monitorar"}
           p == pensar(o)
<1>1. p = f \o g
  BY DEF pensar
<1>2. first \in Seq(Seen) /\ Len(first) \in Nat /\ Len(first) > 0
  <2>1. build \in Seq(Seen) /\ warn \in Seq(Seen)
    <3>1. <<"corrigir_build">> \in Seq(Seen) /\ <<"limpar_warnings">> \in Seq(Seen)
      <4>1. "corrigir_build" \in Seen /\ "limpar_warnings" \in Seen
        OBVIOUS
      <4> HIDE DEF Seen
      <4>. QED
        BY <4>1
    <3>2. <<>> \in Seq(Seen)
      OBVIOUS
    <3> HIDE DEF Seen
    <3>. QED
      BY <3>1, <3>2
  <2> HIDE DEF build, warn
  <2>2. seen \in Seq(Seen)
    BY <2>1
  <2> HIDE DEF seen
  <2>3. first \in Seq(Seen) /\ first # <<>>
    <3> DEFINE idle == <<"monitorar">>
    <3>1. idle \in Seq(Seen)
      <4>1. "monitorar" \in Seen
        OBVIOUS
      <4> HIDE DEF Seen
      <4>. QED
        BY <4>1
    <3>2. idle # <<>>
      OBVIOUS
    <3> HIDE DEF idle, Seen
    <3>3. first = IF seen = <<>> THEN idle ELSE seen
      BY DEF idle
    <3> HIDE DEF first
    <3>. QED
      BY <2>2, <3>1, <3>2, <3>3
  <2> HIDE DEF first
  <2>. QED
    BY <2>3
<1>3. /\ Len(troubled) \in Nat /\ DOMAIN troubled = 1..Len(troubled)
      /\ \A i \in 1..Len(troubled) : /\ troubled[i] \in DOMAIN files
                                      /\ After(troubled[i]) < Recent
      /\ \A i, j \in 1..Len(troubled) : troubled[i] = troubled[j] => i = j
  <2>1. /\ Len(recentes) \in Nat /\ DOMAIN recentes = 1..Len(recentes)
        /\ \A i \in 1..Len(recentes) : /\ recentes[i] \in DOMAIN files
                                        /\ After(recentes[i]) < Recent
        /\ \A i, j \in 1..Len(recentes) : recentes[i] = recentes[j] => i = j
    BY LookingBack
  <2>2. places \in SUBSET (1..Len(recentes))
    BY <2>1
  <2> HIDE DEF recentes, places
  <2>3. /\ Len(troubled) \in Nat /\ DOMAIN troubled = 1..Len(troubled)
        /\ \A i \in 1..Len(troubled) : \E k \in places : troubled[i] = recentes[k]
        /\ \A i, j \in 1..Len(troubled) : troubled[i] = troubled[j] => i = j
    <3>1. /\ Len(recentes) \in Nat
          /\ \A i, j \in 1..Len(recentes) : recentes[i] = recentes[j] => i = j
      BY ONLY <2>1
    <3> DEFINE n == Len(recentes)
    <3> HIDE DEF n
    <3>2. n \in Nat /\ places \in SUBSET (1..n)
      BY ONLY <2>2, <3>1 DEF n
    <3>3. \A i, j \in 1..n : recentes[i] = recentes[j] => i = j
      BY ONLY <3>1 DEF n
    <3>4. OnceFrom(troubled, recentes, places)
      BY ONLY <3>2, <3>3, PickedFrom
    <3>. QED
      BY ONLY <3>4 DEF OnceFrom
  <2> HIDE DEF troubled
  <2>. QED
    BY <2>1, <2>2, <2>3
<1>4. DOMAIN files \subseteq Nat \ {0}
  BY DEF Typed
<1> HIDE DEF first, troubled
<1> DEFINE k == Len(first)
           l == Len(troubled)
<1>5. /\ f \in Seq(Action) /\ Len(f) = k /\ \A i \in 1..k : f[i].about = 0
  <2>1. DOMAIN first = 1..k /\ \A i \in 1..k : first[i] \in Seen
    BY <1>2
  <2>2. \A i \in 1..k : [tipo |-> first[i], about |-> 0] \in Action
    BY <2>1 DEF Action
  <2>3. f \in [1..k -> Action]
    BY <2>1, <2>2
  <2>4. \A i \in 1..k : f[i].about = 0
    BY <2>1
  <2> HIDE DEF f, k
  <2>5. k \in Nat
    BY <1>2 DEF k
  <2>. QED
    BY <2>3, <2>4, <2>5
<1>6. /\ g \in Seq(Action) /\ Len(g) = l /\ \A i \in 1..l : g[i].about = troubled[i]
  <2>1. \A i \in 1..l : troubled[i] \in Nat
    BY <1>3, <1>4
  <2>2. \A i \in 1..l : [tipo |-> IF files[troubled[i]].resultado = "falha"
                                 THEN "investigar" ELSE "otimizar",
                        about |-> troubled[i]] \in Action
    BY <2>1 DEF Action
  <2>3. g \in [1..l -> Action]
    BY <1>3, <2>2
  <2>4. \A i \in 1..l : g[i].about = troubled[i]
    BY <1>3
  <2> HIDE DEF g, l
  <2>5. l \in Nat
    BY <1>3 DEF l
  <2>. QED
    BY <2>3, <2>4, <2>5
<1>7. k \in Nat /\ k > 0 /\ l \in Nat
  BY <1>2, <1>3
<1> HIDE DEF f, g, p, k, l
<1>8. /\ p \in Seq(Action) /\ Len(p) = k + l
      /\ \A i \in 1..k : p[i].about = 0
      /\ \A i \in 1..(k + l) : i > k => i - k \in 1..l /\ p[i].about = troubled[i - k]
  <2>1. p \in Seq(Action) /\ Len(p) = k + l
    <3>1. f \in Seq(Action) /\ g \in Seq(Action)
      BY <1>5, <1>6
    <3>2. p \in Seq(Action) /\ Len(p) = Len(f) + Len(g)
      BY <1>1, <3>1, ConcatProperties
    <3>. QED
      BY <1>5, <1>6, <3>2
  <2>2. \A i \in 1..k : p[i] = f[i]
    BY <1>1, <1>5, <1>6, <1>7
  <2>3. \A i \in 1..(k + l) : i > k => i - k \in 1..l /\ p[i] = g[i - k]
    BY <1>1, <1>5, <1>6, <1>7
  <2>. QED
    BY <1>5, <1>6, <2>1, <2>2, <2>3
<1>9. \A i \in 1..(k + l) : p[i].about # 0 =>
         /\ i > k /\ p[i].about \in DOMAIN files /\ After(p[i].about) < Recent
  BY <1>3, <1>7, <1>8 DEF l
<1>10. \A i \in 1..(k + l) : i > k => p[i].about # 0
  BY <1>3, <1>4, <1>8 DEF l
<1>11. ASSUME NEW i \in 1..(k + l), NEW j \in 1..(k + l), i < j, p[j].about # 0
       PROVE  p[i].about # p[j].about
  <2>1. j > k
    BY <1>9, <1>11
  <2>2. CASE i > k
    <3>1. i - k \in 1..l /\ j - k \in 1..l /\ i - k # j - k
      BY <1>7, <1>8, <1>11, <2>1, <2>2
    <3>. QED
      BY <1>3, <1>8, <2>1, <2>2, <3>1 DEF l
  <2>3. CASE ~(i > k)
    <3>1. i \in 1..k
      BY <1>7, <2>3
    <3>. QED
      BY <1>8, <1>11, <3>1
  <2>. QED
    BY <2>2, <2>3
<1>12. ASSUME NEW i \in 1..(k + l), NEW j \in 1..(k + l), i < j, p[j].about = 0
       PROVE  p[i].about = 0
  <2>1. ~(j > k)
    BY <1>10, <1>12
  <2>2. i \in 1..k
    BY <1>7, <1>12, <2>1
  <2>. QED
    BY <1>8, <2>2
<1>13. p[1].about = 0
  BY <1>7, <1>8
<1>. QED
  BY <1>7, <1>8, <1>9, <1>11, <1>12, <1>13 DEF Ordered, p

-----------------------------------------------------------------------------
\* Types are kept: the plan is one at first, and is taken from its front.
LEMMA TypedInitially == BehaviorInit => Typed /\ Counted
<1> SUFFICES ASSUME BehaviorInit PROVE Typed /\ Counted
  OBVIOUS
<1>1. files = [id \in {} |-> 0] /\ DOMAIN files = {}
  BY DEF BehaviorInit
<1>2. IsFiniteSet(DOMAIN files) /\ DOMAIN files \subseteq Nat \ {0}
  BY <1>1, FS_EmptySet
<1>3. latest \in BOOLEAN /\ counter \in Nat /\ lost \in Nat
  BY DEF BehaviorInit
<1>4. plan \in Seq(Action) /\ \A id \in DOMAIN taken : taken[id] \in Nat
  BY DEF BehaviorInit
<1>5. Counted
  BY <1>1 DEF BehaviorInit, Counted
<1>. QED
  BY <1>2, <1>3, <1>4, <1>5 DEF Typed

\* The plan and the record of what was taken up, step by step.
LEMMA PlanSteps ==
  ASSUME [BehaviorNext]_behaviorVars
  PROVE  \/ \E o : plan' = pensar(o) /\ UNCHANGED <<files, lost, taken>>
         \/ /\ phase = "agir" /\ plan # <<>> /\ plan' = Tail(plan)
            /\ \E r : registrar(r)
            /\ LET id == Head(plan).about
               IN taken' = IF id = 0 THEN taken
                           ELSE [k \in DOMAIN taken \cup {id} |->
                                   Taken(k) + IF k = id THEN 1 ELSE 0]
         \/ /\ plan' \in {plan, <<>>} /\ taken' = taken
            /\ \/ plan = <<>> /\ phase # "down" /\ \E r : registrar(r)
               \/ UNCHANGED <<files, lost>>
<1>1. CASE Start
  BY <1>1 DEF Start
<1>2. CASE Agir
  <2>1. \E r : registrar(r)
    BY <1>2 DEF Agir
  <2>2. phase = "agir" /\ plan # <<>> /\ plan' = Tail(plan)
    BY <1>2 DEF Agir
  <2>3. LET id == Head(plan).about
        IN taken' = IF id = 0 THEN taken
                    ELSE [k \in DOMAIN taken \cup {id} |->
                            Taken(k) + IF k = id THEN 1 ELSE 0]
    BY <1>2 DEF Agir, Taken
  <2>. QED
    BY <2>1, <2>2, <2>3
<1>3. CASE Executar
  <2>1. \E r : registrar(r)
    BY <1>3 DEF Executar
  <2>. QED
    BY <1>3, <2>1 DEF Executar
<1>4. CASE Aprender
  BY <1>4 DEF Aprender, storeVars
<1>5. CASE SalvarKnowledge
  BY <1>5 DEF SalvarKnowledge, FirstSaved, storeVars, memoryVars
<1>6. CASE SaveDictionary
  BY <1>6 DEF SaveDictionary, FirstSaved, storeVars, Exit
<1>7. CASE Crash
  BY <1>7 DEF Crash, storeVars, Exit
<1>8. CASE UNCHANGED behaviorVars
  BY <1>8 DEF behaviorVars
<1>. QED
  BY <1>1, <1>2, <1>3, <1>4, <1>5, <1>6, <1>7, <1>8 DEF BehaviorNext

\* Every step keeps the types.
LEMMA TypedKeeps ==
  ASSUME Typed, Counted, [BehaviorNext]_behaviorVars
  PROVE  Typed'
<1>1. plan' \in Seq(Action) /\ \A id \in DOMAIN taken' : taken'[id] \in Nat
  <2>1. /\ plan \in Seq(Action) /\ \A id \in DOMAIN taken : taken[id] \in Nat
        /\ \A id : Taken(id) \in Nat
    BY DEF Typed, Taken
  <2>2. ASSUME NEW o, plan' = pensar(o), taken' = taken
        PROVE  plan' \in Seq(Action) /\ \A id \in DOMAIN taken' : taken'[id] \in Nat
    BY <2>1, <2>2, PlanIsOrdered
  <2>3. ASSUME plan # <<>>, plan' = Tail(plan),
               LET id == Head(plan).about
               IN taken' = IF id = 0 THEN taken
                           ELSE [k \in DOMAIN taken \cup {id} |->
                                   Taken(k) + IF k = id THEN 1 ELSE 0]
        PROVE  plan' \in Seq(Action) /\ \A id \in DOMAIN taken' : taken'[id] \in Nat
    <3>1. plan' \in Seq(Action)
      BY <2>1, <2>3
    <3>2. \A id \in DOMAIN taken' : taken'[id] \in Nat
      BY <2>1, <2>3
    <3>. QED
      BY <3>1, <3>2
  <2>4. ASSUME plan' \in {plan, <<>>}, taken' = taken
        PROVE  plan' \in Seq(Action) /\ \A id \in DOMAIN taken' : taken'[id] \in Nat
    <3>1. <<>> \in Seq(Action)
      OBVIOUS
    <3>2. plan' \in Seq(Action)
      BY <2>1, <2>4, <3>1
    <3>. QED
      BY <2>1, <2>4, <3>2
  <2>. QED
    BY <2>2, <2>3, <2>4, PlanSteps
<1>2. /\ IsFiniteSet(DOMAIN files') /\ DOMAIN files' \subseteq Nat \ {0}
      /\ latest' \in BOOLEAN /\ counter' \in Nat /\ lost' \in Nat
  <2>1. CASE phase # "down" /\ phase' # "down" /\ \E r : registrar(r)
    BY <2>1, Registers
  <2>2. CASE /\ files' = files /\ latest' = latest /\ lost' = lost
             /\ \/ phase' = "down" /\ counter' = 0
                \/ counter' = Reached
                \/ counter' = counter /\ (phase' # "down" => phase # "down")
    <3>1. Reached \in Nat
      <4>1. Cardinality(DOMAIN files) \in Nat
        BY FS_CardinalityType DEF Typed
      <4>. QED
        BY <4>1 DEF Reached
    <3>2. counter' \in Nat
      BY <2>2, <3>1 DEF Typed
    <3>3. latest' \in BOOLEAN
      BY <2>2, Zenon DEF Typed
    <3>. QED
      BY <2>2, <3>2, <3>3 DEF Typed
  <2>. QED
    BY <2>1, <2>2, LogSteps
<1>. QED
  BY <1>1, <1>2 DEF Typed

\* iteration.rs:67: the counter is found again by counting files.  Unless a write
\* failed, no run writes over what another registered, however many runs there
\* are and wherever each was cut off: latest.json, counted with them, makes up for
\* the gap that counting it left before.
THEOREM BehaviorHistoryKept == BehaviorSpec => HistoryKept
<1>1. BehaviorInit => Typed /\ Counted
  BY TypedInitially
<1>2. Typed /\ Counted /\ [BehaviorNext]_behaviorVars
        => /\ Typed' /\ Counted'
           /\ [lost' = 0 => \A id \in DOMAIN files :
                              id \in DOMAIN files' /\ files'[id] = files[id]]_behaviorVars
  BY TypedKeeps, CountedKeeps
<1>. QED
  BY <1>1, <1>2, PTL DEF BehaviorSpec, HistoryKept

-----------------------------------------------------------------------------
\* What is taken up once more has two iterations more after it, its own and one
\* that was there first in the plan: so it is out of sight in the end.
Looked ==
  lost = 0 =>
    /\ DOMAIN taken \subseteq DOMAIN files
    /\ \A id \in DOMAIN files : /\ 2 * Taken(id) <= After(id)
                                /\ 2 * Taken(id) <= Recent + 1
\* What is planned may be taken up once more; and when nothing of what was seen is
\* left in the plan, an iteration for that is there already.
About == {plan[i].about : i \in 1..Len(plan)} \ {0}
Planned ==
  /\ Ordered(plan)
  /\ lost = 0 => \A id \in About :
                   /\ id \in DOMAIN files /\ 2 * Taken(id) + 1 <= Recent
                   /\ plan[1].about # 0 => 2 * Taken(id) + 1 <= After(id)

\* A new iteration is after all others.
LEMMA AfterGrows ==
  ASSUME Typed, Counted, phase # "down", NEW r, registrar(r), lost' = 0
  PROVE  /\ DOMAIN files' = DOMAIN files \cup {counter + 1}
         /\ counter + 1 \notin DOMAIN files
         /\ \A id : After(id) \in Nat /\ After(id)' \in Nat
         /\ \A id \in DOMAIN files : After(id)' = After(id) + 1
<1>1. /\ DOMAIN files' = DOMAIN files \cup {counter + 1}
      /\ \A id \in DOMAIN files : id <= counter /\ id \in Nat
      /\ counter \in Nat /\ IsFiniteSet(DOMAIN files) /\ IsFiniteSet(DOMAIN files')
  BY Registers DEF Typed
<1>2. counter + 1 \notin DOMAIN files
  BY <1>1
<1>3. \A id : /\ IsFiniteSet({k \in DOMAIN files : k > id})
              /\ IsFiniteSet({k \in DOMAIN files' : k > id})
  BY <1>1, FS_Subset
<1>4. \A id : After(id) \in Nat /\ After(id)' \in Nat
  BY <1>3, FS_CardinalityType DEF After
<1>5. ASSUME NEW id \in DOMAIN files
      PROVE  After(id)' = After(id) + 1
  <2> DEFINE S == {k \in DOMAIN files : k > id}
  <2>1. counter + 1 > id
    BY <1>1
  <2>2. {k \in DOMAIN files' : k > id} = S \cup {counter + 1}
    BY <1>1, <2>1
  <2>3. counter + 1 \notin S /\ IsFiniteSet(S)
    BY <1>2, <1>3
  <2> HIDE DEF S
  <2>4. Cardinality(S \cup {counter + 1}) = Cardinality(S) + 1
    BY <2>3, FS_AddElement
  <2>. QED
    BY <2>2, <2>4 DEF After, S
<1>. QED
  BY <1>1, <1>2, <1>4, <1>5

\* Agir: the first action of the plan is registered, and taken up if it is one
\* that looks into an iteration.
LEMMA AgirKeeps ==
  ASSUME Typed, Counted, Looked, Planned, phase # "down", plan # <<>>,
         plan' = Tail(plan), NEW r, registrar(r),
         LET id == Head(plan).about
         IN taken' = IF id = 0 THEN taken
                     ELSE [k \in DOMAIN taken \cup {id} |->
                             Taken(k) + IF k = id THEN 1 ELSE 0]
  PROVE  Looked' /\ Planned'
<1> DEFINE n == Len(plan)
           id == plan[1].about
<1>1. /\ plan \in Seq(Action) /\ n \in Nat /\ n > 0 /\ Head(plan).about = id
      /\ \A i \in 1..n : plan[i].about \in Nat
  <2>1. plan \in Seq(Action) /\ n \in Nat
    BY DEF Typed
  <2>2. n > 0 /\ Head(plan) = plan[1]
    BY <2>1
  <2>3. \A i \in 1..n : plan[i] \in Action
    BY <2>1
  <2>4. \A a \in Action : a.about \in Nat
    BY DEF Action
  <2>. QED
    BY <2>1, <2>2, <2>3, <2>4
<1>2. Len(plan') = n - 1 /\ \A i \in 1..(n - 1) : plan'[i] = plan[i + 1]
  BY <1>1
<1>3. \A i \in 1..(n - 1) : i + 1 \in 1..n
  BY <1>1
<1>4. \A k : Taken(k) \in Nat
  BY DEF Typed, Taken
<1>5. /\ DOMAIN taken' = IF id = 0 THEN DOMAIN taken ELSE DOMAIN taken \cup {id}
      /\ \A k : Taken(k)' = IF id # 0 /\ k = id THEN Taken(k) + 1 ELSE Taken(k)
  <2>1. CASE id = 0
    <3>1. taken' = taken
      BY <1>1, <2>1
    <3>. QED
      BY <2>1, <3>1 DEF Taken
  <2>2. CASE id # 0
    <3>1. taken' = [k \in DOMAIN taken \cup {id} |-> Taken(k) + IF k = id THEN 1 ELSE 0]
      BY <1>1, <2>2
    <3>2. DOMAIN taken' = DOMAIN taken \cup {id}
      BY <3>1
    <3>3. \A k \in DOMAIN taken \cup {id} : taken'[k] = Taken(k) + IF k = id THEN 1 ELSE 0
      BY <3>1
    <3>4. \A k : k \notin DOMAIN taken => Taken(k) = 0
      BY DEF Taken
    <3>5. ASSUME NEW k
          PROVE  Taken(k)' = IF k = id THEN Taken(k) + 1 ELSE Taken(k)
      <4>1. CASE k \in DOMAIN taken \cup {id}
        <5>1. Taken(k)' = taken'[k]
          BY <3>2, <4>1 DEF Taken
        <5>2. taken'[k] = Taken(k) + IF k = id THEN 1 ELSE 0
          BY <3>3, <4>1
        <5>3. Taken(k) \in Nat
          BY <1>4
        <5>4. Taken(k) + 0 = Taken(k)
          BY <5>3
        <5>. QED
          BY <5>1, <5>2, <5>4
      <4>2. CASE k \notin DOMAIN taken \cup {id}
        BY <3>2, <3>4, <4>2 DEF Taken
      <4>. QED
        BY <4>1, <4>2
    <3>. QED
      BY <2>2, <3>2, <3>5
  <2>. QED
    BY <2>1, <2>2
<1>6. Ordered(plan)'
  <2> DEFINE q == plan'
  <2>1. \A i \in 1..Len(q) : /\ i + 1 \in 1..n /\ q[i] = plan[i + 1]
    BY <1>2, <1>3
  <2>2. \A i, j \in 1..Len(q) : i < j => i + 1 < j + 1
    BY <1>1, <1>2
  <2> HIDE DEF q
  <2>3. Ordered(plan)
    BY DEF Planned
  <2>4. Ordered(q)
    <3>1. ASSUME NEW i \in 1..Len(q), NEW j \in 1..Len(q), i < j
          PROVE  /\ q[j].about # 0 => q[i].about # q[j].about
                 /\ q[j].about = 0 => q[i].about = 0
      <4>1. /\ i + 1 \in 1..n /\ j + 1 \in 1..n /\ i + 1 < j + 1
            /\ q[i] = plan[i + 1] /\ q[j] = plan[j + 1]
        BY ONLY <2>1, <2>2, <3>1
      <4>2. /\ plan[j + 1].about # 0 => plan[i + 1].about # plan[j + 1].about
            /\ plan[j + 1].about = 0 => plan[i + 1].about = 0
        BY ONLY <2>3, <4>1 DEF Ordered
      <4>. QED
        BY ONLY <4>1, <4>2
    <3>. QED
      BY ONLY <3>1 DEF Ordered
  <2>. QED
    BY <2>4 DEF Ordered, q
<1>7. ASSUME lost' = 0
      PROVE  /\ Looked'
             /\ \A k \in About' : /\ k \in DOMAIN files' /\ 2 * Taken(k)' + 1 <= Recent
                                 /\ 2 * Taken(k)' + 1 <= After(k)'
  <2>1. /\ DOMAIN files' = DOMAIN files \cup {counter + 1}
        /\ counter + 1 \notin DOMAIN files
        /\ \A k : After(k) \in Nat /\ After(k)' \in Nat
        /\ \A k \in DOMAIN files : After(k)' = After(k) + 1
    BY <1>7, AfterGrows
  <2>2. /\ DOMAIN taken \subseteq DOMAIN files
        /\ \A k \in DOMAIN files : 2 * Taken(k) <= After(k) /\ 2 * Taken(k) <= Recent + 1
        /\ \A k \in About : /\ k \in DOMAIN files /\ 2 * Taken(k) + 1 <= Recent
                            /\ id # 0 => 2 * Taken(k) + 1 <= After(k)
    <3>1. lost = 0
      BY <1>7, Registers
    <3>. QED
      BY <3>1 DEF Looked, Planned
  <2>3. id # 0 => /\ id \in DOMAIN files /\ 2 * Taken(id) + 1 <= Recent
                  /\ 2 * Taken(id) + 1 <= After(id)
    <3>1. 1 \in 1..n
      BY <1>1
    <3>. QED
      BY <2>2, <3>1 DEF About
  <2>4. \A k : k = counter + 1 => Taken(k)' = 0
    <3>1. counter + 1 \notin DOMAIN taken'
      BY <1>5, <2>1, <2>2, <2>3
    <3>. QED
      BY <3>1 DEF Taken
  <2>5. Recent \in Nat
    BY BehaviorAssumption
  <2>6. ASSUME NEW k \in DOMAIN files'
        PROVE  2 * Taken(k)' <= After(k)' /\ 2 * Taken(k)' <= Recent + 1
    <3>1. CASE k = counter + 1
      BY <2>1, <2>4, <2>5, <3>1
    <3>2. CASE k \in DOMAIN files /\ id # 0 /\ k = id
      <4>1. Taken(k)' = Taken(k) + 1 /\ After(k)' = After(k) + 1
        BY <1>5, <2>1, <3>2
      <4>. QED
        BY <1>4, <2>1, <2>3, <2>5, <3>2, <4>1
    <3>3. CASE k \in DOMAIN files /\ ~(id # 0 /\ k = id)
      <4>1. Taken(k)' = Taken(k) /\ After(k)' = After(k) + 1
        BY <1>5, <2>1, <3>3
      <4>. QED
        BY <1>4, <2>1, <2>2, <2>5, <3>3, <4>1
    <3>. QED
      BY <2>1, <3>1, <3>2, <3>3
  <2>7. DOMAIN taken' \subseteq DOMAIN files'
    BY <1>5, <2>1, <2>2, <2>3
  <2>8. ASSUME NEW k \in About'
        PROVE  /\ k \in DOMAIN files' /\ 2 * Taken(k)' + 1 <= Recent
               /\ 2 * Taken(k)' + 1 <= After(k)'
    <3>1. PICK i \in 1..(n - 1) : k = plan[i + 1].about /\ k # 0
      BY <1>1, <1>2, <2>8 DEF About
    <3>2. /\ k \in DOMAIN files /\ 2 * Taken(k) + 1 <= Recent
          /\ id # 0 => 2 * Taken(k) + 1 <= After(k)
      <4>1. k \in About
        BY <1>3, <3>1 DEF About
      <4>. QED
        BY <2>2, <4>1
    <3>3. k # id
      <4>1. 1 \in 1..n /\ i + 1 \in 1..n /\ 1 < i + 1
        BY <1>1, <1>3
      <4>. QED
        BY <3>1, <4>1 DEF Planned, Ordered
    <3>4. Taken(k)' = Taken(k) /\ After(k)' = After(k) + 1 /\ k \in DOMAIN files'
      BY <1>5, <2>1, <3>2, <3>3
    <3>5. 2 * Taken(k) <= After(k)
      BY <2>2, <3>2
    <3>6. PICK x \in Nat, y \in Nat : x = Taken(k) /\ y = After(k)
      BY <1>4, <2>1
    <3>7. Taken(k)' = x /\ After(k)' = y + 1 /\ 2 * x <= y /\ 2 * x + 1 <= Recent
      BY <3>2, <3>4, <3>5, <3>6
    <3>8. 2 * x + 1 <= y + 1
      BY <3>7
    <3>. QED
      BY <3>4, <3>7, <3>8
  <2>9. Looked'
    BY <2>6, <2>7 DEF Looked
  <2>. QED
    BY <2>8, <2>9
<1>. QED
  BY <1>6, <1>7 DEF Planned, Looked

\* Nothing is planned in an empty plan.
LEMMA NothingPlanned ==
  ASSUME plan' = <<>>
  PROVE  Planned'
<1>1. Len(plan') = 0
  OBVIOUS
<1>2. Ordered(plan)'
  <2> DEFINE q == plan'
  <2>1. Len(q) = 0
    BY <1>1
  <2> HIDE DEF q
  <2>2. Ordered(q)
    BY <2>1 DEF Ordered
  <2>. QED
    BY <2>2 DEF Ordered, q
<1>3. About' = {}
  BY <1>1 DEF About
<1>. QED
  BY <1>2, <1>3 DEF Planned

\* Each step keeps what is said of the plan and of what was taken up.
LEMMA LookedKeeps ==
  ASSUME Typed, Counted, Looked, Planned, [BehaviorNext]_behaviorVars
  PROVE  Looked' /\ Planned'
<1>0. Recent \in Nat /\ lost \in Nat
  BY BehaviorAssumption DEF Typed
<1>1. \A k : Taken(k) \in Nat
  BY DEF Typed, Taken
<1>2. \A k : After(k) \in Nat
  <2>1. \A k : IsFiniteSet({j \in DOMAIN files : j > k})
    BY FS_Subset DEF Typed
  <2>. QED
    BY <2>1, FS_CardinalityType DEF After
<1>3. ASSUME NEW o, plan' = pensar(o), UNCHANGED <<files, lost, taken>>
      PROVE  Looked' /\ Planned'
  <2>1. /\ \A k : Taken(k)' = Taken(k) /\ After(k)' = After(k)
        /\ Looked'
    BY <1>3 DEF Taken, After, Looked
  <2>2. /\ Ordered(pensar(o)) /\ pensar(o)[1].about = 0
        /\ \A i \in 1..Len(pensar(o)) :
             pensar(o)[i].about # 0 => /\ pensar(o)[i].about \in DOMAIN files
                                       /\ After(pensar(o)[i].about) < Recent
    BY PlanIsOrdered
  <2>3. Ordered(plan)' /\ plan'[1].about = 0
    BY <1>3, <2>2 DEF Ordered
  <2>4. ASSUME lost' = 0, NEW k \in About'
        PROVE  k \in DOMAIN files' /\ 2 * Taken(k)' + 1 <= Recent
    <3>1. PICK i \in 1..Len(plan') : k = plan'[i].about /\ k # 0
      BY <2>4 DEF About
    <3>2. k \in DOMAIN files /\ After(k) < Recent
      BY <1>3, <2>2, <3>1
    <3>3. 2 * Taken(k) <= After(k)
      BY <1>3, <2>4, <3>2 DEF Looked
    <3>4. 2 * Taken(k) + 1 <= Recent
      BY <1>0, <1>1, <1>2, <3>2, <3>3
    <3>. QED
      BY <1>3, <2>1, <3>2, <3>4
  <2>. QED
    BY <2>1, <2>3, <2>4 DEF Planned
<1>4. ASSUME phase # "down", plan # <<>>, plan' = Tail(plan), NEW r, registrar(r),
             LET id == Head(plan).about
             IN taken' = IF id = 0 THEN taken
                         ELSE [k \in DOMAIN taken \cup {id} |->
                                 Taken(k) + IF k = id THEN 1 ELSE 0]
      PROVE  Looked' /\ Planned'
  BY <1>4, AgirKeeps
<1>5. ASSUME plan' = <<>>, taken' = taken, phase # "down", NEW r, registrar(r)
      PROVE  Looked' /\ Planned'
  <2>1. Planned'
    BY <1>5, NothingPlanned
  <2>2. ASSUME lost' = 0
        PROVE  /\ DOMAIN taken' \subseteq DOMAIN files'
               /\ \A k \in DOMAIN files' :
                    2 * Taken(k)' <= After(k)' /\ 2 * Taken(k)' <= Recent + 1
    <3>1. /\ DOMAIN files' = DOMAIN files \cup {counter + 1}
          /\ counter + 1 \notin DOMAIN files
          /\ \A k : After(k) \in Nat /\ After(k)' \in Nat
          /\ \A k \in DOMAIN files : After(k)' = After(k) + 1
      BY <1>5, <2>2, AfterGrows
    <3>2. lost = 0
      BY <1>5, <2>2, Registers
    <3>3. /\ DOMAIN taken \subseteq DOMAIN files
          /\ \A k \in DOMAIN files : 2 * Taken(k) <= After(k) /\ 2 * Taken(k) <= Recent + 1
      BY <3>2 DEF Looked
    <3>4. \A k : Taken(k)' = Taken(k)
      BY <1>5 DEF Taken
    <3>5. \A k : k = counter + 1 => Taken(k) = 0
      BY <3>1, <3>3 DEF Taken
    <3>6. ASSUME NEW k \in DOMAIN files'
          PROVE  2 * Taken(k)' <= After(k)' /\ 2 * Taken(k)' <= Recent + 1
      <4>1. PICK x \in Nat, y \in Nat : x = Taken(k)' /\ y = After(k)'
        BY <1>1, <3>1, <3>4
      <4>2. CASE k = counter + 1
        <5>1. x = 0
          BY <3>4, <3>5, <4>1, <4>2
        <5>. QED
          BY <1>0, <4>1, <5>1
      <4>3. CASE k \in DOMAIN files
        <5>1. 2 * x <= After(k) /\ y = After(k) + 1 /\ 2 * x <= Recent + 1
          BY <3>1, <3>3, <3>4, <4>1, <4>3
        <5>2. 2 * x <= y
          BY <1>2, <4>1, <5>1
        <5>. QED
          BY <4>1, <5>1, <5>2
      <4>. QED
        BY <3>1, <4>2, <4>3
    <3>. QED
      BY <1>5, <3>1, <3>3, <3>6
  <2>. QED
    BY <2>1, <2>2 DEF Looked
<1>6. ASSUME plan' \in {plan, <<>>}, taken' = taken, UNCHANGED <<files, lost>>
      PROVE  Looked' /\ Planned'
  <2>1. /\ \A k : Taken(k)' = Taken(k) /\ After(k)' = After(k)
        /\ Looked'
    BY <1>6 DEF Taken, After, Looked
  <2>2. CASE plan' = plan
    <3>1. Ordered(plan)' /\ About' = About
      BY <2>2 DEF Ordered, About, Planned
    <3>. QED
      BY <1>6, <2>1, <2>2, <3>1 DEF Planned
  <2>3. CASE plan' = <<>>
    BY <2>1, <2>3, NothingPlanned
  <2>. QED
    BY <1>6, <2>2, <2>3
<1>7. phase = "agir" => phase # "down"
  OBVIOUS
<1>. QED
  BY <1>3, <1>4, <1>5, <1>6, <1>7, PlanSteps

\* behavior_engine.rs:353: what failed is looked into again in the next runs, and
\* what is done then pushes it out of sight.  As long as every record is written,
\* no iteration is taken up more than half as often as the plan looks back,
\* however many runs there are: each time puts two more after it.
THEOREM BehaviorInvestigationsEnd == BehaviorSpec => []InvestigationsEnd
<1>1. BehaviorInit => Typed /\ Counted /\ Looked /\ Planned
  <2> SUFFICES ASSUME BehaviorInit PROVE Typed /\ Counted /\ Looked /\ Planned
    OBVIOUS
  <2>1. DOMAIN files = {} /\ DOMAIN taken = {}
    BY DEF BehaviorInit
  <2>2. Len(plan) = 0
    BY DEF BehaviorInit
  <2>3. Looked
    BY <2>1 DEF Looked
  <2>4. Planned
    BY <2>2 DEF Planned, Ordered, About
  <2>. QED
    BY <2>3, <2>4, TypedInitially
<1>2. Typed /\ Counted /\ Looked /\ Planned /\ [BehaviorNext]_behaviorVars
        => Typed' /\ Counted' /\ Looked' /\ Planned'
  BY TypedKeeps, CountedKeeps, LookedKeeps
<1>3. Typed /\ Looked => InvestigationsEnd
  <2> SUFFICES ASSUME Typed, Looked, lost = 0, NEW id \in DOMAIN taken
               PROVE  taken[id] <= (Recent + 1) \div 2
    BY DEF InvestigationsEnd
  <2>1. taken[id] \in Nat /\ 2 * taken[id] <= Recent + 1
    BY DEF Typed, Looked, Taken
  <2>2. Recent + 1 \in Nat
    BY BehaviorAssumption
  <2>. QED
    BY <2>1, <2>2
<1>. QED
  BY <1>1, <1>2, <1>3, PTL DEF BehaviorSpec

-----------------------------------------------------------------------------
\* What is learnt.  Unless a crash cut knowledge.json off, the lessons on disk are
\* not of later cycles than the one that is on disk, and those in memory not of
\* later ones than the one in memory, which is never behind.
Knowledge == [iteracoes : Nat, score : Int]
Names == {"clippy_clean", "learned", "miri_verified", "pattern"}
Entries == [name : Names, n : Nat, level : Nat, occurrences : Nat]
UpTo(n, t) == {e \in Entries : ~t => e.n <= n}
Numbered ==
  /\ knowledge \in Knowledge
  /\ saved \in [knowledge : Knowledge, dictionary : [Categories -> Seq(Entries)]]
  /\ \A c \in Categories : saved.dictionary[c] \in Seq(UpTo(saved.knowledge.iteracoes, torn))
  /\ entries \in Seq(UpTo(knowledge.iteracoes, torn))
  /\ ~torn /\ phase # "down" => saved.knowledge.iteracoes <= knowledge.iteracoes
  /\ phase = "dictionary" => saved.knowledge = knowledge

\* What was stamped by an iteration was stamped by every later one.
LEMMA LaterIsMore ==
  ASSUME NEW m \in Nat, NEW n \in Nat, NEW t, NEW u, ~u => ~t /\ m <= n
  PROVE  \A s \in Seq(UpTo(m, t)) : s \in Seq(UpTo(n, u))
<1>1. \A e \in UpTo(m, t) : e \in UpTo(n, u)
  BY DEF UpTo, Entries
<1> HIDE DEF UpTo
<1>. QED
  BY <1>1

\* learn() appends an entry, or leaves the number of the one that it raises.
LEMMA LearnNumbers ==
  ASSUME NEW n \in Nat, NEW t, NEW d \in Seq(UpTo(n, t)), NEW e \in UpTo(n, t)
  PROVE  learn(d, e) \in Seq(UpTo(n, t))
<1> DEFINE i == PlaceOf(e, d)
           raised == [d EXCEPT ![i] = Raised(@, e.level)]
<1>1. learn(d, e) = IF i = 0 THEN Append(d, e) ELSE raised
  BY DEF learn
<1> HIDE DEF i
<1>2. Append(d, e) \in Seq(UpTo(n, t))
  OBVIOUS
<1>3. raised \in Seq(UpTo(n, t))
  <2>1. Len(d) \in Nat /\ DOMAIN d = 1..Len(d) /\ DOMAIN raised = 1..Len(d)
    OBVIOUS
  <2>2. ASSUME NEW j \in 1..Len(d)
        PROVE  raised[j] \in UpTo(n, t)
    <3>1. d[j] \in UpTo(n, t)
      BY <2>1
    <3>2. CASE j = i
      <4> DEFINE x == d[j]
      <4>1. raised[j] = [x EXCEPT !.level = IF e.level > @ THEN e.level ELSE @,
                                  !.occurrences = @ + 1]
        BY <2>1, <3>2 DEF Raised
      <4>2. x \in UpTo(n, t)
        BY <3>1
      <4> HIDE DEF x, raised
      <4>3. /\ x \in Entries /\ (~t => x.n <= n) /\ e \in Entries
        BY <4>2 DEF UpTo
      <4>4. PICK l \in Nat : raised[j] = [x EXCEPT !.level = l, !.occurrences = @ + 1]
        <5>1. e.level \in Nat /\ x.level \in Nat
          BY <4>3 DEF Entries
        <5>. QED
          BY <4>1, <5>1
      <4>5. raised[j] \in Entries /\ raised[j].n = x.n
        <5> DEFINE y == [name |-> x.name, n |-> x.n, level |-> l,
                         occurrences |-> x.occurrences + 1]
        <5>1. /\ x = [name |-> x.name, n |-> x.n, level |-> x.level,
                      occurrences |-> x.occurrences]
              /\ x.name \in Names /\ x.n \in Nat /\ x.occurrences \in Nat
          BY <4>3 DEF Entries
        <5>2. [x EXCEPT !.level = l, !.occurrences = @ + 1] = y
          <6> DEFINE w == [x EXCEPT !.level = l, !.occurrences = @ + 1]
          <6>1. DOMAIN x = {"name", "n", "level", "occurrences"}
            BY <5>1
          <6>2. w = [f \in DOMAIN x |-> IF f = "occurrences" THEN x[f] + 1
                                        ELSE IF f = "level" THEN l ELSE x[f]]
            OBVIOUS
          <6> HIDE DEF w
          <6>3. /\ w.name = x.name /\ w.n = x.n /\ w.level = l
                /\ w.occurrences = x.occurrences + 1
                /\ DOMAIN w = {"name", "n", "level", "occurrences"}
            BY <6>1, <6>2
          <6>. QED
            BY <6>2, <6>3 DEF w
        <5>3. y \in Entries
          BY <5>1 DEF Entries
        <5>. QED
          BY <4>4, <5>2, <5>3
      <4>. QED
        BY <4>3, <4>5 DEF UpTo
    <3>3. CASE j # i
      BY <2>1, <3>1, <3>3
    <3>. QED
      BY <3>2, <3>3
  <2>3. raised = [j \in 1..Len(d) |-> raised[j]]
    BY <2>1
  <2> HIDE DEF raised
  <2>. QED
    BY <2>1, <2>2, <2>3
<1>. QED
  BY <1>1, <1>2, <1>3

\* aprender() learns for its own cycle, and for none.
LEMMA LessonsNumber ==
  ASSUME NEW n \in Nat, NEW t, entries \in Seq(UpTo(n, t))
  PROVE  Lessons(n) \in Seq(UpTo(n, t))
<1> DEFINE good == IF feedback.high THEN learn(entries, Entry("learned", n, Verified))
                   ELSE entries
           seen == IF feedback.padroes > 0 THEN learn(good, Entry("pattern", n, Hypothese))
                   ELSE good
           clean == learn(seen, Entry("clippy_clean", 0, Verified))
<1>1. /\ Entry("learned", n, Verified) \in UpTo(n, t)
      /\ Entry("pattern", n, Hypothese) \in UpTo(n, t)
      /\ Entry("clippy_clean", 0, Verified) \in UpTo(n, t)
      /\ Entry("miri_verified", 0, Verified) \in UpTo(n, t)
  <2>1. \A name \in Names, m, level \in Nat : m <= n => Entry(name, m, level) \in UpTo(n, t)
    BY DEF Entry, UpTo, Entries
  <2>2. n <= n /\ 0 <= n /\ 0 \in Nat /\ Verified \in Nat /\ Hypothese \in Nat
    BY DEF Verified, Hypothese
  <2>3. /\ "learned" \in Names /\ "pattern" \in Names
        /\ "clippy_clean" \in Names /\ "miri_verified" \in Names
    BY DEF Names
  <2>4. /\ Entry("learned", n, Verified) \in UpTo(n, t)
        /\ Entry("pattern", n, Hypothese) \in UpTo(n, t)
    BY <2>1, <2>2, <2>3
  <2>5. /\ Entry("clippy_clean", 0, Verified) \in UpTo(n, t)
        /\ Entry("miri_verified", 0, Verified) \in UpTo(n, t)
    BY <2>1, <2>2, <2>3
  <2>. QED
    BY <2>4, <2>5
<1>2. good \in Seq(UpTo(n, t))
  BY <1>1, LearnNumbers
<1>3. seen \in Seq(UpTo(n, t))
  <2> HIDE DEF good
  <2>. QED
    BY <1>1, <1>2, LearnNumbers
<1>4. clean \in Seq(UpTo(n, t))
  <2> HIDE DEF seen
  <2>. QED
    BY <1>1, <1>3, LearnNumbers
<1>5. Lessons(n) = learn(clean, Entry("miri_verified", 0, Verified))
  BY DEF Lessons
<1> HIDE DEF clean
<1>. QED
  BY <1>1, <1>4, <1>5, LearnNumbers

\* A file of the dictionary has entries of it.
LEMMA FileNumbers ==
  ASSUME NEW n \in Nat, NEW t, entries \in Seq(UpTo(n, t)), NEW c
  PROVE  FileOf(c) \in Seq(UpTo(n, t))
<1> DEFINE places == {i \in DOMAIN entries : CategoryOf(entries[i]) = c}
           a == Ascending(places)
           m == Cardinality(places)
<1>1. /\ DOMAIN entries = 1..Len(entries) /\ Len(entries) \in Nat
      /\ \A i \in 1..Len(entries) : entries[i] \in UpTo(n, t)
  OBVIOUS
<1>2. places \in SUBSET Nat /\ IsFiniteSet(places)
  <2>1. IsFiniteSet(1..Len(entries))
    BY <1>1, FS_Interval
  <2>2. places \in SUBSET (1..Len(entries))
    BY <1>1
  <2>3. IsFiniteSet(places)
    <3> HIDE DEF places
    <3>. QED
      BY <2>1, <2>2, FS_Subset
  <2>4. places \in SUBSET Nat
    BY <1>1
  <2>. QED
    BY <2>3, <2>4
<1>3. \A i \in places : entries[i] \in UpTo(n, t)
  BY <1>1
<1>4. FileOf(c) = [i \in DOMAIN a |-> entries[a[i]]]
  BY DEF FileOf, Picked
<1> HIDE DEF places
<1>5. m \in Nat /\ DOMAIN a = 1..m /\ \A i \in 1..m : a[i] \in places
  BY <1>2, AscendingOrder
<1> HIDE DEF a, m
<1>6. FileOf(c) = [i \in 1..m |-> entries[a[i]]] /\ \A i \in 1..m : entries[a[i]] \in UpTo(n, t)
  BY <1>3, <1>4, <1>5
<1>. QED
  BY <1>5, <1>6

\* Every step keeps the numbers, saved and in memory.
LEMMA NumberedKeeps ==
  ASSUME Numbered, [BehaviorNext]_behaviorVars
  PROVE  Numbered'
<1> DEFINE N == knowledge.iteracoes
           M == saved.knowledge.iteracoes
           D == saved.dictionary
           Store == [knowledge : Knowledge, dictionary : [Categories -> Seq(Entries)]]
<1>1. /\ knowledge \in Knowledge /\ saved.knowledge \in Knowledge /\ N \in Nat /\ M \in Nat
      /\ saved \in Store /\ entries \in Seq(UpTo(N, torn))
      /\ \A c \in Categories : D[c] \in Seq(UpTo(M, torn))
      /\ InitialKnowledge \in Knowledge
  BY DEF Numbered, Knowledge, InitialKnowledge
<1>2. \A n, t : \A s \in Seq(UpTo(n, t)) : s \in Seq(Entries)
  <2>1. \A n, t : \A e \in UpTo(n, t) : e \in Entries
    BY DEF UpTo
  <2> HIDE DEF UpTo
  <2>. QED
    BY <2>1
<1>3. \A n, t : <<>> \in Seq(UpTo(n, t))
  OBVIOUS
<1>4. ASSUME Exit
      PROVE  /\ phase' = "down" /\ knowledge' \in Knowledge
             /\ entries' \in Seq(UpTo(knowledge'.iteracoes, torn'))
  BY <1>1, <1>3, <1>4 DEF Exit
<1>5. CASE Start
  <2>1. /\ knowledge' = saved.knowledge /\ saved' = saved /\ torn' = torn
        /\ entries' = D["rust"] \o D["learned"] /\ phase' = "agir"
    BY <1>5 DEF Start
  <2>2. D["rust"] \in Seq(UpTo(M, torn)) /\ D["learned"] \in Seq(UpTo(M, torn))
    BY <1>1 DEF Categories
  <2>3. entries' \in Seq(UpTo(M, torn))
    <3> HIDE DEF D, M
    <3>. QED
      BY <2>1, <2>2, ConcatProperties
  <2>. QED
    BY <1>1, <2>1, <2>3 DEF Numbered
<1>6. CASE Agir
  BY <1>6 DEF Agir, Numbered
<1>7. CASE Executar
  BY <1>7 DEF Executar, Numbered
<1>8. CASE Aprender
  <2>1. /\ knowledge'.iteracoes = N + 1 /\ knowledge' \in Knowledge
    <3>1. knowledge.score \in Int
      BY <1>1 DEF Knowledge
    <3>. QED
      BY <1>1, <1>8, <3>1 DEF Aprender, Knowledge
  <2>2. /\ entries' = Lessons(N + 1) /\ saved' = saved /\ torn' = torn
        /\ phase' = "knowledge" /\ phase = "aprender"
    BY <1>8 DEF Aprender, FirstSaved
  <2>3. N + 1 \in Nat /\ N <= N + 1
    BY <1>1
  <2>4. entries \in Seq(UpTo(N + 1, torn))
    BY <1>1, <2>3, LaterIsMore
  <2>5. Lessons(N + 1) \in Seq(UpTo(N + 1, torn))
    BY <2>3, <2>4, LessonsNumber
  <2>6. ~torn => M <= N + 1
    BY <1>1, <2>2 DEF Numbered
  <2>. QED
    BY <1>1, <2>1, <2>2, <2>5, <2>6 DEF Numbered
<1>9. CASE SalvarKnowledge
  <2>1. /\ saved' = [saved EXCEPT !.knowledge = knowledge] /\ torn' = torn
        /\ phase = "knowledge" /\ phase' = "dictionary"
        /\ knowledge' = knowledge /\ entries' = entries
    BY <1>9 DEF SalvarKnowledge, FirstSaved, memoryVars
  <2>2. /\ saved' \in Store /\ saved'.knowledge = knowledge /\ saved'.dictionary = D
    BY <1>1, <2>1
  <2>3. ~torn => M <= N
    BY <2>1 DEF Numbered
  <2>4. \A c \in Categories : D[c] \in Seq(UpTo(N, torn))
    BY <1>1, <2>3, LaterIsMore
  <2>5. N <= N
    BY <1>1
  <2>. QED
    BY <1>1, <2>1, <2>2, <2>4, <2>5 DEF Numbered
<1>10. CASE SaveDictionary
  <2>1. /\ saved' = [saved EXCEPT !.dictionary = Files] /\ torn' = torn
        /\ phase = "dictionary" /\ Exit
    BY <1>10 DEF SaveDictionary, FirstSaved
  <2>2. saved.knowledge = knowledge
    BY <2>1 DEF Numbered
  <2>3. \A c \in Categories : FileOf(c) \in Seq(UpTo(M, torn))
    BY <1>1, <2>2, FileNumbers
  <2>4. \A c \in Categories : Files[c] = FileOf(c)
    BY DEF Files
  <2>5. Files \in [Categories -> Seq(Entries)]
    <3>1. \A c \in Categories : FileOf(c) \in Seq(Entries)
      BY <1>2, <2>3
    <3>. QED
      BY <3>1 DEF Files
  <2>6. saved' \in Store /\ saved'.knowledge = saved.knowledge /\ saved'.dictionary = Files
    BY <1>1, <2>1, <2>5
  <2>7. \A c \in Categories : saved'.dictionary[c] \in Seq(UpTo(M, torn))
    BY <2>3, <2>4, <2>6
  <2>. QED
    BY <1>4, <2>1, <2>6, <2>7 DEF Numbered
<1>11. CASE Crash
  <2>1. Exit /\ phase # "down"
    BY <1>11 DEF Crash
  <2>2. CASE UNCHANGED <<saved, torn>>
    BY <1>1, <1>4, <2>1, <2>2 DEF Numbered
  <2>3. CASE saved' = [saved EXCEPT !.knowledge = InitialKnowledge] /\ torn' = TRUE
    <3>1. saved' \in Store /\ saved'.knowledge = InitialKnowledge /\ saved'.dictionary = D
      BY <1>1, <2>3
    <3>2. InitialKnowledge.iteracoes \in Nat
      BY <1>1 DEF Knowledge
    <3>3. \A c \in Categories : D[c] \in Seq(UpTo(InitialKnowledge.iteracoes, TRUE))
      <4>1. \A z \in Nat : \A q \in Seq(UpTo(M, torn)) : q \in Seq(UpTo(z, TRUE))
        BY <1>1, LaterIsMore
      <4>. QED
        BY <1>1, <3>2, <4>1
    <3>. QED
      BY <1>1, <1>4, <2>1, <2>3, <3>1, <3>3 DEF Numbered
  <2>4. ASSUME phase = "dictionary", torn' = torn, NEW c \in Categories,
               NEW done \in SUBSET Categories, NEW k \in 0..Len(FileOf(c)),
               saved' = [saved EXCEPT !.dictionary =
                           [d \in Categories |-> IF d = c THEN SubSeq(FileOf(d), 1, k)
                                                 ELSE IF d \in done THEN FileOf(d) ELSE @[d]]]
        PROVE  Numbered'
    <3>1. saved.knowledge = knowledge
      BY <2>4 DEF Numbered
    <3>2. \A d \in Categories : FileOf(d) \in Seq(UpTo(M, torn))
      BY <1>1, <3>1, FileNumbers
    <3>3. SubSeq(FileOf(c), 1, k) \in Seq(UpTo(M, torn))
      <4>1. FileOf(c) \in Seq(UpTo(M, torn))
        BY <3>2
      <4>2. \A f \in Seq(UpTo(M, torn)) : k \in 0..Len(f) => SubSeq(f, 1, k) \in Seq(UpTo(M, torn))
        BY SubSeqProperties
      <4>. QED
        BY <2>4, <4>1, <4>2
    <3> DEFINE E == [d \in Categories |-> IF d = c THEN SubSeq(FileOf(d), 1, k)
                                          ELSE IF d \in done THEN FileOf(d) ELSE D[d]]
    <3>4. \A d \in Categories : E[d] \in Seq(UpTo(M, torn))
      BY <1>1, <3>2, <3>3
    <3>5. saved' = [saved EXCEPT !.dictionary = E]
      BY <2>4
    <3>6. E \in [Categories -> Seq(Entries)]
      <4>1. \A d \in Categories : E[d] \in Seq(Entries)
        BY <1>2, <3>4
      <4>2. E = [d \in Categories |-> E[d]]
        OBVIOUS
      <4> HIDE DEF E
      <4>. QED
        BY <4>1, <4>2
    <3> HIDE DEF E
    <3>7. saved' \in Store /\ saved'.knowledge = saved.knowledge /\ saved'.dictionary = E
      BY <1>1, <3>5, <3>6
    <3>. QED
      BY <1>4, <2>1, <2>4, <3>4, <3>7 DEF Numbered
  <2>. QED
    BY <1>11, <2>2, <2>3, <2>4 DEF Crash
<1>12. CASE UNCHANGED behaviorVars
  BY <1>12 DEF behaviorVars, Numbered
<1>. QED
  BY <1>5, <1>6, <1>7, <1>8, <1>9, <1>10, <1>11, <1>12 DEF BehaviorNext

\* behavior_engine.rs:541: lessons are named for the cycle that learnt them.  The
\* count of the cycles is saved before they are, so that wherever the process dies
\* a later lesson has a name that none on disk has, unless the crash was in the
\* middle of knowledge.json and the count starts again.
THEOREM BehaviorLessonsNumbered == BehaviorSpec => []LessonsNumbered
<1>1. BehaviorInit => Numbered
  <2> SUFFICES ASSUME BehaviorInit PROVE Numbered
    OBVIOUS
  <2>1. /\ saved.knowledge = InitialKnowledge /\ knowledge = InitialKnowledge
        /\ saved = [knowledge |-> InitialKnowledge, dictionary |-> [c \in Categories |-> <<>>]]
        /\ entries = <<>> /\ phase = "down"
    BY DEF BehaviorInit
  <2>2. InitialKnowledge \in Knowledge
    BY DEF InitialKnowledge, Knowledge
  <2>3. \A n, t : <<>> \in Seq(UpTo(n, t))
    OBVIOUS
  <2>4. <<>> \in Seq(Entries)
    OBVIOUS
  <2>5. /\ saved \in [knowledge : Knowledge, dictionary : [Categories -> Seq(Entries)]]
        /\ \A c \in Categories : saved.dictionary[c] = <<>>
    BY <2>1, <2>2, <2>4
  <2>. QED
    BY <2>1, <2>2, <2>3, <2>5 DEF Numbered
<1>2. Numbered /\ [BehaviorNext]_behaviorVars => Numbered'
  BY NumberedKeeps
<1>3. Numbered => LessonsNumbered
  <2> SUFFICES ASSUME Numbered, ~torn, NEW i \in DOMAIN saved.dictionary["learned"]
               PROVE  saved.dictionary["learned"][i].n <= saved.knowledge.iteracoes
    BY DEF LessonsNumbered
  <2> DEFINE d == saved.dictionary["learned"]
  <2>1. d \in Seq(UpTo(saved.knowledge.iteracoes, torn))
    BY DEF Numbered, Categories
  <2>2. d[i] \in UpTo(saved.knowledge.iteracoes, torn)
    <3> HIDE DEF d
    <3>1. \A j \in DOMAIN d : d[j] \in UpTo(saved.knowledge.iteracoes, torn)
      BY <2>1
    <3>. QED
      BY <3>1 DEF d
  <2>. QED
    BY <2>2 DEF UpTo
<1>. QED
  BY <1>1, <1>2, <1>3, PTL DEF BehaviorSpec

=============================================================================
