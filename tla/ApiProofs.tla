----------------------------- MODULE ApiProofs -----------------------------
(***************************************************************************)
(* Proofs about the node behind its HTTP API.  The limiter, alone and in    *)
(* front of the API: what is kept for a source is the end of what it got    *)
(* through, and all before that end has expired by now; the counter is the  *)
(* number of sources kept plus those the sweep under way has removed.  The  *)
(* records, for any number of EPAs, requests, starts and crashes: what      *)
(* network.json and reputation.json hold whenever the process may be cut    *)
(* off, which node and which rules come back, and what a compliance report  *)
(* shows of an EPA that was anonymized.                                     *)
(***************************************************************************)
EXTENDS Api, FiniteSetTheorems, WellFoundedInduction, TLAPS

\* Requests got through in the order of time, none after now.
Ordered(all, now) ==
  /\ \A i \in DOMAIN all : all[i] <= now
  /\ \A i, j \in DOMAIN all : i <= j => all[i] <= all[j]
\* What is kept is the end of what got through, all before it has expired.
EndOf(kept, all, now) ==
  \E n \in 0..Len(all) :
    kept = SubSeq(all, n + 1, Len(all)) /\ \A k \in 1..n : Expired(all[k], now)
\* No more than MaxRequests in any window.
Spaced(all) ==
  \A i \in DOMAIN all : i > MaxRequests => all[i] - all[i - MaxRequests] >= Window

Remembered ==
  \A s \in Sources : /\ Ordered(accepted[s], clock) /\ Spaced(accepted[s])
                     /\ EndOf(history[s], accepted[s], clock)
SweepsInTime == sweeper.now <= clock
SourcesCounted ==
  /\ active = Cardinality(Tracked) + sweeper.removed
  /\ active <= MAX_RATE_LIMIT_SOURCES
LimiterInv == LimiterTypeOK /\ Remembered /\ SweepsInTime /\ SourcesCounted

-----------------------------------------------------------------------------
\* A set of naturals has a smallest element.
LEMMA LeastOf ==
  ASSUME NEW S \in SUBSET Nat, S # {}
  PROVE  \E x \in S : \A y \in S : x <= y
<1>1. PICK x \in S : \A y \in S : ~(<<y, x>> \in OpToRel(<, Nat))
  BY NatLessThanWellFounded, WFMin
<1>2. \A y \in S : ~(y < x)
  BY <1>1 DEF OpToRel
<1> QED  BY <1>2

\* Two sequences of the same length and elements.
LEMMA SameSequence ==
  ASSUME NEW a \in Seq(Nat), NEW b \in Seq(Nat), Len(a) = Len(b),
         \A i \in 1..Len(a) : a[i] = b[i]
  PROVE  a = b
<1>1. a = [i \in 1..Len(a) |-> a[i]] /\ b = [i \in 1..Len(b) |-> b[i]]
  OBVIOUS
<1> QED  BY <1>1

\* What SubSeq leaves when it takes a front.
LEMMA EndElements ==
  ASSUME NEW all \in Seq(Nat), NEW n \in 0..Len(all)
  PROVE  LET end == SubSeq(all, n + 1, Len(all))
         IN end \in Seq(Nat) /\ Len(end) = Len(all) - n
              /\ \A i \in 1..(Len(all) - n) : end[i] = all[n + i]
<1>1. Len(all) \in Nat /\ n \in Nat /\ n <= Len(all)
  OBVIOUS
<1> QED  BY <1>1

\* trim_expired() (defense.rs:83) takes the longest front of which all has expired.
LEMMA TrimTakesFront ==
  ASSUME NEW times \in Seq(Nat), NEW now \in Nat
  PROVE  \E k \in 0..Len(times) :
           /\ trim_expired(times, now) = SubSeq(times, k + 1, Len(times))
           /\ \A j \in 1..k : Expired(times[j], now)
<1> DEFINE Good(k) == /\ \A j \in 1..k : Expired(times[j], now)
                      /\ k < Len(times) => ~Expired(times[k + 1], now)
           Stops == {k \in 0..Len(times) : k < Len(times) => ~Expired(times[k + 1], now)}
<1>1. Len(times) \in Nat /\ Stops \in SUBSET Nat /\ Len(times) \in Stops
  OBVIOUS
<1>2. PICK k \in Stops : \A j \in Stops : k <= j
  <2> HIDE DEF Stops
  <2> QED  BY <1>1, LeastOf
<1>3. ASSUME NEW j \in 1..k PROVE Expired(times[j], now)
  <2>1. j - 1 \notin Stops
    <3>1. k \in Nat /\ (j - 1 \in Stops => k <= j - 1)
      BY <1>1, <1>2
    <3> HIDE DEF Stops
    <3> QED  BY <3>1
  <2>2. j - 1 \in 0..Len(times) /\ j - 1 < Len(times) /\ (j - 1) + 1 = j
    BY <1>1, <1>2, <1>3
  <2> QED  BY <2>1, <2>2
<1>4. k \in 0..Len(times) /\ Good(k)
  BY <1>2, <1>3
<1>5. \E n \in 0..Len(times) :
        n = (CHOOSE m \in 0..Len(times) : Good(m)) /\ Good(n)
  BY <1>4
<1> QED  BY <1>5 DEF trim_expired

\* One more after the a - n that n leaves of a: the a + 1 - n that it leaves of a + 1.
LEMMA OneFurther ==
  ASSUME NEW a \in Nat, NEW n \in Nat, n <= a, NEW i \in 1..((a - n) + 1)
  PROVE  /\ i \in 1..((a + 1) - n)
         /\ i \in 1..(a - n) \/ i = (a - n) + 1
OBVIOUS

\* An end stays an end when it is trimmed, at this or an earlier time ...
LEMMA TrimKeepsEnd ==
  ASSUME NEW all \in Seq(Nat), NEW kept \in Seq(Nat), NEW now \in Nat, NEW then \in Nat,
         then <= now, EndOf(kept, all, now)
  PROVE  /\ trim_expired(kept, then) \in Seq(Nat)
         /\ EndOf(trim_expired(kept, then), all, now)
         /\ kept = <<>> => trim_expired(kept, then) = <<>>
<1> DEFINE trimmed == trim_expired(kept, then)
<1>1. PICK n \in 0..Len(all) : /\ kept = SubSeq(all, n + 1, Len(all))
                               /\ \A k \in 1..n : Expired(all[k], now)
  BY DEF EndOf
<1>2. PICK k \in 0..Len(kept) : /\ trimmed = SubSeq(kept, k + 1, Len(kept))
                                /\ \A j \in 1..k : Expired(kept[j], then)
  BY TrimTakesFront
<1>3. /\ Len(all) \in Nat /\ n \in Nat /\ k \in Nat
      /\ Len(kept) = Len(all) - n /\ n + k \in 0..Len(all)
  BY <1>1, <1>2
<1>4. trimmed = SubSeq(all, (n + k) + 1, Len(all))
  <2> DEFINE end == SubSeq(all, (n + k) + 1, Len(all))
  <2>1. /\ end \in Seq(Nat) /\ Len(end) = Len(all) - (n + k)
        /\ \A i \in 1..(Len(all) - (n + k)) : end[i] = all[(n + k) + i]
    BY <1>3, EndElements
  <2>2. /\ trimmed \in Seq(Nat) /\ Len(trimmed) = Len(kept) - k
        /\ \A i \in 1..(Len(kept) - k) : trimmed[i] = kept[k + i]
    BY <1>2, EndElements
  <2>3. \A i \in 1..(Len(all) - n) : kept[i] = all[n + i]
    BY <1>1, EndElements
  <2> HIDE DEF end, trimmed
  <2>4. Len(trimmed) = Len(end)
    BY <1>3, <2>1, <2>2
  <2>5. ASSUME NEW i \in 1..Len(trimmed) PROVE trimmed[i] = end[i]
    <3>1. /\ i \in 1..(Len(kept) - k) /\ k + i \in 1..(Len(all) - n)
          /\ i \in 1..(Len(all) - (n + k)) /\ n + (k + i) = (n + k) + i
      <4> DEFINE a == Len(all)  b == Len(kept)  c == Len(trimmed)
      <4>1. a \in Nat /\ b = a - n /\ c = b - k /\ i \in 1..c
        BY <1>3, <2>2
      <4> HIDE DEF a, b, c
      <4>2. /\ i \in 1..(b - k) /\ k + i \in 1..(a - n) /\ i \in 1..(a - (n + k))
            /\ n + (k + i) = (n + k) + i
        BY <4>1, <1>3
      <4> QED  BY <4>2 DEF a, b
    <3>2. trimmed[i] = kept[k + i] /\ kept[k + i] = all[n + (k + i)] /\ end[i] = all[(n + k) + i]
      BY <3>1, <2>1, <2>2, <2>3
    <3> QED  BY <3>1, <3>2
  <2>6. trimmed = end
    BY <2>1, <2>2, <2>4, <2>5, SameSequence
  <2> QED  BY <2>6 DEF end
<1>5. ASSUME NEW j \in 1..(n + k) PROVE Expired(all[j], now)
  <2>1. CASE j <= n
    BY <1>1, <1>3, <2>1, <1>5
  <2>2. CASE j > n
    <3>1. j - n \in 1..k /\ j - n \in 1..Len(kept) /\ kept[j - n] = all[j]
      BY <1>1, <1>2, <1>3, <1>5, <2>2
    <3>2. Expired(all[j], then)
      <4>1. Expired(kept[j - n], then)
        BY ONLY <1>2, <3>1
      <4>. QED
        BY ONLY <4>1, <3>1
    <3>3. all[j] \in Nat
      <4>1. j \in 1..Len(all)
        BY ONLY <1>3, <1>5
      <4>. QED
        BY ONLY <4>1, all \in Seq(Nat)
    <3> QED  BY <3>2, <3>3, LimiterAssumption DEF Expired
  <2> QED  BY <2>1, <2>2, <1>3
<1>6. trimmed \in Seq(Nat)
  BY <1>2, EndElements
<1>7. kept = <<>> => trimmed = <<>>
  BY <1>2
<1> HIDE DEF trimmed
<1>8. EndOf(trimmed, all, now)
  BY <1>3, <1>4, <1>5 DEF EndOf
<1> QED  BY <1>6, <1>7, <1>8 DEF trimmed

\* ... as time goes on ...
LEMMA EndStays ==
  ASSUME NEW all \in Seq(Nat), NEW kept, NEW now \in Nat, EndOf(kept, all, now)
  PROVE  EndOf(kept, all, now + 1)
<1>1. PICK n \in 0..Len(all) : /\ kept = SubSeq(all, n + 1, Len(all))
                               /\ \A k \in 1..n : Expired(all[k], now)
  BY DEF EndOf
<1>2. \A k \in 1..n : Expired(all[k], now + 1)
  <2> TAKE k \in 1..n
  <2>1. all[k] \in Nat /\ Expired(all[k], now)
    BY <1>1
  <2> QED  BY <2>1, LimiterAssumption DEF Expired
<1> QED  BY <1>1, <1>2 DEF EndOf

\* ... and when one more gets through; if fewer than MaxRequests were kept, the one
\* MaxRequests before it has expired.
LEMMA AppendKeepsEnd ==
  ASSUME NEW all \in Seq(Nat), NEW kept \in Seq(Nat), NEW now \in Nat,
         EndOf(kept, all, now), Ordered(all, now), Spaced(all),
         MaxRequests > 0, Len(kept) < MaxRequests
  PROVE  /\ EndOf(Append(kept, now), Append(all, now), now)
         /\ Ordered(Append(all, now), now) /\ Spaced(Append(all, now))
<1> DEFINE more == Append(all, now)
<1>1. PICK n \in 0..Len(all) : /\ kept = SubSeq(all, n + 1, Len(all))
                               /\ \A k \in 1..n : Expired(all[k], now)
  BY DEF EndOf
<1>2. /\ Len(all) \in Nat /\ n \in Nat /\ n <= Len(all) /\ Len(kept) = Len(all) - n
      /\ \A i \in 1..(Len(all) - n) : kept[i] = all[n + i]
  BY <1>1, EndElements
<1>3. /\ more \in Seq(Nat) /\ Len(more) = Len(all) + 1 /\ more[Len(all) + 1] = now
      /\ DOMAIN more = 1..(Len(all) + 1) /\ DOMAIN all = 1..Len(all)
      /\ \A i \in 1..Len(all) : more[i] = all[i] /\ all[i] \in Nat
  BY <1>2
<1> HIDE DEF more
<1>4. Append(kept, now) = SubSeq(more, n + 1, Len(more))
  <2> DEFINE end == SubSeq(more, n + 1, Len(more))
             longer == Append(kept, now)
  <2>1. /\ end \in Seq(Nat) /\ Len(end) = Len(more) - n
        /\ \A i \in 1..(Len(more) - n) : end[i] = more[n + i]
    <3>1. n \in 0..Len(more)
      BY <1>2, <1>3
    <3> QED  BY <3>1, <1>3, EndElements
  <2>2. /\ longer \in Seq(Nat) /\ Len(longer) = Len(kept) + 1
        /\ longer[Len(kept) + 1] = now /\ \A i \in 1..Len(kept) : longer[i] = kept[i]
    OBVIOUS
  <2> HIDE DEF end, longer
  <2>3. Len(longer) = Len(end)
    BY <1>2, <1>3, <2>1, <2>2
  <2>4. ASSUME NEW i \in 1..Len(longer) PROVE longer[i] = end[i]
    <3>1. i \in 1..(Len(more) - n) /\ (i \in 1..Len(kept) \/ i = Len(kept) + 1)
      <4>1. /\ Len(all) \in Nat /\ n \in Nat /\ Len(kept) = Len(all) - n /\ n <= Len(all)
            /\ Len(more) = Len(all) + 1 /\ Len(longer) = Len(kept) + 1
        BY <1>2, <1>3, <2>2
      <4>2. i \in 1..((Len(all) - n) + 1)
        BY <4>1
      <4>3. /\ i \in 1..((Len(all) + 1) - n)
            /\ i \in 1..(Len(all) - n) \/ i = (Len(all) - n) + 1
        BY <4>1, <4>2, OneFurther
      <4> QED  BY <4>1, <4>3
    <3>2. end[i] = more[n + i]
      BY <3>1, <2>1
    <3>3. CASE i \in 1..Len(kept)
      <4>1. n + i \in 1..Len(all) /\ i \in 1..(Len(all) - n)
        BY <1>2, <3>3
      <4>2. longer[i] = kept[i] /\ kept[i] = all[n + i]
        BY <4>1, <1>2, <2>2, <3>3
      <4>3. more[n + i] = all[n + i]
        BY <4>1, <1>3
      <4> QED  BY <4>2, <4>3, <3>2
    <3>4. CASE i = Len(kept) + 1
      <4>1. n + i = Len(all) + 1
        BY <1>2, <3>4
      <4>2. longer[i] = now
        BY <2>2, <3>4
      <4>3. end[i] = more[Len(all) + 1]
        BY <3>2, <4>1
      <4> QED  BY <4>2, <4>3, <1>3
    <3> QED  BY <3>1, <3>3, <3>4
  <2>5. longer = end
    BY <2>1, <2>2, <2>3, <2>4, SameSequence
  <2> QED  BY <2>5 DEF end, longer
<1>5. ASSUME NEW k \in 1..n PROVE Expired(more[k], now)
  <2>1. k \in 1..Len(all)
    BY <1>2
  <2> QED  BY <2>1, <1>1, <1>3
<1>6. EndOf(Append(kept, now), more, now)
  <2>1. n \in 0..Len(more)
    BY <1>2, <1>3
  <2> QED  BY <2>1, <1>4, <1>5 DEF EndOf
<1>7. Ordered(more, now)
  <2>1. \A i \in 1..Len(all) : more[i] <= now
    BY <1>3 DEF Ordered
  <2>2. \A i, j \in 1..Len(all) : i <= j => more[i] <= more[j]
    BY <1>3 DEF Ordered
  <2>3. \A i \in DOMAIN more : i \in 1..Len(all) \/ i = Len(all) + 1
    BY <1>2, <1>3
  <2>4. \A i \in DOMAIN more : more[i] <= now
    BY <1>3, <2>1, <2>3
  <2>5. ASSUME NEW i \in DOMAIN more, NEW j \in DOMAIN more, i <= j PROVE more[i] <= more[j]
    <3>1. CASE j = Len(all) + 1
      BY <1>3, <2>4, <3>1
    <3>2. CASE j \in 1..Len(all)
      <4>1. i \in 1..Len(all)
        BY <1>2, <1>3, <2>5, <3>2
      <4> QED  BY <4>1, <2>2, <2>5, <3>2
    <3> QED  BY <2>3, <3>1, <3>2
  <2> QED  BY <2>4, <2>5 DEF Ordered
<1>8. Spaced(more)
  <2> SUFFICES ASSUME NEW i \in DOMAIN more, i > MaxRequests
               PROVE  more[i] - more[i - MaxRequests] >= Window
    BY DEF Spaced
  <2>0. MaxRequests \in Nat
    BY LimiterAssumption
  <2>1. CASE i \in 1..Len(all)
    <3>1. i - MaxRequests \in 1..Len(all)
      BY <2>0, <2>1, <1>2
    <3> QED  BY <3>1, <2>1, <1>3 DEF Spaced
  <2>2. CASE i = Len(all) + 1
    <3>1. i - MaxRequests \in 1..n
      BY <2>0, <2>2, <1>2
    <3>2. Expired(more[i - MaxRequests], now)
      BY <3>1, <1>5
    <3> QED  BY <3>2, <2>2, <1>3 DEF Expired
  <2> QED  BY <2>1, <2>2, <1>2, <1>3
<1> QED  BY <1>6, <1>7, <1>8 DEF more

-----------------------------------------------------------------------------
\* Sets of sources are finite.
LEMMA FiniteTracked ==
  ASSUME NEW S \in SUBSET Sources
  PROVE  IsFiniteSet(S) /\ Cardinality(S) \in Nat
BY LimiterAssumption, FS_Subset, FS_CardinalityType

\* At first nothing is kept.
LEMMA LimiterInitially == LimiterInit => LimiterInv
<1> SUFFICES ASSUME LimiterInit PROVE LimiterInv
  OBVIOUS
<1> USE DEF LimiterInit
<1>1. LimiterTypeOK
  BY LimiterAssumption DEF LimiterTypeOK, Asleep
<1>2. Remembered
  <2> SUFFICES ASSUME NEW s \in Sources
               PROVE  /\ Ordered(accepted[s], clock) /\ Spaced(accepted[s])
                      /\ EndOf(history[s], accepted[s], clock)
    BY DEF Remembered
  <2>1. accepted[s] = <<>> /\ history[s] = <<>>
    OBVIOUS
  <2>2. SubSeq(<<>>, 0 + 1, Len(<<>>)) = <<>> /\ 0 \in 0..Len(<<>>)
    OBVIOUS
  <2>3. EndOf(history[s], accepted[s], clock)
    BY <2>1, <2>2 DEF EndOf
  <2> QED  BY <2>1, <2>3 DEF Ordered, Spaced
<1>3. Tracked = {}
  BY DEF Tracked
<1>4. SweepsInTime /\ SourcesCounted
  BY <1>3, FS_EmptySet, LimiterAssumption DEF SweepsInTime, SourcesCounted, Asleep
<1> QED  BY <1>1, <1>2, <1>4 DEF LimiterInv

\* What is kept of any source is trimmed, now or at the time the sweep read.
LEMMA TrimRemembers ==
  ASSUME LimiterInv, NEW s \in Sources, NEW now \in {clock, sweeper.now}
  PROVE  /\ trim_expired(history[s], now) \in Seq(Nat)
         /\ EndOf(trim_expired(history[s], now), accepted[s], clock)
         /\ history[s] = <<>> => trim_expired(history[s], now) = <<>>
<1>1. /\ history[s] \in Seq(Nat) /\ accepted[s] \in Seq(Nat) /\ clock \in Nat
      /\ now \in Nat /\ now <= clock /\ EndOf(history[s], accepted[s], clock)
  BY DEF LimiterInv, LimiterTypeOK, Remembered, SweepsInTime
<1> QED  BY <1>1, TrimKeepsEnd

\* A request that gets through.
LEMMA AdmitKeeps ==
  ASSUME LimiterInv, NEW s \in Sources, Admit(s)
  PROVE  LimiterInv'
<1> DEFINE kept == trim_expired(history[s], clock)
<1>1. /\ history \in [Sources -> Seq(Nat)] /\ accepted \in [Sources -> Seq(Nat)]
      /\ clock \in Nat /\ active \in Nat /\ clock' = clock /\ sweeper' = sweeper
      /\ history' = [history EXCEPT ![s] = Append(kept, clock)]
      /\ accepted' = [accepted EXCEPT ![s] = Append(@, clock)]
      /\ MaxRequests \in Nat /\ MaxRequests > 0
  BY LimiterAssumption DEF LimiterInv, LimiterTypeOK, Admit, Admits
<1>2. /\ kept \in Seq(Nat) /\ EndOf(kept, accepted[s], clock)
      /\ history[s] = <<>> => kept = <<>>
  BY TrimRemembers
<1>3. Len(kept) < MaxRequests
  <2>1. CASE s \in Tracked
    BY <2>1 DEF Admit, Admits, Room
  <2>2. CASE s \notin Tracked
    <3>1. kept = <<>>
      BY <1>2, <2>2 DEF Tracked
    <3> QED  BY <3>1, <1>1
  <2> QED  BY <2>1, <2>2
<1> HIDE DEF kept
<1>4. history'[s] = Append(kept, clock) /\ history'[s] \in Seq(Nat) /\ history'[s] # <<>>
  <2>1. /\ Append(kept, clock) \in Seq(Nat) /\ Len(Append(kept, clock)) = Len(kept) + 1
        /\ Len(kept) \in Nat
    BY <1>1, <1>2
  <2>2. Append(kept, clock) # <<>>
    BY <2>1
  <2> QED  BY <1>1, <2>1, <2>2
<1>5. accepted'[s] = Append(accepted[s], clock) /\ accepted'[s] \in Seq(Nat)
  BY <1>1
<1>6. \A o \in Sources \ {s} : history'[o] = history[o] /\ accepted'[o] = accepted[o]
  BY <1>1
<1>7. Tracked' = Tracked \union {s}
  BY <1>4, <1>6 DEF Tracked
<1>8. Remembered'
  <2> SUFFICES ASSUME NEW o \in Sources
               PROVE  /\ Ordered(accepted'[o], clock) /\ Spaced(accepted'[o])
                      /\ EndOf(history'[o], accepted'[o], clock)
    BY <1>1 DEF Remembered
  <2>1. CASE o = s
    <3>1. accepted[s] \in Seq(Nat) /\ Ordered(accepted[s], clock) /\ Spaced(accepted[s])
      BY <1>1 DEF LimiterInv, Remembered
    <3> QED  BY <2>1, <3>1, <1>1, <1>2, <1>3, <1>4, <1>5, AppendKeepsEnd
  <2>2. CASE o # s
    BY <2>2, <1>6 DEF LimiterInv, Remembered
  <2> QED  BY <2>1, <2>2
<1>9. active' \in Nat /\ SourcesCounted'
  <2>1. IsFiniteSet(Tracked) /\ Cardinality(Tracked) \in Nat
    BY FiniteTracked DEF Tracked
  <2>2. Cardinality(Tracked') = IF s \in Tracked THEN Cardinality(Tracked)
                                ELSE Cardinality(Tracked) + 1
    BY <2>1, <1>7, FS_AddElement
  <2>3. /\ active = Cardinality(Tracked) + sweeper.removed /\ sweeper.removed \in Nat
        /\ active <= MAX_RATE_LIMIT_SOURCES /\ MAX_RATE_LIMIT_SOURCES \in Nat
    BY LimiterAssumption DEF LimiterInv, LimiterTypeOK, SourcesCounted
  <2>4. CASE s \in Tracked
    BY <1>1, <2>1, <2>2, <2>3, <2>4 DEF Admit, SourcesCounted
  <2>5. CASE s \notin Tracked
    <3>1. active' = active + 1 /\ active < MAX_RATE_LIMIT_SOURCES
      BY <2>5 DEF Admit, Admits
    <3>2. Cardinality(Tracked') = Cardinality(Tracked) + 1
      BY <2>2, <2>5
    <3>3. active' = Cardinality(Tracked') + sweeper'.removed /\ active' \in Nat
      <4>1. sweeper'.removed = sweeper.removed
        BY <1>1
      <4> DEFINE old == Cardinality(Tracked)  new == Cardinality(Tracked')
                 away == sweeper.removed
      <4>2. old \in Nat /\ new = old + 1 /\ active = old + away /\ away \in Nat
        BY <2>1, <2>3, <3>2
      <4> HIDE DEF old, new, away
      <4>3. active + 1 = new + away /\ active + 1 \in Nat
        BY <1>1, <4>2
      <4> QED  BY <3>1, <4>1, <4>3 DEF new, away
    <3>4. active' <= MAX_RATE_LIMIT_SOURCES
      BY <1>1, <2>3, <3>1
    <3> QED  BY <3>3, <3>4 DEF SourcesCounted
  <2> QED  BY <2>4, <2>5
<1>10. LimiterTypeOK'
  <2>1. history' \in [Sources -> Seq(Nat)] /\ accepted' \in [Sources -> Seq(Nat)]
    BY <1>1, <1>4, <1>5
  <2> QED  BY <2>1, <1>1, <1>9 DEF LimiterInv, LimiterTypeOK
<1>11. SweepsInTime'
  BY <1>1 DEF LimiterInv, SweepsInTime
<1> QED  BY <1>8, <1>9, <1>10, <1>11 DEF LimiterInv

\* A request that does not: what has expired is trimmed all the same.
LEMMA RefuseKeeps ==
  ASSUME LimiterInv, NEW s \in Sources, Refuse(s)
  PROVE  LimiterInv'
<1> DEFINE kept == trim_expired(history[s], clock)
<1>1. /\ history \in [Sources -> Seq(Nat)] /\ clock' = clock /\ active' = active
      /\ sweeper' = sweeper /\ accepted' = accepted /\ MaxRequests \in Nat
  BY LimiterAssumption DEF LimiterInv, LimiterTypeOK, Refuse
<1>2. /\ kept \in Seq(Nat) /\ EndOf(kept, accepted[s], clock)
      /\ history[s] = <<>> => kept = <<>>
  BY TrimRemembers
<1>3. CASE MaxRequests = 0
  <2>1. history' = history
    BY <1>3 DEF Refuse
  <2> QED  BY <2>1, <1>1 DEF LimiterInv, LimiterTypeOK, Remembered, SweepsInTime,
                               SourcesCounted, Tracked
<1>4. CASE MaxRequests # 0
  <2>1. history' = [history EXCEPT ![s] = kept]
    BY <1>4 DEF Refuse
  <2>2. s \in Tracked => kept # <<>>
    <3>1. s \in Tracked => ~(Len(kept) < MaxRequests)
      BY <1>1, <1>4 DEF Refuse, Admits, Room
    <3> QED  BY <3>1, <1>1, <1>4
  <2> HIDE DEF kept
  <2>3. history'[s] = kept /\ \A o \in Sources \ {s} : history'[o] = history[o]
    BY <1>1, <2>1
  <2>4. Tracked' = Tracked
    BY <1>2, <2>2, <2>3 DEF Tracked
  <2>5. history' \in [Sources -> Seq(Nat)]
    BY <1>1, <1>2, <2>1
  <2>6. Remembered'
    BY <1>1, <1>2, <2>3 DEF LimiterInv, Remembered
  <2> QED  BY <1>1, <2>4, <2>5, <2>6 DEF LimiterInv, LimiterTypeOK, SweepsInTime, SourcesCounted
<1> QED  BY <1>3, <1>4

\* One shard of a sweep: what it removes from the table it still owes the counter.
LEMMA SweepsShardKeeps ==
  ASSUME LimiterInv, SweepsShard
  PROVE  LimiterInv'
<1>1. /\ clock' = clock /\ active' = active /\ accepted' = accepted
      /\ sweeper' = [sweeper EXCEPT !.next = @ + 1, !.removed = @ + Cardinality(Dropped)]
      /\ sweeper.next <= NUM_SHARDS
  BY DEF SweepsShard
<1>2. \A s \in Sources : history'[s] = IF s \in InShard(sweeper.next)
                                       THEN Swept(history[s], sweeper.now) ELSE history[s]
  BY DEF SweepsShard
<1>3. ASSUME NEW s \in Sources
      PROVE  /\ history'[s] \in Seq(Nat) /\ EndOf(history'[s], accepted[s], clock)
             /\ history[s] = <<>> => history'[s] = <<>>
  <2>1. CASE s \in InShard(sweeper.next)
    <3>1. history'[s] = trim_expired(history[s], sweeper.now)
      BY <1>2, <2>1 DEF Swept
    <3> QED  BY <3>1, TrimRemembers
  <2>2. CASE s \notin InShard(sweeper.next)
    BY <1>2, <2>2 DEF LimiterInv, LimiterTypeOK, Remembered
  <2> QED  BY <2>1, <2>2
<1>4. Tracked' = Tracked \ Dropped /\ Dropped \subseteq Tracked /\ Tracked \subseteq Sources
  BY <1>2, <1>3 DEF Tracked, Dropped, InShard
<1>5. /\ IsFiniteSet(Tracked) /\ Cardinality(Tracked) \in Nat /\ Cardinality(Dropped) \in Nat
      /\ Cardinality(Tracked') = Cardinality(Tracked) - Cardinality(Dropped)
  <2>1. Tracked \cap Dropped = Dropped
    BY <1>4
  <2>2. IsFiniteSet(Tracked) /\ Cardinality(Tracked) \in Nat /\ Cardinality(Dropped) \in Nat
    BY <1>4, FiniteTracked
  <2>3. Cardinality(Tracked \ Dropped) = Cardinality(Tracked) - Cardinality(Tracked \cap Dropped)
    BY <2>2, FS_Difference
  <2> QED  BY <1>4, <2>1, <2>2, <2>3
<1>6. /\ sweeper.next \in 1..(NUM_SHARDS + 1) /\ sweeper.removed \in Nat
      /\ sweeper.now \in Nat /\ sweeper.wake \in Nat /\ NUM_SHARDS \in Nat
      /\ sweeper \in [pc : {"asleep", "sweeping"}, now : Nat, next : 1..(NUM_SHARDS + 1),
                      removed : Nat, wake : Nat]
  BY LimiterAssumption DEF LimiterInv, LimiterTypeOK
<1>7. LimiterTypeOK'
  <2>1. history' \in [Sources -> Seq(Nat)]
    <3>1. DOMAIN history' = Sources /\ history' = [s \in Sources |-> history'[s]]
      BY DEF SweepsShard
    <3> QED  BY <3>1, <1>3
  <2>2. sweeper.next + 1 \in 1..(NUM_SHARDS + 1)
        /\ sweeper.removed + Cardinality(Dropped) \in Nat
    BY <1>1, <1>5, <1>6
  <2>3. sweeper' \in [pc : {"asleep", "sweeping"}, now : Nat, next : 1..(NUM_SHARDS + 1),
                      removed : Nat, wake : Nat]
    BY <1>1, <1>6, <2>2
  <2> QED  BY <2>1, <2>3, <1>1 DEF LimiterInv, LimiterTypeOK
<1>8. Remembered' /\ SweepsInTime'
  BY <1>1, <1>3, <1>6 DEF LimiterInv, Remembered, SweepsInTime
<1>9. SourcesCounted'
  <2>1. sweeper'.removed = sweeper.removed + Cardinality(Dropped)
    BY <1>1, <1>6
  <2> QED  BY <2>1, <1>1, <1>5, <1>6 DEF LimiterInv, SourcesCounted
<1> QED  BY <1>7, <1>8, <1>9 DEF LimiterInv

\* Each step of the limiter.
LEMMA LimiterKeeps == LimiterInv /\ [LimiterNext]_limiterVars => LimiterInv'
<1> SUFFICES ASSUME LimiterInv, [LimiterNext]_limiterVars PROVE LimiterInv'
  OBVIOUS
<1>0. /\ clock \in Nat /\ active \in Nat /\ MAX_RATE_LIMIT_SOURCES \in Nat
      /\ NUM_SHARDS \in Nat \ {0} /\ CleanupInterval \in Nat
      /\ sweeper \in [pc : {"asleep", "sweeping"}, now : Nat, next : 1..(NUM_SHARDS + 1),
                      removed : Nat, wake : Nat]
  BY LimiterAssumption DEF LimiterInv, LimiterTypeOK
<1>1. ASSUME NEW s \in Sources, Admit(s) \/ Refuse(s) PROVE LimiterInv'
  BY <1>1, AdmitKeeps, RefuseKeeps
<1>2. CASE Wakes
  <2>1. /\ clock' = clock /\ history' = history /\ active' = active /\ accepted' = accepted
        /\ sweeper'.removed = sweeper.removed /\ sweeper'.now = clock
        /\ sweeper' \in [pc : {"asleep", "sweeping"}, now : Nat, next : 1..(NUM_SHARDS + 1),
                         removed : Nat, wake : Nat]
    BY <1>0, <1>2 DEF Wakes
  <2>2. LimiterTypeOK' /\ Remembered'
    BY <2>1 DEF LimiterInv, LimiterTypeOK, Remembered
  <2>3. SweepsInTime' /\ SourcesCounted'
    BY <1>0, <2>1 DEF LimiterInv, SweepsInTime, SourcesCounted, Tracked
  <2> QED  BY <2>2, <2>3 DEF LimiterInv
<1>3. CASE SweepsShard
  BY <1>3, SweepsShardKeeps
<1>4. CASE SweepEnds
  <2>1. Cardinality(Tracked) \in Nat /\ Tracked' = Tracked
    BY <1>4, FiniteTracked DEF SweepEnds, Tracked
  <2>2. active' = Cardinality(Tracked) /\ active' <= MAX_RATE_LIMIT_SOURCES
    BY <1>0, <1>4, <2>1 DEF SweepEnds, LimiterInv, SourcesCounted
  <2>3. /\ sweeper'.removed = 0 /\ sweeper'.now = 0
        /\ sweeper' \in [pc : {"asleep", "sweeping"}, now : Nat, next : 1..(NUM_SHARDS + 1),
                         removed : Nat, wake : Nat]
    BY <1>0, <1>4 DEF SweepEnds, Asleep
  <2>4. LimiterTypeOK' /\ Remembered'
    BY <1>4, <2>1, <2>2, <2>3 DEF SweepEnds, LimiterInv, LimiterTypeOK, Remembered
  <2>5. SweepsInTime' /\ SourcesCounted'
    BY <1>0, <1>4, <2>1, <2>2, <2>3 DEF SweepEnds, SweepsInTime, SourcesCounted
  <2> QED  BY <2>4, <2>5 DEF LimiterInv
<1>5. CASE LimiterTick
  <2>1. /\ clock' = clock + 1 /\ history' = history /\ active' = active /\ sweeper' = sweeper
        /\ accepted' = accepted
    BY <1>5 DEF LimiterTick
  <2>2. ASSUME NEW s \in Sources
        PROVE  /\ Ordered(accepted[s], clock + 1) /\ Spaced(accepted[s])
               /\ EndOf(history[s], accepted[s], clock + 1)
    <3>1. /\ accepted[s] \in Seq(Nat) /\ EndOf(history[s], accepted[s], clock)
          /\ Ordered(accepted[s], clock) /\ Spaced(accepted[s])
      BY DEF LimiterInv, LimiterTypeOK, Remembered
    <3>2. \A i \in DOMAIN accepted[s] : accepted[s][i] \in Nat
      BY <3>1
    <3>3. Ordered(accepted[s], clock + 1)
      BY <1>0, <3>1, <3>2 DEF Ordered
    <3> QED  BY <1>0, <3>1, <3>3, EndStays
  <2>3. Remembered'
    BY <2>1, <2>2 DEF Remembered
  <2> QED  BY <1>0, <2>1, <2>3 DEF LimiterInv, LimiterTypeOK, SweepsInTime, SourcesCounted, Tracked
<1>6. CASE Renewed
  <2>1. /\ clock' = clock /\ active' = 0 /\ sweeper' = Asleep(clock + CleanupInterval)
        /\ \A s \in Sources : history'[s] = <<>> /\ accepted'[s] = <<>>
        /\ history' \in [Sources -> Seq(Nat)] /\ accepted' \in [Sources -> Seq(Nat)]
    BY <1>6 DEF Renewed
  <2>2. Remembered'
    <3>1. SubSeq(<<>>, 0 + 1, Len(<<>>)) = <<>> /\ 0 \in 0..Len(<<>>)
      OBVIOUS
    <3>2. EndOf(<<>>, <<>>, clock)
      BY <3>1 DEF EndOf
    <3>3. Ordered(<<>>, clock) /\ Spaced(<<>>)
      BY DEF Ordered, Spaced
    <3> QED  BY <2>1, <3>2, <3>3 DEF Remembered
  <2>3. Tracked' = {}
    BY <2>1 DEF Tracked
  <2>4. SweepsInTime' /\ SourcesCounted'
    BY <1>0, <2>1, <2>3, FS_EmptySet DEF SweepsInTime, SourcesCounted, Asleep
  <2>5. LimiterTypeOK'
    BY <1>0, <2>1 DEF LimiterTypeOK, Asleep
  <2> QED  BY <2>2, <2>4, <2>5 DEF LimiterInv
<1>7. CASE UNCHANGED limiterVars
  BY <1>7 DEF limiterVars, LimiterInv, LimiterTypeOK, Remembered, SweepsInTime, SourcesCounted,
              Tracked
<1> QED  BY <1>1, <1>2, <1>3, <1>4, <1>5, <1>6, <1>7 DEF LimiterNext, Sweeper

\* Requests MaxRequests apart are a window apart: no window holds more.
LEMMA LimiterImplies == LimiterInv => RateHonoured
<1> SUFFICES ASSUME LimiterInv PROVE RateHonoured
  OBVIOUS
<1>1. Cardinality(Tracked) \in Nat
  BY FiniteTracked DEF Tracked
<1>2. Cardinality(Tracked) <= MAX_RATE_LIMIT_SOURCES
  BY <1>1, LimiterAssumption DEF LimiterInv, LimiterTypeOK, SourcesCounted
<1> QED  BY <1>2 DEF LimiterInv, Remembered, Spaced, RateHonoured

-----------------------------------------------------------------------------
\* Every reachable state of the limiter has its type: the counter of the sources does not
\* go below zero, though the sweep takes off it what it removed long before
\* (defense.rs:143).
THEOREM RateLimiterKeepsTypes == LimiterSpec => []LimiterTypeOK
<1>1. LimiterInv => LimiterTypeOK
  BY DEF LimiterInv
<1> QED  BY <1>1, LimiterInitially, LimiterKeeps, PTL DEF LimiterSpec

\* However requests, expiry and sweeps alternate, no source gets more than its requests
\* through in a window, and no more sources are kept than allowed (defense.rs:168).
THEOREM RateLimiterHonoured == LimiterSpec => []RateHonoured
<1> QED  BY LimiterImplies, LimiterInitially, LimiterKeeps, PTL DEF LimiterSpec

\* So does the API, which puts the limiter before its routes and loses it with the
\* process (api.rs:141).
THEOREM ApiRateHonoured == ApiSpec => []RateHonoured
<1>1. ApiInit => LimiterInv
  BY LimiterInitially DEF ApiInit
<1>2. LimiterInv /\ [ApiNext]_apiVars => LimiterInv'
  <2> SUFFICES ASSUME LimiterInv, [ApiNext]_apiVars PROVE LimiterInv'
    OBVIOUS
  <2>1. [LimiterNext]_limiterVars
    <3>1. CASE UNCHANGED apiVars
      BY <3>1 DEF apiVars
    <3>2. ASSUME NEW s \in Sources, Requested(s) \/ TooMany(s) PROVE LimiterNext
      BY <3>2 DEF Requested, TooMany, LimiterNext
    <3>3. CASE IF Ends THEN Renewed ELSE UNCHANGED limiterVars
      BY <3>3 DEF LimiterNext
    <3>4. CASE Sweeper \/ LimiterTick
      BY <3>4 DEF LimiterNext
    <3> QED  BY <3>1, <3>2, <3>3, <3>4 DEF ApiNext
  <2> QED  BY <2>1, LimiterKeeps
<1> QED  BY <1>1, <1>2, LimiterImplies, PTL DEF ApiSpec

-----------------------------------------------------------------------------
\* A save goes on only while the one who asked for it waits for it.
Waiting ==
  /\ DOMAIN saves = Savers
  /\ \A s \in Savers : DOMAIN saves[s] = {"pc", "epas", "prov", "at"}
  /\ DOMAIN task = {"pc", "id"}
  /\ saves["task"].pc # "idle" => task.pc = "saving"
  /\ saves["main"].pc # "idle" => main.pc \in {"firstSave", "lastSave"}

\* As long as no two saves met, the one that writes has the temporary file to itself.
InHand == {"fill", "rename"}
Alone ==
  ~overlapped =>
    /\ file.kind \in {"absent", "whole"}
    /\ \A s \in Savers :
         /\ saves[s].pc = "fill" => saves[s].at = "tmp" /\ tmp = Empty
         /\ saves[s].pc = "rename" => tmp.kind = "whole"
    /\ \A s, o \in Savers : s # o => saves[s].pc \notin InHand \/ saves[o].pc \notin InHand

RecordsInv == Waiting /\ Alone /\ RepFollows

\* The steps that touch neither a save nor a file, nor a reputation that is in use.
LEMMA ElsewhereKeeps ==
  ASSUME RecordsInv, UNCHANGED <<saves, task, main, tmp, file, overlapped, repVars>>
  PROVE  RecordsInv'
BY DEF RecordsInv, Waiting, Alone, RepFollows, repVars, Up

\* At first nothing is being saved.
LEMMA RecordsInitially == RecordsInit => RecordsInv
<1> SUFFICES ASSUME RecordsInit PROVE RecordsInv
  OBVIOUS
<1>1. Waiting
  BY DEF RecordsInit, Waiting, NoTask, NoSave, Savers
<1>2. file.kind \in {"absent", "whole"}
  BY DEF RecordsInit, FirstFile, Content, Absent
<1>3. Alone
  BY <1>2 DEF RecordsInit, Alone, NoSave, Savers, InHand
<1>4. RepFollows
  BY DEF RecordsInit, RepFollows
<1> QED  BY <1>1, <1>3, <1>4 DEF RecordsInv

-----------------------------------------------------------------------------
\* A save: it reads, opens the temporary file, fills it and renames it.
LEMMA ReadingKeeps ==
  ASSUME RecordsInv, NEW s \in Savers, Reads(s) \/ ReadsProv(s)
  PROVE  RecordsInv'
<1>1. /\ UNCHANGED <<task, main, tmp, file, overlapped, repVars>>
      /\ saves[s].pc \in {"readEpas", "readProv"} /\ saves[s].pc # "idle"
      /\ saves'[s].pc \in {"readProv", "open"}
      /\ DOMAIN saves' = Savers /\ DOMAIN saves'[s] = {"pc", "epas", "prov", "at"}
      /\ \A o \in Savers \ {s} : saves'[o] = saves[o]
  BY DEF Reads, ReadsProv, RecordsInv, Waiting
<1>2. Waiting'
  BY <1>1 DEF RecordsInv, Waiting, Savers
<1>3. Alone'
  BY <1>1 DEF RecordsInv, Alone, InHand
<1>4. RepFollows'
  BY <1>1 DEF RecordsInv, RepFollows, repVars, Up
<1> QED  BY <1>2, <1>3, <1>4 DEF RecordsInv

\* Two that write at once are noted when the second opens the file.
LEMMA OpensKeeps ==
  ASSUME RecordsInv, NEW s \in Savers, Opens(s)
  PROVE  RecordsInv'
<1>1. /\ UNCHANGED <<task, main, file, repVars>>
      /\ saves[s].pc = "open" /\ tmp' = Empty
      /\ saves'[s].pc = "fill" /\ saves'[s].at = "tmp"
      /\ DOMAIN saves' = Savers /\ DOMAIN saves'[s] = {"pc", "epas", "prov", "at"}
      /\ \A o \in Savers \ {s} : saves'[o] = saves[o]
      /\ overlapped' = (overlapped \/ \E o \in Savers \ {s} : saves[o].pc \in InHand)
  BY DEF Opens, RecordsInv, Waiting, InHand
<1>2. Waiting'
  BY <1>1 DEF RecordsInv, Waiting, Savers
<1>3. Alone'
  <2>1. SUFFICES ASSUME ~overlapped, ~overlapped' PROVE Alone'
    BY <1>1 DEF Alone
  <2>2. /\ file'.kind \in {"absent", "whole"}
        /\ \A o \in Savers \ {s} : saves[o].pc \notin InHand
    BY <1>1, <2>1 DEF RecordsInv, Alone
  <2> QED  BY <1>1, <2>1, <2>2 DEF RecordsInv, Alone, InHand
<1>4. RepFollows'
  BY <1>1 DEF RecordsInv, RepFollows, repVars, Up
<1> QED  BY <1>2, <1>3, <1>4 DEF RecordsInv

\* Without another save, the temporary file is filled as meant.
LEMMA FillsKeeps ==
  ASSUME RecordsInv, NEW s \in Savers, Fills(s)
  PROVE  RecordsInv'
<1> DEFINE own == Content(saves[s].epas, saves[s].prov)
<1>1. /\ UNCHANGED <<task, main, overlapped, repVars>>
      /\ saves[s].pc = "fill" /\ saves'[s].pc = "rename"
      /\ DOMAIN saves' = Savers /\ DOMAIN saves'[s] = {"pc", "epas", "prov", "at"}
      /\ \A o \in Savers \ {s} : saves'[o] = saves[o]
  BY DEF Fills, RecordsInv, Waiting
<1>2. Waiting'
  BY <1>1 DEF RecordsInv, Waiting, Savers
<1>3. Alone'
  <2>1. SUFFICES ASSUME ~overlapped PROVE Alone'
    BY <1>1 DEF Alone
  <2>2. saves[s].at = "tmp" /\ tmp = Empty
    BY <1>1, <2>1 DEF RecordsInv, Alone
  <2>3. tmp' = own /\ file' = file
    BY <2>2 DEF Fills, Written
  <2>4. tmp'.kind = "whole"
    BY <2>3 DEF Content
  <2>5. \A o \in Savers \ {s} : saves[o].pc \notin InHand
    BY <1>1, <2>1 DEF RecordsInv, Alone, InHand
  <2> QED  BY <1>1, <2>1, <2>3, <2>4, <2>5 DEF RecordsInv, Alone, InHand
<1>4. RepFollows'
  BY <1>1 DEF RecordsInv, RepFollows, repVars, Up
<1> QED  BY <1>2, <1>3, <1>4 DEF RecordsInv

\* Without another save, what is renamed is whole.
LEMMA RenamesKeeps ==
  ASSUME RecordsInv, NEW s \in Savers, Renames(s)
  PROVE  RecordsInv'
<1>1. /\ UNCHANGED <<overlapped, repVars>>
      /\ saves[s].pc = "rename" /\ saves'[s] = NoSave
      /\ DOMAIN saves' = Savers
      /\ \A o \in Savers \ {s} : /\ saves'[o].pc = saves[o].pc
                                  /\ DOMAIN saves'[o] = {"pc", "epas", "prov", "at"}
  BY DEF Renames, RecordsInv, Waiting
<1>2. /\ s = "task" => task' = NoTask /\ main' = main /\ task.pc = "saving"
      /\ s = "main" => /\ task' = task /\ main' \in {At("running"), At("checkpoint")}
                       /\ main.pc \in {"firstSave", "lastSave"}
  <2>1. CASE s = "task"
    <3>1. saves["task"].pc = "rename"
      BY <1>1, <2>1
    <3>2. task' = NoTask /\ main' = main
      BY <2>1 DEF Renames
    <3> QED  BY <2>1, <3>1, <3>2 DEF RecordsInv, Waiting
  <2>2. CASE s = "main"
    <3>1. saves["main"].pc = "rename"
      BY <1>1, <2>2
    <3>2. task' = task /\ main' \in {At("running"), At("checkpoint")}
      BY <2>2 DEF Renames
    <3> QED  BY <2>2, <3>1, <3>2 DEF RecordsInv, Waiting
  <2> QED  BY <2>1, <2>2 DEF Savers
<1>3. Waiting'
  BY <1>1, <1>2 DEF RecordsInv, Waiting, Savers, NoSave, NoTask
<1>4. Alone'
  <2>1. SUFFICES ASSUME ~overlapped PROVE Alone'
    BY <1>1 DEF Alone
  <2>2. tmp.kind = "whole" /\ \A o \in Savers \ {s} : saves[o].pc \notin InHand
    BY <1>1, <2>1 DEF RecordsInv, Alone, InHand
  <2>3. tmp # Absent
    BY <2>2 DEF Absent
  <2>4. file' = tmp
    BY <2>3 DEF Renames
  <2> QED  BY <1>1, <2>1, <2>2, <2>4 DEF Alone, InHand, NoSave
<1>5. RepFollows'
  <2>1. Up' => Up
    BY DEF Renames
  <2> QED  BY <1>1, <1>2, <2>1 DEF RecordsInv, RepFollows, repVars, At, Savers, NoTask
<1> QED  BY <1>3, <1>4, <1>5 DEF RecordsInv

-----------------------------------------------------------------------------
\* The task of the listener.
LEMMA TaskKeeps ==
  ASSUME RecordsInv, Task \/ \E id \in Ids : EpaMessage(id)
  PROVE  RecordsInv'
<1>1. UNCHANGED <<main, tmp, file, overlapped>> /\ Up
  BY DEF Task, RecordsOutcome, FillsReputation, TaskPushes, EpaMessage, fileVars
<1>2. CASE RecordsOutcome
  <2>1. /\ saves' = saves /\ task.pc \in {"success", "failure"}
        /\ task'.pc \in {"fillPush", "fillEnd"} /\ DOMAIN task' = {"pc", "id"}
    BY <1>2 DEF RecordsOutcome, RecordsInv, Waiting, fileVars
  <2> QED  BY <1>1, <2>1 DEF RecordsInv, Waiting, Alone, RepFollows
<1>3. CASE FillsReputation
  <2>1. /\ saves' = saves /\ task.pc \in {"fillPush", "fillEnd"}
        /\ DOMAIN task' = {"pc", "id"}
        /\ repFile' = reputation /\ reputation' = reputation
    BY <1>3 DEF FillsReputation, RecordsInv, Waiting, fileVars, NoTask
  <2> QED  BY <1>1, <2>1 DEF RecordsInv, Waiting, Alone, RepFollows
<1>4. CASE TaskPushes
  <2>1. /\ task.pc = "push" /\ task' = [pc |-> "saving", id |-> 0]
        /\ DOMAIN saves' = Savers /\ saves'["task"].pc = "readEpas"
        /\ DOMAIN saves'["task"] = {"pc", "epas", "prov", "at"}
        /\ \A o \in Savers \ {"task"} : saves'[o] = saves[o]
        /\ UNCHANGED repVars
    BY <1>4 DEF TaskPushes, StartSave, RecordsInv, Waiting, Savers
  <2>2. Waiting'
    BY <1>1, <2>1 DEF RecordsInv, Waiting, Savers
  <2>3. Alone'
    BY <1>1, <2>1 DEF RecordsInv, Alone, InHand
  <2>4. RepFollows'
    BY <1>1, <2>1 DEF RecordsInv, RepFollows, repVars
  <2> QED  BY <2>2, <2>3, <2>4 DEF RecordsInv
<1>5. CASE \E id \in Ids : EpaMessage(id)
  <2>1. /\ UNCHANGED <<saves, repVars>> /\ task = NoTask
        /\ DOMAIN task' = {"pc", "id"}
    BY <1>5 DEF EpaMessage, fileVars
  <2>2. saves["task"].pc = "idle"
    BY <2>1 DEF RecordsInv, Waiting, NoTask
  <2>3. task.pc \notin {"fillPush", "fillEnd"}
    BY <2>1 DEF NoTask
  <2> QED  BY <1>1, <2>1, <2>2, <2>3 DEF RecordsInv, Waiting, Alone, RepFollows, repVars
<1> QED  BY <1>2, <1>3, <1>4, <1>5 DEF Task

\* A rule of the monitor.
LEMMA RuleKeeps ==
  ASSUME RecordsInv, NEW n \in Range(NodeOf), RuleAdjusts(n)
  PROVE  RecordsInv'
BY DEF RuleAdjusts, RecordsInv, Waiting, Alone, RepFollows, fileVars

-----------------------------------------------------------------------------
\* main: the pipeline, and the way down; then nothing of the process is left.
LEMMA GoneKeeps ==
  ASSUME RecordsInv, Gone, UNCHANGED <<tmp, file, overlapped>>
  PROVE  RecordsInv'
<1>1. ~Up'
  BY DEF Gone, Up, At
<1> QED  BY <1>1 DEF Gone, RecordsInv, Waiting, Alone, RepFollows, NoSave, NoTask, InHand,
                     Savers

\* Each step of main.
LEMMA MainKeeps ==
  ASSUME RecordsInv, Main
  PROVE  RecordsInv'
<1>1. CASE PipelinePushes \/ WritesCheckpoint
  <2>1. /\ UNCHANGED <<saves, task, tmp, file, overlapped, repVars>>
        /\ main.pc \in {"push", "checkpoint"} /\ main'.pc \in {"index", "renameCheckpoint"}
    <3>1. CASE PipelinePushes
      BY <3>1 DEF PipelinePushes, fileVars
    <3>2. CASE WritesCheckpoint
      BY <3>2 DEF WritesCheckpoint, fileVars, At
    <3> QED  BY <1>1, <3>1, <3>2
  <2> QED  BY <2>1 DEF RecordsInv, Waiting, Alone, RepFollows, repVars, Up
<1>2. CASE PipelineIndexes \/ MainFillsReputation
  <2>1. /\ main.pc \in {"index", "repFill"} /\ main'.pc \in {"firstSave", "lastSave"}
        /\ UNCHANGED <<task, tmp, file, overlapped>>
        /\ DOMAIN saves' = Savers /\ saves'["main"].pc = "readEpas"
        /\ DOMAIN saves'["main"] = {"pc", "epas", "prov", "at"}
        /\ \A o \in Savers \ {"main"} : saves'[o] = saves[o]
    BY <1>2 DEF PipelineIndexes, MainFillsReputation, StartSave, RecordsInv, Waiting,
                Savers, At
  <2>2. Waiting'
    BY <2>1 DEF RecordsInv, Waiting, Savers
  <2>3. Alone'
    BY <2>1 DEF RecordsInv, Alone, InHand
  <2>4. RepFollows'
    <3>1. CASE PipelineIndexes
      BY <2>1, <3>1 DEF PipelineIndexes, RecordsInv, RepFollows, repVars, Up
    <3>2. CASE MainFillsReputation
      BY <3>2 DEF MainFillsReputation, RepFollows
    <3> QED  BY <1>2, <3>1, <3>2
  <2> QED  BY <2>2, <2>3, <2>4 DEF RecordsInv
<1>3. CASE Interrupted
  <2>1. /\ UNCHANGED <<saves, task, tmp, file, overlapped>>
        /\ main.pc = "running" /\ main'.pc = "repFill"
    BY <1>3 DEF Interrupted, fileVars, At
  <2> QED  BY <2>1 DEF RecordsInv, Waiting, Alone, RepFollows
<1>4. CASE RenamesCheckpoint
  BY <1>4, GoneKeeps DEF RenamesCheckpoint
<1> QED  BY <1>1, <1>2, <1>3, <1>4 DEF Main

\* A start: what is read from the file is what the file holds, or nothing.
LEMMA StartKeeps ==
  ASSUME RecordsInv, Start \/ Generates \/ FillsIdentity
  PROVE  RecordsInv'
<1>1. /\ UNCHANGED <<saves, task, tmp, file, overlapped, repFile>>
      /\ main.pc \in {"down", "identityPlain", "identitySealed"}
  BY DEF Start, Generates, FillsIdentity, fileVars, repVars
<1>2. saves["main"].pc = "idle" /\ Waiting' /\ Alone'
  BY <1>1 DEF RecordsInv, Waiting, Alone
<1>3. CASE reputation' = LoadReputation(repFile)
  BY <1>1, <1>2, <1>3 DEF RecordsInv, RepFollows, LoadReputation
<1>4. CASE main'.pc \in {"down", "identityPlain", "identitySealed"}
  BY <1>2, <1>4 DEF RecordsInv, RepFollows, Up
<1> QED  BY <1>1, <1>3, <1>4 DEF Start, Generates, FillsIdentity, Started, At

\* Each step of the node.
LEMMA RecordsKeeps == RecordsInv /\ [RecordsNext]_recordsVars => RecordsInv'
<1> SUFFICES ASSUME RecordsInv, [RecordsNext]_recordsVars PROVE RecordsInv'
  OBVIOUS
<1>1. CASE \E s \in Savers : Saving(s)
  BY <1>1, ReadingKeeps, OpensKeeps, FillsKeeps, RenamesKeeps DEF Saving
<1>2. CASE Task \/ \E id \in Ids : EpaMessage(id)
  BY <1>2, TaskKeeps
<1>3. CASE Main
  BY <1>3, MainKeeps
<1>4. CASE Crash
  BY <1>4, GoneKeeps DEF Crash
<1>5. CASE Start \/ Generates \/ FillsIdentity
  BY <1>5, StartKeeps
<1>6. CASE \E n \in Range(NodeOf) : RuleAdjusts(n)
  BY <1>6, RuleKeeps
<1>7. CASE Discover \/ ReceiveEncryptedEpa \/ \E id \in Ids : ReceiveEpa(id)
  BY <1>7, ElsewhereKeeps DEF Discover, ReceiveEncryptedEpa, ReceiveEpa, fileVars
<1>8. CASE \E h \in Handlers : AskAnonymize(h) \/ AskRevoke(h) \/ Serving(h)
  BY <1>8, ElsewhereKeeps DEF AskAnonymize, AskRevoke, Asked, Serving, Erases, Blinds, Tells,
     Reindexes, Revokes, fileVars
<1>9. CASE UNCHANGED recordsVars
  BY <1>9, ElsewhereKeeps DEF recordsVars, fileVars
<1> QED  BY <1>1, <1>2, <1>3, <1>4, <1>5, <1>6, <1>7, <1>8, <1>9 DEF RecordsNext

-----------------------------------------------------------------------------
\* save_network_state(), for any number of records and of crashes at any step: unless two
\* saves met in the temporary file, network.json is whole or not there.
THEOREM RecordsFileWhole == RecordsSpec => []FileWhole
<1>1. RecordsInv => FileWhole
  BY DEF RecordsInv, Alone, FileWhole
<1> QED  BY <1>1, RecordsInitially, RecordsKeeps, PTL DEF RecordsSpec

\* ReputationStore::save(), for any nodes, limits and orders of the listener, the monitor
\* and main: but for the named exceptions the file follows the memory.
THEOREM RecordsReputationFollows == RecordsSpec => []RepFollows
<1>1. RecordsInv => RepFollows
  BY DEF RecordsInv
<1> QED  BY <1>1, RecordsInitially, RecordsKeeps, PTL DEF RecordsSpec

-----------------------------------------------------------------------------
Links == {<<>>} \union [Children -> [id : Ids, blinded : BOOLEAN]]

\* What is linked, in memory, in a save and in the files; and the requests.
LinksTyped ==
  /\ prov \in Links /\ file.prov \in Links /\ tmp.prov \in Links
  /\ \A s \in Savers : saves[s].prov \in Links
  /\ DOMAIN handlers = Handlers
  /\ \A h \in Handlers : DOMAIN handlers[h] = {"pc", "refs", "done"}

\* The index follows the links, and what was stripped since the start is linked to
\* under another key, or about to be.
BlindTo(id) == \A c \in DOMAIN prov : prov[c].id = id => prov[c].blinded
AboutToBlind(id) == \E h \in Handlers : handlers[h].pc = "blind" /\ id \in Originals(h)
LinksFollow ==
  /\ deriv = BuildDerivation(prov)
  /\ ~Up => erased = {}
  /\ \A id \in erased : BlindTo(id) \/ AboutToBlind(id)

\* The rules in use and those on disk are the same, as far as a text can tell.
AnyRule == [kind : {"legacy", "block"}, escapes : Nat]
Known == IF fresh THEN {} ELSE Plain(ToRules(Rules))
RulesFollow ==
  /\ rules \subseteq AnyRule /\ checkpoint \subseteq AnyRule
  /\ Plain(ToRules(checkpoint)) = Known
  /\ Up => Plain(rules) = Known /\ \A r \in rules : r.kind # "block"

\* No node has been but the one whose keys, all of them, are in the file.
Kept == IF identity.kind = "whole" /\ DOMAIN identity.keys = KeyPairs
        THEN {identity.keys} ELSE {}
OneNode ==
  /\ been \subseteq Kept
  /\ identity.kind = "whole" =>
       /\ identity.keys = [k \in DOMAIN identity.keys |-> identity.keys[k]]
       /\ DOMAIN identity.keys \in {KeyPairs, KeyPairs \ {"ml_kem"}}
  /\ main.pc \in {"identityPlain", "identitySealed"} => identity.kind = "empty"

\* Most steps leave the links, the requests and what was erased alone.
LEMMA LinksElsewhere ==
  ASSUME RecordsInv, LinksTyped, LinksFollow,
         UNCHANGED <<prov, deriv, erased, handlers, tmp, file>>, Up',
         \/ saves' = saves
         \/ \E s \in Savers : StartSave(s)
         \/ \E s \in Savers : Reads(s) \/ ReadsProv(s)
  PROVE  LinksTyped' /\ LinksFollow'
<1>1. \A s \in Savers : saves'[s].prov \in Links
  <2>1. DOMAIN saves = Savers
        /\ \A s \in Savers : DOMAIN saves[s] = {"pc", "epas", "prov", "at"}
    BY DEF RecordsInv, Waiting
  <2>2. \A s \in Savers : saves'[s].prov \in {saves[s].prov, prov}
    <3>1. ASSUME NEW o \in Savers, StartSave(o) \/ Reads(o) \/ ReadsProv(o)
          PROVE  /\ saves'[o].prov \in {saves[o].prov, prov}
                 /\ \A s \in Savers \ {o} : saves'[s] = saves[s]
      BY <2>1, <3>1 DEF StartSave, Reads, ReadsProv
    <3>. QED
      BY <3>1
  <2>. QED
    BY <2>2 DEF LinksTyped
<1>2. LinksTyped'
  BY <1>1 DEF LinksTyped
<1>3. /\ \A id : BlindTo(id)' <=> BlindTo(id)
      /\ \A id : AboutToBlind(id)' <=> AboutToBlind(id)
  BY DEF BlindTo, AboutToBlind, Originals
<1>4. LinksFollow'
  BY <1>3 DEF LinksFollow
<1>. QED
  BY <1>2, <1>4

\* A save moves links from memory to the files.
LEMMA LinksSaved ==
  ASSUME RecordsInv, LinksTyped, LinksFollow,
         NEW s \in Savers, Opens(s) \/ Fills(s) \/ Renames(s)
  PROVE  LinksTyped' /\ LinksFollow'
<1>1. UNCHANGED <<prov, deriv, erased, handlers>> /\ Up'
  BY DEF Opens, Fills, Renames, storeVars, Up, At
<1>2. <<>> \in Links /\ Empty.prov = <<>> /\ Absent.prov = <<>> /\ Torn.prov = <<>>
      /\ NoSave.prov = <<>>
  BY DEF Links, Empty, Absent, Torn, NoSave
<1>3. DOMAIN saves = Savers
      /\ \A o \in Savers : DOMAIN saves[o] = {"pc", "epas", "prov", "at"}
  BY DEF RecordsInv, Waiting
<1>4. saves[s].prov \in Links /\ file.prov \in Links /\ tmp.prov \in Links
      /\ \A o \in Savers : saves[o].prov \in Links
  BY DEF LinksTyped
<1>5. /\ file'.prov \in Links /\ tmp'.prov \in Links
      /\ \A o \in Savers : saves'[o].prov \in Links
  <2>1. CASE Opens(s)
    BY <1>2, <1>3, <1>4, <2>1 DEF Opens
  <2>2. CASE Fills(s)
    <3> DEFINE own == Content(saves[s].epas, saves[s].prov)
    <3>1. own.prov \in Links
      BY <1>4 DEF Content
    <3>2. \A old : Written(own, old) \subseteq {own, Torn}
      BY DEF Written
    <3> HIDE DEF own
    <3>3. file' \in {own, Torn, file} /\ tmp' \in {own, Torn, tmp}
      BY <2>2, <3>2 DEF Fills, own
    <3>4. \A o \in Savers : saves'[o].prov \in {saves[o].prov, <<>>}
      BY <1>3, <2>2 DEF Fills
    <3>. QED
      BY <1>2, <1>4, <3>1, <3>3, <3>4
  <2>3. CASE Renames(s)
    <3>1. file' \in {file, tmp} /\ tmp' \in {tmp, Absent}
      BY <2>3 DEF Renames
    <3>2. \A o \in Savers : saves'[o].prov \in {saves[o].prov, <<>>}
      BY <1>2, <1>3, <2>3 DEF Renames
    <3>. QED
      BY <1>2, <1>4, <3>1, <3>2
  <2>. QED
    BY <2>1, <2>2, <2>3
<1>6. LinksTyped'
  BY <1>1, <1>5 DEF LinksTyped
<1>7. /\ \A id : BlindTo(id)' <=> BlindTo(id)
      /\ \A id : AboutToBlind(id)' <=> AboutToBlind(id)
  BY <1>1 DEF BlindTo, AboutToBlind, Originals
<1>8. LinksFollow'
  BY <1>1, <1>7 DEF LinksFollow
<1>. QED
  BY <1>6, <1>8

\* The requests of the data subject.
LEMMA LinksServed ==
  ASSUME LinksTyped, LinksFollow, NEW h \in Handlers,
         AskAnonymize(h) \/ AskRevoke(h) \/ Serving(h)
  PROVE  LinksTyped' /\ LinksFollow'
<1>1. /\ UNCHANGED <<saves, tmp, file, main>> /\ Up
  BY DEF AskAnonymize, AskRevoke, Asked, Serving, Erases, Blinds, Tells,
     Reindexes, Revokes, fileVars
<1>2. /\ DOMAIN handlers = Handlers
      /\ \A g \in Handlers : DOMAIN handlers[g] = {"pc", "refs", "done"}
  BY DEF LinksTyped
<1>3. /\ DOMAIN handlers' = Handlers
      /\ DOMAIN handlers'[h] = {"pc", "refs", "done"}
      /\ \A g \in Handlers \ {h} : handlers'[g] = handlers[g]
  BY <1>2 DEF AskAnonymize, AskRevoke, Asked, Serving, Erases, Blinds, Tells,
     Reindexes, Revokes, Idle
<1>4. \A g \in Handlers \ {h} : Originals(g)' = Originals(g)
  BY <1>3 DEF Originals
<1>5. ASSUME prov' = prov
      PROVE  LinksTyped'
  BY <1>1, <1>2, <1>3, <1>5 DEF LinksTyped
<1>6. ASSUME UNCHANGED <<prov, deriv, erased>>, handlers[h].pc # "blind"
      PROVE  LinksFollow'
  <2>1. ASSUME NEW id \in erased, AboutToBlind(id) PROVE AboutToBlind(id)'
    BY <1>3, <1>4, <1>6, <2>1 DEF AboutToBlind
  <2>. QED
    BY <1>1, <1>6, <2>1 DEF LinksFollow, BlindTo, Up
<1>7. CASE AskAnonymize(h) \/ AskRevoke(h) \/ Tells(h) \/ Reindexes(h) \/ Revokes(h)
  <2>1. UNCHANGED <<prov, deriv, erased>> /\ handlers[h].pc # "blind"
    BY <1>7 DEF AskAnonymize, AskRevoke, Asked, Tells, Reindexes, Revokes, Idle,
       storeVars
  <2>. QED
    BY <1>5, <1>6, <2>1
<1>8. CASE Erases(h)
  <2>1. /\ UNCHANGED <<prov, deriv>> /\ handlers[h].pc = "erase"
        /\ handlers'[h].pc = "blind"
        /\ erased' = erased \union Originals(h)'
    BY <1>2, <1>8 DEF Erases, Originals
  <2>2. ASSUME NEW id \in erased, AboutToBlind(id) PROVE AboutToBlind(id)'
    BY <1>3, <1>4, <2>1, <2>2 DEF AboutToBlind
  <2>3. ASSUME NEW id \in Originals(h)' PROVE AboutToBlind(id)'
    BY <2>1, <2>3 DEF AboutToBlind
  <2>4. \A id \in erased' : BlindTo(id)' \/ AboutToBlind(id)'
    BY <2>1, <2>2, <2>3 DEF LinksFollow, BlindTo
  <2>5. deriv' = BuildDerivation(prov')
    BY <2>1 DEF LinksFollow
  <2>. QED
    BY <1>1, <1>5, <2>1, <2>4, <2>5 DEF LinksFollow, Up
<1>9. CASE Blinds(h)
  <2>1. /\ prov' = Blind(prov, Originals(h)) /\ erased' = erased
        /\ deriv' = IF Originals(h) = {} THEN deriv ELSE BuildDerivation(prov')
        /\ handlers'[h].pc = "tell"
    BY <1>2, <1>9 DEF Blinds
  <2>2. /\ prov' \in Links /\ DOMAIN prov' = DOMAIN prov
        /\ \A c \in DOMAIN prov :
             /\ prov'[c].id = prov[c].id
             /\ prov[c].blinded \/ prov[c].id \in Originals(h) => prov'[c].blinded
    <3>1. CASE prov = <<>>
      BY <2>1, <3>1 DEF Blind, Links
    <3>2. CASE prov \in [Children -> [id : Ids, blinded : BOOLEAN]]
      BY <2>1, <3>2 DEF Blind, Links
    <3>. QED
      BY <3>1, <3>2 DEF LinksTyped, Links
  <2>3. deriv' = BuildDerivation(prov')
    <3>1. CASE Originals(h) = {}
      <4>1. prov' = [c \in DOMAIN prov |-> prov[c]]
        BY <2>1, <3>1 DEF Blind
      <4>2. prov' = prov
        BY <4>1 DEF LinksTyped, Links
      <4>. QED
        BY <2>1, <3>1, <4>2 DEF LinksFollow
    <3>. QED
      BY <2>1, <3>1
  <2>4. ASSUME NEW id \in erased PROVE BlindTo(id)' \/ AboutToBlind(id)'
    <3>1. CASE BlindTo(id) \/ id \in Originals(h)
      BY <2>2, <3>1 DEF BlindTo
    <3>2. CASE \E g \in Handlers \ {h} : handlers[g].pc = "blind" /\ id \in Originals(g)
      BY <1>3, <1>4, <3>2 DEF AboutToBlind
    <3>. QED
      BY <3>1, <3>2 DEF LinksFollow, AboutToBlind
  <2>5. LinksTyped'
    BY <1>1, <1>2, <1>3, <2>2 DEF LinksTyped
  <2>. QED
    BY <1>1, <2>1, <2>3, <2>4, <2>5 DEF LinksFollow, Up
<1>. QED
  BY <1>7, <1>8, <1>9 DEF Serving

\* A process ends or starts.
LEMMA LinksRestart ==
  ASSUME LinksTyped, LinksFollow, UNCHANGED <<tmp, file>>,
         \/ Gone
         \/ Start
         \/ Generates /\ ~Up'
         \/ FillsIdentity
  PROVE  LinksTyped' /\ LinksFollow'
<1>1. CASE Gone
  <2>1. /\ prov' = <<>> /\ deriv' = {} /\ erased' = {} /\ ~Up'
        /\ handlers' = [h \in Handlers |-> Idle]
        /\ saves' = [s \in Savers |-> NoSave]
    BY <1>1 DEF Gone, Up, At
  <2>2. LinksTyped'
    BY <2>1 DEF LinksTyped, Links, Idle, NoSave
  <2>3. BuildDerivation(<<>>) = {}
    BY DEF BuildDerivation
  <2>. QED
    BY <2>1, <2>2, <2>3 DEF LinksFollow
<1>2. CASE Start \/ Generates \/ FillsIdentity
  <2>1. UNCHANGED <<saves, handlers, erased>> /\ ~Up
    BY <1>2 DEF Start, Generates, FillsIdentity, fileVars, Up, storeVars
  <2>2. erased' = {}
    BY <2>1 DEF LinksFollow
  <2>3. \/ UNCHANGED <<prov, deriv>>
        \/ prov' = LoadedProv(file) /\ deriv' = BuildDerivation(LoadedProv(file))
    BY <1>2 DEF Start, Generates, FillsIdentity, Started, storeVars
  <2>4. LoadedProv(file) \in Links
    BY DEF LoadedProv, LinksTyped, Links
  <2>5. prov' \in Links /\ deriv' = BuildDerivation(prov')
    BY <2>3, <2>4 DEF LinksTyped, LinksFollow
  <2>6. LinksTyped'
    BY <2>1, <2>5 DEF LinksTyped
  <2>. QED
    BY <2>2, <2>5, <2>6 DEF LinksFollow
<1>. QED
  BY <1>1, <1>2

\* Each step keeps the derivation index in line with the links.
LEMMA LinksKeep ==
  ASSUME RecordsInv, LinksTyped, LinksFollow, [RecordsNext]_recordsVars
  PROVE  LinksTyped' /\ LinksFollow'
<1>1. CASE UNCHANGED recordsVars
  <2>1. UNCHANGED <<prov, deriv, erased, handlers, tmp, file, saves, main>>
    BY <1>1 DEF recordsVars, storeVars, fileVars
  <2>2. CASE Up
    BY <2>1, <2>2, LinksElsewhere DEF Up
  <2>3. CASE ~Up
    BY <2>1, <2>3 DEF LinksTyped, LinksFollow, Up
  <2>. QED
    BY <2>2, <2>3
<1>2. CASE \E s \in Savers : Saving(s)
  <2>1. ASSUME NEW s \in Savers, Reads(s) \/ ReadsProv(s)
        PROVE  LinksTyped' /\ LinksFollow'
    BY <2>1, LinksElsewhere DEF Reads, ReadsProv, storeVars, Up
  <2>. QED
    BY <1>2, <2>1, LinksSaved DEF Saving
<1>3. CASE \/ Task \/ Discover \/ ReceiveEncryptedEpa
           \/ \E n \in Range(NodeOf) : RuleAdjusts(n)
           \/ \E id \in Ids : ReceiveEpa(id) \/ EpaMessage(id)
  <2>1. /\ UNCHANGED <<prov, deriv, erased, handlers, tmp, file>> /\ Up'
        /\ saves' = saves \/ StartSave("task")
    BY <1>3 DEF Task, RecordsOutcome, FillsReputation, TaskPushes, Discover,
       ReceiveEncryptedEpa, RuleAdjusts, ReceiveEpa, EpaMessage, fileVars,
       storeVars, Up
  <2>. QED
    BY <2>1, LinksElsewhere DEF Savers
<1>4. CASE \/ PipelinePushes \/ PipelineIndexes \/ Interrupted
           \/ MainFillsReputation \/ WritesCheckpoint
  <2>1. /\ UNCHANGED <<prov, deriv, erased, handlers, tmp, file>>
        /\ saves' = saves \/ StartSave("main")
    BY <1>4 DEF PipelinePushes, PipelineIndexes, Interrupted,
       MainFillsReputation, WritesCheckpoint, fileVars, storeVars
  <2>2. PipelinePushes => main'.pc = "index"
    BY DEF PipelinePushes
  <2>3. Up'
    BY <1>4, <2>2 DEF PipelineIndexes, Interrupted, MainFillsReputation,
       WritesCheckpoint, Up, At
  <2>. QED
    BY <2>1, <2>3, LinksElsewhere DEF Savers
<1>5. CASE RenamesCheckpoint \/ Crash
  BY <1>5, LinksRestart DEF RenamesCheckpoint, Crash
<1>6. CASE Start \/ Generates \/ FillsIdentity
  <2>1. Generates => ~Up'
    BY DEF Generates, Up, At
  <2>2. UNCHANGED <<tmp, file>>
    BY <1>6 DEF Start, Generates, FillsIdentity, fileVars
  <2>. QED
    BY <1>6, <2>1, <2>2, LinksRestart
<1>7. CASE \E h \in Handlers : AskAnonymize(h) \/ AskRevoke(h) \/ Serving(h)
  BY <1>7, LinksServed
<1>. QED
  BY <1>1, <1>2, <1>3, <1>4, <1>5, <1>6, <1>7 DEF RecordsNext, Main

\* An index that follows the links has one entry for each.
LEMMA OneEntryEach ==
  ASSUME NEW links, IsFiniteSet(DOMAIN links)
  PROVE  Cardinality(BuildDerivation(links)) = Cardinality(DOMAIN links)
<1> DEFINE f == [c \in DOMAIN links |-> <<Key(links[c]), c>>]
<1>1. f \in Bijection(DOMAIN links, BuildDerivation(links))
  BY DEF Bijection, Injection, Surjection, IsInjective, BuildDerivation
<1>2. ExistsBijection(DOMAIN links, BuildDerivation(links))
  BY <1>1 DEF ExistsBijection
<1>. QED
  BY <1>2, FS_Bijection

\* What follows for a compliance report.
LEMMA LinksComply ==
  ASSUME LinksTyped, LinksFollow
  PROVE  ComplianceHolds
<1>1. IsFiniteSet(DOMAIN prov)
  BY RecordsAssumption, FS_EmptySet DEF LinksTyped, Links
<1>2. DerivationConsistent
  BY <1>1, OneEntryEach DEF LinksFollow, DerivationConsistent
<1>3. ASSUME NEW id, BlindTo(id) PROVE ClearChildren(id) = {}
  <2>1. \A c \in DOMAIN prov : Key(prov[c]) # <<id, FALSE>>
    BY <1>3 DEF BlindTo, Key
  <2>2. \A c \in DOMAIN prov : <<<<id, FALSE>>, c>> \notin deriv
    BY <2>1 DEF LinksFollow, BuildDerivation
  <2>3. \A c \in DOMAIN prov : prov[c] # [id |-> id, blinded |-> FALSE]
    BY <1>3 DEF BlindTo
  <2>. QED
    BY <2>2, <2>3 DEF ClearChildren, Key
<1>4. \A id \in erased : ClearChildren(id) = {} \/ AboutToBlind(id)
  BY <1>3 DEF LinksFollow
<1>. QED
  BY <1>2, <1>4 DEF ComplianceHolds, AboutToBlind

\* At first the index is made from the links, and nothing is erased.
LEMMA LinksInitially == RecordsInit => LinksTyped /\ LinksFollow
<1> SUFFICES ASSUME RecordsInit PROVE LinksTyped /\ LinksFollow
  OBVIOUS
<1>1. [c \in Children |-> [id |-> ParentOf[c], blinded |-> FALSE]] \in Links
  BY RecordsAssumption DEF Links
<1>2. file.prov \in Links /\ prov = file.prov /\ Absent.prov \in Links
  BY <1>1 DEF RecordsInit, FirstFile, Content, Absent, Links
<1>3. /\ tmp = Absent /\ saves = [s \in Savers |-> NoSave] /\ NoSave.prov \in Links
      /\ handlers = [h \in Handlers |-> Idle] /\ erased = {}
  BY DEF RecordsInit, NoSave, Links
<1>4. deriv = BuildDerivation(prov)
  BY DEF RecordsInit
<1>. QED
  BY <1>2, <1>3, <1>4 DEF LinksTyped, LinksFollow, Idle

-----------------------------------------------------------------------------
\* A text without an escape is written and read back as it was.
LEMMA PlainSurvives ==
  ASSUME NEW rs \in SUBSET AnyRule, \A r \in rs : r.kind # "block"
  PROVE  /\ Snapshot(rs) \subseteq AnyRule
         /\ Plain(ToRules(Snapshot(rs))) = Plain(rs)
<1>1. \A r \in rs :
        LET w == [r EXCEPT !.escapes = 2 * @]
        IN /\ w \in AnyRule /\ w.kind = r.kind
           /\ w.escapes = 0 <=> r.escapes = 0
           /\ r.escapes = 0 => w = r
  BY DEF AnyRule
<1>2. Snapshot(rs) \subseteq AnyRule
  BY <1>1 DEF Snapshot
<1>3. Plain(ToRules(Snapshot(rs))) \subseteq Plain(rs)
  BY <1>1 DEF Plain, ToRules, Snapshot
<1>4. Plain(rs) \subseteq Plain(ToRules(Snapshot(rs)))
  BY <1>1 DEF Plain, ToRules, Snapshot
<1>. QED
  BY <1>2, <1>3, <1>4

\* Each step keeps the rules and the identity; they change only when the process
\* starts or ends.
LEMMA RulesKeep ==
  ASSUME RulesFollow, OneNode, [RecordsNext]_recordsVars
  PROVE  RulesFollow' /\ OneNode'
<1>1. ASSUME UNCHANGED <<rules, checkpoint, identityVars>>, Up' => Up,
             main'.pc \notin {"identityPlain", "identitySealed"} \/ main' = main
      PROVE  RulesFollow' /\ OneNode'
  <2>1. RulesFollow'
    BY <1>1 DEF RulesFollow, Known, identityVars
  <2>2. OneNode'
    BY <1>1 DEF OneNode, Kept, identityVars
  <2>. QED
    BY <2>1, <2>2
<1>2. CASE UNCHANGED recordsVars
  BY <1>1, <1>2 DEF recordsVars, ruleVars, Up
<1>3. CASE \/ Task \/ Discover \/ ReceiveEncryptedEpa
           \/ \E n \in Range(NodeOf) : RuleAdjusts(n)
           \/ \E id \in Ids : ReceiveEpa(id) \/ EpaMessage(id)
           \/ \E h \in Handlers : AskAnonymize(h) \/ AskRevoke(h) \/ Serving(h)
  <2>1. UNCHANGED <<ruleVars, main>>
    BY <1>3 DEF Task, RecordsOutcome, FillsReputation, TaskPushes, Discover,
       ReceiveEncryptedEpa, RuleAdjusts, ReceiveEpa, EpaMessage, AskAnonymize,
       AskRevoke, Asked, Serving, Erases, Blinds, Tells, Reindexes, Revokes
  <2>. QED
    BY <1>1, <2>1 DEF Up, ruleVars
<1>4. CASE \E s \in Savers : Saving(s)
  <2>1. UNCHANGED ruleVars /\ Up /\ (main' = main \/ main'.pc \in {"running", "checkpoint"})
    BY <1>4 DEF Saving, Reads, ReadsProv, Opens, Fills, Renames, At
  <2>. QED
    BY <1>1, <2>1 DEF ruleVars
<1>5. CASE \/ PipelinePushes \/ PipelineIndexes \/ Interrupted
           \/ MainFillsReputation \/ WritesCheckpoint
  <2>1. PipelinePushes => main'.pc = "index" /\ main.pc = "push"
    BY DEF PipelinePushes
  <2>2. ~PipelinePushes =>
          /\ main'.pc \in {"firstSave", "repFill", "lastSave", "renameCheckpoint"}
          /\ main.pc \in {"index", "running", "repFill", "checkpoint"}
    BY <1>5 DEF PipelineIndexes, Interrupted, MainFillsReputation,
       WritesCheckpoint, At
  <2>3. main'.pc \notin {"identityPlain", "identitySealed"} /\ Up
    BY <2>1, <2>2 DEF Up
  <2>4. UNCHANGED <<rules, checkpoint, identityVars>>
    BY <1>5 DEF PipelinePushes, PipelineIndexes, Interrupted,
       MainFillsReputation, WritesCheckpoint, ruleVars
  <2>. QED
    BY <1>1, <2>3, <2>4
<1>6. CASE RenamesCheckpoint
  <2>1. /\ checkpoint' = Snapshot(rules) /\ rules' = {} /\ ~Up'
        /\ main'.pc = "down" /\ UNCHANGED identityVars /\ Up
    BY <1>6 DEF RenamesCheckpoint, Gone, Up, At
  <2>2. RulesFollow'
    BY <2>1, PlainSurvives DEF RulesFollow, Known, identityVars
  <2>3. OneNode'
    BY <2>1 DEF OneNode, Kept, identityVars
  <2>. QED
    BY <2>2, <2>3
<1>7. CASE Crash
  <2>1. /\ checkpoint' = checkpoint /\ rules' = {} /\ ~Up'
        /\ main'.pc = "down" /\ UNCHANGED identityVars
    BY <1>7 DEF Crash, Gone, Up, At
  <2>2. RulesFollow'
    BY <2>1 DEF RulesFollow, Known, identityVars
  <2>3. OneNode'
    BY <2>1 DEF OneNode, Kept, identityVars
  <2>. QED
    BY <2>2, <2>3
<1>8. ASSUME rules' = ToRules(checkpoint), UNCHANGED <<checkpoint, fresh>>
      PROVE  RulesFollow'
  <2>1. /\ ToRules(checkpoint) \subseteq checkpoint
        /\ \A r \in ToRules(checkpoint) : r.kind # "block"
    BY DEF ToRules
  <2>. QED
    BY <1>8, <2>1 DEF RulesFollow, Known
<1>9. CASE Start
  <2>1. UNCHANGED <<checkpoint, fresh, identity>> /\ ~Up /\ main.pc = "down"
    BY <1>9 DEF Start, Up
  <2>2. PICK pass \in {Passphrase, NoPassphrase} :
          \/ UNCHANGED <<rules, main, been>>
          \/ \E node \in Load(identity, pass, starts) :
               Started(file, repFile, checkpoint) /\ been' = been \union {node}
    BY <1>9 DEF Start
  <2>3. CASE UNCHANGED <<rules, main, been>>
    BY <2>1, <2>3 DEF RulesFollow, Known, OneNode, Kept, Up
  <2>4. ASSUME NEW node \in Load(identity, pass, starts),
               Started(file, repFile, checkpoint), been' = been \union {node}
        PROVE  RulesFollow' /\ OneNode'
    <3>1. RulesFollow'
      BY <1>8, <2>1, <2>4 DEF Started
    <3>2. /\ identity.kind = "whole"
          /\ {"ed25519", "ml_kem"} \subseteq DOMAIN identity.keys
          /\ node = [k \in KeyPairs |->
                       IF k \in DOMAIN identity.keys THEN identity.keys[k] ELSE starts]
      BY <2>4 DEF Load
    <3>3. DOMAIN identity.keys = KeyPairs
      BY <3>2 DEF OneNode
    <3>4. identity.keys = [k \in KeyPairs |-> identity.keys[k]]
      BY <3>2, <3>3 DEF OneNode
    <3>5. node = identity.keys
      BY <3>2, <3>3, <3>4
    <3>6. main'.pc = "push"
      BY <2>4 DEF Started, At
    <3>7. OneNode'
      BY <2>1, <2>4, <3>2, <3>3, <3>5, <3>6 DEF OneNode, Kept
    <3>. QED
      BY <3>1, <3>7
  <2>. QED
    BY <2>2, <2>3, <2>4
<1>10. CASE Generates
  <2>1. /\ identity.kind = "absent" /\ identity' = OpenedIdentity
        /\ UNCHANGED <<rules, checkpoint, been, fresh>> /\ ~Up'
    BY <1>10 DEF Generates, Up, At
  <2>2. identity'.kind = "empty" /\ been' = {}
    BY <2>1 DEF OpenedIdentity, IdentityFile, OneNode, Kept
  <2>. QED
    BY <2>1, <2>2 DEF RulesFollow, Known, OneNode, Kept
<1>11. CASE FillsIdentity
  <2>1. /\ main.pc \in {"identityPlain", "identitySealed"}
        /\ UNCHANGED <<checkpoint, fresh>> /\ rules' = ToRules(checkpoint)
        /\ main'.pc = "push"
    BY <1>11 DEF FillsIdentity, Started, At
  <2>2. been = {}
    BY <2>1 DEF OneNode, Kept
  <2>3. PICK node, pass : /\ node = Generate(starts + 1) /\ been' = {node}
                          /\ identity' = SavedIdentity(node, pass)
    BY <1>11, <2>2 DEF FillsIdentity
  <2>4. /\ identity'.kind = "whole" /\ identity'.keys = node
        /\ DOMAIN node = KeyPairs /\ node = [k \in KeyPairs |-> node[k]]
    BY <2>3 DEF SavedIdentity, IdentityFile, Generate
  <2>5. OneNode'
    BY <2>1, <2>3, <2>4 DEF OneNode, Kept
  <2>. QED
    BY <1>8, <2>1, <2>5
<1>. QED
  BY <1>2, <1>3, <1>4, <1>5, <1>6, <1>7, <1>9, <1>10, <1>11 DEF RecordsNext, Main

\* At first the node is the one in its file, or none yet.
LEMMA RulesInitially == RecordsInit => RulesFollow /\ OneNode
<1> SUFFICES ASSUME RecordsInit PROVE RulesFollow /\ OneNode
  OBVIOUS
<1>1. /\ checkpoint = IF fresh THEN {} ELSE Rules
      /\ rules = ToRules(checkpoint)
      /\ main.pc = IF fresh THEN "down" ELSE "push"
      /\ been = IF fresh THEN {} ELSE {Generate(0)}
      /\ identity \in IF fresh THEN {NoIdentity, OlderIdentity}
                       ELSE {SavedIdentity(Generate(0), NoPassphrase)}
  BY DEF RecordsInit, At
<1>2. RulesFollow
  BY <1>1, RecordsAssumption DEF RulesFollow, AnyRule, Known, Plain, ToRules
<1>3. OneNode
  <2>1. CASE fresh
    BY <1>1, <2>1 DEF OneNode, Kept, NoIdentity, OlderIdentity, IdentityFile
  <2>2. CASE ~fresh
    BY <1>1, <2>2 DEF OneNode, Kept, SavedIdentity, IdentityFile, Generate
  <2>. QED
    BY <2>1, <2>2
<1>. QED
  BY <1>2, <1>3

\* What follows for a node that comes back.
LEMMA RulesContinue ==
  ASSUME RulesFollow, OneNode
  PROVE  Continuity
<1>1. Cardinality(been) <= 1
  <2>1. been = {} \/ been = {identity.keys}
    BY DEF OneNode, Kept
  <2>2. Cardinality({}) = 0 /\ Cardinality({identity.keys}) = 1
    BY FS_EmptySet, FS_Singleton
  <2>. QED
    BY <2>1, <2>2
<1>. QED
  BY <1>1 DEF RulesFollow, Known, Continuity

-----------------------------------------------------------------------------
\* What holds at first, and of each as soon as it holds of the one before, holds of
\* all.
LEMMA StaysIn ==
  ASSUME NEW n \in Nat, NEW f, NEW A, f[0] \in A[0],
         \A k \in 1..n : f[k - 1] \in A[k - 1] => f[k] \in A[k]
  PROVE  \A k \in 0..n : f[k] \in A[k]
<1> DEFINE S == {k \in 0..n : f[k] \notin A[k]}
<1> SUFFICES ASSUME S # {} PROVE FALSE
  OBVIOUS
<1>1. S \in SUBSET Nat
  OBVIOUS
<1> HIDE DEF S
<1>2. PICK x \in S : \A y \in S : x <= y
  BY <1>1, LeastOf
<1>3. x \in 0..n /\ f[x] \notin A[x]
  BY <1>2 DEF S
<1>4. x # 0 /\ x \in 1..n /\ x - 1 \in 0..n
  BY <1>3
<1>5. f[x - 1] \in A[x - 1]
  <2>1. ~(x <= x - 1)
    BY <1>4
  <2>. QED
    BY <1>2, <1>4, <2>1 DEF S
<1>. QED
  BY <1>3, <1>4, <1>5

\* Steps that do not leave a set can be taken one after the other.
Runs(n, A, a, step) ==
  {f \in [0..n -> A] : f[0] = a /\ \A k \in 1..n : f[k] = step[k][f[k - 1]]}
\* Such a run exists.
LEMMA StepsRun ==
  ASSUME NEW n \in Nat, NEW A, NEW a \in A, NEW step \in [1..n -> [A -> A]]
  PROVE  Runs(n, A, a, step) # {}
<1> DEFINE Run(m) == \E f \in [0..m -> A] :
                       f[0] = a /\ \A k \in 1..m : f[k] = step[k][f[k - 1]]
           S == {m \in 0..n : ~Run(m)}
<1>1. S \in SUBSET Nat
  OBVIOUS
<1> SUFFICES ASSUME S # {} PROVE FALSE
  <2>1. n \in 0..n
    OBVIOUS
  <2>2. Run(n) => Runs(n, A, a, step) # {}
    BY DEF Runs
  <2> HIDE DEF Run
  <2>. QED
    BY <2>1, <2>2
<1>2. PICK x \in S : \A y \in S : x <= y
  <2> HIDE DEF S
  <2>. QED
    BY <1>1, LeastOf
<1>3. x \in 0..n /\ ~Run(x)
  BY <1>2
<1>4. x # 0
  <2>1. Run(0)
    <3> DEFINE g == [k \in 0..0 |-> a]
    <3>1. g \in [0..0 -> A] /\ g[0] = a
      OBVIOUS
    <3>2. \A k \in 1..0 : FALSE
      OBVIOUS
    <3> HIDE DEF g
    <3>. QED
      BY <3>1, <3>2
  <2> HIDE DEF Run
  <2>. QED
    BY <1>3, <2>1
<1>5. x \in 1..n /\ x - 1 \in 0..n /\ ~(x <= x - 1)
  BY <1>3, <1>4
<1>6. Run(x - 1)
  <2> HIDE DEF Run
  <2>. QED
    BY <1>2, <1>5
<1>7. PICK f \in [0..(x - 1) -> A] :
        f[0] = a /\ \A k \in 1..(x - 1) : f[k] = step[k][f[k - 1]]
  BY <1>6
<1> DEFINE g == [k \in 0..x |-> IF k = x THEN step[x][f[x - 1]] ELSE f[k]]
<1>8. step[x][f[x - 1]] \in A
  BY <1>5, <1>7
<1>9. g \in [0..x -> A]
  BY <1>5, <1>7, <1>8
<1>10. g[0] = a
  BY <1>5, <1>7
<1>11. ASSUME NEW k \in 1..x
       PROVE  g[k] = step[k][g[k - 1]]
  <2>1. k - 1 \in 0..(x - 1) /\ g[k - 1] = f[k - 1]
    BY <1>5
  <2>2. CASE k = x
    BY <1>5, <2>1, <2>2
  <2>3. CASE k # x
    BY <1>5, <1>7, <2>1, <2>3
  <2>. QED
    BY <2>2, <2>3
<1> HIDE DEF g
<1>12. Run(x)
  BY <1>9, <1>10, <1>11
<1> HIDE DEF Run
<1>. QED
  BY <1>3, <1>12

\* What is picked from a list is there at one of the places.
LEMMA PickedFrom ==
  ASSUME NEW list, Len(list) \in Nat, NEW places,
         NEW T, \A k \in 1..Len(list) : k \in places => list[k] \in T
  PROVE  Picked(list, places) \in Seq(T)
<1> DEFINE n == Len(list)
           U == Seq(T)
           none == <<>>
           Next(x, k) == IF k \in places THEN Append(x, list[k]) ELSE x
           step == [k \in 1..n |-> [x \in U |-> Next(x, k)]]
<1>1. none \in U /\ n \in Nat
  OBVIOUS
<1>2. \A k \in 1..n : \A x \in U : Next(x, k) \in U
  OBVIOUS
<1>3. \A k \in 1..n : k - 1 \in 0..n
  BY <1>1
<1> HIDE DEF n, U, Next, none
<1>4. step \in [1..n -> [U -> U]]
  BY <1>2
<1>5. \A k \in 1..n : \A x \in U : step[k][x] = Next(x, k)
  OBVIOUS
<1> HIDE DEF step
<1>6. Runs(n, U, none, step) # {}
  BY <1>1, <1>4, StepsRun
<1>7. PICK f \in [0..n -> U] : f[0] = none /\ \A k \in 1..n : f[k] = step[k][f[k - 1]]
  BY <1>6 DEF Runs
<1>8. \A k \in 1..n : f[k] = Next(f[k - 1], k)
  BY <1>3, <1>5, <1>7
<1>9. \A k \in 0..n : f[k] = IF k = 0 THEN none ELSE Next(f[k - 1], k)
  BY <1>1, <1>7, <1>8
<1>10. f = [k \in 0..n |-> IF k = 0 THEN none ELSE Next(f[k - 1], k)]
  BY <1>7, <1>9
<1>11. PICK g : /\ g = [k \in 0..n |-> IF k = 0 THEN none ELSE Next(g[k - 1], k)]
                /\ Picked(list, places) = g[n]
  BY <1>10, Zenon DEF Picked, Next, none, n
<1>12. g[0] = none /\ \A k \in 1..n : g[k] = Next(g[k - 1], k)
  BY <1>1, <1>11
<1> DEFINE A == [k \in 0..n |-> U]
<1>13. g[0] \in A[0] /\ \A k \in 1..n : g[k - 1] \in A[k - 1] => g[k] \in A[k]
  BY <1>1, <1>2, <1>3, <1>12
<1>14. n \in 0..n /\ A[n] = U
  BY <1>1
<1> HIDE DEF A
<1>15. \A k \in 0..n : g[k] \in A[k]
  BY <1>1, <1>13, StaysIn
<1>. QED
  BY <1>11, <1>14, <1>15 DEF U

-----------------------------------------------------------------------------
\* The EPAs there can be: those that come in, those of this start and of the ones
\* before, which have the greater numbers, and what is made on request.
LowId == IF main.pc \in {"push", "identityPlain", "identitySealed"} THEN OwnId + 1 ELSE OwnId
Named(low) == {n \in Nat : n < FirstOwn \/ n >= low}
Epa(low) == [id : Named(low), personal : BOOLEAN]

\* Of the copies of an EPA only the first may be stripped.
OnlyFirst(list) ==
  \A k, l \in 1..Len(list) :
    k < l /\ list[k].id = list[l].id /\ ~IsSuppression(list[k].id) => list[l].personal
Lists(low) == {list \in Seq(Epa(low)) : OnlyFirst(list)}
InClear(list, id) == \A k \in 1..Len(list) : list[k].id = id => list[k].personal
Stored(list, id) ==
  \/ \A k \in 1..Len(list) : list[k].id # id
  \/ \E k \in 1..Len(list) : list[k].id = id /\ list[k].personal

\* A longer list, and one whose oldest made room.
LEMMA AppendKeepsFirst ==
  ASSUME NEW low, NEW list \in Lists(low), NEW e \in Epa(low),
         \/ IsSuppression(e.id) \/ e.personal
         \/ \A k \in 1..Len(list) : list[k].id # e.id
  PROVE  /\ Append(list, e) \in Lists(low)
         /\ \A id : e.personal \/ e.id # id =>
              /\ Stored(list, id) => Stored(Append(list, e), id)
              /\ InClear(list, id) => InClear(Append(list, e), id)
<1> DEFINE new == Append(list, e)
           n == Len(list)
<1>1. list \in Seq(Epa(low)) /\ OnlyFirst(list)
  BY DEF Lists
<1>2. /\ new \in Seq(Epa(low)) /\ n \in Nat /\ Len(new) = n + 1
      /\ \A k \in 1..n : new[k] = list[k]
      /\ new[n + 1] = e
  BY <1>1
<1> HIDE DEF new, n
<1>3. OnlyFirst(new)
  <2> SUFFICES ASSUME NEW k \in 1..(n + 1), NEW l \in 1..(n + 1), k < l,
                      new[k].id = new[l].id, ~IsSuppression(new[k].id)
               PROVE  new[l].personal
    BY <1>2 DEF OnlyFirst
  <2>1. k \in 1..n /\ new[k] = list[k]
    BY <1>2
  <2>2. CASE l = n + 1
    BY <1>2, <2>1, <2>2 DEF n
  <2>3. CASE l \in 1..n
    BY <1>1, <1>2, <2>1, <2>3 DEF OnlyFirst, n
  <2>. QED
    BY <1>2, <2>2, <2>3
<1>4. ASSUME NEW id, e.personal \/ e.id # id, Stored(list, id)
      PROVE  Stored(new, id)
  <2>1. CASE \E k \in 1..n : list[k].id = id /\ list[k].personal
    <3>1. PICK k \in 1..n : list[k].id = id /\ list[k].personal
      BY <2>1
    <3>2. k \in 1..(n + 1) /\ new[k] = list[k]
      BY <1>2, <3>1
    <3>. QED
      BY <1>2, <3>1, <3>2 DEF Stored
  <2>2. CASE \A k \in 1..n : list[k].id # id
    <3>1. CASE e.id # id
      <4>1. \A k \in 1..(n + 1) : new[k].id # id
        BY <1>2, <2>2, <3>1
      <4>. QED
        BY <1>2, <4>1 DEF Stored
    <3>2. CASE e.id = id
      <4>1. n + 1 \in 1..(n + 1) /\ new[n + 1].id = id /\ new[n + 1].personal
        BY <1>2, <1>4, <3>2
      <4>. QED
        BY <1>2, <4>1 DEF Stored
    <3>. QED
      BY <3>1, <3>2
  <2>. QED
    BY <1>4, <2>1, <2>2 DEF Stored, n
<1>5. ASSUME NEW id, e.personal \/ e.id # id, InClear(list, id)
      PROVE  InClear(new, id)
  <2>1. \A k \in 1..n : list[k].id = id => list[k].personal
    BY <1>5 DEF InClear, n
  <2>2. \A k \in 1..(n + 1) : new[k].id = id => new[k].personal
    BY <1>2, <1>5, <2>1
  <2>. QED
    BY <1>2, <2>2 DEF InClear
<1>6. new \in Lists(low)
  BY <1>2, <1>3 DEF Lists
<1>. QED
  BY <1>4, <1>5, <1>6 DEF new

\* Removing the oldest record keeps the order of what is left, and what was gone or stored
\* with its metadata stays so.
LEMMA TailKeepsFirst ==
  ASSUME NEW low, NEW list \in Lists(low), Len(list) > 0
  PROVE  /\ Tail(list) \in Lists(low)
         /\ \A k \in 1..Len(Tail(list)) : k + 1 \in 1..Len(list) /\ Tail(list)[k] = list[k + 1]
         /\ \A id : Stored(list, id) /\ ~IsSuppression(id) => Stored(Tail(list), id)
         /\ \A id : InClear(list, id) => InClear(Tail(list), id)
<1> DEFINE new == Tail(list)
           n == Len(list)
<1>1. list \in Seq(Epa(low)) /\ OnlyFirst(list)
  BY DEF Lists
<1>2. /\ new \in Seq(Epa(low)) /\ n \in Nat /\ n >= 1 /\ Len(new) = n - 1
      /\ \A k \in 1..(n - 1) : k + 1 \in 1..n /\ new[k] = list[k + 1]
  BY <1>1
<1> HIDE DEF new, n
<1>3. OnlyFirst(new)
  <2> SUFFICES ASSUME NEW k \in 1..(n - 1), NEW l \in 1..(n - 1), k < l,
                      new[k].id = new[l].id, ~IsSuppression(new[k].id)
               PROVE  new[l].personal
    BY <1>2 DEF OnlyFirst
  <2>1. k + 1 \in 1..n /\ l + 1 \in 1..n /\ k + 1 < l + 1
    BY <1>2
  <2>. QED
    BY <1>1, <1>2, <2>1 DEF OnlyFirst, n
<1>4. ASSUME NEW id, ~IsSuppression(id), Stored(list, id)
      PROVE  Stored(new, id)
  <2> SUFFICES ASSUME NEW m \in 1..(n - 1), new[m].id = id
               PROVE  \E k \in 1..(n - 1) : new[k].id = id /\ new[k].personal
    BY <1>2 DEF Stored
  <2>1. m + 1 \in 1..n /\ list[m + 1].id = id
    BY <1>2
  <2>2. PICK k \in 1..n : list[k].id = id /\ list[k].personal
    BY <1>4, <2>1 DEF Stored, n
  <2>3. CASE k = 1
    <3>1. 1 \in 1..n /\ 1 < m + 1
      BY <1>2
    <3>2. list[m + 1].personal
      BY <1>1, <1>4, <2>1, <2>2, <2>3, <3>1 DEF OnlyFirst, n
    <3>. QED
      BY <1>2, <3>2
  <2>4. CASE k # 1
    <3>1. k - 1 \in 1..(n - 1) /\ (k - 1) + 1 = k
      BY <1>2, <2>4
    <3>2. new[k - 1] = list[k]
      BY <1>2, <3>1
    <3>. QED
      BY <2>2, <3>1, <3>2
  <2>. QED
    BY <2>3, <2>4
<1>5. ASSUME NEW id, InClear(list, id)
      PROVE  InClear(new, id)
  BY <1>2, <1>5 DEF InClear, n
<1>6. new \in Lists(low)
  BY <1>2, <1>3 DEF Lists
<1>. QED
  BY <1>2, <1>4, <1>5, <1>6 DEF new, n

\* So does pushing a record that is no bare copy of one in the list.
LEMMA PushKeepsFirst ==
  ASSUME NEW low, NEW list \in Lists(low), NEW e \in Epa(low),
         \/ IsSuppression(e.id) \/ e.personal
         \/ \A k \in 1..Len(list) : list[k].id # e.id
  PROVE  /\ Push(list, e) \in Lists(low)
         /\ \A id : ~IsSuppression(id) /\ (e.personal \/ e.id # id) =>
              /\ Stored(list, id) => Stored(Push(list, e), id)
              /\ InClear(list, id) => InClear(Push(list, e), id)
<1>1. CASE Len(list) >= MAX_EPA_ENTRIES
  <2>1. Len(list) > 0
    BY <1>1, RecordsAssumption DEF Lists
  <2> DEFINE t == Tail(list)
  <2>2. /\ t \in Lists(low)
        /\ \A k \in 1..Len(t) : k + 1 \in 1..Len(list) /\ t[k] = list[k + 1]
        /\ \A id : Stored(list, id) /\ ~IsSuppression(id) => Stored(t, id)
        /\ \A id : InClear(list, id) => InClear(t, id)
    BY <2>1, TailKeepsFirst
  <2>3. Push(list, e) = Append(t, e)
    BY <1>1 DEF Push
  <2> HIDE DEF t
  <2>4. \/ IsSuppression(e.id) \/ e.personal
        \/ \A k \in 1..Len(t) : t[k].id # e.id
    BY <2>2
  <2>. QED
    BY <2>2, <2>3, <2>4, AppendKeepsFirst
<1>2. CASE ~(Len(list) >= MAX_EPA_ENTRIES)
  <2>1. Push(list, e) = Append(list, e)
    BY <1>2 DEF Push
  <2>. QED
    BY <2>1, AppendKeepsFirst
<1>. QED
  BY <1>1, <1>2

\* The first copy of an EPA is stripped: the others are as they were.
LEMMA StripKeepsFirst ==
  ASSUME NEW low, NEW list \in Lists(low), NEW m \in 1..Len(list),
         \A k \in 1..Len(list) : list[k].id = list[m].id => m <= k
  PROVE  /\ [list EXCEPT ![m].personal = FALSE] \in Lists(low)
         /\ \A id : id # list[m].id =>
              /\ Stored(list, id) => Stored([list EXCEPT ![m].personal = FALSE], id)
              /\ InClear(list, id) => InClear([list EXCEPT ![m].personal = FALSE], id)
<1> DEFINE new == [list EXCEPT ![m].personal = FALSE]
           n == Len(list)
<1>1. list \in Seq(Epa(low)) /\ OnlyFirst(list)
  BY DEF Lists
<1>2. list[m] \in Epa(low) /\ n \in Nat
  BY <1>1
<1>3. [list[m] EXCEPT !.personal = FALSE] \in Epa(low)
  BY <1>2 DEF Epa
<1>4. new = [list EXCEPT ![m] = [list[m] EXCEPT !.personal = FALSE]]
  BY <1>1
<1>5. /\ new \in Seq(Epa(low)) /\ Len(new) = n
      /\ \A k \in 1..n : new[k].id = list[k].id
      /\ \A k \in 1..n : k # m => new[k] = list[k]
  <2>1. new \in Seq(Epa(low)) /\ Len(new) = n
    BY <1>1, <1>3, <1>4
  <2>2. new[m].id = list[m].id
    <3> DEFINE x == [list[m] EXCEPT !.personal = FALSE]
    <3>1. x.id = list[m].id
      BY <1>2 DEF Epa
    <3>2. new = [list EXCEPT ![m] = x]
      BY <1>4
    <3>3. m \in DOMAIN list
      BY <1>1
    <3> HIDE DEF x
    <3>. QED
      BY <3>1, <3>2, <3>3
  <2>3. \A k \in 1..n : k # m => new[k] = list[k]
    BY <1>1, <1>4
  <2>. QED
    BY <2>1, <2>2, <2>3
<1> HIDE DEF new
<1>6. OnlyFirst(new)
  <2> SUFFICES ASSUME NEW k \in 1..n, NEW l \in 1..n, k < l,
                      new[k].id = new[l].id, ~IsSuppression(new[k].id)
               PROVE  new[l].personal
    BY <1>5 DEF OnlyFirst
  <2>1. l # m
    BY <1>2, <1>5
  <2>. QED
    BY <1>1, <1>5, <2>1 DEF OnlyFirst
<1>7. ASSUME NEW id, id # list[m].id, Stored(list, id)
      PROVE  Stored(new, id)
  BY <1>5, <1>7 DEF Stored
<1>8. ASSUME NEW id, id # list[m].id, InClear(list, id)
      PROVE  InClear(new, id)
  BY <1>5, <1>8 DEF InClear
<1>9. new \in Lists(low)
  BY <1>5, <1>6 DEF Lists
<1>. QED
  BY <1>7, <1>8, <1>9 DEF new

-----------------------------------------------------------------------------
\* What titular_anonymize() has at hand while it goes through what it was asked for.
Done == [original : Nat, suppression : {n \in Nat : IsSuppression(n)}]
OriginalsOf(done) == {done[k].original : k \in DOMAIN done}
Accs(low) == [list : Lists(low), minted : Nat, done : Seq(Done)]
Names(refs, id) == \E k \in 1..Len(refs) : refs[k] = id

\* Of the EPAs that were stored with their metadata it has stripped those it names.
Strips(acc, list, refs) ==
  \A r : ~IsSuppression(r) =>
    /\ Stored(list, r) => Stored(acc.list, r) \/ r \in OriginalsOf(acc.done)
    /\ InClear(list, r) /\ ~Names(refs, r) => InClear(acc.list, r)

\* One turn of the erasure keeps what the turns before it achieved.
LEMMA EraseOneStrips ==
  ASSUME NEW low \in 0..FirstSuppression, NEW acc \in Accs(low),
         NEW list, NEW refs \in Seq(Nat), NEW j \in 1..Len(refs), Strips(acc, list, refs)
  PROVE  EraseOne(acc, refs[j]) \in Accs(low) /\ Strips(EraseOne(acc, refs[j]), list, refs)
<1> DEFINE id == refs[j]
           at == {k \in DOMAIN acc.list : acc.list[k].id = id}
           first == CHOOSE k \in at : \A o \in at : k <= o
           new == FirstSuppression + acc.minted
           e == [id |-> new, personal |-> FALSE]
           d == [original |-> id, suppression |-> new]
           stripped == [acc.list EXCEPT ![first].personal = FALSE]
           out == EraseOne(acc, id)
<1>1. CASE at = {}
  BY <1>1 DEF EraseOne
<1>2. CASE at # {}
  <2>1. /\ acc.list \in Lists(low) /\ acc.minted \in Nat /\ acc.done \in Seq(Done)
        /\ DOMAIN acc.list = 1..Len(acc.list) /\ Len(acc.list) \in Nat /\ id \in Nat
    BY DEF Accs, Lists
  <2>2. first \in 1..Len(acc.list) /\ acc.list[first].id = id
        /\ \A k \in 1..Len(acc.list) : acc.list[k].id = id => first <= k
    <3>1. at \in SUBSET Nat
      BY <2>1
    <3>2. \E k \in at : \A o \in at : k <= o
      <4> HIDE DEF at
      <4>. QED
        BY <1>2, <3>1, LeastOf
    <3>3. first \in at /\ \A o \in at : first <= o
      <4> HIDE DEF at
      <4>. QED
        BY <3>2
    <3>. QED
      BY <2>1, <3>3
  <2>3. e \in Epa(low) /\ IsSuppression(e.id) /\ d \in Done /\ d.original = id
        /\ acc.minted + 1 \in Nat /\ e.id = new
    BY <2>1 DEF Epa, Named, IsSuppression, Done, FirstSuppression
  <2>4. out = [list |-> Push(stripped, e), minted |-> acc.minted + 1,
               done |-> Append(acc.done, d)]
    BY <1>2 DEF EraseOne
  <2> HIDE DEF first
  <2>5. /\ stripped \in Lists(low)
        /\ \A r : r # id =>
             /\ Stored(acc.list, r) => Stored(stripped, r)
             /\ InClear(acc.list, r) => InClear(stripped, r)
    BY <2>1, <2>2, StripKeepsFirst
  <2> HIDE DEF stripped, e, d, out, id, at, new
  <2>6. /\ Push(stripped, e) \in Lists(low)
        /\ \A r : ~IsSuppression(r) /\ e.id # r =>
             /\ Stored(stripped, r) => Stored(Push(stripped, e), r)
             /\ InClear(stripped, r) => InClear(Push(stripped, e), r)
    BY <2>3, <2>5, PushKeepsFirst
  <2>7. \A r : ~IsSuppression(r) => e.id # r
    BY <2>3
  <2>8. OriginalsOf(acc.done) \subseteq OriginalsOf(Append(acc.done, d))
        /\ id \in OriginalsOf(Append(acc.done, d))
    <3>1. /\ DOMAIN Append(acc.done, d) = 1..(Len(acc.done) + 1) /\ Len(acc.done) \in Nat
          /\ DOMAIN acc.done = 1..Len(acc.done)
          /\ \A k \in 1..Len(acc.done) : Append(acc.done, d)[k] = acc.done[k]
          /\ Append(acc.done, d)[Len(acc.done) + 1] = d
      BY <2>1, <2>3
    <3>2. Len(acc.done) + 1 \in 1..(Len(acc.done) + 1)
      BY <3>1
    <3>. QED
      BY <2>3, <3>1, <3>2 DEF OriginalsOf
  <2>9. Names(refs, id)
    BY DEF Names, id
  <2>10. out \in Accs(low)
    <3>1. Append(acc.done, d) \in Seq(Done)
      BY <2>1, <2>3
    <3>. QED
      BY <2>3, <2>4, <2>6, <3>1 DEF Accs
  <2>11. out.list = Push(stripped, e) /\ out.done = Append(acc.done, d)
    BY <2>4
  <2>12. Strips(out, list, refs)
    <3> SUFFICES ASSUME NEW r, ~IsSuppression(r)
                 PROVE  /\ Stored(list, r) => Stored(out.list, r) \/ r \in OriginalsOf(out.done)
                        /\ InClear(list, r) /\ ~Names(refs, r) => InClear(out.list, r)
      BY DEF Strips
    <3>1. CASE r = id
      BY <2>8, <2>9, <2>11, <3>1
    <3>2. CASE r # id
      <4>1. /\ Stored(acc.list, r) => Stored(out.list, r)
            /\ InClear(acc.list, r) => InClear(out.list, r)
        BY <2>5, <2>6, <2>7, <2>11, <3>2
      <4>. QED
        BY <2>8, <2>11, <4>1 DEF Strips
    <3>. QED
      BY <3>1, <3>2
  <2>. QED
    BY <2>10, <2>12 DEF out, id
<1>. QED
  BY <1>1, <1>2

\* All that it is asked for, one after the other.
LEMMA ErasureStrips ==
  ASSUME NEW low \in 0..FirstSuppression, epas \in Lists(low), minted \in Nat,
         NEW refs \in Seq(Nat)
  PROVE  Erasure(refs) \in Accs(low) /\ Strips(Erasure(refs), epas, refs)
<1> DEFINE n == Len(refs)
           U == {acc \in Accs(low) : Strips(acc, epas, refs)}
           none == [list |-> epas, minted |-> minted, done |-> <<>>]
           Next(x, k) == EraseOne(x, refs[k])
           step == [k \in 1..n |-> [x \in U |-> Next(x, k)]]
<1>1. none \in U /\ n \in Nat
  BY DEF Accs, Strips
<1>2. \A k \in 1..n : \A x \in U : Next(x, k) \in U
  BY EraseOneStrips
<1>3. \A k \in 1..n : k - 1 \in 0..n
  BY <1>1
<1> HIDE DEF n, U, Next, none
<1>4. step \in [1..n -> [U -> U]]
  BY <1>2
<1>5. \A k \in 1..n : \A x \in U : step[k][x] = Next(x, k)
  OBVIOUS
<1> HIDE DEF step
<1>6. Runs(n, U, none, step) # {}
  BY <1>1, <1>4, StepsRun
<1>7. PICK f \in [0..n -> U] : f[0] = none /\ \A k \in 1..n : f[k] = step[k][f[k - 1]]
  BY <1>6 DEF Runs
<1>8. \A k \in 1..n : f[k] = Next(f[k - 1], k)
  BY <1>3, <1>5, <1>7
<1>9. \A k \in 0..n : f[k] = IF k = 0 THEN none ELSE Next(f[k - 1], k)
  BY <1>1, <1>7, <1>8
<1>10. f = [k \in 0..n |-> IF k = 0 THEN none ELSE Next(f[k - 1], k)]
  BY <1>7, <1>9
<1>11. PICK g : /\ g = [k \in 0..n |-> IF k = 0 THEN none ELSE Next(g[k - 1], k)]
                /\ Erasure(refs) = g[n]
  BY <1>10, Zenon DEF Erasure, Next, none, n
<1>12. g[0] = none /\ \A k \in 1..n : g[k] = Next(g[k - 1], k)
  BY <1>1, <1>11
<1> DEFINE A == [k \in 0..n |-> U]
<1>13. g[0] \in A[0] /\ \A k \in 1..n : g[k - 1] \in A[k - 1] => g[k] \in A[k]
  BY <1>1, <1>2, <1>3, <1>12
<1>14. n \in 0..n /\ A[n] = U
  BY <1>1
<1> HIDE DEF A
<1>15. \A k \in 0..n : g[k] \in A[k]
  BY <1>1, <1>13, StaysIn
<1>. QED
  BY <1>11, <1>14, <1>15 DEF U

\* The index without an EPA.
LEMMA RemoveRefLeaves ==
  ASSUME NEW S, NEW refs \in Seq(S), NEW id
  PROVE  RemoveRef(refs, id) \in Seq({r \in S : r # id})
<1> DEFINE places == {k \in DOMAIN refs : refs[k] # id}
           T == {r \in S : r # id}
<1>1. Len(refs) \in Nat /\ \A k \in 1..Len(refs) : k \in places => refs[k] \in T
  OBVIOUS
<1>2. RemoveRef(refs, id) = Picked(refs, places)
  BY DEF RemoveRef
<1> HIDE DEF places, T
<1>3. RemoveRef(refs, id) \in Seq(T)
  BY <1>1, <1>2, PickedFrom
<1>. QED
  BY <1>3 DEF T

\* The suppressions are in the index for what was stripped.
LEMMA ReindexedNames ==
  ASSUME NEW S, index \in Seq(S), NEW done \in Seq(Done)
  PROVE  Reindexed(done) \in Seq({r \in S : r \notin OriginalsOf(done)}
                                 \union {r \in Nat : IsSuppression(r)})
<1> DEFINE n == Len(done)
           Supp == {r \in Nat : IsSuppression(r)}
           Left(k) == {r \in S : \A j \in 1..k : r # done[j].original}
           U == Seq(S \union Supp)
           Next(x, k) == ReindexOne(x, done[k])
           step == [k \in 1..n |-> [x \in U |-> Next(x, k)]]
           A == [k \in 0..n |-> Seq(Left(k) \union Supp)]
<1>1. n \in Nat /\ \A k \in 1..n : done[k] \in Done
  OBVIOUS
<1>2. ASSUME NEW k \in 1..n, NEW B, NEW x \in Seq(B \union Supp)
      PROVE  Next(x, k) \in Seq({r \in B : r # done[k].original} \union Supp)
  <2> DEFINE rest == RemoveRef(x, done[k].original)
             T == {r \in B \union Supp : r # done[k].original}
             C == {r \in B : r # done[k].original} \union Supp
  <2>1. rest \in Seq(T)
    BY RemoveRefLeaves
  <2>2. done[k].suppression \in C /\ T \subseteq C
    BY <1>1 DEF Done
  <2>3. Next(x, k) = Append(rest, done[k].suppression)
    BY DEF ReindexOne
  <2> HIDE DEF rest, T, C
  <2>4. rest \in Seq(C)
    BY <2>1, <2>2
  <2>5. Append(rest, done[k].suppression) \in Seq(C)
    BY <2>2, <2>4
  <2>. QED
    BY <2>3, <2>5 DEF C
<1> HIDE DEF Next
<1>3. \A k \in 1..n : \A x \in U : Next(x, k) \in U
  <2> SUFFICES ASSUME NEW k \in 1..n, NEW x \in U PROVE Next(x, k) \in U
    OBVIOUS
  <2> DEFINE C == {r \in S : r # done[k].original} \union Supp
             D == S \union Supp
  <2>1. Next(x, k) \in Seq(C)
    BY <1>2
  <2>2. C \subseteq D
    OBVIOUS
  <2> HIDE DEF C, D
  <2>3. Next(x, k) \in Seq(D)
    BY <2>1, <2>2
  <2>. QED
    BY <2>3 DEF D
<1>4. \A k \in 1..n : \A x \in A[k - 1] : Next(x, k) \in A[k]
  <2> SUFFICES ASSUME NEW k \in 1..n, NEW x \in A[k - 1] PROVE Next(x, k) \in A[k]
    OBVIOUS
  <2>1. k \in 0..n /\ k - 1 \in 0..n
    BY <1>1
  <2>2. x \in Seq(Left(k - 1) \union Supp)
    BY <2>1
  <2>3. {r \in Left(k - 1) : r # done[k].original} = Left(k)
    <3>1. \A j \in 1..k : j \in 1..(k - 1) \/ j = k
      OBVIOUS
    <3>2. k \in 1..k /\ \A j \in 1..(k - 1) : j \in 1..k
      OBVIOUS
    <3>. QED
      BY <3>1, <3>2
  <2> HIDE DEF Left
  <2>4. Next(x, k) \in Seq(Left(k) \union Supp)
    BY <1>2, <2>2, <2>3
  <2>. QED
    BY <2>1, <2>4
<1>5. index \in U /\ index \in A[0]
  <2>1. Left(0) = S
    OBVIOUS
  <2>2. A[0] = Seq(Left(0) \union Supp)
    <3>1. 0 \in 0..n
      BY <1>1
    <3> HIDE DEF Left, Supp, n
    <3>. QED
      BY <3>1
  <2> DEFINE D == S \union Supp
  <2>3. S \subseteq D
    OBVIOUS
  <2> HIDE DEF D
  <2>4. index \in Seq(D)
    BY <2>3
  <2>. QED
    BY <2>1, <2>2, <2>4 DEF D
<1>6. A[n] = Seq(Left(n) \union Supp) /\ n \in 0..n
  BY <1>1
<1>7. Left(n) = {r \in S : r \notin OriginalsOf(done)}
  <2>1. DOMAIN done = 1..n
    OBVIOUS
  <2>. QED
    BY <2>1 DEF OriginalsOf
<1>8. \A k \in 1..n : k - 1 \in 0..n
  BY <1>1
<1> HIDE DEF n, U, A, Left
<1>9. step \in [1..n -> [U -> U]]
  BY <1>3
<1>10. \A k \in 1..n : \A x \in U : step[k][x] = Next(x, k)
  OBVIOUS
<1> HIDE DEF step
<1>11. Runs(n, U, index, step) # {}
  BY <1>1, <1>5, <1>9, StepsRun
<1>12. PICK f \in [0..n -> U] : f[0] = index /\ \A k \in 1..n : f[k] = step[k][f[k - 1]]
  BY <1>11 DEF Runs
<1>13. \A k \in 0..n : f[k] = IF k = 0 THEN index ELSE Next(f[k - 1], k)
  BY <1>1, <1>8, <1>10, <1>12
<1>14. f = [k \in 0..n |-> IF k = 0 THEN index ELSE Next(f[k - 1], k)]
  BY <1>12, <1>13
<1>15. PICK g : /\ g = [k \in 0..n |-> IF k = 0 THEN index ELSE Next(g[k - 1], k)]
                /\ Reindexed(done) = g[n]
  BY <1>14, Zenon DEF Reindexed, Next, n
<1>16. g[0] = index /\ \A k \in 1..n : g[k] = Next(g[k - 1], k)
  BY <1>1, <1>15
<1>17. g[0] \in A[0] /\ \A k \in 1..n : g[k - 1] \in A[k - 1] => g[k] \in A[k]
  BY <1>4, <1>5, <1>16
<1>18. \A k \in 0..n : g[k] \in A[k]
  BY <1>1, <1>17, StaysIn
<1>. QED
  BY <1>6, <1>7, <1>15, <1>18

\* The index made again names what has its metadata.
LEMMA BuildIndexNames ==
  ASSUME NEW low, NEW list \in Lists(low)
  PROVE  /\ BuildIndex(list) \in Seq(Named(low))
         /\ \A k \in 1..Len(BuildIndex(list)) : Stored(list, BuildIndex(list)[k])
<1> DEFINE places == {k \in DOMAIN list : list[k].personal}
           T == {e \in Epa(low) : e.personal /\ \E k \in 1..Len(list) : list[k] = e}
           known == Picked(list, places)
<1>1. list \in Seq(Epa(low)) /\ Len(list) \in Nat
  BY DEF Lists
<1>2. \A k \in 1..Len(list) : k \in places => list[k] \in T
  BY <1>1
<1> HIDE DEF places, T, known
<1>3. known \in Seq(T)
  BY <1>1, <1>2, PickedFrom DEF known
<1>4. BuildIndex(list) = [k \in DOMAIN known |-> known[k].id]
  BY DEF BuildIndex, places, known
<1>5. DOMAIN known = 1..Len(known) /\ Len(known) \in Nat
      /\ \A k \in 1..Len(known) : known[k] \in T
  BY <1>3
<1>6. \A k \in 1..Len(known) : known[k].id \in Named(low) /\ Stored(list, known[k].id)
  BY <1>5 DEF T, Epa, Stored
<1>7. BuildIndex(list) \in Seq(Named(low)) /\ Len(BuildIndex(list)) = Len(known)
  BY <1>4, <1>5, <1>6
<1>. QED
  BY <1>4, <1>5, <1>6, <1>7

-----------------------------------------------------------------------------
\* What there is in all lists, and the requests; while the pipeline has still to index
\* the EPA it made, that one is whole and nobody knows of it.
Within(low) ==
  /\ epas \in Lists(low) /\ file.epas \in Lists(low) /\ tmp.epas \in Lists(low)
  /\ \A s \in Savers : saves[s].epas \in Lists(low)
  /\ index \in Seq(Named(low))
  /\ \A h \in Handlers : handlers[h].refs \in Seq(Named(low))
Counted ==
  /\ starts \in 0..(FirstSuppression - FirstOwn - 1) /\ minted \in Nat
  /\ task.id \in 0..(FirstOwn - 1)
  /\ \A h \in Handlers : handlers[h].done \in Seq(Done)
Pending ==
  main.pc = "index" /\ main.id # 0 =>
    /\ main.id = OwnId /\ InClear(epas, OwnId) /\ ~Names(index, OwnId)
    /\ \A h \in Handlers : ~Names(handlers[h].refs, OwnId)
\* What the index names is stored with its metadata, or not at all.
Indexed ==
  \A k \in 1..Len(index) :
    IsSuppression(index[k]) \/ Between(index[k]) \/ Stored(epas, index[k])
IndexInv == Counted /\ Within(LowId) /\ Pending /\ Indexed

\* The numbers of the EPAs of this start are between the others.
LEMMA OwnIds ==
  ASSUME Counted
  PROVE  /\ OwnId \in FirstOwn..(FirstSuppression - 1) /\ OwnId \in Nat
         /\ LowId \in OwnId..FirstSuppression /\ LowId \in Nat /\ ~IsSuppression(OwnId)
BY DEF Counted, OwnId, LowId, FirstOwn, FirstSuppression, IsSuppression

\* Lists named above a bound are named above a lower one.
LEMMA LowerLists ==
  ASSUME NEW a \in Nat, NEW b \in Nat, b <= a
  PROVE  Named(a) \subseteq Named(b) /\ Lists(a) \subseteq Lists(b)
         /\ Seq(Named(a)) \subseteq Seq(Named(b))
<1>1. Named(a) \subseteq Named(b)
  BY DEF Named, FirstOwn
<1>2. Epa(a) \subseteq Epa(b)
  BY <1>1 DEF Epa
<1>3. \A A, B : A \subseteq B => Seq(A) \subseteq Seq(B)
  OBVIOUS
<1>. QED
  BY <1>1, <1>2, <1>3 DEF Lists

\* So are the lists held.
LEMMA LowerWithin ==
  ASSUME NEW a \in Nat, NEW b \in Nat, b <= a, Within(a)
  PROVE  Within(b)
BY LowerLists DEF Within

\* Only what is not done holds a request between two locks.
LEMMA InBetween ==
  ASSUME NEW r, UNCHANGED handlers
  PROVE  Between(r)' <=> Between(r)
BY DEF Between, Originals

-----------------------------------------------------------------------------
\* A step that leaves the list and the index alone and moves what is held elsewhere.
Held == {<<>>, epas, file.epas, tmp.epas} \union {saves[s].epas : s \in Savers}
OwnSteps == {"push", "index", "identityPlain", "identitySealed"}
\* Such a step keeps the agreement of index and list.
LEMMA IndexElsewhere ==
  ASSUME IndexInv, UNCHANGED <<epas, index, handlers, starts, minted>>,
         task'.id \in {task.id, 0} \union Ids,
         main' = main \/ (main.pc \notin OwnSteps /\ main'.pc \notin OwnSteps),
         file'.epas \in Held /\ tmp'.epas \in Held,
         \A s \in Savers : saves'[s].epas \in Held
  PROVE  IndexInv'
<1>1. Counted'
  <2>1. Ids \subseteq 0..(FirstOwn - 1)
    BY RecordsAssumption DEF FirstOwn
  <2>2. task'.id \in 0..(FirstOwn - 1)
    <3>1. task.id \in 0..(FirstOwn - 1) /\ 0 \in 0..(FirstOwn - 1)
      BY DEF IndexInv, Counted, FirstOwn
    <3>. QED
      BY <2>1, <3>1
  <2>. QED
    BY <2>2 DEF IndexInv, Counted
<1>2. LowId' = LowId
  BY DEF LowId, OwnId, OwnSteps
<1>3. PICK low : low = LowId
  OBVIOUS
<1>4. \A list \in Held : list \in Lists(low)
  <2>1. <<>> \in Lists(low)
    BY DEF Lists, OnlyFirst
  <2>. QED
    BY <1>3, <2>1 DEF IndexInv, Within, Held
<1>5. Within(low)'
  BY <1>3, <1>4 DEF IndexInv, Within
<1>6. Pending'
  BY DEF IndexInv, Pending, OwnSteps, OwnId
<1>7. Indexed'
  BY InBetween DEF IndexInv, Indexed
<1>. QED
  BY <1>1, <1>2, <1>3, <1>5, <1>6, <1>7 DEF IndexInv

\* An EPA that came in, or that the node encrypts, goes to the end of the list.
LEMMA IndexPushes ==
  ASSUME IndexInv, UNCHANGED <<index, handlers, starts, main, tmp, file>>,
         NEW e, epas' = Push(epas, e), e \in [id : Nat, personal : BOOLEAN],
         (e.id < FirstOwn /\ e.personal) \/ IsSuppression(e.id),
         minted' \in Nat, task'.id \in {task.id, 0},
         \A s \in Savers : saves'[s].epas = saves[s].epas
  PROVE  IndexInv'
<1>1. Counted'
  BY DEF IndexInv, Counted, FirstOwn
<1>2. LowId' = LowId /\ OwnId' = OwnId
  BY DEF LowId, OwnId
<1>3. PICK low : low = LowId
  OBVIOUS
<1>4. /\ low \in Nat /\ low <= FirstSuppression /\ e.id # OwnId /\ ~IsSuppression(OwnId)
      /\ epas \in Lists(low)
  <2>1. OwnId \in FirstOwn..(FirstSuppression - 1) /\ ~IsSuppression(OwnId)
        /\ LowId \in OwnId..FirstSuppression
    BY OwnIds DEF IndexInv
  <2>. QED
    BY <1>3, <2>1 DEF IndexInv, Within, IsSuppression, FirstOwn, FirstSuppression
<1>5. e \in Epa(low)
  BY <1>4 DEF Epa, Named, IsSuppression, FirstOwn, FirstSuppression
<1>6. /\ epas' \in Lists(low)
      /\ \A id : ~IsSuppression(id) /\ (e.personal \/ e.id # id) =>
           /\ Stored(epas, id) => Stored(epas', id)
           /\ InClear(epas, id) => InClear(epas', id)
  BY <1>4, <1>5, PushKeepsFirst
<1>7. Within(low)'
  BY <1>3, <1>6 DEF IndexInv, Within
<1>8. Pending'
  BY <1>2, <1>4, <1>6 DEF IndexInv, Pending
<1>9. Indexed'
  <2>1. \A id : ~IsSuppression(id) => e.personal \/ e.id # id
    OBVIOUS
  <2>. QED
    BY <1>6, <2>1, InBetween DEF IndexInv, Indexed
<1>. QED
  BY <1>1, <1>2, <1>3, <1>7, <1>8, <1>9 DEF IndexInv

\* The pipeline makes an EPA of its own ...
LEMMA IndexOwnPushed ==
  ASSUME IndexInv, PipelinePushes
  PROVE  IndexInv'
<1>1. PICK personal \in BOOLEAN :
        /\ epas' = Push(epas, [id |-> OwnId, personal |-> personal])
        /\ main' = [pc |-> "index", id |-> IF personal THEN OwnId ELSE 0]
  BY DEF PipelinePushes
<1>2. /\ UNCHANGED <<index, handlers, starts, minted, task, saves, tmp, file>>
      /\ main.pc = "push"
  BY DEF PipelinePushes, fileVars, boundVars
<1>3. Counted'
  BY <1>2 DEF IndexInv, Counted
<1>4. PICK own : own = OwnId
  OBVIOUS
<1>5. /\ own \in FirstOwn..(FirstSuppression - 1) /\ own \in Nat /\ ~IsSuppression(own)
      /\ LowId = own + 1 /\ LowId' = own /\ OwnId' = own
  <2>1. OwnId \in FirstOwn..(FirstSuppression - 1) /\ ~IsSuppression(OwnId) /\ OwnId \in Nat
    BY OwnIds DEF IndexInv
  <2>. QED
    BY <1>1, <1>2, <1>4, <2>1 DEF LowId, OwnId
<1> DEFINE e == [id |-> own, personal |-> personal]
<1>6. Within(own + 1) /\ Within(own)
  BY <1>5, LowerWithin DEF IndexInv
<1>7. own \notin Named(own + 1) /\ own \in Named(own)
  BY <1>5 DEF Named, FirstOwn, FirstSuppression
<1>8. e \in Epa(own) /\ e.id = own /\ e.personal = personal /\ epas' = Push(epas, e)
  <2>1. e \in Epa(own) /\ e.id = own /\ e.personal = personal
    BY <1>7 DEF Epa
  <2>. QED
    BY <1>1, <1>4, <2>1
<1>9. \A k \in 1..Len(epas) : epas[k].id # own
  <2>1. epas \in Seq(Epa(own + 1))
    BY <1>6 DEF Within, Lists
  <2>2. \A k \in 1..Len(epas) : epas[k] \in Epa(own + 1)
    BY <2>1
  <2>. QED
    BY <1>7, <2>2 DEF Epa
<1> HIDE DEF e
<1>10. /\ epas' \in Lists(own)
       /\ \A id : ~IsSuppression(id) /\ (e.personal \/ e.id # id) =>
            /\ Stored(epas, id) => Stored(epas', id)
            /\ InClear(epas, id) => InClear(epas', id)
  <2>1. epas \in Lists(own)
    BY <1>6 DEF Within
  <2>. QED
    BY <1>8, <1>9, <2>1, PushKeepsFirst
<1>11. Within(own)'
  BY <1>2, <1>6, <1>10 DEF Within
<1>12. ~Names(index, own) /\ \A h \in Handlers : ~Names(handlers[h].refs, own)
  BY <1>6, <1>7 DEF Within, Names
<1>13. Pending'
  <2>1. InClear(epas, own)
    BY <1>9 DEF InClear
  <2>2. main'.id # 0 => personal /\ main'.id = own
    BY <1>1, <1>4
  <2>3. personal => InClear(epas', own)
    BY <1>5, <1>8, <1>10, <2>1
  <2>. QED
    BY <1>2, <1>5, <1>12, <2>2, <2>3 DEF Pending, Names
<1>14. Indexed'
  <2>1. \A k \in 1..Len(index) : index[k] # own
    BY <1>12 DEF Names
  <2>. QED
    BY <1>2, <1>8, <1>10, <2>1, InBetween DEF IndexInv, Indexed
<1>. QED
  BY <1>3, <1>5, <1>11, <1>13, <1>14 DEF IndexInv

\* ... and indexes it, if it has its metadata.
LEMMA IndexOwnIndexed ==
  ASSUME RecordsInv, IndexInv, PipelineIndexes
  PROVE  IndexInv'
<1>1. /\ UNCHANGED <<epas, handlers, starts, minted, task, tmp, file>>
      /\ main.pc = "index" /\ main'.pc = "firstSave"
      /\ index' = IF main.id = 0 THEN index ELSE Append(index, main.id)
      /\ \A s \in Savers : saves'[s].epas = saves[s].epas
  BY DEF PipelineIndexes, StartSave, RecordsInv, Waiting, Savers, boundVars, At
<1>2. Counted'
  BY <1>1 DEF IndexInv, Counted
<1>3. LowId' = LowId /\ OwnId' = OwnId
  BY <1>1 DEF LowId, OwnId
<1>4. PICK low : low = LowId
  OBVIOUS
<1>5. low = OwnId /\ OwnId \in Nat /\ index \in Seq(Named(low))
  BY <1>1, <1>4, OwnIds DEF LowId, IndexInv, Within
<1>6. main.id # 0 => main.id = OwnId /\ OwnId \in Named(low) /\ Stored(epas, OwnId)
  BY <1>1, <1>5 DEF IndexInv, Pending, Named, InClear, Stored
<1>7. index' \in Seq(Named(low))
  BY <1>1, <1>5, <1>6
<1>8. Within(low)'
  BY <1>1, <1>4, <1>7 DEF IndexInv, Within
<1>9. Indexed'
  <2>1. CASE main.id = 0
    BY <1>1, <2>1, InBetween DEF IndexInv, Indexed
  <2>2. CASE main.id # 0
    <3>1. /\ Len(index) \in Nat /\ Len(index') = Len(index) + 1
          /\ \A k \in 1..Len(index) : index'[k] = index[k]
          /\ index'[Len(index) + 1] = OwnId
      BY <1>1, <1>5, <1>6, <2>2
    <3>2. \A k \in 1..(Len(index) + 1) : k \in 1..Len(index) \/ k = Len(index) + 1
      BY <3>1
    <3>. QED
      BY <1>1, <1>6, <2>2, <3>1, <3>2, InBetween DEF IndexInv, Indexed
  <2>. QED
    BY <2>1, <2>2
<1>10. Pending'
  BY <1>1 DEF Pending
<1>. QED
  BY <1>2, <1>3, <1>4, <1>8, <1>9, <1>10 DEF IndexInv

\* A process ends: what was in memory goes.
LEMMA IndexGone ==
  ASSUME IndexInv, Gone, UNCHANGED <<minted, tmp, file, starts>>
  PROVE  IndexInv'
<1>1. /\ epas' = <<>> /\ index' = <<>> /\ task'.id = 0 /\ main'.pc = "down"
      /\ handlers' = [h \in Handlers |-> Idle] /\ saves' = [s \in Savers |-> NoSave]
  BY DEF Gone, At, NoTask
<1> DEFINE none == <<>>
<1>7. /\ \A h \in Handlers : handlers'[h].done = none /\ handlers'[h].refs = none
      /\ \A s \in Savers : saves'[s].epas = none
  BY <1>1 DEF Idle, NoSave
<1>8. none \in Seq(Done)
  OBVIOUS
<1> HIDE DEF none
<1>2. Counted'
  BY <1>1, <1>7, <1>8 DEF IndexInv, Counted, FirstOwn
<1>3. PICK low : low = OwnId
  OBVIOUS
<1>4. low \in Nat /\ Within(low) /\ LowId' = low
  <2>1. OwnId \in Nat /\ LowId \in Nat /\ OwnId <= LowId
    BY OwnIds DEF IndexInv
  <2>2. LowId' = OwnId
    BY <1>1 DEF LowId, OwnId
  <2>. QED
    BY <1>3, <2>1, <2>2, LowerWithin DEF IndexInv
<1>5. Within(low)'
  <2>1. none \in Lists(low) /\ none \in Seq(Named(low)) /\ epas' = none /\ index' = none
    BY <1>1 DEF Lists, OnlyFirst, none
  <2>. QED
    BY <1>4, <1>7, <2>1 DEF Within
<1>6. Pending' /\ Indexed'
  BY <1>1 DEF Pending, Indexed
<1>. QED
  BY <1>2, <1>4, <1>5, <1>6 DEF IndexInv

\* A process starts: its index is made of what the file has.
LEMMA IndexStarts ==
  ASSUME IndexInv, Start \/ Generates \/ FillsIdentity
  PROVE  IndexInv'
<1>1. /\ UNCHANGED <<minted, tmp, file, handlers, task, saves>>
      /\ \/ UNCHANGED <<epas, index>>
         \/ epas' = LoadedEpas(file) /\ index' = BuildIndex(LoadedEpas(file))
      /\ main.pc # "index" /\ main'.pc # "index"
      /\ starts' \in 0..(FirstSuppression - FirstOwn - 1)
      /\ LowId' <= LowId
  <2>1. starts \in 0..4 /\ FirstSuppression = 10 /\ FirstOwn = 5
    BY DEF IndexInv, Counted, FirstSuppression, FirstOwn
  <2>2. CASE Start
    <3>1. /\ main.pc = "down" /\ main'.pc \in {"down", "push"}
          /\ starts > 0 /\ starts' = starts - 1
      BY <2>2 DEF Start, Started, At
    <3>2. LowId' <= LowId
      BY <2>1, <3>1 DEF LowId, OwnId
    <3>. QED
      BY <2>1, <2>2, <3>1, <3>2 DEF Start, Started, fileVars
  <2>3. CASE Generates
    <3>1. /\ main.pc = "down" /\ main'.pc \in {"identityPlain", "identitySealed"}
          /\ starts > 0 /\ starts' = starts - 1
      BY <2>3 DEF Generates, At
    <3>2. LowId' <= LowId
      BY <2>1, <3>1 DEF LowId, OwnId
    <3>. QED
      BY <2>1, <2>3, <3>1, <3>2 DEF Generates, fileVars, storeVars
  <2>4. CASE FillsIdentity
    <3>1. /\ main.pc \in {"identityPlain", "identitySealed"} /\ main'.pc = "push"
          /\ starts' = starts
      BY <2>4 DEF FillsIdentity, Started, At, boundVars
    <3>2. LowId' <= LowId
      BY <2>1, <3>1 DEF LowId, OwnId
    <3>. QED
      BY <2>1, <2>4, <3>1, <3>2 DEF FillsIdentity, Started, fileVars
  <2>. QED
    BY <2>2, <2>3, <2>4
<1>2. Counted'
  BY <1>1 DEF IndexInv, Counted
<1>3. PICK low : low = LowId'
  OBVIOUS
<1>4. low \in Nat /\ Within(low)
  <2>1. LowId \in Nat /\ LowId' \in Nat
    <3>1. LowId \in Nat
      BY OwnIds DEF IndexInv
    <3>2. starts' \in Nat
      BY <1>1 DEF FirstOwn, FirstSuppression
    <3>3. PICK n : n = starts'
      OBVIOUS
    <3>4. LowId' \in {FirstOwn + n, FirstOwn + n + 1}
      BY <3>3 DEF LowId, OwnId
    <3>5. FirstOwn + n \in Nat /\ FirstOwn + n + 1 \in Nat
      <4>1. n \in Nat
        BY <3>2, <3>3
      <4>2. \A m \in Nat : 5 + m \in Nat /\ 5 + m + 1 \in Nat
        OBVIOUS
      <4>. QED
        BY <4>1, <4>2 DEF FirstOwn
    <3>. QED
      BY <3>1, <3>4, <3>5
  <2>. QED
    BY <1>1, <1>3, <2>1, LowerWithin DEF IndexInv
<1>5. /\ LoadedEpas(file) \in Lists(low)
      /\ BuildIndex(LoadedEpas(file)) \in Seq(Named(low))
      /\ \A k \in 1..Len(BuildIndex(LoadedEpas(file))) :
           Stored(LoadedEpas(file), BuildIndex(LoadedEpas(file))[k])
  <2>1. <<>> \in Lists(low)
    BY DEF Lists, OnlyFirst
  <2>2. LoadedEpas(file) \in Lists(low)
    BY <1>4, <2>1 DEF LoadedEpas, Within
  <2>. QED
    BY <2>2, BuildIndexNames
<1>6. Within(low)'
  BY <1>1, <1>4, <1>5 DEF Within
<1>7. Indexed'
  <2>1. CASE UNCHANGED <<epas, index>>
    BY <1>1, <2>1, InBetween DEF IndexInv, Indexed
  <2>2. CASE epas' = LoadedEpas(file) /\ index' = BuildIndex(LoadedEpas(file))
    BY <1>5, <2>2 DEF Indexed
  <2>. QED
    BY <1>1, <2>1, <2>2
<1>8. Pending'
  BY <1>1 DEF Pending
<1>. QED
  BY <1>2, <1>3, <1>6, <1>7, <1>8 DEF IndexInv

-----------------------------------------------------------------------------
\* The requests of the data subject.
LEMMA IndexServed ==
  ASSUME LinksTyped, IndexInv, NEW h \in Handlers,
         AskAnonymize(h) \/ AskRevoke(h) \/ Serving(h)
  PROVE  IndexInv'
<1>1. /\ UNCHANGED <<task, main, saves, tmp, file, starts>>
  BY DEF AskAnonymize, AskRevoke, Asked, Serving, Erases, Blinds, Tells,
     Reindexes, Revokes, fileVars, boundVars
<1>2. /\ DOMAIN handlers = Handlers
      /\ \A g \in Handlers : DOMAIN handlers[g] = {"pc", "refs", "done"}
  BY DEF LinksTyped
<1>3. /\ DOMAIN handlers' = Handlers
      /\ \A g \in Handlers \ {h} : handlers'[g] = handlers[g]
  BY <1>2 DEF AskAnonymize, AskRevoke, Asked, Serving, Erases, Blinds, Tells,
     Reindexes, Revokes
<1>4. LowId' = LowId /\ OwnId' = OwnId
  BY <1>1 DEF LowId, OwnId
<1>5. PICK low : low = LowId
  OBVIOUS
<1>6. PICK own : own = OwnId
  OBVIOUS
<1>7. /\ low \in 0..FirstSuppression /\ low \in Nat /\ ~IsSuppression(own) /\ Within(low)
  <2>1. OwnId \in Nat /\ LowId \in OwnId..FirstSuppression /\ ~IsSuppression(OwnId)
    BY OwnIds DEF IndexInv
  <2>. QED
    BY <1>5, <1>6, <2>1 DEF IndexInv, FirstSuppression
<1> DEFINE Calm == main.pc = "index" /\ main.id # 0
<1>8. Calm => /\ main.id = own /\ InClear(epas, own) /\ ~Names(index, own)
              /\ \A g \in Handlers : ~Names(handlers[g].refs, own)
  BY <1>6 DEF IndexInv, Pending
<1> HIDE DEF Calm
\* What has to be shown of such a step.
<1>9. ASSUME minted' \in Nat, epas' \in Lists(low), index' \in Seq(Named(low)),
             handlers'[h].refs \in Seq(Named(low)), handlers'[h].done \in Seq(Done),
             Calm => /\ InClear(epas', own) /\ ~Names(index', own)
                     /\ ~Names(handlers'[h].refs, own),
             Indexed'
      PROVE  IndexInv'
  <2>1. Counted'
    BY <1>1, <1>3, <1>9 DEF IndexInv, Counted
  <2>2. Within(low)'
    BY <1>1, <1>3, <1>7, <1>9 DEF Within
  <2>3. Pending'
    BY <1>1, <1>3, <1>4, <1>6, <1>8, <1>9 DEF Pending, Calm
  <2>. QED
    BY <1>4, <1>5, <1>9, <2>1, <2>2, <2>3 DEF IndexInv
<1>10. /\ minted \in Nat /\ epas \in Lists(low) /\ index \in Seq(Named(low))
       /\ handlers[h].refs \in Seq(Named(low)) /\ handlers[h].done \in Seq(Done)
  BY <1>7 DEF IndexInv, Within, Counted
<1>11. <<>> \in Seq(Named(low)) /\ <<>> \in Seq(Done) /\ \A id : ~Names(<<>>, id)
  BY DEF Names
\* What is between two locks stays so, unless this request ends it.
<1>12. ASSUME NEW r, Between(r),
              handlers[h].pc \in {"blind", "tell", "reindex"} =>
                \/ handlers'[h].pc \in {"blind", "tell", "reindex"}
                   /\ handlers'[h].done = handlers[h].done
                \/ r \notin Originals(h)
       PROVE  Between(r)'
  <2>1. PICK g \in Handlers :
          handlers[g].pc \in {"blind", "tell", "reindex"} /\ r \in Originals(g)
    BY <1>12 DEF Between
  <2>2. handlers'[g].pc \in {"blind", "tell", "reindex"} /\ r \in Originals(g)'
    BY <1>3, <1>12, <2>1 DEF Originals
  <2>. QED
    BY <2>1, <2>2 DEF Between
<1>18. ASSUME \A r : Names(index', r) /\ ~IsSuppression(r) => Between(r)' \/ Stored(epas', r)
       PROVE  Indexed'
  BY <1>18 DEF Indexed, Names
<1>13. CASE AskAnonymize(h) \/ AskRevoke(h)
  <2>1. /\ UNCHANGED <<epas, index, minted>> /\ handlers[h].pc = "idle"
        /\ handlers'[h].refs = index /\ handlers'[h].done = <<>>
    BY <1>2, <1>13 DEF AskAnonymize, AskRevoke, Asked, Idle, storeVars
  <2>2. Indexed'
    BY <1>12, <2>1 DEF IndexInv, Indexed
  <2>. QED
    BY <1>8, <1>9, <1>10, <1>11, <2>1, <2>2
<1>14. CASE Erases(h)
  <2> DEFINE out == Erasure(handlers[h].refs)
  <2>1. /\ handlers[h].pc = "erase" /\ UNCHANGED index
        /\ epas' = out.list /\ minted' = out.minted
        /\ handlers'[h] = [pc |-> "blind", refs |-> <<>>, done |-> out.done]
    BY <1>2, <1>14 DEF Erases
  <2>2. out \in Accs(low) /\ Strips(out, epas, handlers[h].refs)
    <3>1. Named(low) \subseteq Nat
      BY DEF Named
    <3>2. handlers[h].refs \in Seq(Nat)
      BY <1>10, <3>1
    <3>. QED
      BY <1>7, <1>10, <3>2, ErasureStrips
  <2> HIDE DEF out
  <2>3. /\ epas' \in Lists(low) /\ minted' \in Nat
        /\ handlers'[h].done \in Seq(Done) /\ handlers'[h].refs = <<>>
    BY <2>1, <2>2 DEF Accs
  <2>4. ASSUME NEW r, r \in OriginalsOf(out.done) PROVE Between(r)'
    <3>1. r \in Originals(h)'
      BY <2>1, <2>4 DEF Originals, OriginalsOf
    <3>. QED
      BY <2>1, <3>1 DEF Between
  <2>5. Indexed'
    <3> SUFFICES ASSUME NEW k \in 1..Len(index), ~IsSuppression(index[k])
                 PROVE  Between(index[k])' \/ Stored(epas', index[k])
      BY <2>1 DEF Indexed
    <3>1. CASE Between(index[k])
      BY <1>12, <2>1, <3>1
    <3>2. CASE Stored(epas, index[k])
      BY <2>1, <2>2, <2>4, <3>2 DEF Strips
    <3>. QED
      BY <3>1, <3>2 DEF IndexInv, Indexed
  <2>6. Calm => InClear(epas', own)
    BY <1>7, <1>8, <2>1, <2>2 DEF Strips
  <2>. QED
    BY <1>8, <1>9, <1>10, <1>11, <2>1, <2>3, <2>5, <2>6
<1>15. CASE Blinds(h) \/ Tells(h)
  <2>1. /\ UNCHANGED <<epas, index, minted>>
        /\ handlers'[h].pc \in {"blind", "tell", "reindex"}
        /\ handlers'[h].refs = handlers[h].refs /\ handlers'[h].done = handlers[h].done
    BY <1>2, <1>15 DEF Blinds, Tells, storeVars
  <2>2. Indexed'
    BY <1>12, <2>1 DEF IndexInv, Indexed
  <2>. QED
    BY <1>8, <1>9, <1>10, <2>1, <2>2
<1>16. CASE Reindexes(h)
  <2>1. /\ UNCHANGED <<epas, minted>> /\ index' = Reindexed(handlers[h].done)
        /\ handlers[h].pc = "reindex" /\ handlers'[h] = Idle
    BY <1>2, <1>16 DEF Reindexes
  <2>2. Originals(h) = OriginalsOf(handlers[h].done)
    BY DEF Originals, OriginalsOf
  <2> DEFINE S == {r \in Named(low) : Names(index, r)}
             Supp == {r \in Nat : IsSuppression(r)}
             T == {r \in S : r \notin OriginalsOf(handlers[h].done)} \union Supp
  <2>3. index \in Seq(S)
    BY <1>10 DEF Names
  <2>4. index' \in Seq(T)
    <3> HIDE DEF S
    <3>. QED
      BY <1>10, <2>1, <2>3, ReindexedNames
  <2>5. T \subseteq Named(low)
    BY <1>7 DEF Named, IsSuppression, FirstSuppression
  <2>6. \A k \in 1..Len(index') : index'[k] \in T
    <3> HIDE DEF T
    <3>. QED
      BY <2>4
  <2>7. index' \in Seq(Named(low))
    <3> HIDE DEF T
    <3>. QED
      BY <2>4, <2>5
  <2>8. Calm => ~Names(index', own)
    BY <1>7, <1>8, <2>6 DEF Names
  <2>9. Indexed'
    <3> SUFFICES ASSUME NEW r, Names(index', r), ~IsSuppression(r)
                 PROVE  Between(r)' \/ Stored(epas, r)
      BY <1>18, <2>1
    <3>2. r \notin Originals(h) /\ Names(index, r) /\ ~IsSuppression(r)
      BY <2>2, <2>6 DEF Names
    <3>3. Between(r) \/ Stored(epas, r)
      BY <3>2 DEF Names, IndexInv, Indexed
    <3>4. Between(r) => Between(r)'
      BY <1>12, <3>2
    <3>. QED
      BY <3>3, <3>4
  <2>. QED
    BY <1>8, <1>9, <1>10, <1>11, <2>1, <2>7, <2>8, <2>9 DEF Idle
<1>17. CASE Revokes(h)
  <2>1. /\ UNCHANGED <<epas, minted>> /\ handlers[h].pc = "revoke" /\ handlers'[h] = Idle
        /\ \E places : index' = Picked(index, places)
    BY <1>2, <1>17 DEF Revokes
  <2>2. PICK places : index' = Picked(index, places)
    BY <2>1
  <2> DEFINE S == {r \in Named(low) : Names(index, r)}
  <2>3. index' \in Seq(S)
    <3>1. Len(index) \in Nat /\ \A k \in 1..Len(index) : k \in places => index[k] \in S
      BY <1>10 DEF Names
    <3> HIDE DEF S
    <3>. QED
      BY <2>2, <3>1, PickedFrom
  <2>4. index' \in Seq(Named(low)) /\ \A k \in 1..Len(index') : index'[k] \in S
    <3>1. S \subseteq Named(low)
      OBVIOUS
    <3> HIDE DEF S
    <3>. QED
      BY <2>3, <3>1
  <2>5. Calm => ~Names(index', own)
    BY <1>8, <2>4 DEF Names
  <2>6. Indexed'
    <3> SUFFICES ASSUME NEW r, Names(index', r), ~IsSuppression(r)
                 PROVE  Between(r)' \/ Stored(epas, r)
      BY <1>18, <2>1
    <3>2. Names(index, r) /\ ~IsSuppression(r)
      BY <2>4 DEF Names
    <3>3. Between(r) \/ Stored(epas, r)
      BY <3>2 DEF Names, IndexInv, Indexed
    <3>4. Between(r) => Between(r)'
      BY <1>12, <2>1
    <3>. QED
      BY <3>3, <3>4
  <2>. QED
    BY <1>8, <1>9, <1>10, <1>11, <2>1, <2>4, <2>5, <2>6 DEF Idle
<1>. QED
  BY <1>13, <1>14, <1>15, <1>16, <1>17 DEF Serving

\* Each step keeps it.
LEMMA IndexKeeps ==
  ASSUME RecordsInv, LinksTyped, IndexInv, [RecordsNext]_recordsVars
  PROVE  IndexInv'
<1>1. /\ DOMAIN saves = Savers
      /\ \A s \in Savers : DOMAIN saves[s] = {"pc", "epas", "prov", "at"}
      /\ DOMAIN task = {"pc", "id"}
  BY DEF RecordsInv, Waiting
<1>2. \A s \in Savers : StartSave(s) => \A o \in Savers : saves'[o].epas = saves[o].epas
  BY <1>1 DEF StartSave
<1>3. CASE UNCHANGED recordsVars
  BY <1>3, IndexElsewhere DEF recordsVars, storeVars, fileVars, boundVars, Held
<1>4. ASSUME NEW s \in Savers, Saving(s)
      PROVE  IndexInv'
  <2>1. UNCHANGED <<epas, index, handlers, starts, minted>>
    BY <1>4 DEF Saving, Reads, ReadsProv, Opens, Fills, Renames, storeVars, boundVars
  <2>2. task' = task \/ task' = NoTask
    BY <1>4 DEF Saving, Reads, ReadsProv, Opens, Fills, Renames
  <2>3. main' = main \/ (main.pc \notin OwnSteps /\ main'.pc \notin OwnSteps)
    <3>1. CASE Renames(s)
      <4>1. saves[s].pc # "idle"
        BY <3>1 DEF Renames
      <4>. QED
        BY <3>1, <4>1 DEF Renames, At, OwnSteps, RecordsInv, Waiting, Savers
    <3>. QED
      BY <1>4, <3>1 DEF Saving, Reads, ReadsProv, Opens, Fills
  <2>4. Empty.epas = <<>> /\ Absent.epas = <<>> /\ Torn.epas = <<>> /\ NoSave.epas = <<>>
    BY DEF Empty, Absent, Torn, NoSave
  <2>5. file'.epas \in Held /\ tmp'.epas \in Held
    <3>1. CASE Fills(s)
      <4> DEFINE own == Content(saves[s].epas, saves[s].prov)
      <4>1. own.epas = saves[s].epas
        BY DEF Content
      <4>2. \A old : Written(own, old) \subseteq {own, Torn}
        BY DEF Written
      <4> HIDE DEF own
      <4>3. file' \in {own, Torn, file} /\ tmp' \in {own, Torn, tmp}
        BY <3>1, <4>2 DEF Fills, own
      <4>. QED
        BY <2>4, <4>1, <4>3 DEF Held
    <3>2. CASE Reads(s) \/ ReadsProv(s) \/ Opens(s) \/ Renames(s)
      <4>1. file' \in {file, tmp} /\ tmp' \in {tmp, Absent, Empty}
        BY <3>2 DEF Reads, ReadsProv, Opens, Renames
      <4>. QED
        BY <2>4, <4>1 DEF Held
    <3>. QED
      BY <1>4, <3>1, <3>2 DEF Saving
  <2>6. ASSUME NEW o \in Savers
        PROVE  saves'[o].epas \in Held
    <3>1. saves'[o].epas \in {saves[o].epas, epas, <<>>}
      <4>1. CASE Renames(s)
        BY <1>1, <2>4, <4>1 DEF Renames
      <4>2. CASE Reads(s) \/ ReadsProv(s) \/ Opens(s) \/ Fills(s)
        BY <1>1, <4>2 DEF Reads, ReadsProv, Opens, Fills
      <4>. QED
        BY <1>4, <4>1, <4>2 DEF Saving
    <3>. QED
      BY <3>1 DEF Held
  <2>. QED
    BY <2>1, <2>2, <2>3, <2>5, <2>6, IndexElsewhere DEF NoTask
<1>5. CASE \/ RecordsOutcome \/ FillsReputation \/ Discover
           \/ \E n \in Range(NodeOf) : RuleAdjusts(n)
           \/ \E id \in Ids : EpaMessage(id)
  <2>1. UNCHANGED <<epas, index, handlers, starts, minted, main, tmp, file, saves>>
    BY <1>5 DEF RecordsOutcome, FillsReputation, Discover, RuleAdjusts, EpaMessage,
       storeVars, fileVars, boundVars
  <2>2. task'.id \in {task.id, 0} \union Ids
    BY <1>1, <1>5 DEF RecordsOutcome, FillsReputation, Discover, RuleAdjusts, EpaMessage,
       NoTask
  <2>. QED
    BY <2>1, <2>2, IndexElsewhere DEF Held
<1>6. CASE Interrupted \/ MainFillsReputation \/ WritesCheckpoint
  <2>1. /\ UNCHANGED <<epas, index, handlers, starts, minted, task, tmp, file>>
        /\ saves' = saves \/ StartSave("main")
    BY <1>6 DEF Interrupted, MainFillsReputation, WritesCheckpoint, storeVars, fileVars,
       boundVars
  <2>2. main.pc \notin OwnSteps /\ main'.pc \notin OwnSteps
    BY <1>6 DEF Interrupted, MainFillsReputation, WritesCheckpoint, At, OwnSteps
  <2>3. \A s \in Savers : saves'[s].epas = saves[s].epas
    BY <1>2, <2>1 DEF Savers
  <2>. QED
    BY <2>1, <2>2, <2>3, IndexElsewhere DEF Held
<1>7. CASE TaskPushes
  <2>1. PICK e : e = [id |-> task.id, personal |-> TRUE]
    OBVIOUS
  <2>2. /\ UNCHANGED <<index, handlers, starts, main, tmp, file, minted>>
        /\ epas' = Push(epas, e) /\ task'.id = 0
        /\ \A s \in Savers : saves'[s].epas = saves[s].epas
    BY <1>2, <1>7, <2>1 DEF TaskPushes, boundVars, Savers
  <2>3. task.id \in Nat /\ task.id < FirstOwn /\ minted \in Nat
    BY DEF IndexInv, Counted, FirstOwn
  <2>. QED
    BY <2>1, <2>2, <2>3, IndexPushes
<1>8. ASSUME NEW id \in Ids, ReceiveEpa(id)
      PROVE  IndexInv'
  <2> DEFINE e == [id |-> id, personal |-> TRUE]
  <2>1. /\ UNCHANGED <<index, handlers, starts, main, tmp, file, minted, task, saves>>
        /\ epas' = Push(epas, e)
    BY <1>8 DEF ReceiveEpa, fileVars
  <2>2. id \in Nat /\ id < FirstOwn /\ minted \in Nat
    BY RecordsAssumption DEF IndexInv, Counted, FirstOwn
  <2>3. e \in [id : Nat, personal : BOOLEAN] /\ e.id < FirstOwn /\ e.personal
    BY <2>2
  <2> HIDE DEF e
  <2>. QED
    BY <2>1, <2>2, <2>3, IndexPushes
<1>9. CASE ReceiveEncryptedEpa
  <2>1. PICK e : e = [id |-> FirstSuppression + minted, personal |-> FALSE]
    OBVIOUS
  <2>2. /\ UNCHANGED <<index, handlers, starts, main, tmp, file, task, saves>>
        /\ epas' = Push(epas, e) /\ minted' = minted + 1
    BY <1>9, <2>1 DEF ReceiveEncryptedEpa, fileVars
  <2>3. minted \in Nat /\ minted' \in Nat
    BY <2>2 DEF IndexInv, Counted
  <2>4. e \in [id : Nat, personal : BOOLEAN] /\ IsSuppression(e.id)
    BY <2>1, <2>3 DEF IsSuppression, FirstSuppression
  <2>. QED
    BY <2>2, <2>3, <2>4, IndexPushes
<1>10. CASE RenamesCheckpoint \/ Crash
  BY <1>10, IndexGone DEF RenamesCheckpoint, Crash, boundVars
<1>11. CASE \E h \in Handlers : AskAnonymize(h) \/ AskRevoke(h) \/ Serving(h)
  BY <1>11, IndexServed
<1>. QED
  BY <1>3, <1>4, <1>5, <1>6, <1>7, <1>8, <1>9, <1>10, <1>11, IndexOwnPushed,
     IndexOwnIndexed, IndexStarts DEF RecordsNext, Task, Main

\* It holds at first ...
LEMMA IndexInitially == RecordsInit => IndexInv
<1> SUFFICES ASSUME RecordsInit PROVE IndexInv
  OBVIOUS
<1>1. /\ minted = 0 /\ task.id = 0 /\ main.pc \in {"down", "push"}
      /\ handlers = [h \in Handlers |-> Idle] /\ saves = [s \in Savers |-> NoSave]
      /\ file \in {Absent, FirstFile} /\ tmp = Absent
      /\ epas = file.epas /\ index = BuildIndex(file.epas)
  BY DEF RecordsInit, At, NoTask
<1>2. starts \in 0..(FirstSuppression - FirstOwn - 1)
  <2>1. PICK b \in Budgets : starts = b.starts
    BY DEF RecordsInit
  <2>. QED
    BY <2>1, RecordsAssumption
<1> DEFINE none == <<>>
<1>3. /\ \A h \in Handlers : handlers[h].done = none /\ handlers[h].refs = none
      /\ \A s \in Savers : saves[s].epas = none
      /\ tmp.epas = none /\ none \in Seq(Done)
  BY <1>1 DEF Idle, NoSave, Absent
<1> HIDE DEF none
<1>4. Counted
  BY <1>1, <1>2, <1>3 DEF Counted, FirstOwn
<1>5. LowId \in Nat
  BY <1>4, OwnIds
<1>6. none \in Lists(LowId) /\ none \in Seq(Named(LowId))
  BY DEF Lists, OnlyFirst, none
<1>7. file.epas \in Lists(LowId)
  <2> DEFINE e == [id |-> 1, personal |-> TRUE]
  <2>1. e \in Epa(LowId) /\ FirstFile.epas = <<e>>
    <3>1. 1 \in Named(LowId)
      BY DEF Named, FirstOwn
    <3>2. FirstFile.epas = <<e>>
      BY DEF FirstFile, Content
    <3>. QED
      BY <3>1, <3>2 DEF Epa
  <2> HIDE DEF e
  <2>2. <<e>> \in Seq(Epa(LowId)) /\ Len(<<e>>) = 1
    BY <2>1
  <2>3. OnlyFirst(<<e>>)
    BY <2>2 DEF OnlyFirst
  <2>4. Absent.epas = none
    BY DEF Absent, none
  <2>. QED
    BY <1>1, <1>6, <2>1, <2>2, <2>3, <2>4 DEF Lists
<1>8. index \in Seq(Named(LowId)) /\ \A k \in 1..Len(index) : Stored(epas, index[k])
  BY <1>1, <1>7, BuildIndexNames
<1>9. Within(LowId)
  BY <1>1, <1>3, <1>6, <1>7, <1>8 DEF Within
<1>10. Pending /\ Indexed
  BY <1>1, <1>8 DEF Pending, Indexed
<1>. QED
  BY <1>4, <1>9, <1>10 DEF IndexInv

\* ... and the property the runs check follows from it.
LEMMA IndexImplies ==
  ASSUME IndexInv
  PROVE  IndexAgrees
<1>1. epas \in Lists(LowId) /\ index \in Seq(Named(LowId))
  BY DEF IndexInv, Within
<1>2. DOMAIN epas = 1..Len(epas) /\ DOMAIN index = 1..Len(index)
  BY <1>1 DEF Lists
<1>3. \A r : Stored(epas, r) => Copies(r) = {} \/ \E k \in Copies(r) : epas[k].personal
  BY <1>2 DEF Stored, Copies
<1>4. \A r \in ToSet(index) : \E k \in 1..Len(index) : r = index[k]
  BY <1>2 DEF ToSet
<1>. QED
  BY <1>3, <1>4 DEF IndexInv, Indexed, IndexAgrees

-----------------------------------------------------------------------------
\* All that is proved of the records, in one invariant.
NodeInv ==
  RecordsInv /\ LinksTyped /\ LinksFollow /\ RulesFollow /\ OneNode /\ IndexInv

\* It holds at first ...
LEMMA NodeInitially == RecordsInit => NodeInv
BY RecordsInitially, LinksInitially, RulesInitially, IndexInitially DEF NodeInv

\* ... each step keeps it ...
LEMMA NodeKeeps == NodeInv /\ [RecordsNext]_recordsVars => NodeInv'
BY RecordsKeeps, LinksKeep, RulesKeep, IndexKeeps DEF NodeInv

\* ... and the properties the runs check follow from it.
LEMMA NodeImplies ==
  NodeInv => FileWhole /\ RepFollows /\ ComplianceHolds /\ Continuity /\ IndexAgrees
<1>1. RecordsInv => FileWhole /\ RepFollows
  BY DEF RecordsInv, Alone, FileWhole
<1>. QED
BY <1>1, LinksComply, RulesContinue, IndexImplies DEF NodeInv

\* A compliance report shows no child of an EPA that was anonymized, by the index or
\* by the links, and the index has all links: for any requests of the data subject, in
\* any order with saves, starts and crashes (lgpd_rights.rs, titular_anonymize).
THEOREM RecordsComply == RecordsSpec => []ComplianceHolds
<1> QED  BY NodeInitially, NodeKeeps, NodeImplies, PTL DEF RecordsSpec

\* A node comes back as the node it was or not at all, and with the rules a checkpoint
\* can hold, however often and wherever it was cut off (identity.rs, checkpoint.rs).
THEOREM RecordsContinue == RecordsSpec => []Continuity
<1> QED  BY NodeInitially, NodeKeeps, NodeImplies, PTL DEF RecordsSpec

\* The index of the data subject names no EPA that was stripped, unless a request is at
\* work on it: whatever comes in, is made on request or makes room, and whenever the node
\* is cut off and indexes anew what it finds on its disk (lgpd_rights.rs,
\* titular_anonymize).
THEOREM RecordsIndexAgrees == RecordsSpec => []IndexAgrees
<1> QED  BY NodeInitially, NodeKeeps, NodeImplies, PTL DEF RecordsSpec

\* A step of the API is one of the records or leaves them alone.
LEMMA ApiStepsOfTheRecords == [ApiNext]_apiVars => [RecordsNext]_recordsVars
<1> SUFFICES ASSUME [ApiNext]_apiVars PROVE [RecordsNext]_recordsVars
  OBVIOUS
<1>1. Route => RecordsNext
  BY DEF Route, RecordsNext
<1>2. Inside => RecordsNext
  BY DEF Inside, RecordsNext
<1>3. CASE UNCHANGED apiVars
  BY <1>3 DEF apiVars
<1>4. CASE \E s \in Sources : Requested(s) \/ TooMany(s)
  BY <1>1, <1>4 DEF Requested, TooMany
<1>. QED
  BY <1>2, <1>3, <1>4 DEF ApiNext

\* The same behind the API: the limiter lets through or refuses whole requests.
THEOREM ApiRecordsHold ==
  ApiSpec => [](FileWhole /\ RepFollows /\ ComplianceHolds /\ Continuity /\ IndexAgrees)
<1>1. ApiInit => NodeInv
  BY NodeInitially DEF ApiInit
<1>2. NodeInv /\ [ApiNext]_apiVars => NodeInv'
  BY NodeKeeps, ApiStepsOfTheRecords
<1> QED  BY <1>1, <1>2, NodeImplies, PTL DEF ApiSpec

=============================================================================
