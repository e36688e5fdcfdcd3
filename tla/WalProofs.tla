----------------------------- MODULE WalProofs -----------------------------
(***************************************************************************)
(* Proofs about the write-ahead log and the executor that appends to it,    *)
(* for any threads, any requests and any bounds: the type invariant, the    *)
(* uniqueness of the timestamps of a session, that the file holds every     *)
(* record where replay() looks, and that replay() finds these records and   *)
(* nothing else.  The steps of the executor are steps of the log, so that   *)
(* what is proved of the log holds of it, and the log witnesses the swaps   *)
(* of the session in their order.                                           *)
(***************************************************************************)
EXTENDS Executor, SequenceTheorems, FiniteSetTheorems, WellFoundedInduction, TLAPS

\* An encoded record is eight words.
LEMMA EncodeType ==
  ASSUME NEW r \in WalRecord
  PROVE  /\ Encode(r) \in Seq(Nat)
         /\ Len(Encode(r)) = RECORD_SIZE
<1>1. /\ r.type \in Nat /\ r.leaf_index \in Nat
      /\ r.timestamp \in Nat /\ r.content_id \in Nat
  BY DEF WalRecord, Leaf, Heartbeat, EpochSeal
<1>2. r.hash[1] \in Nat /\ r.hash[2] \in Nat /\ r.hash[3] \in Nat
        /\ r.hash[4] \in Nat
  BY DEF WalRecord, Hash, HashWords
<1>. QED
  BY <1>1, <1>2 DEF Encode, RECORD_SIZE

\* So is every prefix of one that a failed write_all leaves.
LEMMA ShortWriteType ==
  ASSUME NEW r \in WalRecord, NEW n \in 0..(RECORD_SIZE - 1)
  PROVE  /\ SubSeq(Encode(r), 1, n) \in Seq(Nat)
         /\ Len(SubSeq(Encode(r), 1, n)) = n
<1> DEFINE e == Encode(r)
<1>1. e \in Seq(Nat) /\ Len(e) = RECORD_SIZE
  BY EncodeType
<1> HIDE DEF e
<1>3. n \in Int /\ 1 \in Int /\ n <= RECORD_SIZE
  BY DEF RECORD_SIZE
<1>2. ASSUME NEW i \in 1..n PROVE e[i] \in Nat
  <2>1. i \in 1..Len(e)
    BY <1>1, <1>3 DEF RECORD_SIZE
  <2>. QED
    BY <2>1, <1>1
<1>4. /\ SubSeq(e, 1, n) \in Seq(Nat)
      /\ Len(SubSeq(e, 1, n)) = IF 1 <= n THEN n - 1 + 1 ELSE 0
  BY <1>2, <1>3, SubSeqProperties
<1>5. Len(SubSeq(e, 1, n)) = n
  BY <1>4 DEF RECORD_SIZE
<1>. QED
  BY <1>4, <1>5 DEF e

\* What a write_all does to a file: the length never shrinks, the words
\* written are at the offset, and every other word is as it was.
LEMMA WriteAtEffect ==
  ASSUME NEW f \in Seq(Nat), NEW off \in Nat, NEW ws \in Seq(Nat)
  PROVE  /\ WriteAt(f, off, ws) \in Seq(Nat)
         /\ Len(WriteAt(f, off, ws)) >= Len(f)
         /\ Len(WriteAt(f, off, ws)) >= off + Len(ws)
         /\ \A j \in 1..Len(ws) : WriteAt(f, off, ws)[off + j] = ws[j]
         /\ \A i \in 1..Len(f) :
              (i <= off \/ i > off + Len(ws)) => WriteAt(f, off, ws)[i] = f[i]
<1> DEFINE top == IF off + Len(ws) > Len(f) THEN off + Len(ws) ELSE Len(f)
           g == WriteAt(f, off, ws)
<1>1. /\ top \in Nat
      /\ top >= Len(f)
      /\ top >= off + Len(ws)
  OBVIOUS
<1>2. g = [i \in 1..top |->
             IF i > off /\ i <= off + Len(ws) THEN ws[i - off]
             ELSE IF i <= Len(f) THEN f[i] ELSE 0]
  BY DEF WriteAt
<1>3. \A i \in 1..top : g[i] \in Nat
  <2> SUFFICES ASSUME NEW i \in 1..top PROVE g[i] \in Nat
    OBVIOUS
  <2>1. CASE i > off /\ i <= off + Len(ws)
    <3>1. i - off \in 1..Len(ws)
      BY <2>1
    <3>. QED
      BY <3>1, <2>1, <1>2
  <2>2. CASE ~(i > off /\ i <= off + Len(ws))
    BY <2>2, <1>2
  <2>. QED
    BY <2>1, <2>2
<1>4. g \in Seq(Nat) /\ Len(g) = top
  BY <1>1, <1>2, <1>3
<1>5. \A j \in 1..Len(ws) : g[off + j] = ws[j]
  <2> SUFFICES ASSUME NEW j \in 1..Len(ws) PROVE g[off + j] = ws[j]
    OBVIOUS
  <2>1. off + j \in 1..top /\ (off + j) - off = j
    BY <1>1
  <2>. QED
    BY <2>1, <1>2
<1>6. \A i \in 1..Len(f) : (i <= off \/ i > off + Len(ws)) => g[i] = f[i]
  BY <1>1, <1>2
<1>. QED
  BY <1>1, <1>4, <1>5, <1>6

\* A fresh header is a file of HEADER_SIZE words.
LEMMA HeaderType ==
  Header \in Seq(Nat) /\ Len(Header) = HEADER_SIZE
<1>1. \A i \in 1..HEADER_SIZE : Header[i] \in Nat
  BY DEF Header, MAGIC, VERSION
<1>. QED
  BY <1>1 DEF Header, HEADER_SIZE

-----------------------------------------------------------------------------
\* The type invariant needs to know that nothing was logged before the file
\* was made and that no call is in progress while the store is not open.
LifeCycle ==
  /\ mode \in {"absent", "creating"} => (log = <<>> /\ file = <<>>)
  /\ ~IsOpen => (appending = Idle /\ syncing = Idle)

\* A step of the log whatever is appended, by whoever uses the store.
WalStep ==
  \/ CreateFile
  \/ CreateHeader
  \/ \E replayed \in BOOLEAN : Open(replayed)
  \/ \E w \in Writers, req \in Request : AppendDraw(w, req)
  \/ \E w \in Writers : AppendWrite(w)
  \/ \E w \in Writers, n \in ShortWrites : AppendFail(w, n)
  \/ \E w \in Writers : SyncLoad(w)
  \/ \E w \in Writers : SyncWrite(w)
  \/ Crash
  \/ Close

\* The requests of a specification are requests.
LEMMA NextIsStep == [WalNext]_walVars => [WalStep]_walVars
<1>1. Requests \subseteq Request
  BY WalAssumption
<1>. QED
  BY <1>1 DEF WalNext, WalStep

\* The store starts typed.
LEMMA InitTyped == WalInit => WalTypeOK /\ LifeCycle
<1> SUFFICES ASSUME WalInit PROVE WalTypeOK /\ LifeCycle
  OBVIOUS
<1>1. Idle \in [Writers -> WalRecord \cup {None}]
        /\ Idle \in [Writers -> Nat \cup {None}]
  BY DEF Idle
<1>2. file \in Seq(Nat) /\ log \in Seq(WalRecord) /\ Len(file) = 0
        /\ Len(log) = 0
  BY DEF WalInit
<1>3. fsynced \in 0..Len(file) /\ session \in 0..Len(log)
  BY <1>2 DEF WalInit
<1>4. WalTypeOK
  BY <1>1, <1>2, <1>3 DEF WalInit, WalTypeOK
<1>. QED
  BY <1>4 DEF WalInit, LifeCycle, IsOpen

\* Each call on the store keeps its types.
LEMMA NextTyped ==
  WalTypeOK /\ LifeCycle /\ [WalStep]_walVars => (WalTypeOK /\ LifeCycle)'
<1> SUFFICES ASSUME WalTypeOK, LifeCycle, [WalStep]_walVars
             PROVE  WalTypeOK' /\ LifeCycle'
  OBVIOUS
<1> USE WalAssumption DEF WalTypeOK, LifeCycle, IsOpen, Idle
<1>1. CASE CreateFile
  BY <1>1 DEF CreateFile
<1>2. CASE CreateHeader
  BY <1>2, HeaderType DEF CreateHeader, HEADER_SIZE
<1>3. ASSUME NEW replayed \in BOOLEAN, Open(replayed)
      PROVE  WalTypeOK' /\ LifeCycle'
  <2>1. OpenCounter(file) \in Nat
    BY DEF OpenCounter, Decode, HEADER_SIZE, RECORD_SIZE
  <2>2. ReplayCounter(file, OpenCounter(file)) \in Nat
    <3>1. CASE Len(file) >= HEADER_SIZE
      <4>1. ChunkCount(file) \in Nat /\ ChunkCount(file) >= 1
                /\ 8 * ChunkCount(file) <= Len(file)
        BY <3>1 DEF ChunkCount, HEADER_SIZE, RECORD_SIZE
      <4>2. 8 * (ChunkCount(file) - 1) + 7 \in 1..Len(file)
        <5>1. \A m, n \in Nat : n >= 1 /\ 8 * n <= m => 8 * (n - 1) + 7 \in 1..m
          BY ONLY TRUE
        <5>2. Len(file) \in Nat
          OBVIOUS
        <5>. QED
          BY ONLY <4>1, <5>1, <5>2
      <4>. QED
        BY <4>2, <2>1 DEF ReplayCounter, Decode, Chunk, RECORD_SIZE
    <3>2. CASE ~(Len(file) >= HEADER_SIZE)
      BY <3>2, <2>1 DEF ReplayCounter
    <3>. QED
      BY <3>1, <3>2
  <2>. QED
    BY <1>3, <2>1, <2>2 DEF Open
<1>4. ASSUME NEW w \in Writers, NEW req \in Request, AppendDraw(w, req)
      PROVE  WalTypeOK' /\ LifeCycle'
  <2>2. [type |-> req.type, leaf_index |-> req.leaf_index, hash |-> req.hash,
         timestamp |-> monotonic, content_id |-> req.content_id] \in WalRecord
    BY DEF Request, WalRecord
  <2>. QED
    BY <1>4, <2>2 DEF AppendDraw
<1>5. ASSUME NEW w \in Writers, AppendWrite(w)
      PROVE  WalTypeOK' /\ LifeCycle'
  <2>1. appending[w] \in WalRecord /\ IsOpen
    BY <1>5 DEF AppendWrite
  <2>2. Cursor \in Nat
    BY DEF Cursor
  <2>3. file' \in Seq(Nat) /\ Len(file') >= Len(file)
    BY <1>5, <2>1, <2>2, EncodeType, WriteAtEffect DEF AppendWrite
  <2>4. log' \in Seq(WalRecord) /\ Len(log') = Len(log) + 1
    BY <1>5, <2>1 DEF AppendWrite
  <2>5. pos' \in Nat /\ misplaced' \in BOOLEAN
        /\ appending' \in [Writers -> WalRecord \cup {None}]
    BY <1>5, <2>2 DEF AppendWrite, RECORD_SIZE
  <2>. QED
    BY <1>5, <2>1, <2>3, <2>4, <2>5 DEF AppendWrite
<1>6. ASSUME NEW w \in Writers, NEW n \in ShortWrites, AppendFail(w, n)
      PROVE  WalTypeOK' /\ LifeCycle'
  <2>1. appending[w] \in WalRecord /\ IsOpen
    BY <1>6 DEF AppendFail
  <2>2. Cursor \in Nat /\ n \in Nat
    BY DEF Cursor, RECORD_SIZE
  <2>3. SubSeq(Encode(appending[w]), 1, n) \in Seq(Nat)
    BY <2>1, <2>2, ShortWriteType
  <2>4. file' \in Seq(Nat) /\ Len(file') >= Len(file)
    BY <1>6, <2>2, <2>3, WriteAtEffect DEF AppendFail
  <2>5. pos' \in Nat /\ misplaced' \in BOOLEAN
        /\ appending' \in [Writers -> WalRecord \cup {None}]
    BY <1>6, <2>2 DEF AppendFail
  <2>. QED
    BY <1>6, <2>1, <2>4, <2>5 DEF AppendFail
<1>7. ASSUME NEW w \in Writers, SyncLoad(w)
      PROVE  WalTypeOK' /\ LifeCycle'
  BY <1>7 DEF SyncLoad
<1>8. ASSUME NEW w \in Writers, SyncWrite(w)
      PROVE  WalTypeOK' /\ LifeCycle'
  <2>1. syncing[w] \in Nat /\ <<syncing[w]>> \in Seq(Nat) /\ IsOpen
    BY <1>8 DEF SyncWrite
  <2> DEFINE off == IF mode = "append" THEN Len(file) ELSE MAX_TS_OFFSET
  <2>2. off \in Nat
    BY DEF MAX_TS_OFFSET
  <2>3. file' \in Seq(Nat) /\ Len(file') >= Len(file)
    BY <1>8, <2>1, <2>2, WriteAtEffect DEF SyncWrite
  <2>4. pos' \in Nat /\ fsynced' = Len(file') /\ Len(file') \in Nat
    BY <1>8, <2>2, <2>3 DEF SyncWrite
  <2>. QED
    BY <1>8, <2>1, <2>3, <2>4 DEF SyncWrite
<1>9. CASE Crash
  BY <1>9 DEF Crash
<1>10. CASE Close
  BY <1>10 DEF Close
<1>11. CASE UNCHANGED walVars
  BY <1>11 DEF walVars
<1>. QED
  BY <1>1, <1>2, <1>3, <1>4, <1>5, <1>6, <1>7, <1>8, <1>9, <1>10, <1>11 DEF WalStep

\* WalStore keeps its types: every word of the file is a word, the counters
\* and cursors are naturals, whatever order the threads take the lock in.
THEOREM WalTypeCorrect == WalSpec => [](WalTypeOK /\ LifeCycle)
<1>1. WalInit => WalTypeOK /\ LifeCycle
  BY InitTyped
<1>2. WalTypeOK /\ LifeCycle /\ [WalNext]_walVars => (WalTypeOK /\ LifeCycle)'
  BY NextTyped, NextIsStep
<1>. QED
  BY <1>1, <1>2, PTL DEF WalSpec

-----------------------------------------------------------------------------
\* One step of the file: the records that were in place stay there when a
\* write lands at or after the slot of the next record, or in the header.
LEMMA WriteKeepsRecords ==
  ASSUME WalTypeOK, NEW off \in Nat, NEW ws \in Seq(Nat),
         \/ off >= NextSlot
         \/ off + Len(ws) <= HEADER_SIZE,
         file' = WriteAt(file, off, ws),
         NEW k \in 1..Len(log),
         HEADER_SIZE + RECORD_SIZE * k <= Len(file), InPlace(k)
  PROVE  /\ HEADER_SIZE + RECORD_SIZE * k <= Len(file')
         /\ \A j \in 1..RECORD_SIZE :
              file'[HEADER_SIZE + RECORD_SIZE * (k - 1) + j] = Encode(log[k])[j]
<1> USE DEF HEADER_SIZE, RECORD_SIZE
<1>1. file \in Seq(Nat) /\ log \in Seq(WalRecord)
  BY DEF WalTypeOK
<1>2. /\ Len(file') >= Len(file)
      /\ \A i \in 1..Len(file) :
           (i <= off \/ i > off + Len(ws)) => file'[i] = file[i]
  BY <1>1, WriteAtEffect
<1>3. ASSUME NEW j \in 1..8
      PROVE  file'[32 + 8 * (k - 1) + j] = Encode(log[k])[j]
  <2> DEFINE i == 32 + 8 * (k - 1) + j
  <2>1. i \in 1..Len(file) /\ i <= 32 + 8 * Len(log) /\ i > 32
    BY <1>1
  <2>2. i <= off \/ i > off + Len(ws)
    BY <2>1, <1>1 DEF NextSlot
  <2>3. file[i] = Encode(log[k])[j]
    BY DEF InPlace
  <2> HIDE DEF i
  <2>4. file'[i] = Encode(log[k])[j]
    BY <2>1, <2>2, <2>3, <1>2
  <2>. QED
    BY <2>4 DEF i
<1>4. Len(file') \in Nat
  BY <1>1, WriteAtEffect
<1>5. 32 + 8 * k <= Len(file')
  <2>1. /\ k \in Nat /\ Len(file) \in Nat /\ 32 + 8 * k <= Len(file)
    BY <1>1
  <2>. QED
    BY ONLY <1>2, <1>4, <2>1
<1>. QED
  BY <1>3, <1>5

\* Each call leaves the records where they are.
LEMMA NextInPlace ==
  WalTypeOK /\ LifeCycle /\ RecordsInPlace /\ [WalStep]_walVars
    => RecordsInPlace'
<1> SUFFICES ASSUME WalTypeOK, LifeCycle, RecordsInPlace, [WalStep]_walVars,
                    ~misplaced'
             PROVE  \A k \in 1..Len(log') :
                      /\ HEADER_SIZE + RECORD_SIZE * k <= Len(file')
                      /\ InPlace(k)'
  BY DEF RecordsInPlace
<1>a. file \in Seq(Nat) /\ log \in Seq(WalRecord)
  BY DEF WalTypeOK
<1>b. Cursor \in Nat /\ NextSlot \in Nat
  BY <1>a DEF WalTypeOK, Cursor, NextSlot, HEADER_SIZE, RECORD_SIZE
<1>1. ASSUME UNCHANGED <<file, log, misplaced>>
      PROVE  \A k \in 1..Len(log') :
               HEADER_SIZE + RECORD_SIZE * k <= Len(file') /\ InPlace(k)'
  BY <1>1 DEF RecordsInPlace, InPlace
<1>2. CASE CreateHeader
  <2>1. log' = <<>>
    BY <1>2 DEF CreateHeader, LifeCycle
  <2>. QED
    BY <2>1
<1>3. ASSUME NEW w \in Writers, AppendWrite(w)
      PROVE  \A k \in 1..Len(log') :
               HEADER_SIZE + RECORD_SIZE * k <= Len(file') /\ InPlace(k)'
  <2> DEFINE rec == appending[w]
             ws == Encode(rec)
  <2>1. rec \in WalRecord
    BY <1>3 DEF AppendWrite, WalTypeOK
  <2>2. /\ ~misplaced /\ Cursor = NextSlot /\ Cursor \in Nat
        /\ log' = Append(log, rec)
        /\ file' = WriteAt(file, Cursor, ws)
    BY <1>3, <1>b DEF AppendWrite
  <2>3. ws \in Seq(Nat) /\ Len(ws) = RECORD_SIZE
    BY <2>1, EncodeType
  <2> HIDE DEF rec, ws
  <2>4. /\ Len(log') = Len(log) + 1
        /\ log'[Len(log) + 1] = rec
        /\ \A k \in 1..Len(log) : log'[k] = log[k]
    BY <2>1, <2>2, <1>a
  <2>5. ASSUME NEW k \in 1..Len(log)
        PROVE  HEADER_SIZE + RECORD_SIZE * k <= Len(file') /\ InPlace(k)'
    <3>1. HEADER_SIZE + RECORD_SIZE * k <= Len(file) /\ InPlace(k)
      BY <2>2 DEF RecordsInPlace
    <3>2. Cursor >= NextSlot
      BY <2>2
    <3>3. /\ HEADER_SIZE + RECORD_SIZE * k <= Len(file')
          /\ \A j \in 1..RECORD_SIZE :
               file'[HEADER_SIZE + RECORD_SIZE * (k - 1) + j]
                 = Encode(log[k])[j]
      BY <3>1, <3>2, <2>2, <2>3, WriteKeepsRecords
    <3>. QED
      BY <3>3, <2>4 DEF InPlace
  <2>6. ASSUME NEW k \in Nat, k = Len(log) + 1
        PROVE  HEADER_SIZE + RECORD_SIZE * k <= Len(file') /\ InPlace(k)'
    <3>0. /\ WriteAt(file, Cursor, ws) \in Seq(Nat)
          /\ Len(WriteAt(file, Cursor, ws)) >= Cursor + Len(ws)
          /\ \A j \in 1..Len(ws) : WriteAt(file, Cursor, ws)[Cursor + j] = ws[j]
      <4>1. file \in Seq(Nat) /\ Cursor \in Nat /\ ws \in Seq(Nat)
        BY <2>2, <2>3, <1>a
      <4>. QED
        BY <4>1, WriteAtEffect
    <3>1. /\ Len(file') >= Cursor + Len(ws)
          /\ \A j \in 1..Len(ws) : file'[Cursor + j] = ws[j]
      BY <2>2, <3>0
    <3>2. Len(file') \in Nat
      BY <2>2, <3>0
    <3>3. /\ Len(file') >= 32 + 8 * Len(log) + 8
          /\ \A j \in 1..8 : file'[32 + 8 * Len(log) + j] = ws[j]
      BY <3>1, <2>2, <2>3 DEF NextSlot, HEADER_SIZE, RECORD_SIZE
    <3>4. Len(log) \in Nat /\ k - 1 = Len(log)
      BY <1>a, <2>6
    <3>5. \A j \in 1..8 : file'[32 + 8 * (k - 1) + j] = Encode(log'[k])[j]
      BY <3>3, <3>4, <2>4, <2>6 DEF ws
    <3>6. InPlace(k)'
      BY <3>5 DEF InPlace, HEADER_SIZE, RECORD_SIZE
    <3>7. HEADER_SIZE + RECORD_SIZE * k <= Len(file')
      BY <3>2, <3>3, <2>6, <1>a DEF HEADER_SIZE, RECORD_SIZE
    <3>. QED
      BY <3>6, <3>7
  <2> SUFFICES ASSUME NEW k \in 1..Len(log')
               PROVE  HEADER_SIZE + RECORD_SIZE * k <= Len(file') /\ InPlace(k)'
    OBVIOUS
  <2>7. Len(log) \in Nat /\ (k \in 1..Len(log) \/ k = Len(log) + 1)
    BY <2>4, <1>a
  <2>. QED
    BY <2>5, <2>6, <2>7
<1>4. ASSUME NEW w \in Writers, NEW n \in ShortWrites, AppendFail(w, n)
      PROVE  \A k \in 1..Len(log') :
               HEADER_SIZE + RECORD_SIZE * k <= Len(file') /\ InPlace(k)'
  <2> DEFINE ws == SubSeq(Encode(appending[w]), 1, n)
  <2>1. ws \in Seq(Nat)
    BY <1>4, WalAssumption, ShortWriteType DEF AppendFail, WalTypeOK
  <2>2. /\ ~misplaced /\ Cursor = NextSlot /\ log' = log
        /\ file' = WriteAt(file, Cursor, ws)
    BY <1>4 DEF AppendFail
  <2> HIDE DEF ws
  <2>4. Cursor \in Nat /\ Cursor >= NextSlot
    BY <2>2, <1>b
  <2>3. ASSUME NEW k \in 1..Len(log)
        PROVE  HEADER_SIZE + RECORD_SIZE * k <= Len(file') /\ InPlace(k)'
    <3>1. HEADER_SIZE + RECORD_SIZE * k <= Len(file) /\ InPlace(k)
      BY <2>2 DEF RecordsInPlace
    <3>2. /\ HEADER_SIZE + RECORD_SIZE * k <= Len(file')
          /\ \A j \in 1..RECORD_SIZE :
               file'[HEADER_SIZE + RECORD_SIZE * (k - 1) + j]
                 = Encode(log[k])[j]
      BY <3>1, <2>1, <2>2, <2>4, WriteKeepsRecords
    <3>. QED
      BY <3>2, <2>2 DEF InPlace
  <2>. QED
    BY <2>2, <2>3
<1>5. ASSUME NEW w \in Writers, SyncWrite(w)
      PROVE  \A k \in 1..Len(log') :
               HEADER_SIZE + RECORD_SIZE * k <= Len(file') /\ InPlace(k)'
  <2> DEFINE off == IF mode = "append" THEN Len(file) ELSE MAX_TS_OFFSET
             ws == <<syncing[w]>>
  <2>1. ws \in Seq(Nat) /\ Len(ws) = 1 /\ off \in Nat
    BY <1>5, <1>a DEF SyncWrite, WalTypeOK, MAX_TS_OFFSET
  <2>2. ~misplaced /\ log' = log /\ file' = WriteAt(file, off, ws)
    BY <1>5 DEF SyncWrite
  <2>3. ASSUME NEW k \in 1..Len(log)
        PROVE  HEADER_SIZE + RECORD_SIZE * k <= Len(file') /\ InPlace(k)'
    <3>1. HEADER_SIZE + RECORD_SIZE * k <= Len(file) /\ InPlace(k)
      BY <2>2 DEF RecordsInPlace
    <3>2. \/ off >= NextSlot
          \/ off + Len(ws) <= HEADER_SIZE
      <4>1. CASE mode = "append"
        <5>1. Len(log) \in 1..Len(log)
          BY <1>a
        <5>2. HEADER_SIZE + RECORD_SIZE * Len(log) <= Len(file)
          BY <5>1, <2>2 DEF RecordsInPlace
        <5>. QED
          BY <5>2, <4>1 DEF NextSlot
      <4>2. CASE mode # "append"
        BY <4>2, <2>1 DEF MAX_TS_OFFSET, HEADER_SIZE
      <4>. QED
        BY <4>1, <4>2
    <3> HIDE DEF off, ws
    <3>3. /\ HEADER_SIZE + RECORD_SIZE * k <= Len(file')
          /\ \A j \in 1..RECORD_SIZE :
               file'[HEADER_SIZE + RECORD_SIZE * (k - 1) + j]
                 = Encode(log[k])[j]
      BY <3>1, <3>2, <2>1, <2>2, WriteKeepsRecords
    <3>. QED
      BY <3>3, <2>2 DEF InPlace
  <2>. QED
    BY <2>2, <2>3
<1>6. ASSUME NEW replayed \in BOOLEAN, Open(replayed)
      PROVE  UNCHANGED <<file, log, misplaced>>
  BY <1>6 DEF Open
<1>7. ASSUME NEW w \in Writers, NEW req \in Request, AppendDraw(w, req)
      PROVE  UNCHANGED <<file, log, misplaced>>
  BY <1>7 DEF AppendDraw
<1>8. ASSUME NEW w \in Writers, SyncLoad(w)
      PROVE  UNCHANGED <<file, log, misplaced>>
  BY <1>8 DEF SyncLoad
<1>9. CreateFile \/ Crash \/ Close \/ UNCHANGED walVars
        => UNCHANGED <<file, log, misplaced>>
  BY DEF CreateFile, Crash, Close, walVars
<1>. QED
  BY <1>1, <1>2, <1>3, <1>4, <1>5, <1>6, <1>7, <1>8, <1>9 DEF WalStep

\* The k-th record append() reported as written is where replay() looks for
\* it, unless a failed write, or sync() moving the cursor, displaced a write.
THEOREM WalRecordsInPlace == WalSpec => []RecordsInPlace
<1>1. WalInit => RecordsInPlace
  BY DEF WalInit, RecordsInPlace
<1>2. WalTypeOK /\ LifeCycle /\ RecordsInPlace /\ [WalNext]_walVars
        => RecordsInPlace'
  BY NextInPlace, NextIsStep
<1>. QED
  BY <1>1, <1>2, WalTypeCorrect, PTL DEF WalSpec

-----------------------------------------------------------------------------
\* TimestampsUnique, with the set of stamps spelt out for the provers.
LEMMA StampsBelow ==
  TimestampsUnique <=>
    (IsOpen =>
      /\ \A i \in (session + 1)..Len(log) : log[i].timestamp < monotonic
      /\ \A w \in Writers :
           appending[w] # None => appending[w].timestamp < monotonic
      /\ \A i, j \in (session + 1)..Len(log) :
           i # j => log[i].timestamp # log[j].timestamp
      /\ \A v, w \in Writers :
           (v # w /\ appending[v] # None /\ appending[w] # None)
             => appending[v].timestamp # appending[w].timestamp
      /\ \A w \in Writers, i \in (session + 1)..Len(log) :
           appending[w] # None => appending[w].timestamp # log[i].timestamp)
  BY DEF TimestampsUnique, SessionStamps

\* Each call leaves the timestamps apart.
LEMMA NextUnique ==
  WalTypeOK /\ LifeCycle /\ TimestampsUnique /\ [WalStep]_walVars
    => TimestampsUnique'
<1> SUFFICES ASSUME WalTypeOK, LifeCycle, TimestampsUnique,
                    [WalStep]_walVars, IsOpen'
             PROVE  /\ \A i \in (session' + 1)..Len(log') :
                         log'[i].timestamp < monotonic'
                    /\ \A w \in Writers : appending'[w] # None =>
                         appending'[w].timestamp < monotonic'
                    /\ \A i, j \in (session' + 1)..Len(log') :
                         i # j => log'[i].timestamp # log'[j].timestamp
                    /\ \A v, w \in Writers :
                         (v # w /\ appending'[v] # None /\ appending'[w] # None)
                           => appending'[v].timestamp # appending'[w].timestamp
                    /\ \A w \in Writers, i \in (session' + 1)..Len(log') :
                         appending'[w] # None =>
                           appending'[w].timestamp # log'[i].timestamp
  BY DEF TimestampsUnique, SessionStamps
<1> DEFINE Goal ==
      /\ \A i \in (session' + 1)..Len(log') : log'[i].timestamp < monotonic'
      /\ \A w \in Writers :
           appending'[w] # None => appending'[w].timestamp < monotonic'
      /\ \A i, j \in (session' + 1)..Len(log') :
           i # j => log'[i].timestamp # log'[j].timestamp
      /\ \A v, w \in Writers :
           (v # w /\ appending'[v] # None /\ appending'[w] # None)
             => appending'[v].timestamp # appending'[w].timestamp
      /\ \A w \in Writers, i \in (session' + 1)..Len(log') :
           appending'[w] # None => appending'[w].timestamp # log'[i].timestamp
<1>a. /\ log \in Seq(WalRecord) /\ Len(log) \in Nat
      /\ session \in Nat /\ session <= Len(log)
      /\ monotonic \in Nat
      /\ appending \in [Writers -> WalRecord \cup {None}]
  BY DEF WalTypeOK
<1>b. /\ \A i \in 1..Len(log) : log[i].timestamp \in Nat
      /\ \A w \in Writers : appending[w] # None => appending[w].timestamp \in Nat
  <2>1. \A r \in WalRecord : r.timestamp \in Nat
    BY DEF WalRecord
  <2>2. \A i \in 1..Len(log) : log[i] \in WalRecord
    BY <1>a
  <2>3. \A w \in Writers : appending[w] # None => appending[w] \in WalRecord
    BY <1>a
  <2>. QED
    BY <2>1, <2>2, <2>3
<1>1. ASSUME UNCHANGED <<log, session, monotonic, appending>>, IsOpen
      PROVE  Goal
  BY <1>1, StampsBelow
<1>2. CASE CreateHeader
  <2>1. log' = <<>> /\ session' = 0 /\ \A w \in Writers : appending'[w] = None
    BY <1>2, <1>a DEF CreateHeader, LifeCycle, Idle, IsOpen
  <2>. QED
    BY <2>1
<1>3. ASSUME NEW replayed \in BOOLEAN, Open(replayed)
      PROVE  Goal
  <2>1. /\ session' = Len(log') /\ Len(log') \in Nat
        /\ \A w \in Writers : appending'[w] = None
    BY <1>3, <1>a DEF Open, LifeCycle, Idle, IsOpen
  <2>. QED
    BY <2>1
<1>4. ASSUME NEW w \in Writers, NEW req \in Request, AppendDraw(w, req)
      PROVE  Goal
  <2>1. /\ IsOpen /\ monotonic' = monotonic + 1
        /\ UNCHANGED <<log, session>>
        /\ appending'[w].timestamp = monotonic
        /\ \A v \in Writers \ {w} : appending'[v] = appending[v]
    BY <1>4, <1>a DEF AppendDraw
  <2>2. /\ \A i \in (session + 1)..Len(log) : log[i].timestamp < monotonic
        /\ \A v \in Writers :
             appending[v] # None => appending[v].timestamp < monotonic
    BY <2>1, StampsBelow
  <2>3. /\ \A i \in (session + 1)..Len(log) :
             /\ log[i].timestamp < monotonic + 1
             /\ log[i].timestamp # monotonic
        /\ \A v \in Writers : appending[v] # None =>
             /\ appending[v].timestamp < monotonic + 1
             /\ appending[v].timestamp # monotonic
    <3>1. \A t \in Nat : t < monotonic => (t < monotonic + 1 /\ t # monotonic)
      BY <1>a
    <3>2. \A i \in (session + 1)..Len(log) : i \in 1..Len(log)
      BY <1>a
    <3>. QED
      BY <3>1, <3>2, <2>2, <1>b
  <2>4. monotonic < monotonic + 1
    BY <1>a
  <2>. QED
    BY <2>1, <2>3, <2>4, StampsBelow
<1>5. ASSUME NEW w \in Writers, AppendWrite(w)
      PROVE  Goal
  <2>1. /\ appending[w] # None /\ appending[w] \in WalRecord
        /\ log' = Append(log, appending[w])
        /\ UNCHANGED <<session, monotonic>>
        /\ appending'[w] = None
        /\ \A v \in Writers \ {w} : appending'[v] = appending[v]
    BY <1>5, <1>a DEF AppendWrite
  <2>2. IsOpen
    BY <2>1 DEF LifeCycle, Idle
  <2>3. /\ Len(log') = Len(log) + 1
        /\ log'[Len(log) + 1] = appending[w]
        /\ \A i \in 1..Len(log) : log'[i] = log[i]
    BY <2>1, <1>a
  <2>4. \A i \in (session + 1)..(Len(log) + 1) :
          \/ i = Len(log) + 1
          \/ i \in (session + 1)..Len(log) /\ i \in 1..Len(log)
    BY <1>a
  <2>. QED
    BY <2>1, <2>2, <2>3, <2>4, StampsBelow
<1>6. ASSUME NEW w \in Writers, NEW n \in ShortWrites, AppendFail(w, n)
      PROVE  Goal
  <2>1. /\ appending[w] # None
        /\ UNCHANGED <<log, session, monotonic>>
        /\ appending'[w] = None
        /\ \A v \in Writers \ {w} : appending'[v] = appending[v]
    BY <1>6, <1>a DEF AppendFail
  <2>2. IsOpen
    BY <2>1 DEF LifeCycle, Idle
  <2>. QED
    BY <2>1, <2>2, StampsBelow
<1>7. CASE CreateFile \/ Crash \/ Close
  BY <1>7 DEF CreateFile, Crash, Close, IsOpen
<1>8. ASSUME NEW w \in Writers, SyncLoad(w) \/ SyncWrite(w)
      PROVE  Goal
  <2>1. UNCHANGED <<log, session, monotonic, appending, mode>>
    BY <1>8 DEF SyncLoad, SyncWrite
  <2>2. IsOpen
    BY <2>1 DEF IsOpen
  <2>. QED
    BY <2>1, <2>2, <1>1
<1>9. CASE UNCHANGED walVars
  <2>1. UNCHANGED <<log, session, monotonic, appending, mode>>
    BY <1>9 DEF walVars
  <2>2. IsOpen
    BY <2>1 DEF IsOpen
  <2>. QED
    BY <2>1, <2>2, <1>1
<1>. QED
  BY <1>2, <1>3, <1>4, <1>5, <1>6, <1>7, <1>8, <1>9 DEF WalStep

\* Two appends of one session never share a timestamp, however the threads
\* interleave between drawing it and taking the file lock.
THEOREM WalTimestampsUnique == WalSpec => []TimestampsUnique
<1>1. WalInit => TimestampsUnique
  BY DEF WalInit, TimestampsUnique, IsOpen
<1>2. WalTypeOK /\ LifeCycle /\ TimestampsUnique /\ [WalNext]_walVars
        => TimestampsUnique'
  BY NextUnique, NextIsStep
<1>. QED
  BY <1>1, <1>2, WalTypeCorrect, PTL DEF WalSpec

-----------------------------------------------------------------------------
\* A set of naturals that is not empty has a least element.
LEMMA LeastNatural ==
  ASSUME NEW T \in SUBSET Nat, T # {}
  PROVE  \E x \in T : \A y \in T : x <= y
<1> DEFINE R == OpToRel(<, Nat)
<1>1. IsWellFoundedOn(R, Nat)
  BY NatLessThanWellFounded
<1>2. \A y, x \in Nat : y < x => <<y, x>> \in R
  BY DEF OpToRel
<1> HIDE DEF R
<1>3. PICK x \in T : \A y \in T : ~(<<y, x>> \in R)
  BY <1>1, WFMin
<1>4. x \in Nat /\ \A y \in T : y \in Nat
  BY <1>3
<1>5. \A y \in T : ~(y < x)
  BY <1>2, <1>3, <1>4
<1>. QED
  BY <1>3, <1>4, <1>5

\* Nth names an element of the set, for every n up to its size: counting
\* upwards, the size grows by one at a time and so meets n.
LEMMA NthExists ==
  ASSUME NEW N \in Nat, NEW S \in SUBSET (1..N), NEW n \in 1..Cardinality(S)
  PROVE  Nth(S, n) \in S
<1> DEFINE Upto(k) == {j \in S : j <= k}
           T == {k \in Nat : Cardinality(Upto(k)) >= n}
<1>0. \A j \in S : j \in Nat /\ j >= 1 /\ j <= N
  OBVIOUS
<1>1. IsFiniteSet(S) /\ Cardinality(S) \in Nat
  <2>1. IsFiniteSet(1..N)
    BY FS_Interval
  <2>. QED
    BY <2>1, FS_Subset, FS_CardinalityType
<1>2. \A k : IsFiniteSet(Upto(k)) /\ Cardinality(Upto(k)) \in Nat
  <2> TAKE k
  <2>1. Upto(k) \in SUBSET S
    OBVIOUS
  <2>2. IsFiniteSet(Upto(k))
    BY <2>1, <1>1, FS_Subset
  <2>. QED
    BY <2>2, FS_CardinalityType
<1>3. N \in T
  <2>1. Upto(N) = S
    BY <1>0
  <2>2. Cardinality(Upto(N)) >= n
    BY <2>1, <1>1
  <2>. QED
    BY <2>2
<1>4. PICK k \in T : \A j \in T : k <= j
  <2>1. T \in SUBSET Nat /\ T # {}
    BY <1>3
  <2> HIDE DEF T
  <2>. QED
    BY <2>1, LeastNatural
<1>5. k \in Nat /\ Cardinality(Upto(k)) >= n
  BY <1>4
<1>6. k - 1 \in Nat /\ Cardinality(Upto(k - 1)) < n
  <2>1. k # 0
    <3>0. \A j \in S : ~(j <= 0)
      BY <1>0
    <3>1. Upto(0) = {}
      BY <3>0
    <3>2. Cardinality(Upto(0)) = 0
      BY <3>1, FS_EmptySet
    <3>. QED
      BY <3>2, <1>5
  <2>2. k - 1 \in Nat /\ k - 1 < k
    BY <2>1, <1>5
  <2>3. k - 1 \notin T
    <3> HIDE DEF T
    <3>1. ~(k <= k - 1)
      BY <1>5
    <3>. QED
      BY <3>1, <1>4
  <2>4. ~(Cardinality(Upto(k - 1)) >= n)
    BY <2>2, <2>3
  <2>5. Cardinality(Upto(k - 1)) \in Nat
    BY <1>2
  <2> HIDE DEF Upto, T
  <2>. QED
    BY <2>2, <2>4, <2>5
<1>7. k \in S /\ Upto(k) = Upto(k - 1) \cup {k}
  <2>1. CASE k \in S
    <3>1. \A j \in S : j <= k <=> (j <= k - 1 \/ j = k)
      BY <2>1, <1>5, <1>0
    <3>. QED
      BY <3>1, <2>1
  <2>2. CASE k \notin S
    <3>1. \A j \in S : j <= k <=> j <= k - 1
      BY <2>2, <1>5, <1>0
    <3>2. Upto(k) = Upto(k - 1)
      BY <3>1
    <3>. QED
      <4> HIDE DEF Upto
      <4>1. Cardinality(Upto(k)) \in Nat /\ n \in Nat
        BY <1>2
      <4>. QED
        BY <4>1, <3>2, <1>5, <1>6
  <2>. QED
    BY <2>1, <2>2
<1>8. Cardinality(Upto(k)) = n
  <2>1. Cardinality(Upto(k)) <= Cardinality(Upto(k - 1)) + 1
    <3> HIDE DEF Upto
    <3>1. /\ IsFiniteSet(Upto(k - 1))
          /\ Cardinality(Upto(k - 1)) \in Nat
      BY <1>2
    <3>2. Cardinality(Upto(k - 1) \cup {k})
            = IF k \in Upto(k - 1) THEN Cardinality(Upto(k - 1))
              ELSE Cardinality(Upto(k - 1)) + 1
      BY <3>1, FS_AddElement
    <3>. QED
      BY <3>1, <3>2, <1>7
  <2>2. /\ Cardinality(Upto(k)) \in Nat /\ Cardinality(Upto(k - 1)) \in Nat
    BY <1>2
  <2> HIDE DEF Upto, T
  <2>. QED
    BY <2>1, <2>2, <1>5, <1>6, <1>1
<1>9. \E i \in S : Cardinality({j \in S : j <= i}) = n
  BY <1>7, <1>8
<1>. QED
  BY <1>9 DEF Nth

\* Whatever words a file holds, replay() feeds the MMR hashes.
LEMMA ReplayedType ==
  ASSUME NEW f \in Seq(Nat)
  PROVE  ReplayedHashes(f) \in Seq(Hash)
<1> DEFINE rs == DecodedRecords(f)
           good == {k \in 1..ChunkCount(f) : Decodable(Chunk(f, k))}
<1>1. ChunkCount(f) \in Nat /\ RECORD_SIZE * ChunkCount(f) <= Len(f)
  BY DEF ChunkCount, RECORD_SIZE
<1>2. ASSUME NEW k \in good PROVE Decode(Chunk(f, k)) \in WalRecord
  <2>1. \A i \in 1..8 : Chunk(f, k)[i] \in Nat
    <3> TAKE i \in 1..8
    <3>1. 8 * (k - 1) + i \in 1..Len(f)
      BY <1>1 DEF RECORD_SIZE
    <3>2. f[8 * (k - 1) + i] \in Nat
      BY <3>1
    <3>. QED
      BY <3>2 DEF Chunk, RECORD_SIZE
  <2>2. Chunk(f, k)[1] % 256 \in {Leaf, Heartbeat, EpochSeal}
    BY DEF Decodable
  <2> DEFINE c == Chunk(f, k)
             h == [i \in 1..HashWords |-> c[i + 2]]
  <2>3. h \in Hash
    BY <2>1 DEF Hash, HashWords
  <2>4. /\ c[2] \in Nat /\ c[7] \in Nat /\ c[8] \in Nat
    BY <2>1
  <2>5. Decode(c) = [type |-> c[1] % 256, leaf_index |-> c[2], hash |-> h,
                     timestamp |-> c[7], content_id |-> c[8]]
    BY DEF Decode
  <2> HIDE DEF c, h
  <2>. QED
    BY <2>2, <2>3, <2>4, <2>5 DEF WalRecord, c
<1>3. /\ Cardinality(good) \in Nat
      /\ \A n \in 1..Cardinality(good) : Nth(good, n) \in good
  <2>1. good \in SUBSET (1..ChunkCount(f)) /\ IsFiniteSet(1..ChunkCount(f))
    BY <1>1, FS_Interval
  <2> HIDE DEF good
  <2>2. Cardinality(good) \in Nat
    BY <2>1, FS_Subset, FS_CardinalityType
  <2>. QED
    BY <2>1, <2>2, <1>1, NthExists
<1>4. rs \in Seq(WalRecord)
  <2>1. rs = [n \in 1..Cardinality(good) |-> Decode(Chunk(f, Nth(good, n)))]
    BY DEF DecodedRecords
  <2> HIDE DEF rs, good
  <2>. QED
    BY <2>1, <1>2, <1>3
<1> HIDE DEF rs
<1> DEFINE at == {k \in DOMAIN rs : rs[k].type = Leaf}
<1>5. /\ Cardinality(at) \in Nat
      /\ \A n \in 1..Cardinality(at) : Nth(at, n) \in at
  <2>1. /\ at \in SUBSET (1..Len(rs)) /\ Len(rs) \in Nat
        /\ IsFiniteSet(1..Len(rs))
    BY <1>4, FS_Interval
  <2> HIDE DEF at
  <2>2. Cardinality(at) \in Nat
    BY <2>1, FS_Subset, FS_CardinalityType
  <2>. QED
    BY <2>1, <2>2, NthExists
<1>6. \A k \in at : rs[k].hash \in Hash
  <2>1. \A r \in WalRecord : r.hash \in Hash
    BY DEF WalRecord
  <2>2. \A k \in at : rs[k] \in WalRecord
    BY <1>4
  <2>. QED
    BY <2>1, <2>2
<1>7. LeafHashes(rs) \in Seq(Hash)
  <2>1. LeafHashes(rs) = [n \in 1..Cardinality(at) |-> rs[Nth(at, n)].hash]
    BY DEF LeafHashes
  <2> HIDE DEF at
  <2>. QED
    BY <2>1, <1>5, <1>6
<1>8. <<>> \in Seq(Hash)
  OBVIOUS
<1>. QED
  BY <1>7, <1>8 DEF ReplayedHashes, rs

-----------------------------------------------------------------------------
\* What stands behind the records: a torn one of n words, and the words that
\* sync() left there; it is not yet a chunk.  Hypothesis of the theorems about
\* replay(), which decodes whatever eight words make a chunk.
TailsAreShort == \A n \in ShortWrites \cup {0} : n + MaxSyncs < RECORD_SIZE

\* The threads that have loaded max_ts and not yet written it.
ToSync == {w \in Writers : syncing[w] # None}
SyncsCounted ==
  /\ IsFiniteSet(ToSync) /\ Cardinality(ToSync) <= syncs
  /\ syncs <= MaxSyncs

\* The words of the header that replay() takes for a record type.
HeaderKept(f) ==
  Len(f) >= HEADER_SIZE
    /\ \A k \in 1..4 : f[RECORD_SIZE * (k - 1) + 1] = Header[RECORD_SIZE * (k - 1) + 1]

\* The file has no header and only words of sync(), or it has one and little
\* behind its records.
Headless ==
  /\ mode # "create" /\ log = <<>>
  /\ Len(file) + Cardinality(ToSync) <= syncs
Headed ==
  /\ HeaderKept(file) /\ NextSlot <= Len(file)
  /\ \E n \in ShortWrites \cup {0} :
       Len(file) + Cardinality(ToSync) <= NextSlot + n + syncs
TailBounded == ~misplaced => Headless \/ Headed

-----------------------------------------------------------------------------
\* How long a write_all leaves a file.
LEMMA WriteAtLength ==
  ASSUME NEW f \in Seq(Nat), NEW off \in Nat, NEW ws \in Seq(Nat)
  PROVE  Len(WriteAt(f, off, ws))
           = IF off + Len(ws) > Len(f) THEN off + Len(ws) ELSE Len(f)
<1> DEFINE top == IF off + Len(ws) > Len(f) THEN off + Len(ws) ELSE Len(f)
<1>1. top \in Nat /\ DOMAIN WriteAt(f, off, ws) = 1..top
  BY DEF WriteAt
<1>2. WriteAt(f, off, ws) \in Seq(Nat)
  BY WriteAtEffect
<1> HIDE DEF top
<1>3. Len(WriteAt(f, off, ws)) = top
  BY <1>1, <1>2
<1>. QED
  BY <1>3 DEF top

\* A chunk that holds the words of a record decodes to it.
LEMMA DecodesWhatWasEncoded ==
  ASSUME NEW r \in WalRecord, NEW c,
         \A j \in 1..RECORD_SIZE : c[j] = Encode(r)[j]
  PROVE  Decodable(c) /\ Decode(c) = r
<1>1. /\ c[1] = r.type /\ c[2] = r.leaf_index
      /\ c[3] = r.hash[1] /\ c[4] = r.hash[2] /\ c[5] = r.hash[3] /\ c[6] = r.hash[4]
      /\ c[7] = r.timestamp /\ c[8] = r.content_id
  BY DEF Encode, RECORD_SIZE
<1>2. r.type \in {1, 2, 3} /\ r.type % 256 = r.type
  BY DEF WalRecord, Leaf, Heartbeat, EpochSeal
<1>3. [i \in 1..HashWords |-> c[i + 2]] = r.hash
  <2>1. r.hash = [i \in 1..4 |-> r.hash[i]]
    BY DEF WalRecord, Hash, HashWords
  <2>2. \A i \in 1..4 : c[i + 2] = r.hash[i]
    BY <1>1
  <2>. QED
    BY <2>1, <2>2 DEF HashWords
<1>4. r = [type |-> r.type, leaf_index |-> r.leaf_index, hash |-> r.hash,
           timestamp |-> r.timestamp, content_id |-> r.content_id]
  BY DEF WalRecord
<1>. QED
  BY <1>1, <1>2, <1>3, <1>4 DEF Decodable, Decode, Leaf, Heartbeat, EpochSeal

\* The n-th of an interval.
LEMMA NthOfInterval ==
  ASSUME NEW a \in Nat, NEW L \in Nat, NEW n \in 1..L
  PROVE  Nth((a + 1)..(a + L), n) = a + n
<1> DEFINE S == (a + 1)..(a + L)
<1>1. ASSUME NEW k \in S PROVE Cardinality({j \in S : j <= k}) = k - a
  <2>1. {j \in S : j <= k} = (a + 1)..k
    OBVIOUS
  <2>2. Cardinality((a + 1)..k) = IF a + 1 > k THEN 0 ELSE k - (a + 1) + 1
    BY FS_Interval
  <2>3. ~(a + 1 > k) /\ k - (a + 1) + 1 = k - a
    OBVIOUS
  <2>. QED
    BY <2>1, <2>2, <2>3
<1>2. a + n \in S /\ \A k \in S : k - a = n <=> k = a + n
  OBVIOUS
<1> HIDE DEF S
<1>3. \A k \in S : Cardinality({j \in S : j <= k}) = n <=> k = a + n
  BY <1>1, <1>2
<1>4. (CHOOSE k \in S : Cardinality({j \in S : j <= k}) = n) = a + n
  BY <1>2, <1>3
<1>. QED
  BY <1>4 DEF Nth, S

\* replay() of a file that holds the header, the records of a log in their
\* slots and less than a chunk behind them finds that log.
LEMMA ReplayFinds ==
  ASSUME NEW f \in Seq(Nat), NEW rs \in Seq(WalRecord), HeaderKept(f),
         HEADER_SIZE + RECORD_SIZE * Len(rs) <= Len(f),
         Len(f) < HEADER_SIZE + RECORD_SIZE * Len(rs) + RECORD_SIZE,
         \A k \in 1..Len(rs), j \in 1..RECORD_SIZE :
           f[HEADER_SIZE + RECORD_SIZE * (k - 1) + j] = Encode(rs[k])[j]
  PROVE  DecodedRecords(f) = rs
<1> DEFINE L == Len(rs)
           good == {k \in 1..ChunkCount(f) : Decodable(Chunk(f, k))}
<1>1. L \in Nat /\ \A k \in 1..L : rs[k] \in WalRecord
  OBVIOUS
<1>2. ChunkCount(f) = L + 4
  <2>1. Len(f) \in Nat /\ 32 + 8 * L <= Len(f) /\ Len(f) < 32 + 8 * L + 8
    BY DEF HEADER_SIZE, RECORD_SIZE
  <2> HIDE DEF L
  <2>2. Len(f) \div 8 = L + 4
    BY <2>1, <1>1
  <2>. QED
    BY <2>2 DEF ChunkCount, RECORD_SIZE
<1>3. ASSUME NEW k \in 1..4 PROVE ~Decodable(Chunk(f, k))
  <2>1. f[8 * (k - 1) + 1] = Header[8 * (k - 1) + 1]
    BY DEF HeaderKept, RECORD_SIZE
  <2>2. Header[8 * (k - 1) + 1] \in {78, 0}
    BY DEF Header, HEADER_SIZE, MAGIC, VERSION
  <2>3. Chunk(f, k)[1] = f[8 * (k - 1) + 1]
    BY DEF Chunk, RECORD_SIZE
  <2>4. Chunk(f, k)[1] % 256 \in {78, 0}
    BY <2>1, <2>2, <2>3
  <2>. QED
    BY <2>4 DEF Decodable, Leaf, Heartbeat, EpochSeal
<1>4. ASSUME NEW n \in 1..L
      PROVE  Decodable(Chunk(f, 4 + n)) /\ Decode(Chunk(f, 4 + n)) = rs[n]
  <2>1. \A j \in 1..8 : Chunk(f, 4 + n)[j] = f[8 * ((4 + n) - 1) + j]
    BY DEF Chunk, RECORD_SIZE
  <2>2. 8 * ((4 + n) - 1) = 32 + 8 * (n - 1)
    OBVIOUS
  <2>3. \A j \in 1..8 : f[32 + 8 * (n - 1) + j] = Encode(rs[n])[j]
    BY DEF HEADER_SIZE, RECORD_SIZE
  <2>4. \A j \in 1..RECORD_SIZE : Chunk(f, 4 + n)[j] = Encode(rs[n])[j]
    BY <2>1, <2>2, <2>3 DEF RECORD_SIZE
  <2>. QED
    BY <2>4, <1>1, DecodesWhatWasEncoded
<1> HIDE DEF L
<1>5. good = (4 + 1)..(4 + L)
  <2>1. ASSUME NEW k \in 1..ChunkCount(f)
        PROVE  Decodable(Chunk(f, k)) <=> k \in (4 + 1)..(4 + L)
    <3>1. CASE k \in 1..4
      BY <1>3, <3>1
    <3>2. CASE k \notin 1..4
      <4>1. k - 4 \in 1..L /\ 4 + (k - 4) = k
        BY <1>1, <1>2, <3>2
      <4>2. Decodable(Chunk(f, 4 + (k - 4)))
        BY <4>1, <1>4
      <4>3. k \in (4 + 1)..(4 + L)
        BY <4>1, <1>1
      <4>. QED
        BY <4>1, <4>2, <4>3
    <3>. QED
      BY <3>1, <3>2
  <2>2. (4 + 1)..(4 + L) \subseteq 1..ChunkCount(f)
    BY <1>1, <1>2
  <2>. QED
    BY <2>1, <2>2
<1>6. Cardinality(good) = L
  <2>1. Cardinality((4 + 1)..(4 + L))
          = IF 4 + 1 > 4 + L THEN 0 ELSE (4 + L) - (4 + 1) + 1
    BY <1>1, FS_Interval
  <2> HIDE DEF good
  <2>. QED
    BY <2>1, <1>1, <1>5
<1>7. \A n \in 1..L : Nth(good, n) = 4 + n
  <2> HIDE DEF good
  <2>1. \A n \in 1..L : Nth((4 + 1)..(4 + L), n) = 4 + n
    BY ONLY <1>1, NthOfInterval
  <2>. QED
    BY ONLY <2>1, <1>5
<1>8. DecodedRecords(f) = [n \in 1..Cardinality(good) |-> Decode(Chunk(f, Nth(good, n)))]
  BY DEF DecodedRecords
<1> HIDE DEF good
<1>9. DecodedRecords(f) = [n \in 1..L |-> rs[n]]
  BY <1>4, <1>6, <1>7, <1>8
<1>. QED
  BY <1>1, <1>9 DEF L

-----------------------------------------------------------------------------
\* The count of the calls of sync() that are on their way to the lock.
LEMMA NextCounted ==
  WalTypeOK /\ LifeCycle /\ SyncsCounted /\ [WalStep]_walVars => SyncsCounted'
<1> SUFFICES ASSUME WalTypeOK, LifeCycle, SyncsCounted, [WalStep]_walVars
             PROVE  SyncsCounted'
  OBVIOUS
<1>0. /\ IsFiniteSet(ToSync) /\ Cardinality(ToSync) \in Nat /\ syncs \in Nat
      /\ Cardinality(ToSync) <= syncs /\ syncs <= MaxSyncs /\ MaxSyncs \in Nat
      /\ syncing \in [Writers -> Nat \cup {None}]
  BY FS_CardinalityType, WalAssumption DEF SyncsCounted, WalTypeOK
<1>1. ASSUME syncing' = syncing, syncs' = syncs PROVE SyncsCounted'
  BY <1>1, <1>0 DEF SyncsCounted, ToSync
<1>2. ASSUME NEW w \in Writers, SyncLoad(w) PROVE SyncsCounted'
  <2>1. /\ syncs' = syncs + 1 /\ syncs < MaxSyncs
        /\ syncing' = [syncing EXCEPT ![w] = monotonic] /\ monotonic \in Nat
    BY <1>2 DEF SyncLoad, WalTypeOK
  <2>2. ToSync' = ToSync \cup {w}
    BY <2>1, <1>0, WalAssumption DEF ToSync
  <2>3. /\ IsFiniteSet(ToSync \cup {w}) /\ Cardinality(ToSync \cup {w}) \in Nat
        /\ Cardinality(ToSync \cup {w}) <= Cardinality(ToSync) + 1
    <3>1. /\ IsFiniteSet(ToSync \cup {w})
          /\ Cardinality(ToSync \cup {w})
               = IF w \in ToSync THEN Cardinality(ToSync) ELSE Cardinality(ToSync) + 1
      BY <1>0, FS_AddElement
    <3>2. Cardinality(ToSync \cup {w}) \in Nat
      BY <3>1, FS_CardinalityType
    <3>. QED
      BY <3>1, <3>2, <1>0
  <2>4. PICK now \in Nat : now = syncs' /\ now = syncs + 1
    BY <2>1, <1>0
  <2>5. Cardinality(ToSync \cup {w}) <= now /\ now <= MaxSyncs
    BY <2>1, <2>3, <2>4, <1>0
  <2>. QED
    BY <2>2, <2>3, <2>4, <2>5 DEF SyncsCounted
<1>3. ASSUME NEW w \in Writers, SyncWrite(w) PROVE SyncsCounted'
  <2>1. syncing' = [syncing EXCEPT ![w] = None] /\ syncs' = syncs
    BY <1>3 DEF SyncWrite
  <2>2. ToSync' = ToSync \ {w}
    BY <2>1, <1>0 DEF ToSync
  <2>3. /\ IsFiniteSet(ToSync \ {w}) /\ Cardinality(ToSync \ {w}) \in Nat
        /\ Cardinality(ToSync \ {w}) <= Cardinality(ToSync)
    BY <1>0, FS_Subset, FS_CardinalityType
  <2>4. Cardinality(ToSync \ {w}) <= syncs
    BY <2>3, <1>0
  <2>. QED
    BY <2>1, <2>2, <2>3, <2>4, <1>0 DEF SyncsCounted
<1>4. ASSUME syncing' = Idle, syncs' = syncs PROVE SyncsCounted'
  <2>1. ToSync' = {}
    BY <1>4 DEF ToSync, Idle
  <2>2. IsFiniteSet({}) /\ Cardinality({}) = 0
    BY FS_EmptySet
  <2>. QED
    BY <1>4, <2>1, <2>2, <1>0 DEF SyncsCounted
<1>5. CASE Crash
  BY <1>5, <1>4 DEF Crash
<1>6. \/ CreateFile \/ CreateHeader \/ Close \/ UNCHANGED walVars
      \/ \E replayed \in BOOLEAN : Open(replayed)
      \/ \E w \in Writers, req \in Request : AppendDraw(w, req)
      \/ \E w \in Writers : AppendWrite(w)
      \/ \E w \in Writers, n \in ShortWrites : AppendFail(w, n)
      => syncing' = syncing /\ syncs' = syncs
  BY DEF CreateFile, CreateHeader, Close, walVars, Open, AppendDraw, AppendWrite,
     AppendFail
<1>. QED
  BY <1>1, <1>2, <1>3, <1>5, <1>6 DEF WalStep

\* A write behind the header leaves it alone; so does the word of sync().
LEMMA WriteKeepsHeader ==
  ASSUME NEW f \in Seq(Nat), NEW off \in Nat, NEW ws \in Seq(Nat), HeaderKept(f),
         off >= HEADER_SIZE \/ (off = MAX_TS_OFFSET /\ Len(ws) = 1)
  PROVE  HeaderKept(WriteAt(f, off, ws))
<1>1. /\ Len(WriteAt(f, off, ws)) \in Nat /\ Len(f) \in Nat
      /\ Len(WriteAt(f, off, ws)) >= Len(f) /\ Len(f) >= 32
      /\ \A i \in 1..Len(f) :
           (i <= off \/ i > off + Len(ws)) => WriteAt(f, off, ws)[i] = f[i]
  <2>1. /\ WriteAt(f, off, ws) \in Seq(Nat)
        /\ Len(WriteAt(f, off, ws)) >= Len(f)
        /\ \A i \in 1..Len(f) :
             (i <= off \/ i > off + Len(ws)) => WriteAt(f, off, ws)[i] = f[i]
    BY WriteAtEffect
  <2>2. Len(f) >= 32
    BY DEF HeaderKept, HEADER_SIZE
  <2>. QED
    BY <2>1, <2>2
<1>2. ASSUME NEW k \in 1..4
      PROVE  WriteAt(f, off, ws)[8 * (k - 1) + 1] = f[8 * (k - 1) + 1]
  <2> DEFINE i == 8 * (k - 1) + 1
  <2>1. i \in 1..Len(f) /\ i <= 32 /\ (i <= 3 \/ i > 4)
    BY <1>1
  <2> HIDE DEF i
  <2>2. i <= off \/ i > off + Len(ws)
    <3>1. i \in Nat /\ Len(ws) \in Nat
      BY <2>1
    <3>2. CASE off >= HEADER_SIZE
      BY <3>1, <3>2, <2>1 DEF HEADER_SIZE
    <3>3. CASE off = MAX_TS_OFFSET /\ Len(ws) = 1
      BY <3>1, <3>3, <2>1 DEF MAX_TS_OFFSET
    <3>. QED
      BY <3>2, <3>3
  <2>3. WriteAt(f, off, ws)[i] = f[i]
    BY <2>1, <2>2, <1>1
  <2>. QED
    BY <2>3 DEF i
<1>. QED
  BY <1>1, <1>2 DEF HeaderKept, RECORD_SIZE, HEADER_SIZE

\* As long as writes land behind the records, what is behind them stays short.
LEMMA NextBounded ==
  ASSUME TailsAreShort
  PROVE  WalTypeOK /\ LifeCycle /\ SyncsCounted /\ TailBounded /\ [WalStep]_walVars
           => TailBounded'
<1> SUFFICES ASSUME WalTypeOK, LifeCycle, SyncsCounted, TailBounded,
                    [WalStep]_walVars, ~misplaced'
             PROVE  Headless' \/ Headed'
  BY DEF TailBounded
<1> DEFINE c == Cardinality(ToSync)
           Short == ShortWrites \cup {0}
<1>0. /\ IsFiniteSet(ToSync) /\ c \in Nat /\ syncs \in Nat /\ c <= syncs
      /\ syncs <= MaxSyncs /\ MaxSyncs \in Nat
      /\ file \in Seq(Nat) /\ log \in Seq(WalRecord) /\ pos \in Nat
      /\ Len(file) \in Nat /\ Len(log) \in Nat /\ NextSlot = 32 + 8 * Len(log)
      /\ NextSlot \in Nat
      /\ syncing \in [Writers -> Nat \cup {None}]
      /\ appending \in [Writers -> WalRecord \cup {None}]
  BY FS_CardinalityType, WalAssumption
     DEF SyncsCounted, WalTypeOK, NextSlot, HEADER_SIZE, RECORD_SIZE
<1>a. /\ \A n \in Short : n \in 0..7 /\ n + MaxSyncs < 8
      /\ 0 \in Short
  BY WalAssumption DEF TailsAreShort, RECORD_SIZE
<1> HIDE DEF c, Short
<1>b. Headless => mode # "create" /\ log = <<>> /\ Len(file) + c <= syncs
  BY DEF Headless, c
<1>c. Headed => /\ HeaderKept(file) /\ NextSlot <= Len(file)
                /\ \E n \in Short : Len(file) + c <= NextSlot + n + syncs
  BY DEF Headed, c, Short
<1>d. IsOpen => mode \in {"create", "append"}
  BY DEF IsOpen
<1>1. ASSUME UNCHANGED <<file, log, syncing, syncs, misplaced>>,
             mode' # "create" \/ mode' = mode
      PROVE  Headless' \/ Headed'
  BY <1>1 DEF TailBounded, Headless, Headed, ToSync, NextSlot
<1>2. CASE CreateHeader
  <2>1. /\ file' = Header /\ log' = <<>> /\ syncing' = syncing /\ syncs' = syncs
    BY <1>2 DEF CreateHeader, LifeCycle
  <2>2. ToSync' = ToSync
    BY <2>1 DEF ToSync
  <2>3. HeaderKept(Header) /\ Len(Header) = 32
    BY HeaderType DEF HeaderKept, HEADER_SIZE
  <2>4. NextSlot' = 32
    BY <2>1 DEF NextSlot, HEADER_SIZE, RECORD_SIZE
  <2>5. 32 + c <= 32 + 0 + syncs
    BY <1>0
  <2>. QED
    BY <2>1, <2>2, <2>3, <2>4, <2>5, <1>a DEF Headed, c, Short
<1>3. ASSUME NEW w \in Writers, AppendWrite(w) PROVE Headless' \/ Headed'
  <2>1. /\ appending[w] \in WalRecord /\ IsOpen /\ ~misplaced /\ Cursor = NextSlot
        /\ file' = WriteAt(file, NextSlot, Encode(appending[w]))
        /\ log' = Append(log, appending[w])
        /\ syncing' = syncing /\ syncs' = syncs
    BY <1>3, <1>0 DEF AppendWrite, LifeCycle, Idle
  <2>2. ~Headless
    <3>1. MaxSyncs < 8
      BY <1>0, <1>a
    <3>2. CASE mode = "append"
      BY <3>1, <3>2, <2>1, <1>0, <1>b DEF Cursor
    <3>. QED
      BY <3>2, <2>1, <1>b, <1>d
  <2>3. Headed
    BY <2>1, <2>2 DEF TailBounded
  <2>4. Encode(appending[w]) \in Seq(Nat) /\ Len(Encode(appending[w])) = 8
    BY <2>1, EncodeType DEF RECORD_SIZE
  <2>5. HeaderKept(file')
    BY <2>1, <2>3, <2>4, <1>0, <1>c, WriteKeepsHeader DEF HEADER_SIZE
  <2>6. PICK n \in Short : Len(file) + c <= NextSlot + n + syncs
    BY <2>3, <1>c
  <2>7. Len(file) < NextSlot + 8
    <3>1. n \in Nat /\ n + MaxSyncs < 8
      BY <1>a
    <3>. QED
      BY ONLY <3>1, <2>6, <1>0
  <2>8. Len(file') = NextSlot + 8
    <3> DEFINE ws == Encode(appending[w])
    <3>1. ws \in Seq(Nat) /\ Len(ws) = 8 /\ file' = WriteAt(file, NextSlot, ws)
      BY <2>1, <2>4
    <3> HIDE DEF ws
    <3>2. Len(WriteAt(file, NextSlot, ws))
            = IF NextSlot + Len(ws) > Len(file) THEN NextSlot + Len(ws) ELSE Len(file)
      BY <3>1, <1>0, WriteAtLength
    <3>3. Len(WriteAt(file, NextSlot, ws)) = NextSlot + 8
      BY <3>1, <3>2, <2>7, <1>0
    <3>. QED
      BY <3>1, <3>3
  <2>9. Len(log') = Len(log) + 1
    BY <2>1, <1>0
  <2>10. NextSlot' = HEADER_SIZE + RECORD_SIZE * Len(log')
    BY DEF NextSlot
  <2>11. PICK next \in Nat : next = NextSlot' /\ next = NextSlot + 8
    BY <2>9, <2>10, <1>0 DEF HEADER_SIZE, RECORD_SIZE
  <2>12. PICK len \in Nat : len = Len(file') /\ len = NextSlot + 8
    BY <2>8, <1>0
  <2>13. len + c <= next + 0 + syncs /\ next <= len
    BY <2>11, <2>12, <1>0
  <2>14. ToSync' = ToSync
    BY <2>1 DEF ToSync
  <2>. QED
    BY <2>1, <2>5, <2>11, <2>12, <2>13, <2>14, <1>a DEF Headed, c, Short
<1>4. ASSUME NEW w \in Writers, NEW n \in ShortWrites, AppendFail(w, n)
      PROVE  Headless' \/ Headed'
  <2> DEFINE ws == SubSeq(Encode(appending[w]), 1, n)
  <2>1. /\ appending[w] \in WalRecord /\ IsOpen /\ ~misplaced /\ Cursor = NextSlot
        /\ file' = WriteAt(file, NextSlot, ws) /\ log' = log
        /\ syncing' = syncing /\ syncs' = syncs
    BY <1>4, <1>0 DEF AppendFail, LifeCycle, Idle
  <2>2. ~Headless
    <3>1. MaxSyncs < 8
      BY <1>0, <1>a
    <3>2. CASE mode = "append"
      BY <3>1, <3>2, <2>1, <1>0, <1>b DEF Cursor
    <3>. QED
      BY <3>2, <2>1, <1>b, <1>d
  <2>3. Headed
    BY <2>1, <2>2 DEF TailBounded
  <2>4. ws \in Seq(Nat) /\ Len(ws) = n /\ n \in Nat
    BY <2>1, WalAssumption, ShortWriteType DEF RECORD_SIZE
  <2> HIDE DEF ws
  <2>5. HeaderKept(file')
    BY <2>1, <2>3, <2>4, <1>0, <1>c, WriteKeepsHeader DEF HEADER_SIZE
  <2>6. PICK m \in Short : Len(file) + c <= NextSlot + m + syncs
    BY <2>3, <1>c
  <2>7. Len(file') = IF NextSlot + n > Len(file) THEN NextSlot + n ELSE Len(file)
    BY <2>1, <2>4, <1>0, WriteAtLength
  <2>8. PICK len \in Nat :
          /\ len = Len(file')
          /\ len = IF NextSlot + n > Len(file) THEN NextSlot + n ELSE Len(file)
    BY <2>4, <2>7, <1>0
  <2>9. NextSlot' = NextSlot /\ ToSync' = ToSync
    BY <2>1 DEF NextSlot, ToSync
  <2>10. NextSlot <= len /\ n \in Short
    BY <2>3, <2>4, <2>8, <1>0, <1>c DEF Short
  <2>11. \E k \in Short : len + c <= NextSlot + k + syncs
    <3>1. CASE NextSlot + n > Len(file)
      <4>1. len + c <= NextSlot + n + syncs
        BY <3>1, <2>4, <2>8, <1>0
      <4>. QED
        BY <4>1, <2>10
    <3>2. CASE ~(NextSlot + n > Len(file))
      <4>1. len = Len(file)
        BY <3>2, <2>8
      <4>. QED
        BY <4>1, <2>6
    <3>. QED
      BY <3>1, <3>2
  <2>. QED
    BY <2>1, <2>5, <2>8, <2>9, <2>10, <2>11 DEF Headed, c, Short
<1>5. ASSUME NEW w \in Writers, SyncLoad(w) PROVE Headless' \/ Headed'
  <2>1. /\ syncs' = syncs + 1 /\ UNCHANGED <<file, log, mode, misplaced>>
        /\ syncing' = [syncing EXCEPT ![w] = monotonic] /\ monotonic \in Nat
    BY <1>5 DEF SyncLoad, WalTypeOK
  <2>2. ToSync' = ToSync \cup {w}
    BY <2>1, <1>0, WalAssumption DEF ToSync
  <2>3. PICK d \in Nat : d = Cardinality(ToSync') /\ d <= c + 1
    <3>1. /\ IsFiniteSet(ToSync \cup {w}) /\ Cardinality(ToSync \cup {w}) \in Nat
          /\ Cardinality(ToSync \cup {w}) = IF w \in ToSync THEN c ELSE c + 1
      BY <1>0, FS_AddElement, FS_CardinalityType DEF c
    <3>2. PICK d \in Nat : d = Cardinality(ToSync \cup {w})
      BY <3>1
    <3>3. d <= c + 1
      BY ONLY <3>1, <3>2, <1>0
    <3>. QED
      BY <3>2, <3>3, <2>2
  <2>4. PICK now \in Nat : now = syncs' /\ now = syncs + 1
    BY <2>1, <1>0
  <2>5. NextSlot' = NextSlot
    BY <2>1 DEF NextSlot
  <2>6. CASE Headless
    <3>1. Len(file) + d <= now
      BY <2>3, <2>4, <2>6, <1>0, <1>b
    <3>. QED
      BY <3>1, <2>1, <2>3, <2>4, <2>6, <1>b DEF Headless
  <2>7. CASE Headed
    <3>1. PICK n \in Short : Len(file) + c <= NextSlot + n + syncs
      BY <2>7, <1>c
    <3>2. n \in Nat
      BY <1>a
    <3>3. Len(file) + d <= NextSlot + n + now
      BY <3>1, <3>2, <2>3, <2>4, <1>0
    <3>. QED
      BY <3>3, <2>1, <2>3, <2>4, <2>5, <2>7, <1>c DEF Headed, Short
  <2>. QED
    BY <2>1, <2>6, <2>7 DEF TailBounded
<1>6. ASSUME NEW w \in Writers, SyncWrite(w) PROVE Headless' \/ Headed'
  <2> DEFINE off == IF mode = "append" THEN Len(file) ELSE MAX_TS_OFFSET
  <2>1. /\ syncing[w] \in Nat /\ IsOpen /\ syncs' = syncs
        /\ syncing' = [syncing EXCEPT ![w] = None]
        /\ file' = WriteAt(file, off, <<syncing[w]>>)
        /\ UNCHANGED <<mode, log, misplaced>>
    BY <1>6, <1>0 DEF SyncWrite, LifeCycle, Idle
  <2>2. ToSync' = ToSync \ {w} /\ w \in ToSync
    BY <2>1, <1>0, <1>6 DEF ToSync, SyncWrite
  <2>3. PICK d \in Nat : d = Cardinality(ToSync') /\ d + 1 = c
    <3>1. /\ IsFiniteSet(ToSync \ {w}) /\ Cardinality(ToSync \ {w}) \in Nat
          /\ Cardinality(ToSync \ {w}) = c - 1
      BY <2>2, <1>0, FS_RemoveElement, FS_CardinalityType DEF c
    <3>2. PICK d \in Nat : d = Cardinality(ToSync \ {w})
      BY <3>1
    <3>3. d + 1 = c
      BY ONLY <3>1, <3>2, <1>0
    <3>. QED
      BY <3>2, <3>3, <2>2
  <2>4. off \in Nat /\ <<syncing[w]>> \in Seq(Nat) /\ Len(<<syncing[w]>>) = 1
    BY <2>1, <1>0 DEF MAX_TS_OFFSET
  <2>5. PICK len \in Nat :
          /\ len = Len(file')
          /\ len = IF off + 1 > Len(file) THEN off + 1 ELSE Len(file)
    <3> HIDE DEF off
    <3>1. Len(WriteAt(file, off, <<syncing[w]>>))
            = IF off + 1 > Len(file) THEN off + 1 ELSE Len(file)
      BY <2>4, <1>0, WriteAtLength
    <3>2. (IF off + 1 > Len(file) THEN off + 1 ELSE Len(file)) \in Nat
      BY <2>4, <1>0
    <3>. QED
      BY <3>1, <3>2, <2>1
  <2>6. NextSlot' = NextSlot
    BY <2>1 DEF NextSlot
  <2>7. CASE Headless
    <3>1. mode = "append" /\ len = Len(file) + 1
      BY <2>1, <2>5, <2>7, <1>0, <1>b, <1>d
    <3>2. len + d <= syncs
      BY <3>1, <2>3, <2>7, <1>0, <1>b
    <3>. QED
      BY <3>1, <3>2, <2>1, <2>3, <2>5, <2>7, <1>b DEF Headless
  <2>8. CASE Headed
    <3>1. PICK n \in Short : Len(file) + c <= NextSlot + n + syncs
      BY <2>8, <1>c
    <3>2. n \in Nat /\ Len(file) >= 32 /\ NextSlot <= Len(file)
      BY <2>8, <1>a, <1>c DEF HeaderKept, HEADER_SIZE
    <3>3. off + 1 <= Len(file) + 1
      BY <3>2, <1>0 DEF MAX_TS_OFFSET
    <3>4. len <= Len(file) + 1 /\ len >= Len(file)
      BY <3>3, <2>4, <2>5, <1>0
    <3>5. len + d <= NextSlot + n + syncs /\ NextSlot <= len
      <4>1. /\ Len(file) \in Nat /\ NextSlot \in Nat /\ syncs \in Nat
            /\ c \in Nat /\ d \in Nat /\ n \in Nat /\ len \in Nat
        BY <1>0, <3>2
      <4>. QED
        BY ONLY <4>1, <3>1, <3>2, <3>4, <2>3
    <3>6. HeaderKept(file')
      <4>1. off >= HEADER_SIZE \/ off = MAX_TS_OFFSET
        BY <3>2 DEF HEADER_SIZE
      <4>. QED
        BY <4>1, <2>1, <2>4, <2>8, <1>0, <1>c, WriteKeepsHeader
    <3>. QED
      BY <3>5, <3>6, <2>1, <2>3, <2>5, <2>6 DEF Headed, Short
  <2>. QED
    BY <2>1, <2>7, <2>8 DEF TailBounded
<1>7. CASE Crash
  <2>1. /\ mode' # "create" /\ UNCHANGED <<file, log, syncs, misplaced>>
        /\ syncing' = Idle
    BY <1>7 DEF Crash
  <2>2. ToSync' = {} /\ Cardinality({}) = 0 /\ NextSlot' = NextSlot
    BY <2>1, FS_EmptySet DEF ToSync, Idle, NextSlot
  <2>3. CASE Headless
    <3>1. Len(file) + 0 <= syncs
      BY <2>3, <1>0, <1>b
    <3>. QED
      BY <3>1, <2>1, <2>2, <2>3, <1>b DEF Headless
  <2>4. CASE Headed
    <3>1. PICK n \in Short : Len(file) + c <= NextSlot + n + syncs
      BY <2>4, <1>c
    <3>2. n \in Nat
      BY <1>a
    <3>3. Len(file) + 0 <= NextSlot + n + syncs
      BY ONLY <3>1, <3>2, <1>0
    <3>. QED
      BY <3>3, <2>1, <2>2, <2>4, <1>c DEF Headed, Short
  <2>. QED
    BY <2>1, <2>3, <2>4 DEF TailBounded
<1>8. CASE Close \/ CreateFile
  BY <1>1, <1>8 DEF Close, CreateFile
<1>9. ASSUME NEW replayed \in BOOLEAN, Open(replayed) PROVE Headless' \/ Headed'
  BY <1>1, <1>9 DEF Open
<1>10. ASSUME NEW w \in Writers, NEW req \in Request, AppendDraw(w, req)
       PROVE  Headless' \/ Headed'
  BY <1>1, <1>10 DEF AppendDraw
<1>11. CASE UNCHANGED walVars
  BY <1>1, <1>11 DEF walVars
<1>. QED
  BY <1>2, <1>3, <1>4, <1>5, <1>6, <1>7, <1>8, <1>9, <1>10, <1>11 DEF WalStep

\* With the records in place and little behind them, replay() is exact.
LEMMA ShortTailReplays ==
  ASSUME TailsAreShort
  PROVE  WalTypeOK /\ SyncsCounted /\ RecordsInPlace /\ TailBounded => ReplayExact
<1> SUFFICES ASSUME WalTypeOK, SyncsCounted, RecordsInPlace, TailBounded, ~misplaced
             PROVE  ReplayedHashes(file) = LeafHashes(log)
  BY DEF ReplayExact
<1> DEFINE c == Cardinality(ToSync)
<1>0. /\ c \in Nat /\ syncs \in Nat /\ syncs <= MaxSyncs /\ MaxSyncs \in Nat
      /\ file \in Seq(Nat) /\ log \in Seq(WalRecord)
      /\ Len(file) \in Nat /\ Len(log) \in Nat /\ NextSlot = 32 + 8 * Len(log)
  BY FS_CardinalityType, WalAssumption
     DEF SyncsCounted, WalTypeOK, NextSlot, HEADER_SIZE, RECORD_SIZE
<1>1. \A n \in ShortWrites \cup {0} : n \in Nat /\ n + MaxSyncs < 8
  BY WalAssumption DEF TailsAreShort, RECORD_SIZE
<1>2. CASE Headless
  <2>0. MaxSyncs < 8 /\ log = <<>> /\ Len(file) + c <= syncs
    <3>1. 0 + MaxSyncs < 8
      BY <1>1
    <3>. QED
      BY <3>1, <1>0, <1>2 DEF Headless, c
  <2> HIDE DEF c
  <2>1. log = <<>> /\ Len(file) < 8
    BY <2>0, <1>0
  <2>2. ReplayedHashes(file) = <<>>
    BY <2>1, <1>0 DEF ReplayedHashes, HEADER_SIZE
  <2>3. LeafHashes(<<>>) = <<>>
    <3> DEFINE at == {k \in DOMAIN <<>> : <<>>[k].type = Leaf}
    <3>1. at = {} /\ Cardinality({}) = 0
      BY FS_EmptySet
    <3>2. LeafHashes(<<>>) = [n \in 1..Cardinality(at) |-> <<>>[Nth(at, n)].hash]
      BY DEF LeafHashes
    <3> HIDE DEF at
    <3>. QED
      BY <3>1, <3>2
  <2>. QED
    BY <2>1, <2>2, <2>3
<1>3. CASE Headed
  <2>1. HeaderKept(file) /\ NextSlot <= Len(file) /\ Len(file) >= HEADER_SIZE
    BY <1>3 DEF Headed, HeaderKept
  <2>2. PICK n \in ShortWrites \cup {0} : Len(file) + c <= NextSlot + n + syncs
    BY <1>3 DEF Headed, c
  <2> HIDE DEF c
  <2>3. Len(file) < NextSlot + 8
    <3>1. n \in Nat /\ n + MaxSyncs < 8
      BY <1>1
    <3>. QED
      BY ONLY <3>1, <2>2, <1>0
  <2>4. \A k \in 1..Len(log), j \in 1..RECORD_SIZE :
          file[HEADER_SIZE + RECORD_SIZE * (k - 1) + j] = Encode(log[k])[j]
    BY DEF RecordsInPlace, InPlace
  <2>5. /\ HEADER_SIZE + RECORD_SIZE * Len(log) <= Len(file)
        /\ Len(file) < HEADER_SIZE + RECORD_SIZE * Len(log) + RECORD_SIZE
    BY <2>1, <2>3, <1>0 DEF HEADER_SIZE, RECORD_SIZE
  <2>6. DecodedRecords(file) = log
    BY <2>1, <2>4, <2>5, <1>0, ReplayFinds
  <2>. QED
    BY <2>1, <2>6, <1>0 DEF ReplayedHashes, HEADER_SIZE
<1>. QED
  BY <1>2, <1>3 DEF TailBounded

\* The file starts without a header and without calls.
LEMMA BoundedInitially == WalInit => SyncsCounted /\ TailBounded
<1> SUFFICES ASSUME WalInit PROVE SyncsCounted /\ Headless
  BY DEF TailBounded
<1>1. ToSync = {} /\ IsFiniteSet({}) /\ Cardinality({}) = 0
  BY FS_EmptySet DEF WalInit, ToSync, Idle
<1>2. Len(file) = 0 /\ syncs = 0 /\ log = <<>> /\ mode # "create" /\ MaxSyncs \in Nat
  BY WalAssumption DEF WalInit
<1>. QED
  BY <1>1, <1>2 DEF SyncsCounted, Headless

\* For any log whose torn record and words of sync() are together less than a
\* chunk, replay() finds the leaves that append() reported as written, in their
\* order, and no others, as long as no write was displaced.
THEOREM WalReplayExact ==
  ASSUME TailsAreShort
  PROVE  WalSpec => []ReplayExact
<1>1. WalInit => SyncsCounted /\ TailBounded
  BY BoundedInitially
<1>2. WalTypeOK /\ LifeCycle /\ SyncsCounted /\ TailBounded /\ [WalNext]_walVars
        => (SyncsCounted /\ TailBounded)'
  BY NextIsStep, NextCounted, NextBounded
<1>3. WalTypeOK /\ SyncsCounted /\ RecordsInPlace /\ TailBounded => ReplayExact
  BY ShortTailReplays
<1>. QED
  BY <1>1, <1>2, <1>3, WalTypeCorrect, WalRecordsInPlace, PTL DEF WalSpec

-----------------------------------------------------------------------------

Steps == {"swapped", "drawn", "written", "syncing", "done", "failed"}
Swapped == [by : Writers, slot : Nat, patch : Patch, step : Steps]

\* The record of a thread is the witness of a swap, or no mutation.
HeldBy(w) ==
  \/ \E i \in InProgress :
       /\ swaps[i].by = w /\ swaps[i].step = "drawn"
       /\ appending[w].content_id = SOVEREIGN_MUTATION_CONTENT_ID
       /\ appending[w].leaf_index = swaps[i].slot
       /\ appending[w].hash = swaps[i].patch.original_hash
  \/ /\ appending[w].content_id # SOVEREIGN_MUTATION_CONTENT_ID
     /\ \A i \in InProgress : swaps[i].by = w => swaps[i].step # "drawn"

\* What the swaps and the threads' hands need of each other.
SwapsHold ==
  /\ swaps \in Seq(Swapped)
  /\ ~IsOpen => swaps = <<>>
  /\ InProgress \subseteq {Len(swaps)}
  /\ \A w \in Writers : appending[w] # None => HeldBy(w)

InOrder(at) ==
  /\ \A i \in Witnessed : \E k \in Mutations : at[k] = i
  /\ \A j, k \in Mutations : j < k => at[j] < at[k]
  /\ \A k \in Mutations :
       /\ log[k].leaf_index = swaps[at[k]].slot
       /\ log[k].hash = swaps[at[k]].patch.original_hash

SwapsWitnessed == IsOpen => \E at \in [Mutations -> Witnessed] : InOrder(at)

-----------------------------------------------------------------------------
\* The record of a mutation is one that append() takes.
LEMMA WitnessIsRequest ==
  ASSUME NEW s \in Swapped
  PROVE  Witness(s) \in Request
BY DEF Swapped, Patch, Witness, Request, EpochSeal, SOVEREIGN_MUTATION_CONTENT_ID

\* Each step of the executor is one of the log, or leaves it alone.
LEMMA ExecutorStepsOfTheLog ==
  ASSUME swaps \in Seq(Swapped), [ExecutorNext]_executorVars
  PROVE  [WalStep]_walVars
<1>1. Requests \subseteq Request
  BY WalAssumption
<1>2. \A i \in InProgress : Witness(swaps[i]) \in Request
  BY WitnessIsRequest DEF InProgress
<1>3. CASE Begins \/ Ends
  BY <1>3 DEF Begins, Ends, WalStep
<1>4. ASSUME NEW w \in Writers, Apply(w) PROVE WalStep \/ UNCHANGED walVars
  BY <1>2, <1>4 DEF Apply, Swap, WitnessDraw, WitnessWrite, WitnessFail,
     WitnessSync, WitnessSynced, WalStep
<1>5. ASSUME NEW w \in Writers, LogStep(w) PROVE WalStep
  BY <1>1, <1>5 DEF LogStep, WalStep
<1>. QED
  BY <1>3, <1>4, <1>5 DEF ExecutorNext, executorVars

\* A swap that goes one step further is otherwise the same.
LEMMA AdvanceEffect ==
  ASSUME SwapsHold, NEW w \in Writers, NEW from \in Steps, NEW to \in Steps,
         Advance(w, from, to)
  PROVE  /\ swaps' \in Seq(Swapped) /\ Len(swaps') = Len(swaps)
         /\ Len(swaps) \in DOMAIN swaps /\ Len(swaps) \in InProgress
         /\ swaps[Len(swaps)].by = w /\ swaps[Len(swaps)].step = from
         /\ swaps'[Len(swaps)].step = to
         /\ \A i \in DOMAIN swaps :
              /\ swaps'[i].by = swaps[i].by
              /\ swaps'[i].slot = swaps[i].slot
              /\ swaps'[i].patch = swaps[i].patch
              /\ i # Len(swaps) => swaps'[i] = swaps[i]
<1>1. PICK i \in InProgress :
        /\ swaps[i].by = w /\ swaps[i].step = from
        /\ swaps' = [swaps EXCEPT ![i].step = to]
  BY DEF Advance
<1>2. i = Len(swaps) /\ i \in DOMAIN swaps /\ swaps \in Seq(Swapped)
  BY <1>1 DEF SwapsHold, InProgress
<1>3. [swaps[i] EXCEPT !.step = to] \in Swapped
  <2>1. swaps[i] \in Swapped
    BY <1>2
  <2>. QED
    BY <2>1 DEF Swapped
<1>4. swaps' = [swaps EXCEPT ![i] = [swaps[i] EXCEPT !.step = to]]
  BY <1>1
<1>5. /\ swaps' \in Seq(Swapped) /\ Len(swaps') = Len(swaps)
      /\ swaps'[i] = [swaps[i] EXCEPT !.step = to]
      /\ \A j \in DOMAIN swaps : j # i => swaps'[j] = swaps[j]
  BY <1>2, <1>3, <1>4
<1>. QED
  BY <1>1, <1>2, <1>3, <1>5 DEF Swapped

-----------------------------------------------------------------------------
\* The record a thread holds stays what it is when neither it nor the swaps
\* change.
LEMMA HeldStays ==
  ASSUME NEW w \in Writers, HeldBy(w), appending'[w] = appending[w],
         swaps' = swaps
  PROVE  HeldBy(w)'
BY DEF HeldBy, InProgress

\* A swap that advances, not to the append and not from it.
LEMMA AdvanceHolds ==
  ASSUME SwapsHold, NEW w \in Writers,
         NEW from \in Steps \ {"drawn"}, NEW to \in Steps \ {"drawn"},
         Advance(w, from, to), UNCHANGED <<mode, appending>>, IsOpen
  PROVE  SwapsHold'
<1>1. from \in Steps /\ to \in Steps
  OBVIOUS
<1>a. /\ swaps' \in Seq(Swapped) /\ Len(swaps') = Len(swaps)
      /\ Len(swaps) \in DOMAIN swaps
      /\ swaps'[Len(swaps)].step = to /\ swaps[Len(swaps)].step = from
      /\ DOMAIN swaps' = DOMAIN swaps
      /\ \A i \in DOMAIN swaps :
           i # Len(swaps) => swaps'[i] = swaps[i]
  BY <1>1, AdvanceEffect
<1>2. InProgress' \subseteq {Len(swaps')}
  BY <1>a DEF SwapsHold, InProgress
<1>3. ASSUME NEW v \in Writers, appending'[v] # None PROVE HeldBy(v)'
  <2>1. HeldBy(v) /\ appending'[v] = appending[v]
    BY <1>3 DEF SwapsHold
  <2>2. \A i \in InProgress : i = Len(swaps)
    BY DEF SwapsHold
  <2>3. appending[v].content_id # SOVEREIGN_MUTATION_CONTENT_ID
    BY <2>1, <2>2, <1>a DEF HeldBy
  <2>4. \A i \in InProgress' : swaps'[i].step # "drawn"
    BY <1>2, <1>a
  <2>. QED
    BY <2>1, <2>3, <2>4 DEF HeldBy
<1>. QED
  BY <1>a, <1>2, <1>3 DEF SwapsHold, IsOpen

\* An append that the log took or refused, by a thread that applies no patch.
LEMMA ReleaseHolds ==
  ASSUME WalTypeOK, SwapsHold, NEW w \in Writers, IsOpen, mode' = mode,
         appending' = [appending EXCEPT ![w] = None], swaps' = swaps
  PROVE  SwapsHold'
<1>1. \A v \in Writers : appending'[v] # None => appending'[v] = appending[v]
  BY DEF WalTypeOK
<1>. QED
  BY <1>1, HeldStays DEF SwapsHold, IsOpen, InProgress

\* Each step keeps the swaps and the threads' hands consistent.
LEMMA NextSwapsHold ==
  ASSUME WalTypeOK, LifeCycle, SwapsHold, [ExecutorNext]_executorVars
  PROVE  SwapsHold'
<1> USE DEF IsOpen
<1>t. /\ swaps \in Seq(Swapped) /\ Len(swaps) \in Nat
      /\ InProgress \subseteq {Len(swaps)}
      /\ appending \in [Writers -> WalRecord \cup {None}]
  BY DEF SwapsHold, WalTypeOK
<1>1. CASE UNCHANGED executorVars
  BY <1>1, HeldStays DEF SwapsHold, executorVars, walVars, InProgress
<1>2. CASE Begins
  <2>1. swaps = <<>> /\ swaps' = swaps /\ appending' = appending
    BY <1>2 DEF Begins, CreateFile, CreateHeader, Open, SwapsHold
  <2>. QED
    BY <2>1, HeldStays DEF SwapsHold, InProgress
<1>3. CASE Ends
  <2>1. /\ swaps' = <<>> /\ appending' = Idle
    BY <1>3 DEF Ends, Crash, Close
  <2>2. InProgress' = {}
    BY <2>1 DEF InProgress
  <2>3. \A w \in Writers : appending'[w] = None
    BY <2>1 DEF Idle
  <2>4. <<>> \in Seq(Swapped)
    BY EmptySeq
  <2>. QED
    BY <2>1, <2>2, <2>3, <2>4 DEF SwapsHold
<1>4. ASSUME NEW w \in Writers, LogStep(w) PROVE SwapsHold'
  <2>1. swaps' = swaps /\ ~Applies(w)
    BY <1>4 DEF LogStep
  <2>2. ASSUME NEW req \in Requests, AppendDraw(w, req) PROVE SwapsHold'
    <3>1. /\ mode' = mode /\ IsOpen
          /\ \A v \in Writers \ {w} : appending'[v] = appending[v]
      BY <2>2, <1>t DEF AppendDraw
    <3>2. appending'[w].content_id = req.content_id
      BY <2>2, <1>t DEF AppendDraw
    <3>3. HeldBy(w)'
      BY <2>1, <3>2, ExecutorAssumption DEF HeldBy, Applies, InProgress
    <3>4. \A v \in Writers : appending'[v] # None => HeldBy(v)'
      BY <2>1, <3>1, <3>3, HeldStays DEF SwapsHold
    <3>. QED
      BY <1>t, <2>1, <3>1, <3>4 DEF SwapsHold, InProgress
  <2>3. ASSUME AppendWrite(w) \/ \E n \in ShortWrites : AppendFail(w, n)
        PROVE  SwapsHold'
    <3>1. appending' = [appending EXCEPT ![w] = None] /\ mode' = mode
      BY <2>3 DEF AppendWrite, AppendFail
    <3>2. IsOpen
      BY <2>3 DEF AppendWrite, AppendFail, LifeCycle, Idle
    <3>. QED
      BY <2>1, <3>1, <3>2, ReleaseHolds
  <2>4. ASSUME SyncLoad(w) \/ SyncWrite(w) PROVE SwapsHold'
    <3>1. appending' = appending /\ mode' = mode
      BY <2>4 DEF SyncLoad, SyncWrite
    <3>. QED
      BY <2>1, <3>1, HeldStays DEF SwapsHold, InProgress
  <2>. QED
    BY <1>4, <2>2, <2>3, <2>4 DEF LogStep
<1>5. ASSUME NEW w \in Writers, NEW slot \in Slots, NEW p \in Patches,
             Swap(w, slot, p)
      PROVE  SwapsHold'
  <2> DEFINE s == [by |-> w, slot |-> slot, patch |-> p, step |-> "swapped"]
  <2>1. s \in Swapped
    BY ExecutorAssumption DEF Swapped, Steps
  <2>2. /\ swaps' = Append(swaps, s) /\ UNCHANGED walVars /\ InProgress = {}
        /\ IsOpen
    BY <1>5 DEF Swap, Locked
  <2> HIDE DEF s
  <2>3. /\ swaps' \in Seq(Swapped) /\ Len(swaps') = Len(swaps) + 1
        /\ swaps'[Len(swaps) + 1] = s
        /\ \A i \in 1..Len(swaps) : swaps'[i] = swaps[i]
        /\ DOMAIN swaps' = 1..(Len(swaps) + 1) /\ DOMAIN swaps = 1..Len(swaps)
    BY <1>t, <2>1, <2>2
  <2>4. InProgress' \subseteq {Len(swaps')}
    BY <1>t, <2>2, <2>3 DEF InProgress
  <2>5. ASSUME NEW v \in Writers, appending'[v] # None PROVE HeldBy(v)'
    <3>1. HeldBy(v) /\ appending' = appending
      BY <2>2, <2>5 DEF SwapsHold, walVars
    <3>2. appending[v].content_id # SOVEREIGN_MUTATION_CONTENT_ID
      BY <2>2, <3>1 DEF HeldBy
    <3>3. s.step = "swapped"
      BY DEF s
    <3>4. \A i \in InProgress' : swaps'[i].step # "drawn"
      BY <2>3, <2>4, <3>3
    <3>. QED
      BY <3>1, <3>2, <3>4 DEF HeldBy
  <2>. QED
    BY <2>2, <2>3, <2>4, <2>5 DEF SwapsHold, walVars
<1>6. ASSUME NEW w \in Writers, WitnessDraw(w) PROVE SwapsHold'
  <2>1. PICK i \in InProgress :
          swaps[i].by = w /\ AppendDraw(w, Witness(swaps[i]))
    BY <1>6 DEF WitnessDraw
  <2>2. Advance(w, "swapped", "drawn")
    BY <1>6 DEF WitnessDraw
  <2>3. i = Len(swaps)
    BY <1>t
  <2>4. /\ swaps' \in Seq(Swapped) /\ Len(swaps') = Len(swaps)
        /\ Len(swaps) \in DOMAIN swaps
        /\ DOMAIN swaps' = DOMAIN swaps
        /\ swaps'[i].step = "drawn" /\ swaps'[i].by = swaps[i].by
        /\ swaps'[i].slot = swaps[i].slot /\ swaps'[i].patch = swaps[i].patch
        /\ swaps[i].step = "swapped"
        /\ \A j \in DOMAIN swaps : j # i => swaps'[j] = swaps[j]
    BY <2>2, <2>3, AdvanceEffect DEF Steps
  <2>5. /\ mode' = mode /\ IsOpen
        /\ \A v \in Writers \ {w} : appending'[v] = appending[v]
        /\ appending'[w].content_id = Witness(swaps[i]).content_id
        /\ appending'[w].leaf_index = Witness(swaps[i]).leaf_index
        /\ appending'[w].hash = Witness(swaps[i]).hash
    BY <2>1, <1>t DEF AppendDraw
  <2>6. InProgress' = {i}
    BY <1>t, <2>3, <2>4 DEF InProgress
  <2>7. HeldBy(w)'
    BY <2>1, <2>4, <2>5, <2>6 DEF HeldBy, Witness
  <2>8. ASSUME NEW v \in Writers \ {w}, appending'[v] # None PROVE HeldBy(v)'
    <3>1. HeldBy(v) /\ appending'[v] = appending[v]
      BY <2>5, <2>8 DEF SwapsHold
    <3>2. appending[v].content_id # SOVEREIGN_MUTATION_CONTENT_ID
      BY <1>t, <2>3, <2>4, <3>1 DEF HeldBy
    <3>. QED
      BY <2>1, <2>4, <2>6, <3>1, <3>2 DEF HeldBy
  <2>. QED
    BY <2>3, <2>4, <2>5, <2>6, <2>7, <2>8 DEF SwapsHold
<1>7. ASSUME NEW w \in Writers, NEW to \in {"written", "failed"},
             AppendWrite(w) \/ (\E n \in ShortWrites : AppendFail(w, n)),
             Advance(w, "drawn", to)
      PROVE  SwapsHold'
  <2>1. /\ appending' = [appending EXCEPT ![w] = None] /\ mode' = mode
    BY <1>7 DEF AppendWrite, AppendFail
  <2>2. /\ swaps' \in Seq(Swapped) /\ Len(swaps') = Len(swaps)
        /\ Len(swaps) \in DOMAIN swaps /\ DOMAIN swaps' = DOMAIN swaps
        /\ swaps'[Len(swaps)].step = to
        /\ swaps[Len(swaps)].by = w /\ swaps[Len(swaps)].step = "drawn"
        /\ \A i \in DOMAIN swaps : i # Len(swaps) => swaps'[i] = swaps[i]
    BY <1>7, AdvanceEffect DEF Steps
  <2>3. InProgress' \subseteq {Len(swaps')}
    BY <1>t, <2>2 DEF InProgress
  <2>4. ASSUME NEW v \in Writers, appending'[v] # None PROVE HeldBy(v)'
    <3>1. v # w /\ appending'[v] = appending[v] /\ HeldBy(v)
      BY <1>t, <2>1, <2>4 DEF SwapsHold
    <3>2. appending[v].content_id # SOVEREIGN_MUTATION_CONTENT_ID
      BY <1>t, <2>2, <3>1 DEF HeldBy
    <3>3. \A i \in InProgress' : swaps'[i].step # "drawn"
      BY <2>2, <2>3
    <3>. QED
      BY <3>1, <3>2, <3>3 DEF HeldBy
  <2>5. IsOpen
    BY <1>7 DEF AppendWrite, AppendFail, LifeCycle, Idle
  <2>. QED
    BY <2>1, <2>2, <2>3, <2>4, <2>5 DEF SwapsHold
<1>8. ASSUME NEW w \in Writers, WitnessSync(w) \/ WitnessSynced(w)
      PROVE  SwapsHold'
  <2>1. /\ UNCHANGED <<mode, appending>>
        /\ Advance(w, "written", "syncing") \/ Advance(w, "syncing", "done")
    BY <1>8 DEF WitnessSync, WitnessSynced, SyncLoad, SyncWrite
  <2>2. IsOpen
    BY <1>8 DEF WitnessSync, WitnessSynced, SyncLoad, SyncWrite, LifeCycle, Idle
  <2>. QED
    BY <2>1, <2>2, AdvanceHolds DEF Steps
<1>9. ASSUME NEW w \in Writers, Apply(w) PROVE SwapsHold'
  BY <1>5, <1>6, <1>7, <1>8, <1>9 DEF Apply, WitnessWrite, WitnessFail
<1>. QED
  BY <1>1, <1>2, <1>3, <1>4, <1>9 DEF ExecutorNext

-----------------------------------------------------------------------------
\* The order is kept by a step that changes neither the mutations the log has
\* nor the swaps it witnesses.
LEMMA OrderStays ==
  ASSUME SwapsHold, SwapsWitnessed, IsOpen,
         Mutations' = Mutations, Witnessed' = Witnessed,
         \A k \in Mutations : log'[k] = log[k],
         \A i \in Witnessed :
           swaps'[i].slot = swaps[i].slot /\ swaps'[i].patch = swaps[i].patch
  PROVE  SwapsWitnessed'
<1>1. PICK at \in [Mutations -> Witnessed] : InOrder(at)
  BY DEF SwapsWitnessed
<1>2. at \in [Mutations' -> Witnessed'] /\ \A k \in Mutations : at[k] \in Witnessed
  BY <1>1
<1>3. InOrder(at)'
  BY <1>1, <1>2 DEF InOrder
<1>. QED
  BY <1>2, <1>3 DEF SwapsWitnessed

\* An append adds the record to the mutations if it is one.
LEMMA MutationsAppended ==
  ASSUME WalTypeOK, NEW w \in Writers, AppendWrite(w)
  PROVE  /\ Mutations' =
              IF appending[w].content_id = SOVEREIGN_MUTATION_CONTENT_ID
              THEN Mutations \cup {Len(log) + 1} ELSE Mutations
         /\ \A k \in Mutations : k \in 1..Len(log) /\ log'[k] = log[k]
         /\ log'[Len(log) + 1] = appending[w]
<1>1. /\ log \in Seq(WalRecord) /\ Len(log) \in Nat /\ session \in Nat
      /\ session <= Len(log)
  BY DEF WalTypeOK
<1>2. log' = Append(log, appending[w]) /\ session' = session
  BY DEF AppendWrite
<1>3. /\ Len(log') = Len(log) + 1 /\ log'[Len(log) + 1] = appending[w]
      /\ \A k \in 1..Len(log) : log'[k] = log[k]
  BY <1>1, <1>2
<1>4. \A k \in Mutations : k \in 1..Len(log)
  BY <1>1 DEF Mutations
<1>5. (session' + 1)..Len(log') = ((session + 1)..Len(log)) \cup {Len(log) + 1}
  BY <1>1, <1>2, <1>3
<1>6. \A k \in (session + 1)..Len(log) : k \in 1..Len(log)
  BY <1>1
<1>7. Mutations' =
        {k \in ((session + 1)..Len(log)) \cup {Len(log) + 1} :
           log'[k].content_id = SOVEREIGN_MUTATION_CONTENT_ID}
  BY <1>5 DEF Mutations
<1>. QED
  BY <1>3, <1>4, <1>6, <1>7 DEF Mutations

\* A swap that advances without coming to be witnessed, or is already.
LEMMA WitnessedKept ==
  ASSUME SwapsHold, NEW w \in Writers, NEW from \in Steps, NEW to \in Steps,
         Advance(w, from, to),
         from \in {"written", "syncing"} <=> to \in {"written", "syncing", "done"}
  PROVE  /\ Witnessed' = Witnessed
         /\ \A i \in Witnessed :
              swaps'[i].slot = swaps[i].slot /\ swaps'[i].patch = swaps[i].patch
<1>1. /\ Len(swaps) \in DOMAIN swaps /\ DOMAIN swaps' = DOMAIN swaps
      /\ swaps[Len(swaps)].step = from /\ swaps'[Len(swaps)].step = to
      /\ Len(swaps) \in InProgress
      /\ \A i \in DOMAIN swaps :
           /\ swaps'[i].slot = swaps[i].slot
           /\ swaps'[i].patch = swaps[i].patch
           /\ i # Len(swaps) => swaps'[i] = swaps[i]
  BY AdvanceEffect
<1>2. from # "done"
  BY <1>1 DEF InProgress
<1>3. \A i \in DOMAIN swaps :
        swaps'[i].step \in {"written", "syncing", "done"}
          <=> swaps[i].step \in {"written", "syncing", "done"}
  BY <1>1, <1>2
<1>4. Witnessed' = Witnessed
  BY <1>1, <1>3 DEF Witnessed
<1>. QED
  BY <1>1, <1>4 DEF Witnessed

\* The append of a witness: the mutation that is last in the log is the swap
\* that is last in the table.
LEMMA OrderGrows ==
  ASSUME WalTypeOK, SwapsHold, SwapsWitnessed, IsOpen,
         NEW w \in Writers, WitnessWrite(w)
  PROVE  SwapsWitnessed'
<1> DEFINE n == Len(swaps)
           m == Len(log) + 1
<1>1. PICK at \in [Mutations -> Witnessed] : InOrder(at)
  BY DEF SwapsWitnessed
<1>2. AppendWrite(w) /\ Advance(w, "drawn", "written") /\ appending[w] # None
  BY DEF WitnessWrite, AppendWrite
<1>3. /\ n \in DOMAIN swaps /\ DOMAIN swaps' = DOMAIN swaps
      /\ n \in InProgress /\ swaps[n].by = w
      /\ swaps[n].step = "drawn" /\ swaps'[n].step = "written"
      /\ \A i \in DOMAIN swaps :
           /\ swaps'[i].slot = swaps[i].slot
           /\ swaps'[i].patch = swaps[i].patch
           /\ i # n => swaps'[i] = swaps[i]
  BY <1>2, AdvanceEffect DEF Steps
<1>4. \A i \in InProgress : i = n
  BY DEF SwapsHold
<1>5. /\ appending[w].content_id = SOVEREIGN_MUTATION_CONTENT_ID
      /\ appending[w].leaf_index = swaps[n].slot
      /\ appending[w].hash = swaps[n].patch.original_hash
  <2>1. HeldBy(w)
    BY <1>2 DEF SwapsHold
  <2>. QED
    BY <2>1, <1>3, <1>4 DEF HeldBy
<1>6. /\ Mutations' = Mutations \cup {m}
      /\ \A k \in Mutations : k \in 1..Len(log) /\ log'[k] = log[k]
      /\ log'[m] = appending[w]
  BY <1>2, <1>5, MutationsAppended
<1>7. Witnessed' = Witnessed \cup {n}
  BY <1>3 DEF Witnessed
<1>8. /\ n \notin Witnessed /\ DOMAIN swaps = 1..n /\ n \in Nat
      /\ Witnessed \subseteq DOMAIN swaps
  BY <1>3 DEF Witnessed, SwapsHold
<1>9. \A i \in Witnessed : i \in 1..n /\ i < n
  BY <1>8
<1>10. /\ m \notin Mutations /\ Len(log) \in Nat
       /\ \A k \in Mutations : k < m /\ ~(m < k)
  BY <1>6 DEF WalTypeOK
<1>. HIDE DEF n, m
<1>11. \A k \in Mutations : at[k] \in Witnessed
  BY <1>1
<1>12. PICK to \in [Mutations' -> Witnessed'] :
         to[m] = n /\ \A k \in Mutations : to[k] = at[k]
  <2> DEFINE new == [k \in Mutations \cup {m} |-> IF k = m THEN n ELSE at[k]]
  <2>1. new \in [Mutations' -> Witnessed']
    BY <1>6, <1>7, <1>10, <1>11
  <2>2. new[m] = n /\ \A k \in Mutations : new[k] = at[k]
    BY <1>10
  <2>. QED
    BY <2>1, <2>2
<1>13. \A i \in Witnessed' : \E k \in Mutations' : to[k] = i
  BY <1>1, <1>6, <1>7, <1>12 DEF InOrder
<1>14. \A j, k \in Mutations' : j < k => to[j] < to[k]
  <2>1. ASSUME NEW j \in Mutations, NEW k \in Mutations, j < k
        PROVE  to[j] < to[k]
    BY <1>1, <1>12, <2>1 DEF InOrder
  <2>2. ASSUME NEW j \in Mutations PROVE to[j] < to[m]
    BY <1>9, <1>11, <1>12
  <2>3. ~(m < m)
    BY <1>10 DEF m
  <2>. QED
    BY <2>1, <2>2, <2>3, <1>6, <1>10
<1>15. \A k \in Mutations' :
         /\ log'[k].leaf_index = swaps'[to[k]].slot
         /\ log'[k].hash = swaps'[to[k]].patch.original_hash
  <2>1. ASSUME NEW k \in Mutations
        PROVE  /\ log'[k].leaf_index = swaps'[to[k]].slot
               /\ log'[k].hash = swaps'[to[k]].patch.original_hash
    BY <1>1, <1>3, <1>6, <1>8, <1>11, <1>12 DEF InOrder
  <2>. QED
    BY <2>1, <1>3, <1>5, <1>6, <1>12
<1>16. InOrder(to)'
  BY <1>13, <1>14, <1>15 DEF InOrder
<1>. QED
  BY <1>12, <1>16 DEF SwapsWitnessed

\* Each step keeps the swaps witnessed in their order.
LEMMA NextSwapsWitnessed ==
  ASSUME WalTypeOK, LifeCycle, SwapsHold, SwapsWitnessed,
         [ExecutorNext]_executorVars
  PROVE  SwapsWitnessed'
<1>t. swaps \in Seq(Swapped) /\ Len(swaps) \in Nat
  BY DEF SwapsHold
<1>1. ASSUME UNCHANGED <<mode, log, session, swaps>> PROVE SwapsWitnessed'
  <2>1. CASE IsOpen
    BY <1>1, <2>1, OrderStays DEF Mutations, Witnessed
  <2>2. CASE ~IsOpen
    BY <1>1, <2>2 DEF SwapsWitnessed, IsOpen
  <2>. QED
    BY <2>1, <2>2
<1>2. CASE UNCHANGED executorVars
  BY <1>1, <1>2 DEF executorVars, walVars
<1>3. CASE Begins
  <2>1. swaps' = <<>>
    BY <1>3 DEF Begins, CreateFile, CreateHeader, Open, SwapsHold, IsOpen
  <2>2. IsOpen' => session' = Len(log') /\ Len(log') \in Nat
    <3>1. CASE CreateFile
      BY <3>1 DEF CreateFile, IsOpen
    <3>2. CASE CreateHeader
      BY <3>2 DEF CreateHeader, LifeCycle, WalTypeOK
    <3>3. ASSUME NEW r \in BOOLEAN, Open(r)
          PROVE  session' = Len(log') /\ Len(log') \in Nat
      BY <3>3 DEF Open, WalTypeOK
    <3>. QED
      BY <1>3, <3>1, <3>2, <3>3 DEF Begins
  <2>3. SUFFICES ASSUME IsOpen'
                 PROVE  \E at \in [Mutations' -> Witnessed'] : InOrder(at)'
    BY DEF SwapsWitnessed
  <2>4. (session' + 1)..Len(log') = {}
    BY <2>2, <2>3
  <2>5. Mutations' = {} /\ Witnessed' = {}
    BY <2>1, <2>4 DEF Mutations, Witnessed
  <2>6. PICK at : at \in [Mutations' -> Witnessed']
    <3>1. [k \in {} |-> k] \in [{} -> {}]
      OBVIOUS
    <3>. QED
      BY <2>5, <3>1
  <2>7. InOrder(at)'
    BY <2>5 DEF InOrder
  <2>. QED
    BY <2>6, <2>7
<1>4. CASE Ends
  BY <1>4 DEF Ends, Crash, Close, SwapsWitnessed, IsOpen
<1>5. ASSUME NEW w \in Writers, LogStep(w) PROVE SwapsWitnessed'
  <2>1. swaps' = swaps /\ ~Applies(w)
    BY <1>5 DEF LogStep
  <2>2. CASE AppendWrite(w)
    <3>1. appending[w] # None /\ IsOpen
      BY <2>2 DEF AppendWrite, LifeCycle, Idle
    <3>2. HeldBy(w)
      BY <3>1 DEF SwapsHold
    <3>3. appending[w].content_id # SOVEREIGN_MUTATION_CONTENT_ID
      BY <2>1, <3>2 DEF HeldBy, Applies
    <3>4. Mutations' = Mutations /\ \A k \in Mutations : log'[k] = log[k]
      BY <2>2, <3>3, MutationsAppended
    <3>5. Witnessed' = Witnessed
      BY <2>1 DEF Witnessed
    <3>. QED
      BY <2>1, <3>1, <3>4, <3>5, OrderStays
  <2>3. CASE ~AppendWrite(w)
    <3>1. UNCHANGED <<mode, log, session>>
      BY <1>5, <2>3 DEF LogStep, AppendDraw, AppendFail, SyncLoad, SyncWrite
    <3>. QED
      BY <1>1, <2>1, <3>1
  <2>. QED
    BY <2>2, <2>3
<1>6. ASSUME NEW w \in Writers, NEW slot \in Slots, NEW p \in Patches,
             Swap(w, slot, p)
      PROVE  SwapsWitnessed'
  <2> DEFINE s == [by |-> w, slot |-> slot, patch |-> p, step |-> "swapped"]
  <2>1. s \in Swapped /\ s.step = "swapped"
    BY ExecutorAssumption DEF Swapped, Steps
  <2>2. swaps' = Append(swaps, s) /\ UNCHANGED walVars /\ IsOpen
    BY <1>6 DEF Swap
  <2> HIDE DEF s
  <2>3. /\ swaps'[Len(swaps) + 1] = s
        /\ \A i \in 1..Len(swaps) : swaps'[i] = swaps[i]
        /\ DOMAIN swaps' = (1..Len(swaps)) \cup {Len(swaps) + 1}
        /\ DOMAIN swaps = 1..Len(swaps)
    BY <1>t, <2>1, <2>2
  <2>4. Witnessed' = Witnessed /\ \A i \in Witnessed : swaps'[i] = swaps[i]
    BY <2>1, <2>3 DEF Witnessed
  <2>5. Mutations' = Mutations /\ log' = log
    BY <2>2 DEF Mutations, walVars
  <2>. QED
    BY <2>2, <2>4, <2>5, OrderStays
<1>7. ASSUME NEW w \in Writers, WitnessWrite(w) PROVE SwapsWitnessed'
  <2>1. IsOpen
    BY <1>7 DEF WitnessWrite, AppendWrite, LifeCycle, Idle
  <2>. QED
    BY <1>7, <2>1, OrderGrows
<1>8. ASSUME NEW w \in Writers,
             \/ WitnessDraw(w) \/ WitnessFail(w)
             \/ WitnessSync(w) \/ WitnessSynced(w)
      PROVE  SwapsWitnessed'
  <2>1. UNCHANGED <<mode, log, session>>
    BY <1>8 DEF WitnessDraw, WitnessFail, WitnessSync, WitnessSynced,
       AppendDraw, AppendFail, SyncLoad, SyncWrite
  <2>2. IsOpen
    BY <1>8 DEF WitnessDraw, WitnessFail, WitnessSync, WitnessSynced,
       AppendDraw, AppendFail, SyncLoad, SyncWrite, LifeCycle, Idle
  <2>3. Mutations' = Mutations /\ log' = log
    BY <2>1 DEF Mutations
  <2>4. \/ Advance(w, "swapped", "drawn") \/ Advance(w, "drawn", "failed")
        \/ Advance(w, "written", "syncing") \/ Advance(w, "syncing", "done")
    BY <1>8 DEF WitnessDraw, WitnessFail, WitnessSync, WitnessSynced
  <2>5. /\ Witnessed' = Witnessed
        /\ \A i \in Witnessed :
             swaps'[i].slot = swaps[i].slot /\ swaps'[i].patch = swaps[i].patch
    BY <2>4, WitnessedKept DEF Steps
  <2>. QED
    BY <2>2, <2>3, <2>5, OrderStays
<1>9. ASSUME NEW w \in Writers, Apply(w) PROVE SwapsWitnessed'
  BY <1>6, <1>7, <1>8, <1>9 DEF Apply
<1>. QED
  BY <1>2, <1>3, <1>4, <1>5, <1>9 DEF ExecutorNext

-----------------------------------------------------------------------------
\* What holds at the start.
LEMMA ExecutorStarts ==
  ExecutorInit => SwapsHold /\ SwapsWitnessed
<1> SUFFICES ASSUME ExecutorInit PROVE SwapsHold /\ SwapsWitnessed
  OBVIOUS
<1>1. swaps = <<>> /\ swaps \in Seq(Swapped) /\ InProgress = {} /\ ~IsOpen
  BY EmptySeq DEF ExecutorInit, WalInit, InProgress, IsOpen
<1>2. \A w \in Writers : appending[w] = None
  BY DEF ExecutorInit, WalInit, Idle
<1>. QED
  BY <1>1, <1>2 DEF SwapsHold, SwapsWitnessed

\* The store is typed while patches are applied, the swaps in progress are one
\* at most, and a thread that is about to write a mutation applies it.
THEOREM ExecutorTypeCorrect ==
  ExecutorSpec => [](WalTypeOK /\ LifeCycle /\ SwapsHold)
<1>1. ExecutorInit => WalTypeOK /\ LifeCycle /\ SwapsHold
  BY InitTyped, ExecutorStarts DEF ExecutorInit
<1>2. WalTypeOK /\ LifeCycle /\ SwapsHold /\ [ExecutorNext]_executorVars
        => (WalTypeOK /\ LifeCycle /\ SwapsHold)'
  <2> SUFFICES ASSUME WalTypeOK, LifeCycle, SwapsHold,
                      [ExecutorNext]_executorVars
               PROVE  WalTypeOK' /\ LifeCycle' /\ SwapsHold'
    OBVIOUS
  <2>1. [WalStep]_walVars
    BY ExecutorStepsOfTheLog DEF SwapsHold
  <2>. QED
    BY <2>1, NextTyped, NextSwapsHold
<1>. QED
  BY <1>1, <1>2, PTL DEF ExecutorSpec

\* executor.rs, "a prova forense de que a mutacao aconteceu": the mutations in
\* the log of a session are its swaps in the order of the stores, whatever
\* other threads append, fail and sync in between.
THEOREM ExecutorWitnessedInOrder == ExecutorSpec => []WitnessedInOrder
<1>1. ExecutorInit => SwapsWitnessed
  BY ExecutorStarts
<1>2. /\ WalTypeOK /\ LifeCycle /\ SwapsHold
      /\ SwapsWitnessed /\ [ExecutorNext]_executorVars
      => SwapsWitnessed'
  BY NextSwapsWitnessed
<1>3. SwapsHold /\ SwapsWitnessed => WitnessedInOrder
  BY DEF SwapsHold, SwapsWitnessed, InOrder, WitnessedInOrder
<1>. QED
  BY <1>1, <1>2, <1>3, ExecutorTypeCorrect, PTL DEF ExecutorSpec

\* The swaps and their witnesses leave the records of the log in place and the
\* timestamps of a session unique.
THEOREM ExecutorKeepsTheLog ==
  ExecutorSpec => [](RecordsInPlace /\ TimestampsUnique)
<1>1. ExecutorInit => RecordsInPlace /\ TimestampsUnique
  BY DEF ExecutorInit, WalInit, RecordsInPlace, TimestampsUnique, IsOpen
<1>2. /\ WalTypeOK /\ LifeCycle /\ SwapsHold
      /\ RecordsInPlace /\ TimestampsUnique /\ [ExecutorNext]_executorVars
      => (RecordsInPlace /\ TimestampsUnique)'
  <2> SUFFICES ASSUME WalTypeOK, LifeCycle, SwapsHold, RecordsInPlace,
                      TimestampsUnique, [ExecutorNext]_executorVars
               PROVE  RecordsInPlace' /\ TimestampsUnique'
    OBVIOUS
  <2>1. [WalStep]_walVars
    BY ExecutorStepsOfTheLog DEF SwapsHold
  <2>. QED
    BY <2>1, NextInPlace, NextUnique
<1>. QED
  BY <1>1, <1>2, ExecutorTypeCorrect, PTL DEF ExecutorSpec

\* A replay of the log finds the leaves it was told of, and no mutation, under
\* the executor too.
THEOREM ExecutorReplayExact ==
  ASSUME TailsAreShort
  PROVE  ExecutorSpec => []ReplayExact
<1>1. ExecutorInit => SyncsCounted /\ TailBounded
  BY BoundedInitially DEF ExecutorInit
<1>2. /\ WalTypeOK /\ LifeCycle /\ SwapsHold
      /\ SyncsCounted /\ TailBounded /\ [ExecutorNext]_executorVars
      => (SyncsCounted /\ TailBounded)'
  <2> SUFFICES ASSUME WalTypeOK, LifeCycle, SwapsHold, SyncsCounted, TailBounded,
                      [ExecutorNext]_executorVars
               PROVE  SyncsCounted' /\ TailBounded'
    OBVIOUS
  <2>1. [WalStep]_walVars
    BY ExecutorStepsOfTheLog DEF SwapsHold
  <2>. QED
    BY <2>1, NextCounted, NextBounded
<1>3. WalTypeOK /\ SyncsCounted /\ RecordsInPlace /\ TailBounded => ReplayExact
  BY ShortTailReplays
<1>. QED
  BY <1>1, <1>2, <1>3, ExecutorTypeCorrect, ExecutorKeepsTheLog, PTL DEF ExecutorSpec

=============================================================================
