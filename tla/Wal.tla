-------------------------------- MODULE Wal --------------------------------
(***************************************************************************)
(* WalStore (nexoia-core/epoch_mmr/src/wal.rs): one file shared by several  *)
(* threads.  append() draws a timestamp from an atomic counter before it    *)
(* takes the file lock, so it is two steps; sync() reads the counter before *)
(* the lock, seeks to the header, writes one word and fsyncs.  A file just  *)
(* made by create() is open read/write with a cursor; a file opened again   *)
(* is open in append mode, where every write lands at the end of the file.  *)
(***************************************************************************)
EXTENDS WalFormat

CONSTANTS
  Writers,        \* the threads that hold an Arc<WalStore>
  Requests,       \* arguments of append()
  ShortWrites,    \* words that reach the file before a write_all fails
  MaxTs,          \* bound on the counter
  MaxSyncs,       \* bound on sync() calls
  MaxRestarts,    \* bound on the times the process ends
  None            \* no call in progress

ASSUME WalAssumption ==
  /\ Requests \subseteq Request
  /\ ShortWrites \subseteq 0..(RECORD_SIZE - 1)
  /\ MaxTs \in Nat /\ MaxSyncs \in Nat /\ MaxRestarts \in Nat
  /\ None \notin WalRecord /\ None \notin Nat

VARIABLES
  file,       \* the words of the file
  mode,       \* "absent", "creating", "create", "append" or "closed"
  pos,        \* cursor of a file opened by create()
  monotonic,  \* the AtomicU64
  appending,  \* per thread, the record append() is about to write
  syncing,    \* per thread, the max_ts sync() is about to write
  syncs, restarts,
  \* history, read by no action:
  log,        \* the records whose append() returned Ok, over all sessions
  session,    \* how many of them earlier sessions wrote
  misplaced,  \* some write did not land just after the records of log
  fsynced     \* length of the file at the last fsync

walVars == <<file, mode, pos, monotonic, appending, syncing, syncs, restarts,
             log, session, misplaced, fsynced>>

IsOpen == mode \in {"create", "append"}
Idle == [w \in Writers |-> None]

\* Where the next write_all lands.
Cursor == IF mode = "append" THEN Len(file) ELSE pos

\* The slot of the record after the ones in log.
NextSlot == HEADER_SIZE + RECORD_SIZE * Len(log)

-----------------------------------------------------------------------------
WalInit ==
  /\ file = <<>>
  /\ mode = "absent"
  /\ pos = 0
  /\ monotonic = 0
  /\ appending = Idle
  /\ syncing = Idle
  /\ syncs = 0 /\ restarts = 0
  /\ log = <<>> /\ session = 0 /\ misplaced = FALSE /\ fsynced = 0

\* create(): the file exists, empty, from the open until the header is in.
CreateFile ==
  /\ mode = "absent"
  /\ mode' = "creating"
  /\ UNCHANGED <<file, pos, monotonic, appending, syncing, syncs, restarts,
                 log, session, misplaced, fsynced>>

CreateHeader ==
  /\ mode = "creating"
  /\ file' = Header
  /\ pos' = HEADER_SIZE
  /\ fsynced' = HEADER_SIZE
  /\ monotonic' = 1
  /\ mode' = "create"
  /\ UNCHANGED <<appending, syncing, syncs, restarts, log, session, misplaced>>

\* open() of an existing file, followed or not by replay() before the store
\* is shared with the other threads.
Open(replayed) ==
  /\ mode = "closed"
  /\ mode' = "append"
  /\ monotonic' = IF replayed THEN ReplayCounter(file, OpenCounter(file))
                  ELSE OpenCounter(file)
  /\ session' = Len(log)
  /\ UNCHANGED <<file, pos, appending, syncing, syncs, restarts, log,
                 misplaced, fsynced>>

-----------------------------------------------------------------------------
\* Mutant: the counter is only loaded.
AppendDrawLoad(w, req) ==
  /\ IsOpen
  /\ appending[w] = None /\ syncing[w] = None
  /\ monotonic < MaxTs
  /\ appending' = [appending EXCEPT ![w] =
       [type |-> req.type, leaf_index |-> req.leaf_index, hash |-> req.hash,
        timestamp |-> monotonic, content_id |-> req.content_id]]
  /\ UNCHANGED <<file, mode, pos, monotonic, syncing, syncs, restarts, log,
                 session, misplaced, fsynced>>

\* append(), up to the file lock: fetch_add and the encoding of the record.
AppendDraw(w, req) ==
  /\ IsOpen
  /\ appending[w] = None /\ syncing[w] = None
  /\ monotonic < MaxTs
  /\ appending' = [appending EXCEPT ![w] =
       [type |-> req.type, leaf_index |-> req.leaf_index, hash |-> req.hash,
        timestamp |-> monotonic, content_id |-> req.content_id]]
  /\ monotonic' = monotonic + 1
  /\ UNCHANGED <<file, mode, pos, syncing, syncs, restarts, log, session,
                 misplaced, fsynced>>

\* append(), under the lock: write_all of the 64 bytes at the cursor.
AppendWrite(w) ==
  /\ appending[w] # None
  /\ file' = WriteAt(file, Cursor, Encode(appending[w]))
  /\ pos' = Cursor + RECORD_SIZE
  /\ log' = Append(log, appending[w])
  /\ misplaced' = (misplaced \/ Cursor # NextSlot)
  /\ appending' = [appending EXCEPT ![w] = None]
  /\ UNCHANGED <<mode, monotonic, syncing, syncs, restarts, session, fsynced>>

\* append(), under the lock: write_all fails after n words (a full disk).
AppendFail(w, n) ==
  /\ appending[w] # None
  /\ file' = WriteAt(file, Cursor, SubSeq(Encode(appending[w]), 1, n))
  /\ pos' = Cursor + n
  /\ misplaced' = (misplaced \/ Cursor # NextSlot)
  /\ appending' = [appending EXCEPT ![w] = None]
  /\ UNCHANGED <<mode, monotonic, syncing, syncs, restarts, log, session,
                 fsynced>>

\* sync(), up to the file lock.
SyncLoad(w) ==
  /\ IsOpen
  /\ appending[w] = None /\ syncing[w] = None
  /\ syncs < MaxSyncs
  /\ syncs' = syncs + 1
  /\ syncing' = [syncing EXCEPT ![w] = monotonic]
  /\ UNCHANGED <<file, mode, pos, monotonic, appending, restarts, log, session,
                 misplaced, fsynced>>

\* sync(), under the lock: seek to the header, write max_ts, fsync.  In append
\* mode the seek does not matter: the word lands at the end of the file.
SyncWrite(w) ==
  /\ syncing[w] # None
  /\ LET off == IF mode = "append" THEN Len(file) ELSE MAX_TS_OFFSET
     IN /\ file' = WriteAt(file, off, <<syncing[w]>>)
        /\ pos' = off + 1
  /\ fsynced' = Len(file')
  /\ syncing' = [syncing EXCEPT ![w] = None]
  /\ UNCHANGED <<mode, monotonic, appending, syncs, restarts, log, session,
                 misplaced>>

\* The process dies; what was written stays in the file.
Crash ==
  /\ mode \in {"creating", "create", "append"}
  /\ restarts < MaxRestarts
  /\ restarts' = restarts + 1
  /\ mode' = "closed"
  /\ appending' = Idle /\ syncing' = Idle
  /\ UNCHANGED <<file, pos, monotonic, syncs, log, session, misplaced, fsynced>>

\* The last Arc<WalStore> is dropped, and the file with it.
Close ==
  /\ IsOpen /\ appending = Idle /\ syncing = Idle
  /\ restarts < MaxRestarts
  /\ restarts' = restarts + 1
  /\ mode' = "closed"
  /\ UNCHANGED <<file, pos, monotonic, appending, syncing, syncs, log, session,
                 misplaced, fsynced>>

WalNext ==
  \/ CreateFile
  \/ CreateHeader
  \/ \E replayed \in BOOLEAN : Open(replayed)
  \/ \E w \in Writers, req \in Requests : AppendDraw(w, req)
  \/ \E w \in Writers : AppendWrite(w)
  \/ \E w \in Writers, n \in ShortWrites : AppendFail(w, n)
  \/ \E w \in Writers : SyncLoad(w)
  \/ \E w \in Writers : SyncWrite(w)
  \/ Crash
  \/ Close

WalSpec == WalInit /\ [][WalNext]_walVars

-----------------------------------------------------------------------------
\* Type invariant of the store.
WalTypeOK ==
  /\ file \in Seq(Nat)
  /\ mode \in {"absent", "creating", "create", "append", "closed"}
  /\ pos \in Nat /\ monotonic \in Nat
  /\ appending \in [Writers -> WalRecord \cup {None}]
  /\ syncing \in [Writers -> Nat \cup {None}]
  /\ syncs \in Nat /\ restarts \in Nat
  /\ log \in Seq(WalRecord) /\ session \in 0..Len(log)
  /\ misplaced \in BOOLEAN /\ fsynced \in 0..Len(file)

\* The word j of the k-th record of the log, where the file should hold it.
InPlace(k) ==
  \A j \in 1..RECORD_SIZE :
    file[HEADER_SIZE + RECORD_SIZE * (k - 1) + j] = Encode(log[k])[j]

\* As long as every write landed just after the records written before it,
\* the k-th record append() reported as written is, word for word, in the
\* k-th slot of the file: neither the racing appends of other threads, nor
\* sync() rewriting the header, nor a failed write, a crash and a reopening
\* move or damage it.
RecordsInPlace ==
  ~misplaced =>
    \A k \in 1..Len(log) :
      HEADER_SIZE + RECORD_SIZE * k <= Len(file) /\ InPlace(k)

\* Under the same condition replay() finds exactly the leaves that append()
\* reported as written, in write order: the header chunks, the max_ts word
\* that sync() leaves at the end and a torn last record contribute nothing.
ReplayExact ==
  (~misplaced /\ mode \notin {"absent", "creating"}) =>
    ReplayedHashes(file) = LeafHashes(log)

\* Timestamps this session handed out: two appends that race for the lock,
\* one of them possibly failed or still waiting for it, never share one,
\* and all of them are below the counter.
SessionStamps ==
  {log[k].timestamp : k \in (session + 1)..Len(log)}
    \cup {appending[w].timestamp : w \in {v \in Writers : appending[v] # None}}

TimestampsUnique ==
  IsOpen =>
    /\ \A t \in SessionStamps : t < monotonic
    /\ \A i, j \in (session + 1)..Len(log) :
         i # j => log[i].timestamp # log[j].timestamp
    /\ \A v, w \in Writers :
         (v # w /\ appending[v] # None /\ appending[w] # None)
           => appending[v].timestamp # appending[w].timestamp
    /\ \A w \in Writers, i \in (session + 1)..Len(log) :
         appending[w] # None => appending[w].timestamp # log[i].timestamp

-----------------------------------------------------------------------------
\* Rule 1 of the constitution (supervisor.rs): no code path may mutate a
\* record after its first fsync.
WalInviolability ==
  [][\A i \in (HEADER_SIZE + 1)..fsynced : file'[i] = file[i]]_walVars

=============================================================================
