----------------------------- MODULE WalFormat -----------------------------
(***************************************************************************)
(* On-disk layout of the write-ahead log (nexoia-core/epoch_mmr/src/wal.rs) *)
(* The file is a sequence of 8-byte little-endian words: every field of the *)
(* format is a whole number of words, every offset the code seeks to is a   *)
(* multiple of 8, and the first byte of a word w is w % 256.  A hash is a   *)
(* tuple of four words.                                                     *)
(***************************************************************************)
EXTENDS Integers, Sequences, FiniteSets

HEADER_SIZE == 32       \* 256 bytes
RECORD_SIZE == 8        \* 64 bytes
\* Mutant: max_ts is looked for behind the header, not in it.
MaxTsPastHeader == HEADER_SIZE
MAX_TS_OFFSET == 3      \* byte 24: the header word sync() rewrites

MAGIC == 78             \* a word whose first byte is "N" (0x4E)
VERSION == 1

\* RecordType discriminants.
Leaf == 1
Heartbeat == 2
EpochSeal == 3

HashWords == 4
Hash == [1..HashWords -> Nat]

Request == [type : {Leaf, Heartbeat, EpochSeal}, leaf_index : Nat,
            hash : Hash, content_id : Nat]
WalRecord == [type : {Leaf, Heartbeat, EpochSeal}, leaf_index : Nat,
              hash : Hash, timestamp : Nat, content_id : Nat]

\* A header as create() writes it: magic, version, zeros.
Header == [i \in 1..HEADER_SIZE |->
             IF i = 1 THEN MAGIC ELSE IF i = 2 THEN VERSION ELSE 0]

Encode(r) ==
  <<r.type, r.leaf_index, r.hash[1], r.hash[2], r.hash[3], r.hash[4],
    r.timestamp, r.content_id>>

\* from_u8(buf[0]): only the first byte of the first word decides.
Decodable(ws) == ws[1] % 256 \in {Leaf, Heartbeat, EpochSeal}

Decode(ws) ==
  [type |-> ws[1] % 256, leaf_index |-> ws[2],
   hash |-> [i \in 1..HashWords |-> ws[i + 2]],
   timestamp |-> ws[7], content_id |-> ws[8]]

\* write_all of the words ws at word offset off (0-based) of file f.
WriteAt(f, off, ws) ==
  LET end == off + Len(ws)
  IN [i \in 1..(IF end > Len(f) THEN end ELSE Len(f)) |->
        IF i > off /\ i <= end THEN ws[i - off]
        ELSE IF i <= Len(f) THEN f[i] ELSE 0]

\* chunks_exact(RECORD_SIZE): the k-th chunk counted from the start of the
\* file (replay() does not skip the header), the trailing remainder ignored.
Chunk(f, k) == [i \in 1..RECORD_SIZE |-> f[RECORD_SIZE * (k - 1) + i]]
ChunkCount(f) == Len(f) \div RECORD_SIZE

\* The n-th of a set of numbers, in increasing order.
Nth(S, n) == CHOOSE k \in S : Cardinality({j \in S : j <= k}) = n

\* The records replay() decodes, in file order.
DecodedRecords(f) ==
  LET good == {k \in 1..ChunkCount(f) : Decodable(Chunk(f, k))}
  IN [n \in 1..Cardinality(good) |-> Decode(Chunk(f, Nth(good, n)))]

\* The hashes of the Leaf records of a sequence of records, in order.
LeafHashes(rs) ==
  LET at == {k \in DOMAIN rs : rs[k].type = Leaf}
  IN [n \in 1..Cardinality(at) |-> rs[Nth(at, n)].hash]

\* Mutant: replay() appends the hash of every record, seals included.
ReplayedEveryHash(f) ==
  LET rs == DecodedRecords(f)
  IN IF Len(f) < HEADER_SIZE THEN <<>> ELSE [i \in 1..Len(rs) |-> rs[i].hash]

\* replay(): the hashes it feeds to Mmr::append().
ReplayedHashes(f) ==
  IF Len(f) < HEADER_SIZE THEN <<>> ELSE LeafHashes(DecodedRecords(f))

\* open(): the counter recovered from the last 64 bytes of the file.
OpenCounter(f) ==
  LET last == [i \in 1..RECORD_SIZE |-> f[Len(f) - RECORD_SIZE + i]]
  IN IF Len(f) >= HEADER_SIZE + RECORD_SIZE /\ Decodable(last)
     THEN Decode(last).timestamp + 1
     ELSE 1

\* replay(): the counter is overwritten from the last whole chunk, if it
\* decodes, and is left alone otherwise.
ReplayCounter(f, current) ==
  LET last == Chunk(f, ChunkCount(f))
  IN IF Len(f) >= HEADER_SIZE /\ Decodable(last)
     THEN Decode(last).timestamp + 1
     ELSE current

\* record_count(): how many records the length of the file accounts for.
RecordCount(f) ==
  IF Len(f) < HEADER_SIZE THEN 0 ELSE (Len(f) - HEADER_SIZE) \div RECORD_SIZE

=============================================================================
