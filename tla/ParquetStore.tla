---------------------------- MODULE ParquetStore ----------------------------
(***************************************************************************)
(* ParquetBarStore and its twin ParquetSettleStore: batches of rows merged *)
(* into one Parquet file per partition (a month of bars, a year of         *)
(* settles) of a root.  A row is its dedupe key (contract, time, settle    *)
(* state, SHA of its bytes) and a note, the columns outside of the key     *)
(* (source_id, as_of_iso): fetched again, a row has the same key and       *)
(* another note.  A bar has no settle state: its rank is always the same.  *)
(*                                                                         *)
(* Writing truncates the file and fills it again: until it is closed, and  *)
(* after a crash or an OSError in between, the file is torn.               *)
(***************************************************************************)
EXTENDS Integers, Sequences, SequencesExt, FiniteSets

CONSTANTS
    Contracts,          \* contracts of one root
    Times,              \* timestamps of bars, dates of settles
    Ranks,              \* _SETTLE_STATE_RANK of the settle states
    Shas,               \* SHAs of row bytes
    Notes,              \* the columns that are not in the key
    PartLength,         \* times per file
    MaxBatch,           \* bound: rows of a batch
    MaxWrites           \* bound: calls of write

ASSUME StoreAssumption ==
    /\ Times \subseteq Nat /\ Ranks \subseteq Nat /\ Shas \subseteq Nat
    /\ PartLength \in Nat \ {0}
    /\ MaxBatch \in Nat /\ MaxWrites \in Nat

VARIABLES
    files,              \* per partition: exists, torn, rows
    write,              \* the write_bars or write_settles call in progress
    tally,              \* its counters, and the rows stored when it began
    result,             \* the StoreWriteResult returned last, with what it is about
    first,              \* history: the row each acknowledged key was stored as
    writes              \* history: calls so far

storeVars == <<files, write, tally, result, first, writes>>

(* _bars_to_df, _row_to_bar: prices are kept as strings, times in UTC, so a  *)
(* row comes back as it was written.                                         *)
Rows == [contract : Contracts, at : Times, rank : Ranks, sha : Shas, note : Notes]

(* _DEDUPE_SUBSET. *)
Key(r) == [contract |-> r.contract, at |-> r.at, rank |-> r.rank, sha |-> r.sha]
KeysOf(rows) == {Key(r) : r \in rows}

(* _partition_path: the year, or the year and month, of the row. *)
Partition(r) == r.at \div PartLength
Partitions == {t \div PartLength : t \in Times}

NoFile == [exists |-> FALSE, torn |-> FALSE, rows |-> {}]
NoWrite == [pc |-> "idle", batch |-> <<>>, done |-> {}, part |-> 0, final |-> {}]
NoTally == [written |-> 0, deduped |-> 0, before |-> 0]
NoResult == [written |-> 0, deduped |-> 0, grown |-> 0, submitted |-> 0]

Stored == UNION {files[p].rows : p \in Partitions}

StoreInit ==
    /\ files = [p \in Partitions |-> NoFile]
    /\ write = NoWrite /\ tally = NoTally
    /\ result = NoResult
    /\ first = {}
    /\ writes = 0

------------------------------------------------------------------------------

(* The rows of a batch whose file is not written yet: the files are taken in *)
(* the order in which they first occur.                                      *)
Groups(batch, done) == {i \in DOMAIN batch : Partition(batch[i]) \notin done}

PartOf(batch, p) == {i \in DOMAIN batch : Partition(batch[i]) = p}

(* unique(keep="last"). *)
Submitted(batch, p) ==
    {batch[i] : i \in {i \in PartOf(batch, p) :
                           \A j \in i + 1 .. Len(batch) : Key(batch[j]) # Key(batch[i])}}

(* The anti-join: what is not stored yet. *)
NewOnly(existing, submitted) == {r \in submitted : Key(r) \notin KeysOf(existing)}

\* Mutant: the file is replaced by what is new.
MergeReplaces(existing, submitted) == NewOnly(existing, submitted)

Merge(existing, submitted) == existing \cup NewOnly(existing, submitted)

(* rows_written and dedupe_count of one file: collisions with stored rows and *)
(* duplicates within the batch.                                               *)
Counted(batch, p, existing) ==
    LET submitted == Cardinality(Submitted(batch, p))
        new == Cardinality(NewOnly(existing, Submitted(batch, p)))
        internal == Cardinality(PartOf(batch, p)) - submitted
        collisions == submitted - new
    IN [new |-> new, dupes |-> internal + collisions]

Write(batch) ==
    /\ write.pc = "idle"
    /\ writes < MaxWrites
    /\ writes' = writes + 1
    /\ write' = [NoWrite EXCEPT !.pc = "open", !.batch = batch]
    /\ tally' = [NoTally EXCEPT !.before = Cardinality(Stored)]
    /\ result' = NoResult
    /\ UNCHANGED <<files, first>>

(* The file of the next group is read, merged in memory and opened to be     *)
(* written, which truncates it.                                              *)
BeginWrite ==
    /\ write.pc = "open"
    /\ \E i \in Groups(write.batch, write.done) :
        LET p == Partition(write.batch[i])
            counted == Counted(write.batch, p, files[p].rows)
        IN  /\ \A j \in Groups(write.batch, write.done) : i <= j
            /\ ~files[p].torn
            /\ files' = [files EXCEPT ![p] = [exists |-> TRUE, torn |-> TRUE, rows |-> {}]]
            /\ write' = [write EXCEPT !.pc = "writing", !.part = p,
                                      !.final = Merge(files[p].rows, Submitted(write.batch, p))]
            /\ tally' = [tally EXCEPT !.written = @ + counted.new, !.deduped = @ + counted.dupes]
    /\ UNCHANGED <<result, first, writes>>

EndWrite ==
    /\ write.pc = "writing"
    /\ files' = [files EXCEPT ![write.part] =
                    [exists |-> TRUE, torn |-> FALSE, rows |-> write.final]]
    /\ write' = [write EXCEPT !.pc = "open", !.done = @ \cup {write.part},
                              !.part = 0, !.final = {}]
    /\ UNCHANGED <<tally, result, first, writes>>

(* All groups are written, or the batch was empty: the result is returned. *)
Return ==
    /\ write.pc = "open" /\ Groups(write.batch, write.done) = {}
    /\ result' = [written |-> tally.written, deduped |-> tally.deduped,
                  grown |-> Cardinality(Stored) - tally.before, submitted |-> Len(write.batch)]
    /\ first' = first \cup {r \in Stored : /\ Key(r) \in KeysOf(ToSet(write.batch))
                                           /\ Key(r) \notin KeysOf(first)}
    /\ write' = NoWrite /\ tally' = NoTally
    /\ UNCHANGED <<files, writes>>

(* An OSError while a directory is made, a file is opened (nothing happened) *)
(* or filled (it stays torn) becomes a StorageError; the groups before it    *)
(* are stored.  A torn file cannot be read: that error is not an OSError and *)
(* passes through.                                                           *)
Raise ==
    /\ \/ write.pc = "open" /\ Groups(write.batch, write.done) # {}
       \/ write.pc = "writing"
    /\ write' = NoWrite /\ tally' = NoTally
    /\ UNCHANGED <<files, result, first, writes>>

(* The process dies during the call. *)
Crash ==
    /\ write.pc # "idle"
    /\ write' = NoWrite /\ tally' = NoTally
    /\ UNCHANGED <<files, result, first, writes>>

StoreNext ==
    \/ \E batch \in BoundedSeq(Rows, MaxBatch) : Write(batch)
    \/ BeginWrite \/ EndWrite \/ Return \/ Raise \/ Crash

------------------------------------------------------------------------------
(* Reading *)

(* _SORT_KEYS, _sort_exprs: time, progression of the settle state, SHA. *)
Before(r, q) ==
    \/ r.at < q.at
    \/ r.at = q.at /\ r.rank < q.rank
    \/ r.at = q.at /\ r.rank = q.rank /\ r.sha < q.sha

\* Mutant: the end of the window is always in it.
InQueryClosed(t, start, end, inclusive) == start <= t /\ t <= end

(* The window of a query: half-open for bars unless inclusive_end, closed for *)
(* settles.                                                                   *)
InQuery(t, start, end, inclusive) == start <= t /\ (IF inclusive THEN t <= end ELSE t < end)

(* read_bars reads every file of the root, so one torn file fails them all. *)
ReadRaises == \E p \in Partitions : files[p].torn

(* sort: each row at the rank the order gives it. *)
Sorted(S) ==
    [i \in 1 .. Cardinality(S) |->
        CHOOSE r \in S : Cardinality({q \in S : Before(q, r)}) = i - 1]

ReadBars(c, start, end, inclusive) ==
    Sorted({r \in Stored : r.contract = c /\ InQuery(r.at, start, end, inclusive)})

(* read_settles. *)
ReadSettles(c, start, end) == ReadBars(c, start, end, TRUE)

------------------------------------------------------------------------------
(* Properties *)

(* Files hold rows of their own partition, each key once; a file is filled    *)
(* only by the call that opened it.                                           *)
StoreTypeOK ==
    /\ files \in [Partitions -> [exists : BOOLEAN, torn : BOOLEAN, rows : SUBSET Rows]]
    /\ \A p \in Partitions :
          /\ \A r \in files[p].rows : Partition(r) = p
          /\ \A r, q \in files[p].rows : Key(r) = Key(q) => r = q
    /\ write \in [pc : {"idle", "open", "writing"}, batch : Seq(Rows), done : SUBSET Partitions,
                  part : Partitions \cup {0}, final : SUBSET Rows]
    /\ write.pc = "writing" => write.part \in Partitions /\ files[write.part].torn
    /\ first \subseteq Rows

(* append-only: a row whose write was acknowledged is still stored, whatever  *)
(* batches, failed calls and crashes followed, unless its file was torn.      *)
AckedIsStored ==
    \A r \in first : LET f == files[Partition(r)]
                     IN f.torn \/ Key(r) \in KeysOf(f.rows)

(* The first write wins: a row written again under its key, by a retry or     *)
(* with another provenance, leaves the stored row as it was acknowledged.     *)
FirstWins ==
    \A r \in first, q \in Stored : Key(q) = Key(r) => q = r

(* StoreWriteResult tells what happened: rows_written is by how much the      *)
(* store grew, and every row handed in was written or counted as a duplicate. *)
ResultAddsUp ==
    /\ result.written = result.grown
    /\ result.written + result.deduped = result.submitted

(* Reading a contract's history in two windows is reading it in one.          *)
ReadsTile ==
    ~ReadRaises => \A c \in Contracts, a, b, d \in Times : a <= b /\ b <= d =>
        ReadBars(c, a, b, FALSE) \o ReadBars(c, b, d, TRUE) = ReadBars(c, a, d, TRUE)

(* The last settle read for a date is the most final one stored for it.       *)
FinalReadLast ==
    ~ReadRaises => \A c \in Contracts, d \in Times :
        LET s == ReadSettles(c, d, d)
        IN s # <<>> => \A r \in Stored : r.contract = c /\ r.at = d => r.rank <= Last(s).rank

(* Appending loses and replaces nothing that was acknowledged. *)
StoreKeeps == AckedIsStored /\ FirstWins

(* The store says what it holds: results add up, reads do not depend on how a *)
(* range is cut and end on the most final row.                                *)
StoreTells == StoreTypeOK /\ ResultAddsUp /\ ReadsTile /\ FinalReadLast

==============================================================================
