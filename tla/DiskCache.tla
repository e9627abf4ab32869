----------------------------- MODULE DiskCache -----------------------------
(***************************************************************************)
(* The disk cache (plugins/secondary_cache/local): an SQLite index with a  *)
(* table of actions (AC) and one of values (CAS), and a file for each      *)
(* large value.  Every operation of ll_disk_cache is one step, as it holds *)
(* the cache's mutex.  local_disk_cache writes a large value between two   *)
(* such operations, on threads of a write pool, and reads files without    *)
(* the mutex.  The process may be killed at any time.                      *)
(***************************************************************************)
EXTENDS Integers, Sequences, SequencesExt, FiniteSets, FiniteSetsExt

CONSTANTS
    Keys,       \* keys of requests
    Digests,    \* digests of values
    ValueOf,    \* the digest of the value of a request
    Size,       \* the size of a value; sizes before and after compression
                \* are not told apart
    Large,      \* values that go into a file
    SizeLimit,  \* ll_disk_cache_config::size_limit
    Writers,    \* threads of the write pool
    MaxIds,     \* bound on row ids
    NoKey, NoDigest

ASSUME DiskAssumption ==
    /\ IsFiniteSet(Keys) /\ IsFiniteSet(Digests) /\ IsFiniteSet(Writers)
    /\ ValueOf \in [Keys -> Digests]
    /\ Size \in [Digests -> Nat]
    /\ Large \subseteq Digests
    /\ SizeLimit \in Nat /\ MaxIds \in Nat
    /\ NoKey \notin Keys /\ NoDigest \notin Digests

VARIABLES
    actions,   \* the rows of the AC, least recently accessed first
    cas,       \* the rows of the CAS, by cas_id
    to_flush,  \* ac_ids_to_flush
    grown,     \* bytes_inserted_since_last_sweep
    file,      \* the file named after a digest
    wpc,       \* where a writer is
    wkey,      \* the key that it writes
    wid,       \* the cas_id it got from initiate_insert()
    linked,    \* writers whose open file has not been removed
    reading,   \* the entry whose file a reader is about to read
    read       \* whether the last read() returned the value or nothing

disk_vars == <<actions, cas, to_flush, grown, file>>
pool_vars == <<wpc, wkey, wid, linked, reading, read>>
vars == <<disk_vars, pool_vars>>

Ids == 1 .. MaxIds
ActionRows == [ac_id : Ids, key : Keys, cas_id : Ids]
\* Storage is 'D', 'F' or 'X'; sized is the digest whose size the row has.
CasRows == [digest : Digests, storage : {"D", "F", "X"}, in_db : BOOLEAN,
            sized : Digests \cup {NoDigest}]
NotReading == [key |-> NoKey, digest |-> NoDigest, sized |-> NoDigest]

DiskTypeOK ==
    /\ actions \in Seq(ActionRows)
    /\ DOMAIN cas \subseteq Ids
    /\ \A i \in DOMAIN cas : cas[i] \in CasRows
    /\ to_flush \in Seq(Ids)
    /\ grown \in 0 .. SizeLimit \div 128
    /\ file \in [Digests -> {"absent", "partial", "complete"}]
    /\ wpc \in [Writers -> {"idle", "opening", "writing", "finishing"}]
    /\ wkey \in [Writers -> Keys \cup {NoKey}]
    /\ wid \in [Writers -> Ids \cup {0}]
    /\ linked \subseteq Writers
    /\ reading \in [key : Keys \cup {NoKey}, digest : Digests \cup {NoDigest},
                    sized : Digests \cup {NoDigest}]
    /\ read \in {"right", "wrong"}

DiskInit ==
    /\ actions = <<>> /\ cas = <<>> /\ to_flush = <<>> /\ grown = 0
    /\ file = [d \in Digests |-> "absent"]
    /\ wpc = [w \in Writers |-> "idle"]
    /\ wkey = [w \in Writers |-> NoKey]
    /\ wid = [w \in Writers |-> 0]
    /\ linked = {}
    /\ reading = NotReading
    /\ read = "right"

-----------------------------------------------------------------------------
(* The tables.                                                             *)

\* SQLite gives a new row the largest id in use plus one.
NewId(used) == Max(used \cup {0}) + 1
AcIds == {actions[j].ac_id : j \in DOMAIN actions}
CasIds(acts) == {acts[j].cas_id : j \in DOMAIN acts}

PositionsOf(k) == {j \in DOMAIN actions : actions[j].key = k}
HasAction(k) == PositionsOf(k) # {}
ActionOf(k) == actions[CHOOSE j \in PositionsOf(k) : TRUE]
CasOf(k) == cas[ActionOf(k).cas_id]

\* look_up_cas_id_by_digest()
IdsForDigest(d) == {i \in DOMAIN cas : cas[i].digest = d}

\* look_up_ac_and_cas_ids() remembers that the row was used.
Touched(k) ==
    IF HasAction(k) /\ \A j \in DOMAIN to_flush : to_flush[j] # ActionOf(k).ac_id
    THEN Append(to_flush, ActionOf(k).ac_id)
    ELSE to_flush

\* The rows of a table that are in a set, in their order.
Filtered(rows, S) ==
    LET kept[n \in 0 .. Len(rows)] ==
            IF n = 0 THEN <<>>
            ELSE IF rows[n] \in S THEN Append(kept[n - 1], rows[n])
            ELSE kept[n - 1]
    IN  kept[Len(rows)]

WithAction(k, i) ==
    Append(actions, [ac_id |-> NewId(AcIds), key |-> k, cas_id |-> i])
WithCas(i, row) ==
    [j \in DOMAIN cas \cup {i} |-> IF j = i THEN row ELSE cas[j]]

\* The sum of the sizes of rows; each byte of a row is a cell.
RowSize(row) == IF row.sized = NoDigest THEN 0 ELSE Size[row.sized]
Cells(c, S) == UNION {{i} \X (1 .. RowSize(c[i])) : i \in S}
SizeOfRows(c, S) == Cardinality(Cells(c, S))

Unreferenced_any(acts, kept) == CasIds(acts)
\* The CAS rows that lose their last reference when only some actions are kept.
Unreferenced(acts, kept) == CasIds(acts) \ CasIds(kept)

\* Removes actions, and the CAS rows and the files that only they refer to.
\* A file that is being written has no row of storage 'F' yet.
remove_ac_entries(acts, kept, c) ==
    LET gone  == Unreferenced(acts, kept) \cap DOMAIN c
        files == {c[i].digest : i \in {j \in gone : c[j].storage = "F"}}
    IN  /\ actions' = kept
        /\ cas' = [i \in DOMAIN c \ gone |-> c[i]]
        /\ file' = [d \in Digests |-> IF d \in files THEN "absent" ELSE file[d]]

\* A thread may go on writing to a file that was removed.
still_linked == linked' = {w \in linked : file'[ValueOf[wkey[w]]] # "absent"}

\* How many actions enforce_cache_size_limit() removes, the least recently
\* used ones first.
NumSwept_one_less(acts, c) ==
    IF SizeOfRows(c, DOMAIN c) <= SizeLimit THEN 0
    ELSE Min({n \in 0 .. Len(acts) - 1 :
                \/ n = Len(acts) - 1
                \/ LET kept == SubSeq(acts, n + 2, Len(acts))
                   IN  SizeOfRows(c, DOMAIN c \ Unreferenced(acts, kept))
                           <= SizeLimit})
NumSwept(acts, c) ==
    IF SizeOfRows(c, DOMAIN c) <= SizeLimit THEN 0
    ELSE Min({n \in 0 .. Len(acts) :
                \/ n = Len(acts)
                \/ LET kept == SubSeq(acts, n + 1, Len(acts))
                   IN  SizeOfRows(c, DOMAIN c \ Unreferenced(acts, kept))
                           <= SizeLimit})

enforce_cache_size_limit(acts, c) ==
    /\ remove_ac_entries(acts, SubSeq(acts, NumSwept(acts, c) + 1, Len(acts)), c)
    /\ grown' = 0

\* The limit is enforced after about 1% of it has been written.
record_cache_growth(acts, c, size) ==
    IF grown + size > SizeLimit \div 128
    THEN enforce_cache_size_limit(acts, c) /\ still_linked
    ELSE /\ grown' = grown + size
         /\ actions' = acts /\ cas' = c
         /\ UNCHANGED <<file, linked>>

-----------------------------------------------------------------------------
(* Writing.                                                                *)

Keep_reader == <<reading, read>>

\* A small value, or one in a blob file, is stored at once.
insert(w, k) ==
    LET d == ValueOf[k]
        i == IF IdsForDigest(d) # {} THEN CHOOSE j \in IdsForDigest(d) : TRUE
                                     ELSE NewId(DOMAIN cas)
        row == [digest |-> d, storage |-> "D", in_db |-> TRUE, sized |-> d]
    IN  /\ wpc[w] = "idle"
        /\ d \notin Large
        /\ to_flush' = Touched(k)
        /\ IF HasAction(k)
           THEN UNCHANGED <<actions, cas, grown, file, linked>>
           ELSE /\ i <= MaxIds /\ NewId(AcIds) <= MaxIds
                /\ IF IdsForDigest(d) # {}
                   THEN record_cache_growth(WithAction(k, i), cas, 0)
                   ELSE record_cache_growth(WithAction(k, i),
                                            WithCas(i, row), Size[d])
        /\ UNCHANGED <<wpc, wkey, wid, Keep_reader>>

\* A large value: makes an invalid CAS row, unless somebody else made one.
initiate_insert(w, k) ==
    LET d == ValueOf[k]
        i == NewId(DOMAIN cas)
        row == [digest |-> d, storage |-> "X", in_db |-> FALSE,
                sized |-> NoDigest]
    IN  /\ wpc[w] = "idle"
        /\ d \in Large
        /\ to_flush' = Touched(k)
        /\ \/ /\ HasAction(k)
              /\ UNCHANGED <<actions, cas, wpc, wkey, wid>>
           \/ /\ ~HasAction(k) /\ NewId(AcIds) <= MaxIds
              /\ IdsForDigest(d) # {}
              /\ actions' = WithAction(k, CHOOSE j \in IdsForDigest(d) : TRUE)
              /\ UNCHANGED <<cas, wpc, wkey, wid>>
           \/ /\ ~HasAction(k) /\ NewId(AcIds) <= MaxIds
              /\ IdsForDigest(d) = {} /\ i <= MaxIds
              /\ actions' = WithAction(k, i)
              /\ cas' = WithCas(i, row)
              /\ wpc' = [wpc EXCEPT ![w] = "opening"]
              /\ wkey' = [wkey EXCEPT ![w] = k]
              /\ wid' = [wid EXCEPT ![w] = i]
        /\ UNCHANGED <<grown, file, linked, Keep_reader>>

\* Opens the file, truncating it.
open_file(w) ==
    /\ wpc[w] = "opening"
    /\ file' = [file EXCEPT ![ValueOf[wkey[w]]] = "partial"]
    /\ linked' = linked \cup {w}
    /\ wpc' = [wpc EXCEPT ![w] = "writing"]
    /\ UNCHANGED <<actions, cas, to_flush, grown, wkey, wid, Keep_reader>>

\* Writes and closes it.  What is left of a file that two threads write at
\* the same time is known only when both are done.
write_file(w) ==
    LET d == ValueOf[wkey[w]]
        others == {u \in linked \ {w} : ValueOf[wkey[u]] = d}
    IN  /\ wpc[w] = "writing"
        /\ file' \in {[file EXCEPT ![d] = f] :
                        f \in IF w \notin linked THEN {file[d]}
                              ELSE IF others # {} THEN {"partial", "complete"}
                              ELSE {"complete"}}
        /\ linked' = linked \ {w}
        /\ wpc' = [wpc EXCEPT ![w] = "finishing"]
        /\ UNCHANGED <<actions, cas, to_flush, grown, wkey, wid, Keep_reader>>

\* Makes the CAS row valid, if there still is a row with that id.
finish_insert(w) ==
    LET d == ValueOf[wkey[w]]
        i == wid[w]
        c == IF i \in DOMAIN cas
             THEN [cas EXCEPT ![i].storage = "F", ![i].sized = d]
             ELSE cas
    IN  /\ wpc[w] = "finishing"
        /\ record_cache_growth(actions, c, Size[d])
        /\ wpc' = [wpc EXCEPT ![w] = "idle"]
        /\ wkey' = [wkey EXCEPT ![w] = NoKey]
        /\ wid' = [wid EXCEPT ![w] = 0]
        /\ UNCHANGED <<to_flush, Keep_reader>>

\* Compressing, opening or writing fails: the entry is abandoned.
write_fails(w) ==
    /\ wpc[w] \in {"opening", "writing"}
    /\ wpc' = [wpc EXCEPT ![w] = "idle"]
    /\ wkey' = [wkey EXCEPT ![w] = NoKey]
    /\ wid' = [wid EXCEPT ![w] = 0]
    /\ linked' = linked \ {w}
    /\ UNCHANGED <<disk_vars, Keep_reader>>

-----------------------------------------------------------------------------
(* Reading.                                                                *)

\* An entry in the database is returned at once; one in a file is read later.
find(k) ==
    /\ reading = NotReading
    /\ to_flush' = Touched(k)
    /\ \/ /\ HasAction(k) => CasOf(k).storage = "X"
          /\ read' = "right" /\ UNCHANGED reading
       \/ /\ HasAction(k) /\ CasOf(k).storage # "X" /\ CasOf(k).in_db
          /\ read' = IF CasOf(k).digest = ValueOf[k] THEN "right" ELSE "wrong"
          /\ UNCHANGED reading
       \/ /\ HasAction(k) /\ CasOf(k).storage # "X" /\ ~CasOf(k).in_db
          /\ reading' = [key |-> k, digest |-> CasOf(k).digest,
                         sized |-> CasOf(k).sized]
          /\ read' = "right"
    /\ UNCHANGED <<actions, cas, grown, file, wpc, wkey, wid, linked>>

\* What decompress_file_data() makes of a file and a size; an exception makes
\* it a miss.
Decompressed_unchecked(d, sized) == file[d] # "absent"
Decompressed(d, sized) == file[d] = "complete" /\ Size[sized] = Size[d]

read_file ==
    /\ reading # NotReading
    /\ read' = IF Decompressed(reading.digest, reading.sized)
                  => /\ reading.digest = ValueOf[reading.key]
                     /\ file[reading.digest] = "complete"
               THEN "right" ELSE "wrong"
    /\ reading' = NotReading
    /\ UNCHANGED <<disk_vars, wpc, wkey, wid, linked>>

-----------------------------------------------------------------------------
(* Housekeeping.                                                           *)

clear ==
    /\ remove_ac_entries(actions, <<>>, cas)
    /\ still_linked
    /\ UNCHANGED <<to_flush, grown, wpc, wkey, wid, Keep_reader>>

remove_entry(k) ==
    /\ HasAction(k)
    /\ remove_ac_entries(actions, Filtered(actions, {a \in ActionRows : a.key # k}), cas)
    /\ still_linked
    /\ UNCHANGED <<to_flush, grown, wpc, wkey, wid, Keep_reader>>

\* record_ac_usage(): a row becomes the most recently used one.
UsedLast(rows, id) ==
    Filtered(rows, {a \in ActionRows : a.ac_id # id})
        \o Filtered(rows, {a \in ActionRows : a.ac_id = id})

\* The rows are used in the order of to_flush.
Flushed ==
    LET used[n \in 0 .. Len(to_flush)] ==
            IF n = 0 THEN actions ELSE UsedLast(used[n - 1], to_flush[n])
    IN  used[Len(to_flush)]

flush_ac_usage ==
    /\ to_flush # <<>>
    /\ actions' = Flushed
    /\ to_flush' = <<>>
    /\ UNCHANGED <<cas, grown, file, pool_vars>>

\* remove_invalid_entries()
ValidIds == {i \in DOMAIN cas : cas[i].storage # "X"}

\* The process is killed and started again.  If the database turns out to be
\* damaged, the directory is emptied.
restart ==
    /\ to_flush' = <<>>
    /\ \/ enforce_cache_size_limit(
              Filtered(actions, {a \in ActionRows : a.cas_id \in ValidIds}),
              [i \in ValidIds |-> cas[i]])
       \/ /\ actions' = <<>> /\ cas' = <<>> /\ grown' = 0
          /\ file' = [d \in Digests |-> "absent"]
    /\ wpc' = [w \in Writers |-> "idle"]
    /\ wkey' = [w \in Writers |-> NoKey]
    /\ wid' = [w \in Writers |-> 0]
    /\ linked' = {}
    /\ reading' = NotReading
    /\ read' = "right"

-----------------------------------------------------------------------------

DiskNext ==
    \/ \E w \in Writers, k \in Keys : insert(w, k) \/ initiate_insert(w, k)
    \/ \E w \in Writers :
        open_file(w) \/ write_file(w) \/ finish_insert(w) \/ write_fails(w)
    \/ \E k \in Keys : find(k) \/ remove_entry(k)
    \/ read_file \/ clear \/ flush_ac_usage \/ restart

DiskSpec == DiskInit /\ [][DiskNext]_vars

-----------------------------------------------------------------------------
(* Properties.                                                             *)

\* An action refers to an existing CAS row that has the value of its key,
\* although ids are reused and rows come and go: what is found under a key is
\* that key's value.
ActionsReferToValue ==
    \A j \in DOMAIN actions :
        /\ actions[j].cas_id \in DOMAIN cas
        /\ cas[actions[j].cas_id].digest = ValueOf[actions[j].key]

\* A value is in the CAS once, however many keys have it and threads write it,
\* and always has an action through which it can be evicted; a key has one
\* action.
ValuesSharedAndEvictable ==
    /\ \A i, j \in DOMAIN cas : cas[i].digest = cas[j].digest => i = j
    /\ DOMAIN cas \subseteq CasIds(actions)
    /\ \A i, j \in DOMAIN actions : actions[i].key = actions[j].key => i = j

\* The rows of the cache agree with each other, through concurrent writes,
\* evictions and crashes.
RowsConsistent ==
    DiskTypeOK /\ ActionsReferToValue /\ ValuesSharedAndEvictable

\* The cache exceeds its limit by no more than what was written since the
\* last check, which is about 1% of it (ll_disk_cache.cpp:997-999).
SizeNearLimit == SizeOfRows(cas, DOMAIN cas) <= SizeLimit + grown

\* A read returns the value of its key or nothing, also while the file is
\* being written, removed and written again, and after a crash.
ReadsRight == read # "wrong"
=============================================================================
