----------------------------- MODULE DuckCache -----------------------------
(***************************************************************************)
(* The DuckDB result cache (src/cache/duckdb.go) as the command line       *)
(* (src/main.go) and the web server (src/server/server.go) use it.         *)
(*                                                                         *)
(* One file holds a table per cached result and one table, cache_meta,     *)
(* with a row per entry.  Every statement is a transaction of its own, so  *)
(* a Put, a Get or a Clear is a sequence of steps that a crash, an error   *)
(* or another goroutine can cut.  The only mutual exclusion is the one     *)
(* DuckDB gives a file that is opened read-only or read-write.             *)
(*                                                                         *)
(* Operators marked "Wrong" are variants with a bug; README.md says which  *)
(* property finds each of them.                                            *)
(***************************************************************************)
EXTENDS Integers, Sequences

CONSTANTS
    Proc,      \* jacques processes that share one cache file
    Server,    \* the processes that are `jacques serve`; the others run one command
    Worker,    \* goroutines that serve a request: one per command, several per server
    ProcOf,    \* the process of each worker
    Key,       \* cache keys: hashes of connection name and query text
    Result,    \* results a backend can return
    Batches,   \* INSERT statements (of 1000 rows) each result takes
    Cols,      \* columns of each result
    Faults,    \* statements that may fail, and "crash"
    None

Statement == {"schema", "select", "scan", "drop", "delete", "create", "insert", "record", "purge"}

ASSUME ServerAssumption == Server \subseteq Proc
ASSUME ProcOfAssumption == ProcOf \in [Worker -> Proc]
ASSUME OneRequestPerCommand ==
    \A v, w \in Worker : ProcOf[v] = ProcOf[w] /\ ProcOf[v] \notin Server => v = w
ASSUME ResultAssumption == Batches \in [Result -> Nat] /\ Cols \in [Result -> Nat]
ASSUME FaultsAssumption == Faults \subseteq Statement \union {"crash"}

\* A data table: its columns, and the INSERTs it has seen.
Tables == [cols : Nat, rows : Seq(Result \X Nat)]

ASSUME NoneAssumption == None \notin Key \union Result /\ None \notin Tables

VARIABLES
    table,   \* the data table of each key: its columns and the INSERTs applied
    meta,    \* the cache_meta row of each key: the result it describes
    cache,   \* each process: "down", "schema" (inside NewDuckCache), "up", "nocache"
    pc,      \* the next statement of each worker
    op, key, res, batch,  \* its request, the backend's result, its next INSERT
    names,   \* tables a Clear still has to drop
    got,     \* what Get read: the cache_meta row and the rows
    touch,   \* the accessed_at goroutine a hit starts: "none", "spawned", "update"
    touched, \* the key that goroutine updates
    stale    \* history: the last DELETE of a key's row failed, and nothing has
             \* replaced the row since

disk == <<table, meta, stale>>
request == <<op, key, res, batch, names>>
touching == <<touch, touched>>
vars == <<disk, cache, pc, request, got, touching>>

----------------------------------------------------------------------------
\* The table a Put that completes leaves for result r.
TableOf(r) == [cols |-> Cols[r], rows |-> [i \in 1..Batches[r] |-> <<r, i>>]]

ReadPcs == {"meta", "scan", "unlock", "read"}
WritePcs == {"drop", "delete", "create", "insert", "names", "cleardrop"}
RestPcs == {"idle", "end"}
Pcs == RestPcs \union ReadPcs \union WritePcs
         \union {"open", "fetch", "putopen", "clearopen", "readopen"}

WorkersOf(p) == {w \in Worker : ProcOf[w] = p}

\* The access mode in which process p has the file open, if it has.
HoldsRead(p) == \E w \in WorkersOf(p) : pc[w] \in ReadPcs
HoldsWrite(p) ==
    \/ cache[p] = "schema"
    \/ \E w \in WorkersOf(p) : pc[w] \in WritePcs \/ touch[w] = "update"

\* Wrong: the file is not locked against readers.
CanOpenRWBesideReaders(p) == \A q \in Proc \ {p} : ~ HoldsWrite(q)

\* sql.Open fails at once when another process has the file open read-write,
\* when it asks for read-write and another process has the file open at all,
\* and when the same process has it open in the other mode.
CanOpenRO == \A p \in Proc : ~ HoldsWrite(p)
CanOpenRW(p) ==
    /\ \A q \in Proc : ~ HoldsRead(q)
    /\ \A q \in Proc \ {p} : ~ HoldsWrite(q)

\* Goroutines of one process can write at the same time; DuckDB then refuses
\* one of two statements that meet on a table or on a cache_meta row.
Conflict(w, stmt) ==
    \/ \E v \in Worker \ {w} : pc[v] \in WritePcs
    \/ /\ stmt \in {"delete", "record", "purge"}
       /\ \E v \in Worker : touch[v] = "update"
                            /\ (stmt = "purge" \/ touched[v] = key[w])
MayFail(w, stmt) == stmt \in Faults \/ Conflict(w, stmt)

\* A request is over: a command goes on to print, a server slot is free.
RestPc(w) == IF ProcOf[w] \in Server THEN "idle" ELSE "end"
Goto(w, l) == pc' = [pc EXCEPT ![w] = l]
Finish(w) == Goto(w, RestPc(w))

----------------------------------------------------------------------------
Init ==
    /\ table = [k \in Key |-> None]
    /\ meta = [k \in Key |-> None]
    /\ cache = [p \in Proc |-> "down"]
    /\ pc = [w \in Worker |-> "idle"]
    /\ op = [w \in Worker |-> None]
    /\ key = [w \in Worker |-> None]
    /\ res = [w \in Worker |-> None]
    /\ batch = [w \in Worker |-> 0]
    /\ names = [w \in Worker |-> {}]
    /\ got = [w \in Worker |-> None]
    /\ touch = [w \in Worker |-> "none"]
    /\ touched = [w \in Worker |-> None]
    /\ stale = [k \in Key |-> FALSE]

\* A process starts and NewDuckCache opens the file read-write, or gives up
\* the cache for the life of the process.
Launch(p) ==
    /\ cache[p] = "down"
    /\ cache' = [cache EXCEPT ![p] = IF CanOpenRW(p) THEN "schema" ELSE "nocache"]
    /\ UNCHANGED <<disk, pc, request, got, touching>>

\* Wrong: the connection of NewDuckCache is never closed.
InitSchemaLeaks(p) == cache[p] = "schema" /\ UNCHANGED vars

\* CREATE TABLE IF NOT EXISTS cache_meta, then Close; after an error the
\* process goes on without a cache.
InitSchema(p) ==
    /\ cache[p] = "schema"
    /\ \/ cache' = [cache EXCEPT ![p] = "up"]
       \/ "schema" \in Faults /\ cache' = [cache EXCEPT ![p] = "nocache"]
    /\ UNCHANGED <<disk, pc, request, got, touching>>

\* A worker takes a request.  The server only queries; `cache list`, `show`
\* and `query` have the same steps and are "read".
FirstPc(w, o) ==
    IF cache[ProcOf[w]] = "nocache"
      THEN IF o \in {"query", "refresh"} THEN "fetch" ELSE RestPc(w)
      ELSE CASE o = "query"   -> "open"
             [] o = "refresh" -> "fetch"
             [] o = "clear"   -> "clearopen"
             [] o = "read"    -> "readopen"

Begin(w, o, k) ==
    /\ cache[ProcOf[w]] \in {"up", "nocache"}
    /\ pc[w] = "idle"
    /\ ProcOf[w] \in Server => o = "query"
    /\ Goto(w, FirstPc(w, o))
    /\ op' = [op EXCEPT ![w] = o]
    /\ key' = [key EXCEPT ![w] = IF o \in {"query", "refresh"} THEN k ELSE None]
    /\ res' = [res EXCEPT ![w] = None]
    /\ got' = [got EXCEPT ![w] = None]
    /\ UNCHANGED <<disk, cache, batch, names, touching>>

----------------------------------------------------------------------------
(* Get                                                                     *)

GetOpen(w) ==
    /\ pc[w] = "open"
    /\ Goto(w, IF CanOpenRO THEN "meta" ELSE "fetch")
    /\ UNCHANGED <<disk, cache, request, got, touching>>

\* SELECT row_count FROM cache_meta: no row is a miss, and so is an error.
GetMeta(w) ==
    /\ pc[w] = "meta"
    /\ \/ /\ meta[key[w]] = None \/ "select" \in Faults
          /\ Goto(w, "fetch")
          /\ UNCHANGED got
       \/ /\ meta[key[w]] # None
          /\ Goto(w, "scan")
          /\ got' = [got EXCEPT ![w] = [entry |-> meta[key[w]], table |-> None]]
    /\ UNCHANGED <<disk, cache, request, touching>>

\* SELECT * of the table, and `go func()` that updates accessed_at.  A slot
\* has at most one such goroutine at a time (a bound of the model).
GetScan(w) ==
    /\ pc[w] = "scan"
    /\ table[key[w]] # None
    /\ touch[w] = "none"
    /\ Goto(w, "unlock")
    /\ got' = [got EXCEPT ![w].table = table[key[w]]]
    /\ touch' = [touch EXCEPT ![w] = "spawned"]
    /\ touched' = [touched EXCEPT ![w] = key[w]]
    /\ UNCHANGED <<disk, cache, request>>

\* An error while the rows are read ends rows.Next; rowsToStore does not ask
\* rows.Err, so the rows read so far are the hit.
GetScanCut(w) ==
    /\ pc[w] = "scan"
    /\ "scan" \in Faults
    /\ table[key[w]] # None
    /\ touch[w] = "none"
    /\ Goto(w, "unlock")
    /\ \E n \in 0..Len(table[key[w]].rows) :
         got' = [got EXCEPT ![w].table =
                   [table[key[w]] EXCEPT !.rows = SubSeq(@, 1, n)]]
    /\ touch' = [touch EXCEPT ![w] = "spawned"]
    /\ touched' = [touched EXCEPT ![w] = key[w]]
    /\ UNCHANGED <<disk, cache, request>>

\* Wrong: a table that is missing reads as an empty result.
GetScanFailEmpty(w) ==
    /\ pc[w] = "scan"
    /\ table[key[w]] = None
    /\ Goto(w, "unlock")
    /\ got' = [got EXCEPT ![w].table = [cols |-> 0, rows |-> <<>>]]
    /\ UNCHANGED <<disk, cache, request, touching>>

\* The table is missing, or the SELECT or a Scan of it fails: a miss.
GetScanFail(w) ==
    /\ pc[w] = "scan"
    /\ table[key[w]] = None \/ "select" \in Faults
    /\ Goto(w, "fetch")
    /\ got' = [got EXCEPT ![w] = None]
    /\ UNCHANGED <<disk, cache, request, touching>>

\* Get returns the hit and its deferred Close runs.
GetReturn(w) ==
    /\ pc[w] = "unlock"
    /\ Finish(w)
    /\ UNCHANGED <<disk, cache, request, got, touching>>

TouchOpen(w) ==
    /\ touch[w] = "spawned"
    /\ touch' = [touch EXCEPT ![w] = IF CanOpenRW(ProcOf[w]) THEN "update" ELSE "none"]
    /\ UNCHANGED <<disk, cache, pc, request, got, touched>>

\* UPDATE cache_meta SET accessed_at (the time is not modelled), then Close.
TouchUpdate(w) ==
    /\ touch[w] = "update"
    /\ touch' = [touch EXCEPT ![w] = "none"]
    /\ UNCHANGED <<disk, cache, pc, request, got, touched>>

----------------------------------------------------------------------------
(* The backend's answer, and Put                                           *)

\* Token, backend and query; without a cache the result is only shown.
Fetch(w, r) ==
    /\ pc[w] = "fetch"
    /\ Goto(w, IF cache[ProcOf[w]] = "up" THEN "putopen" ELSE RestPc(w))
    /\ res' = [res EXCEPT ![w] = r]
    /\ UNCHANGED <<disk, cache, op, key, batch, names, got, touching>>

FetchFail(w) ==
    /\ pc[w] = "fetch"
    /\ Finish(w)
    /\ UNCHANGED <<disk, cache, request, got, touching>>

\* Wrong: a Put waits for the file.
PutOpenWaits(w) ==
    /\ pc[w] = "putopen"
    /\ CanOpenRW(ProcOf[w])
    /\ Goto(w, "drop")
    /\ UNCHANGED <<disk, cache, request, got, touching>>

\* A refused open is logged and the result is shown all the same.
PutOpen(w) ==
    /\ pc[w] = "putopen"
    /\ Goto(w, IF CanOpenRW(ProcOf[w]) THEN "drop" ELSE RestPc(w))
    /\ UNCHANGED <<disk, cache, request, got, touching>>

\* DROP TABLE IF EXISTS; its error is ignored.
PutDrop(w) ==
    /\ pc[w] = "drop"
    /\ \/ table' = [table EXCEPT ![key[w]] = None]
       \/ MayFail(w, "drop") /\ UNCHANGED table
    /\ Goto(w, "delete")
    /\ UNCHANGED <<meta, stale, cache, request, got, touching>>

\* Wrong: the old cache_meta row stays.
PutDeleteForgotten(w) ==
    /\ pc[w] = "delete"
    /\ Goto(w, "create")
    /\ UNCHANGED <<disk, cache, request, got, touching>>

\* DELETE FROM cache_meta; its error is ignored.
PutDelete(w) ==
    /\ pc[w] = "delete"
    /\ \/ /\ meta' = [meta EXCEPT ![key[w]] = None]
          /\ stale' = [stale EXCEPT ![key[w]] = FALSE]
       \/ /\ MayFail(w, "delete")
          /\ stale' = [stale EXCEPT ![key[w]] = TRUE]
          /\ UNCHANGED meta
    /\ Goto(w, "create")
    /\ UNCHANGED <<table, cache, request, got, touching>>

\* Wrong: CREATE TABLE IF NOT EXISTS.
PutCreateIfNotExists(w) ==
    /\ pc[w] = "create"
    /\ Cols[res[w]] > 0
    /\ table' = [table EXCEPT ![key[w]] =
                   IF @ = None THEN [cols |-> Cols[res[w]], rows |-> <<>>] ELSE @]
    /\ batch' = [batch EXCEPT ![w] = 1]
    /\ Goto(w, "insert")
    /\ UNCHANGED <<meta, stale, cache, op, key, res, names, got, touching>>

\* CREATE TABLE: an existing table, or a result with no columns, is an error.
PutCreate(w) ==
    /\ pc[w] = "create"
    /\ table[key[w]] = None
    /\ Cols[res[w]] > 0
    /\ table' = [table EXCEPT ![key[w]] = [cols |-> Cols[res[w]], rows |-> <<>>]]
    /\ batch' = [batch EXCEPT ![w] = 1]
    /\ Goto(w, "insert")
    /\ UNCHANGED <<meta, stale, cache, op, key, res, names, got, touching>>

PutCreateFail(w) ==
    /\ pc[w] = "create"
    /\ table[key[w]] # None \/ Cols[res[w]] = 0 \/ MayFail(w, "create")
    /\ Finish(w)
    /\ UNCHANGED <<disk, cache, request, got, touching>>

\* The table a Put writes to is there and has the width of its rows.
Fits(w) == table[key[w]] # None /\ table[key[w]].cols = Cols[res[w]]

\* The next 1000 rows.
PutInsert(w) ==
    /\ pc[w] = "insert"
    /\ batch[w] <= Batches[res[w]]
    /\ Fits(w)
    /\ table' = [table EXCEPT ![key[w]].rows = Append(@, <<res[w], batch[w]>>)]
    /\ batch' = [batch EXCEPT ![w] = @ + 1]
    /\ UNCHANGED <<meta, stale, cache, pc, op, key, res, names, got, touching>>

PutInsertFail(w) ==
    /\ pc[w] = "insert"
    /\ batch[w] <= Batches[res[w]]
    /\ ~ Fits(w) \/ MayFail(w, "insert")
    /\ Finish(w)
    /\ UNCHANGED <<disk, cache, request, got, touching>>

\* Wrong: the cache_meta row is not written.
PutRecordForgotten(w) ==
    /\ pc[w] = "insert"
    /\ batch[w] > Batches[res[w]]
    /\ Finish(w)
    /\ UNCHANGED <<disk, cache, request, got, touching>>

\* INSERT OR REPLACE INTO cache_meta; its error is ignored.
PutRecord(w) ==
    /\ pc[w] = "insert"
    /\ batch[w] > Batches[res[w]]
    /\ \/ /\ meta' = [meta EXCEPT ![key[w]] = res[w]]
          /\ stale' = [stale EXCEPT ![key[w]] = FALSE]
       \/ MayFail(w, "record") /\ UNCHANGED <<meta, stale>>
    /\ Finish(w)
    /\ UNCHANGED <<table, cache, request, got, touching>>

----------------------------------------------------------------------------
(* Clear, and the commands that only read                                  *)

ClearOpen(w) ==
    /\ pc[w] = "clearopen"
    /\ Goto(w, IF CanOpenRW(ProcOf[w]) THEN "names" ELSE RestPc(w))
    /\ UNCHANGED <<disk, cache, request, got, touching>>

\* Wrong: another column of cache_meta is selected.
ClearNamesOtherColumn(w) ==
    /\ pc[w] = "names"
    /\ names' = [names EXCEPT ![w] = {meta[k] : k \in Key} \ {None}]
    /\ Goto(w, "cleardrop")
    /\ UNCHANGED <<disk, cache, op, key, res, batch, got, touching>>

\* SELECT table_name FROM cache_meta; an error in the middle of the rows is
\* not asked for, and leaves out the rest of the tables.
ClearNames(w) ==
    /\ pc[w] = "names"
    /\ \E ks \in SUBSET {k \in Key : meta[k] # None} :
         /\ ks = {k \in Key : meta[k] # None} \/ "scan" \in Faults
         /\ names' = [names EXCEPT ![w] = ks]
    /\ Goto(w, "cleardrop")
    /\ UNCHANGED <<disk, cache, op, key, res, batch, got, touching>>

\* The SELECT fails: Clear returns its error.
ClearNamesFail(w) ==
    /\ pc[w] = "names"
    /\ "select" \in Faults
    /\ Finish(w)
    /\ UNCHANGED <<disk, cache, request, got, touching>>

\* Wrong: the table stays.
ClearDropForgotten(w, k) ==
    /\ pc[w] = "cleardrop"
    /\ k \in names[w]
    /\ names' = [names EXCEPT ![w] = @ \ {k}]
    /\ UNCHANGED <<disk, cache, pc, op, key, res, batch, got, touching>>

\* DROP TABLE IF EXISTS for one of them; its error is ignored.
ClearDrop(w, k) ==
    /\ pc[w] = "cleardrop"
    /\ k \in names[w]
    /\ \/ table' = [table EXCEPT ![k] = None]
       \/ MayFail(w, "drop") /\ UNCHANGED table
    /\ names' = [names EXCEPT ![w] = @ \ {k}]
    /\ UNCHANGED <<meta, stale, cache, pc, op, key, res, batch, got, touching>>

\* DELETE FROM cache_meta.
ClearPurge(w) ==
    /\ pc[w] = "cleardrop"
    /\ names[w] = {}
    /\ \/ meta' = [k \in Key |-> None] /\ stale' = [k \in Key |-> FALSE]
       \/ MayFail(w, "purge") /\ UNCHANGED <<meta, stale>>
    /\ Finish(w)
    /\ UNCHANGED <<table, cache, request, got, touching>>

ReadOpen(w) ==
    /\ pc[w] = "readopen"
    /\ Goto(w, IF CanOpenRO THEN "read" ELSE RestPc(w))
    /\ UNCHANGED <<disk, cache, request, got, touching>>

ReadRows(w) ==
    /\ pc[w] = "read"
    /\ Finish(w)
    /\ UNCHANGED <<disk, cache, request, got, touching>>

----------------------------------------------------------------------------
\* A process is gone, with its goroutines and its hold on the file.
Gone(p) ==
    LET Reset(f, v) == [w \in Worker |-> IF ProcOf[w] = p THEN v ELSE f[w]]
    IN  /\ cache' = [cache EXCEPT ![p] = "down"]
        /\ pc' = Reset(pc, "idle")
        /\ op' = Reset(op, None)
        /\ key' = Reset(key, None)
        /\ res' = Reset(res, None)
        /\ batch' = Reset(batch, 0)
        /\ names' = Reset(names, {})
        /\ got' = Reset(got, None)
        /\ touch' = Reset(touch, "none")
        /\ touched' = Reset(touched, None)
        /\ UNCHANGED disk

\* main returns: the accessed_at goroutine is not waited for.
Exit(p) ==
    /\ p \notin Server
    /\ \E w \in WorkersOf(p) : pc[w] = "end"
    /\ Gone(p)

\* Ctrl-C, a kill, a panic: between any two statements.
Crash(p) ==
    /\ "crash" \in Faults
    /\ cache[p] # "down"
    /\ Gone(p)

GetStep(w) == \/ GetOpen(w) \/ GetMeta(w) \/ GetScan(w) \/ GetScanCut(w)
              \/ GetScanFail(w) \/ GetReturn(w)
FetchStep(w) == FetchFail(w) \/ \E r \in Result : Fetch(w, r)
PutStep(w) == \/ PutOpen(w) \/ PutDrop(w) \/ PutDelete(w) \/ PutCreate(w)
              \/ PutCreateFail(w) \/ PutInsert(w) \/ PutInsertFail(w) \/ PutRecord(w)
ClearStep(w) == \/ ClearOpen(w) \/ ClearNames(w) \/ ClearNamesFail(w) \/ ClearPurge(w)
                \/ \E k \in Key : ClearDrop(w, k)
ReadStep(w) == ReadOpen(w) \/ ReadRows(w)
TouchStep(w) == TouchOpen(w) \/ TouchUpdate(w)
WorkerStep(w) == GetStep(w) \/ FetchStep(w) \/ PutStep(w) \/ ClearStep(w) \/ ReadStep(w)

Next ==
    \/ \E p \in Proc : Launch(p) \/ InitSchema(p) \/ Exit(p) \/ Crash(p)
    \/ \E w \in Worker, k \in Key, o \in {"query", "refresh", "clear", "read"} :
         Begin(w, o, k)
    \/ \E w \in Worker : WorkerStep(w) \/ TouchStep(w)

Spec == Init /\ [][Next]_vars

\* Goroutines are scheduled and statements return; a backend answers or its
\* five-minute HTTP timeout fires.  Nobody has to run jacques, or to quit it.
Fairness ==
    /\ \A p \in Proc : WF_vars(InitSchema(p))
    /\ \A w \in Worker : WF_vars(WorkerStep(w)) /\ WF_vars(TouchStep(w))

LiveSpec == Spec /\ Fairness

----------------------------------------------------------------------------
(* What should hold of it                                                  *)

TypeOK ==
    /\ table \in [Key -> Tables \union {None}]
    /\ meta \in [Key -> Result \union {None}]
    /\ cache \in [Proc -> {"down", "schema", "up", "nocache"}]
    /\ pc \in [Worker -> Pcs]
    /\ op \in [Worker -> {"query", "refresh", "clear", "read", None}]
    /\ key \in [Worker -> Key \union {None}]
    /\ res \in [Worker -> Result \union {None}]
    /\ batch \in [Worker -> Nat]
    /\ names \in [Worker -> SUBSET Key]
    /\ got \in [Worker -> [entry : Result, table : Tables \union {None}] \union {None}]
    /\ touch \in [Worker -> {"none", "spawned", "update"}]
    /\ touched \in [Worker -> Key \union {None}]
    /\ stale \in [Key -> BOOLEAN]

\* The rows a Get that found a table returns.
Hit(w) == got[w] # None /\ got[w].table # None

\* A hit is the complete result that the cache_meta row read two statements
\* earlier describes: Get (duckdb.go:97-115) reads the row and the table in
\* two transactions, and Put writes them in four or more.
HitMatchesEntry ==
    \A w \in Worker : Hit(w) => got[w].table = TableOf(got[w].entry)

\* A hit is never a part of a result, nor rows of two results.
HitIsWhole ==
    \A w \in Worker : Hit(w) => \E r \in Result : got[w].table = TableOf(r)

\* Every entry that a Get would find in the file is a complete result,
\* whatever failed and whoever was killed before: only the DELETE whose error
\* Put ignores (duckdb.go:148) can leave a row over a table that a failing
\* INSERT (180-184) or a kill then leaves half filled.
VisibleIsWhole ==
    \A k \in Key : meta[k] # None /\ table[k] # None /\ ~ stale[k] =>
      \E r \in Result : table[k] = TableOf(r)

\* Between the two reads of a Get nothing about its key changes on disk,
\* although other goroutines and processes Put and Clear the same key.
SnapshotStable ==
    [][\A w \in Worker :
         pc[w] = "scan" => /\ table'[key[w]] = table[key[w]]
                           /\ meta'[key[w]] = meta[key[w]]]_vars

\* Without failures a data table has its cache_meta row, except while the
\* Put that made it has not written it yet (duckdb.go:155-192).
NoOrphans ==
    \A k \in Key :
      table[k] # None /\ meta[k] = None =>
        \E w \in Worker : pc[w] = "insert" /\ key[w] = k

\* `jacques cache clear` wipes all cached results: when a Clear deletes the
\* rows of cache_meta, no data table is left in the file (duckdb.go:230-255).
ClearWipes ==
    [][\A w \in Worker :
         pc[w] = "cleardrop" /\ pc'[w] = "end" =>
           \A k \in Key : table'[k] = None]_vars

\* `-refresh` re-queries and overwrites the cached result: when the command is
\* about to print what the backend answered, the entry describes that answer.
RefreshOverwrites ==
    [][\A w \in Worker :
         op[w] = "refresh" /\ pc[w] # "end" /\ pc'[w] = "end" /\ res'[w] # None =>
           meta'[key[w]] = res'[w]]_vars

\* A refresh that got the file open never leaves the answer it replaces: when
\* it ends, the entry is its own answer or gone, whichever of CREATE, INSERT
\* or the last INSERT failed (main.go:222, duckdb.go:147-201).
RefreshReplaces ==
    [][\A w \in Worker :
         op[w] = "refresh" /\ pc[w] \in {"create", "insert"} /\ pc'[w] = "end" =>
           meta'[key[w]] \in {None, res[w]}]_vars

\* Two processes can use the cache at the same time: one that starts goes
\* without it only if somebody is writing at that moment.
LockedOutByWriters ==
    [][\A p \in Proc :
         cache[p] = "down" /\ cache'[p] = "nocache" =>
           \E q \in Proc : HoldsWrite(q)]_vars

\* What Get would return for each key, and what each worker was given.
Visible == [k \in Key |-> IF meta[k] = None THEN None ELSE table[k]]
Given == [w \in Worker |-> IF Hit(w) THEN got[w].table ELSE None]

Abstract == INSTANCE ResultCache WITH
    Value <- {TableOf(r) : r \in Result}, Client <- Worker,
    store <- Visible, reply <- Given

\* The cache, as commands use it, is a map from keys to complete results that
\* changes in single steps (src/cache/duckdb.go as called from src/main.go).
Refines == Abstract!Spec

\* Why HitMatchesEntry holds for commands (Server = {}, DELETE and SELECT do
\* not fail): the invariant that is inductive.
\* A process that has the file open read-write has it alone.
WriterAlone ==
    \A p, q \in Proc : p # q /\ HoldsWrite(p) => ~ HoldsWrite(q) /\ ~ HoldsRead(q)

\* The accessed_at goroutine opens the file when its command is about to
\* print, and never beside a read or a write of its own process.
TouchLast ==
    \A w \in Worker :
      /\ touch[w] # "none" => pc[w] \in {"unlock", "end"}
      /\ touch[w] = "update" => pc[w] = "end"
      /\ pc[w] # "idle" => cache[ProcOf[w]] \in {"up", "nocache"}

\* What is on disk, at rest and while worker w is inside Get or Put.
EntryDescribesTable ==
    \A k \in Key : meta[k] # None /\ table[k] # None => table[k] = TableOf(meta[k])
GetProgress(w) ==
    pc[w] = "scan" => meta[key[w]] = got[w].entry
PutProgress(w) ==
    /\ pc[w] \in {"create", "insert"} => meta[key[w]] = None
    /\ pc[w] = "insert" =>
         /\ batch[w] \in 1..Batches[res[w]] + 1
         /\ table[key[w]] = [cols |-> Cols[res[w]],
                             rows |-> [i \in 1..(batch[w] - 1) |-> <<res[w], i>>]]

CommandInv ==
    /\ WriterAlone
    /\ TouchLast
    /\ EntryDescribesTable
    /\ \A w \in Worker : GetProgress(w) /\ PutProgress(w)
    /\ HitMatchesEntry

\* Every request ends, whatever other processes do with the file: an open
\* that is refused never waits.
EveryRequestEnds ==
    \A w \in Worker : (pc[w] \notin RestPcs) ~> (pc[w] \in RestPcs)

\* "released immediately after each operation": whoever has the file open
\* read-write lets go of it, so another process gets its turn.
WriteLockReleased ==
    \A p \in Proc : HoldsWrite(p) ~> ~ HoldsWrite(p)
=============================================================================
